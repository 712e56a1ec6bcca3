------------------------ MODULE KnowledgeLifecycleProofs ------------------------
(***************************************************************************)
(* What the platform learns, for any number of cases, documents, records,  *)
(* threads, requests and deaths: only causes engineers confirmed, only     *)
(* documents and records that were approved.  The rows of a handler come   *)
(* from readings that may be stale when they are put, so the invariant is  *)
(* about everything the handlers have still to do.                         *)
(***************************************************************************)
EXTENDS KnowledgeLifecycle, TLAPS

-----------------------------------------------------------------------------
\* What handlers have to do.

Provenances ==
  [kind : {"case"}, key : Cases, cause : Causes \cup {NoCause}]
    \cup [kind : {"doc", "payload"}, key : Keys, cause : Causes \cup {NoCause}]
    \cup [kind : {"fmea"}, key : Records, cause : Causes \cup {NoCause}]

Steps ==
  [do : {"case"}, key : Cases, row : CaseRow]
    \cup [do : {"reread", "feedback"}, key : Cases]
    \cup [do : {"candidate"}, key : Cases, row : CandidateRow]
    \cup [do : {"doc"}, key : Keys, row : DocRow]
    \cup [do : {"sweep"}, key : Keys]
    \cup [do : {"delete"}, ids : SUBSET ChunkIds]
    \cup [do : {"chunks", "index"}, id : ChunkIds, row : ChunkRow]
    \cup [do : {"fmea"}, key : Records, row : DocStatus]
    \cup [do : {"graph"}, prov : Provenances]

\* A step names the causes that were confirmed for its case, and closes only a case
\* that was resolved.
Learned(s) ==
  /\ s.do = "case" => /\ s.row.cause # NoCause => <<s.key, s.row.cause>> \in confirmed
                      /\ s.row.status = "closed" => s.key \in resolved
  /\ s.do = "reread" => s.key \in DOMAIN cases /\ s.key \in resolved
  /\ s.do = "candidate" => <<s.key, s.row.cause>> \in confirmed
  /\ s.do = "graph" /\ s.prov.kind = "case" => <<s.prov.key, s.prov.cause>> \in confirmed

\* What a step cites is stored, and approved, already or by the first step of the handler.
Backed(s, first) ==
  /\ s.do = "graph" /\ s.prov.kind \notin {"case", "payload"} =>
       \/ s.prov.key \in approved
       \/ first.do = "doc" /\ first.key = s.prov.key /\ first.row.status = "approved"
       \/ first.do = "fmea" /\ first.key = s.prov.key /\ first.row = "approved"
  /\ s.do = "candidate" =>
       \A key \in s.row.doc : key \in DOMAIN docs \/ (first.do = "doc" /\ first.key = key)

\* The backend knows the document of a promotion, already or by the step before it.
Indexed(key) == \E id \in DOMAIN index : id[1] = key
Announced(q, i) ==
  q[i].do = "candidate" /\ Backend = "vector" =>
    \A key \in q[i].row.doc :
      Indexed(key) \/ (i > 1 /\ q[i - 1].do = "index" /\ q[i - 1].id[1] = key)

SafeQueues ==
  {q \in Seq(Steps) : \A i \in 1..Len(q) : Learned(q[i]) /\ Backed(q[i], q[1]) /\ Announced(q, i)}

GraphSafe(g) ==
  /\ g.kind = "case" => <<g.key, g.cause>> \in confirmed
  /\ g.kind \notin {"case", "payload"} => g.key \in approved

StoresSafe ==
  /\ \A c \in DOMAIN cases :
       /\ cases[c].cause # NoCause => <<c, cases[c].cause>> \in confirmed
       /\ cases[c].status \in {"resolved", "closed"} => c \in resolved
  /\ \A c \in DOMAIN candidates :
       /\ <<c, candidates[c].cause>> \in confirmed
       /\ \A key \in candidates[c].doc : key \in DOMAIN docs /\ (Backend = "vector" => Indexed(key))
  /\ \A k \in DOMAIN docs : docs[k].status = "approved" => k \in approved
  /\ \A r \in DOMAIN fmea : fmea[r] = "approved" => r \in approved
  /\ \A g \in graph : GraphSafe(g)

KInv == KTypeOK /\ StoresSafe /\ todo \in [KWorkers -> SafeQueues]

\* What only grows.
Grows ==
  /\ confirmed \subseteq confirmed' /\ approved \subseteq approved' /\ resolved \subseteq resolved'
  /\ DOMAIN cases \subseteq DOMAIN cases' /\ DOMAIN docs \subseteq DOMAIN docs'
  /\ DOMAIN index \subseteq DOMAIN index'

LEMMA QueuesGrow == Grows => SafeQueues \subseteq SafeQueues'
<1> SUFFICES ASSUME Grows, NEW q \in SafeQueues PROVE q \in SafeQueues'
  OBVIOUS
<1>1. q \in Seq(Steps) /\ \A i \in 1..Len(q) : Learned(q[i]) /\ Backed(q[i], q[1]) /\ Announced(q, i)
  BY DEF SafeQueues
<1>2. ASSUME NEW i \in 1..Len(q) PROVE Learned(q[i])' /\ Backed(q[i], q[1])' /\ Announced(q, i)'
  <2>1. Learned(q[i])'
    BY <1>1 DEF Grows, Learned
  <2>2. Backed(q[i], q[1])'
    BY <1>1 DEF Grows, Backed
  <2>3. Announced(q, i)'
    BY <1>1 DEF Grows, Announced, Indexed
  <2> QED BY <2>1, <2>2, <2>3
<1> QED BY <1>1, <1>2 DEF SafeQueues

\* A handler that has done its first step.
LEMMA QueuesPop ==
  ASSUME Grows, NEW q \in SafeQueues, q # <<>>,
         q[1].do = "doc" => /\ q[1].key \in DOMAIN docs'
                            /\ q[1].row.status = "approved" => q[1].key \in approved',
         q[1].do = "fmea" /\ q[1].row = "approved" => q[1].key \in approved',
         q[1].do = "index" /\ Backend = "vector" => q[1].id \in DOMAIN index'
  PROVE  Tail(q) \in SafeQueues' /\ q[1] = Head(q) /\ q[1] \in Steps /\ Learned(q[1])
<1>1. /\ q \in Seq(Steps) /\ Len(q) \in Nat /\ Len(q) > 0
      /\ \A i \in 1..Len(q) : Learned(q[i]) /\ Backed(q[i], q[1]) /\ Announced(q, i)
  BY DEF SafeQueues
<1>2. PICK t : t = Tail(q)
  OBVIOUS
<1>3. t \in Seq(Steps) /\ Len(t) = Len(q) - 1 /\ \A i \in 1..Len(t) : t[i] = q[i + 1]
  BY <1>1, <1>2
<1>4. ASSUME NEW i \in 1..Len(t) PROVE Learned(t[i])' /\ Backed(t[i], t[1])' /\ Announced(t, i)'
  <2>1. i + 1 \in 1..Len(q) /\ t[i] = q[i + 1] /\ i \in Nat
    BY <1>1, <1>3
  <2>2. Learned(t[i])'
    BY <1>1, <2>1 DEF Grows, Learned
  <2>3. Backed(t[i], t[1])'
    BY <1>1, <2>1 DEF Grows, Backed
  <2>4. Announced(t, i)'
    <3>1. CASE i = 1
      <4>1. t[1] = q[2] /\ 2 \in 1..Len(q) /\ Announced(q, 2)
        BY <1>1, <2>1, <3>1
      <4>2. ASSUME t[1].do = "candidate", Backend = "vector", NEW key \in t[1].row.doc
            PROVE  Indexed(key)'
        <5>1. Indexed(key) \/ (q[1].do = "index" /\ q[1].id[1] = key)
          BY <4>1, <4>2 DEF Announced
        <5> QED BY <4>2, <5>1 DEF Grows, Indexed
      <4> QED BY <3>1, <4>2 DEF Announced
    <3>2. CASE i > 1
      <4>1. t[i - 1] = q[i] /\ i - 1 \in 1..Len(t)
        BY <1>1, <1>3, <2>1, <3>2
      <4> QED BY <1>1, <2>1, <3>2, <4>1 DEF Grows, Announced, Indexed
    <3> QED BY <2>1, <3>1, <3>2
  <2> QED BY <2>2, <2>3, <2>4
<1>5. q[1] = Head(q) /\ q[1] \in Steps /\ Learned(q[1])
  BY <1>1
<1>6. t \in SafeQueues'
  BY <1>3, <1>4 DEF SafeQueues
<1> QED BY <1>2, <1>5, <1>6

\* Steps that need no other.
LoneSteps ==
  {s \in Steps : /\ Learned(s)
                 /\ s.do = "graph" => s.prov.kind \in {"case", "payload"} \/ s.prov.key \in approved
                 /\ s.do = "candidate" => s.row.doc = {}}

LEMMA LoneQueues ==
  /\ \A q \in Seq(LoneSteps) : q \in SafeQueues
  /\ \A q \in Seq(LoneSteps') : q \in SafeQueues'
  /\ \A s \in LoneSteps : <<s>> \in SafeQueues
  /\ \A s \in LoneSteps' : <<s>> \in SafeQueues'
<1>1. ASSUME NEW q \in Seq(LoneSteps) PROVE q \in SafeQueues
  <2>1. q \in Seq(Steps) /\ \A i \in 1..Len(q) : q[i] \in LoneSteps
    BY DEF LoneSteps
  <2>2. \A i \in 1..Len(q) : Learned(q[i]) /\ Backed(q[i], q[1]) /\ Announced(q, i)
    BY <2>1 DEF LoneSteps, Backed, Announced
  <2> QED BY <2>1, <2>2 DEF SafeQueues
<1>2. ASSUME NEW q \in Seq(LoneSteps') PROVE q \in SafeQueues'
  <2>1. q \in Seq(Steps) /\ \A i \in 1..Len(q) : q[i] \in LoneSteps'
    BY DEF LoneSteps
  <2>2. \A i \in 1..Len(q) : Learned(q[i])' /\ Backed(q[i], q[1])' /\ Announced(q, i)'
    BY <2>1 DEF LoneSteps, Backed, Announced
  <2> QED BY <2>1, <2>2 DEF SafeQueues
<1>3. ASSUME NEW s \in LoneSteps PROVE <<s>> \in SafeQueues
  <2>1. <<s>> \in Seq(LoneSteps)
    OBVIOUS
  <2> QED BY <1>1, <2>1
<1>4. ASSUME NEW s \in LoneSteps' PROVE <<s>> \in SafeQueues'
  <2>1. <<s>> \in Seq(LoneSteps')
    OBVIOUS
  <2> QED BY <1>2, <2>1
<1> QED BY <1>1, <1>2, <1>3, <1>4

\* Handlers whose first step puts what the others cite.
Behind(first) ==
  {s \in Steps : Learned(s) /\ Backed(s, first) /\ (s.do = "candidate" => s.row.doc = {})}

LEMMA HeadedQueues ==
  ASSUME NEW first, NEW q \in Seq(Behind(first)), q[1] = first
  PROVE  q \in SafeQueues
<1>1. q \in Seq(Steps) /\ \A i \in 1..Len(q) : q[i] \in Behind(first)
  BY DEF Behind
<1>2. \A i \in 1..Len(q) : Learned(q[i]) /\ Backed(q[i], q[1]) /\ Announced(q, i)
  BY <1>1 DEF Behind, Announced
<1> QED BY <1>1, <1>2 DEF SafeQueues

-----------------------------------------------------------------------------
\* Requests.

LEMMA Served ==
  ASSUME KInv, NEW w \in KWorkers, NEW steps \in SafeQueues', Serve(w, steps),
         confirmed \subseteq confirmed', confirmed' \subseteq Cases \X Causes
  PROVE  KInv'
<1>1. Grows
  BY DEF Serve, stores, Grows
<1>2. KTypeOK'
  BY DEF KInv, KTypeOK, Serve, stores
<1>3. StoresSafe'
  BY DEF KInv, StoresSafe, GraphSafe, Serve, stores, Indexed
<1>4. todo \in [KWorkers -> SafeQueues'] /\ todo' = [todo EXCEPT ![w] = steps]
  BY <1>1, QueuesGrow DEF KInv, Serve
<1>5. todo' \in [KWorkers -> SafeQueues']
  BY <1>4
<1> QED BY <1>2, <1>3, <1>5 DEF KInv

LEMMA ServedQuietly ==
  ASSUME KInv, NEW w \in KWorkers, NEW steps \in SafeQueues, Serve(w, steps), UNCHANGED confirmed
  PROVE  KInv'
<1>1. Grows
  BY DEF Serve, stores, Grows
<1>2. confirmed \subseteq confirmed' /\ confirmed' \subseteq Cases \X Causes
  BY DEF KInv, KTypeOK
<1> QED BY <1>1, <1>2, QueuesGrow, Served

\* What a review or a resolution says is confirmed before the row is put.
LEMMA CaseMoves ==
  ASSUME KInv, NEW c \in DOMAIN cases, NEW status \in {"analyzed", "reviewed", "resolved"},
         NEW cause \in Causes \cup {NoCause}, Confirms(c, cause)
  PROVE  /\ PutsCase(c, Moved(c, status, cause)) \in LoneSteps'
         /\ Moved(c, status, cause).cause # NoCause =>
              [do |-> "graph", prov |-> CaseProv(c, Moved(c, status, cause).cause)] \in LoneSteps'
         /\ confirmed \subseteq confirmed' /\ confirmed' \subseteq Cases \X Causes
<1>1. c \in Cases /\ cases[c] \in CaseRow /\ (cases[c].cause # NoCause => <<c, cases[c].cause>> \in confirmed)
  BY DEF KInv, KTypeOK, StoresSafe
<1>2. PICK row : row = Moved(c, status, cause)
  OBVIOUS
<1>3. /\ row \in CaseRow /\ row.status = status /\ row.status # "closed"
      /\ row.cause \in Causes \cup {NoCause}
      /\ row.cause # NoCause => <<c, row.cause>> \in confirmed'
  <2>1. CASE cause = NoCause
    BY <1>1, <1>2, <2>1 DEF Moved, CaseRow, Stages, Confirms
  <2>2. CASE cause # NoCause
    BY <1>1, <1>2, <2>2 DEF Moved, CaseRow, Stages, Confirms
  <2> QED BY <2>1, <2>2
<1>4. confirmed \subseteq confirmed' /\ confirmed' \subseteq Cases \X Causes
  BY <1>1 DEF KInv, KTypeOK, Confirms
<1>5. PutsCase(c, row) \in LoneSteps'
  BY <1>1, <1>3 DEF PutsCase, LoneSteps, Steps, Learned
<1>6. row.cause # NoCause => [do |-> "graph", prov |-> CaseProv(c, row.cause)] \in LoneSteps'
  BY <1>1, <1>3 DEF CaseProv, Provenances, LoneSteps, Steps, Learned
<1> QED BY <1>2, <1>4, <1>5, <1>6

LEMMA CaseRequestsKeep ==
  ASSUME KInv, NEW w \in KWorkers, NEW c \in Cases
  PROVE  /\ CreateCase(w, c) \/ AnalyzeCase(w, c) \/ CloseCase(w, c) \/ IngestCase(w, c)
              \/ CandidateFromCase(w, c) => KInv'
         /\ \A cause \in Causes \cup {NoCause} : ReviewCase(w, c, cause) \/ ResolveCase(w, c, cause) => KInv'
<1>1. ASSUME CreateCase(w, c) PROVE KInv'
  <2>1. PutsCase(c, [status |-> "open", cause |-> NoCause]) \in LoneSteps
    BY DEF PutsCase, LoneSteps, Steps, Learned, CaseRow, Stages
  <2>2. <<PutsCase(c, [status |-> "open", cause |-> NoCause])>> \in SafeQueues
    BY <2>1, LoneQueues
  <2> QED BY <1>1, <2>2, ServedQuietly DEF CreateCase
<1>2. ASSUME AnalyzeCase(w, c) PROVE KInv'
  <2>1. Confirms(c, NoCause) /\ c \in DOMAIN cases /\ NoCause \in Causes \cup {NoCause}
    BY <1>2 DEF AnalyzeCase, Confirms
  <2>2. /\ PutsCase(c, Moved(c, "analyzed", NoCause)) \in LoneSteps'
        /\ confirmed \subseteq confirmed' /\ confirmed' \subseteq Cases \X Causes
    BY <2>1, CaseMoves
  <2>3. <<PutsCase(c, Moved(c, "analyzed", NoCause))>> \in SafeQueues'
    BY <2>2, LoneQueues
  <2> QED BY <1>2, <2>2, <2>3, Served DEF AnalyzeCase
<1>3. ASSUME CloseCase(w, c) PROVE KInv'
  <2>1. [do |-> "reread", key |-> c] \in LoneSteps
    BY <1>3 DEF CloseCase, LoneSteps, Steps, Learned, KInv, StoresSafe
  <2>2. <<[do |-> "reread", key |-> c]>> \in SafeQueues
    BY <2>1, LoneQueues
  <2> QED BY <1>3, <2>2, ServedQuietly DEF CloseCase
<1>4. ASSUME IngestCase(w, c) PROVE KInv'
  <2>1. cases[c] \in CaseRow /\ cases[c].cause # NoCause /\ <<c, cases[c].cause>> \in confirmed
    BY <1>4 DEF IngestCase, KInv, KTypeOK, StoresSafe
  <2>2. [do |-> "graph", prov |-> CaseProv(c, cases[c].cause)] \in LoneSteps
    BY <2>1 DEF CaseProv, Provenances, LoneSteps, Steps, Learned, CaseRow
  <2>3. <<[do |-> "graph", prov |-> CaseProv(c, cases[c].cause)]>> \in SafeQueues
    BY <2>2, LoneQueues
  <2> QED BY <1>4, <2>3, ServedQuietly DEF IngestCase
<1>5. ASSUME CandidateFromCase(w, c) PROVE KInv'
  <2> DEFINE put == [do |-> "candidate", key |-> c,
                     row |-> [status |-> "candidate", cause |-> cases[c].cause, doc |-> {}]]
  <2>1. cases[c] \in CaseRow /\ cases[c].cause # NoCause /\ <<c, cases[c].cause>> \in confirmed
    BY <1>5 DEF CandidateFromCase, KInv, KTypeOK, StoresSafe
  <2>2. put \in LoneSteps
    BY <2>1 DEF LoneSteps, Steps, Learned, CaseRow, CandidateRow
  <2>3. <<put>> \in SafeQueues
    BY <2>2, LoneQueues
  <2>4. Serve(w, <<put>>) /\ UNCHANGED confirmed
    BY <1>5 DEF CandidateFromCase
  <2> HIDE DEF put
  <2> QED BY <2>3, <2>4, ServedQuietly
<1>6. ASSUME NEW cause \in Causes \cup {NoCause}, ReviewCase(w, c, cause) PROVE KInv'
  <2>1. Confirms(c, cause) /\ c \in DOMAIN cases
    BY <1>6 DEF ReviewCase
  <2>2. /\ PutsCase(c, Moved(c, "reviewed", cause)) \in LoneSteps'
        /\ confirmed \subseteq confirmed' /\ confirmed' \subseteq Cases \X Causes
    BY <2>1, CaseMoves
  <2>3. [do |-> "feedback", key |-> c] \in LoneSteps'
    BY DEF LoneSteps, Steps, Learned
  <2>4. <<PutsCase(c, Moved(c, "reviewed", cause)), [do |-> "feedback", key |-> c]>> \in SafeQueues'
    <3>1. <<PutsCase(c, Moved(c, "reviewed", cause)), [do |-> "feedback", key |-> c]>> \in Seq(LoneSteps')
      BY <2>2, <2>3
    <3> QED BY <3>1, LoneQueues
  <2> QED BY <1>6, <2>2, <2>4, Served DEF ReviewCase
<1>7. ASSUME NEW cause \in Causes \cup {NoCause}, ResolveCase(w, c, cause) PROVE KInv'
  <2>1. Confirms(c, cause) /\ c \in DOMAIN cases
    BY <1>7 DEF ResolveCase
  <2>2. PICK row : row = Moved(c, "resolved", cause)
    OBVIOUS
  <2>3. /\ PutsCase(c, row) \in LoneSteps'
        /\ row.cause # NoCause => [do |-> "graph", prov |-> CaseProv(c, row.cause)] \in LoneSteps'
        /\ confirmed \subseteq confirmed' /\ confirmed' \subseteq Cases \X Causes
    BY <2>1, <2>2, CaseMoves
  <2>4. PICK then : then = IF row.cause = NoCause THEN <<>>
                           ELSE <<[do |-> "graph", prov |-> CaseProv(c, row.cause)]>>
    OBVIOUS
  <2>5. then \in Seq(LoneSteps')
    BY <2>3, <2>4
  <2>6. <<PutsCase(c, row)>> \o then \in SafeQueues'
    <3>1. <<PutsCase(c, row)>> \in Seq(LoneSteps')
      BY <2>3
    <3>2. <<PutsCase(c, row)>> \o then \in Seq(LoneSteps')
      BY <2>5, <3>1
    <3> QED BY <3>2, LoneQueues
  <2>7. Serve(w, <<PutsCase(c, row)>> \o then)
    BY <1>7, <2>2, <2>4 DEF ResolveCase
  <2> QED BY <2>3, <2>6, <2>7, Served
<1> QED BY <1>1, <1>2, <1>3, <1>4, <1>5, <1>6, <1>7

\* What a document handler consists of.
LEMMA DocSteps ==
  ASSUME NEW key \in Keys, NEW row \in DocRow, NEW size \in Sizes
  PROVE  /\ ChunkId(key, row, size) \in ChunkIds /\ ChunkId(key, row, size)[1] = key
         /\ {PutsDoc(key, row), PutsChunks(key, row, size), Indexes(key, row, size),
             [do |-> "sweep", key |-> key]} \subseteq LoneSteps
         /\ Stores(key, row, size) \in Seq(LoneSteps)
<1>1. ChunkId(key, row, size) \in ChunkIds /\ ChunkOf(row) \in ChunkRow /\ ChunkId(key, row, size)[1] = key
  BY DEF ChunkId, ChunkIds, ChunkOf, ChunkRow, DocRow
<1>2. PutsDoc(key, row) \in LoneSteps
  BY DEF PutsDoc, LoneSteps, Steps, Learned
<1>3. PutsChunks(key, row, size) \in LoneSteps /\ Indexes(key, row, size) \in LoneSteps
  BY <1>1 DEF PutsChunks, Indexes, LoneSteps, Steps, Learned
<1>4. [do |-> "sweep", key |-> key] \in LoneSteps
  BY DEF LoneSteps, Steps, Learned
<1>5. Stores(key, row, size) \in Seq(LoneSteps)
  BY <1>2, <1>3 DEF Stores
<1> QED BY <1>1, <1>2, <1>3, <1>4, <1>5

LEMMA LoneBehind == \A first : LoneSteps \subseteq Behind(first)
BY DEF LoneSteps, Behind, Backed

LEMMA DocRequestsKeep ==
  ASSUME KInv, NEW w \in KWorkers, NEW key \in Keys
  PROVE  /\ \A row \in DocRow : SubmitDocument(w, key, row) => KInv'
         /\ \A row \in DocRow, size \in Sizes : IngestDocument(w, key, row, size) => KInv'
         /\ ApproveDocument(w, key) \/ RetireDocument(w, key) => KInv'
         /\ \A row \in DocRow : IngestGraphDocument(w, key, row) => KInv'
         /\ \A new \in DocRow, v \in Versions : SupersedeDocument(w, key, v, new) => KInv'
<1> USE KAssumption
<1>1. ASSUME NEW row \in DocRow, SubmitDocument(w, key, row) PROVE KInv'
  <2>1. Stores(key, row, Size420) \in Seq(LoneSteps)
    BY DocSteps
  <2> QED BY <1>1, <2>1, LoneQueues, ServedQuietly DEF SubmitDocument
<1>2. ASSUME NEW row \in DocRow, NEW size \in Sizes, IngestDocument(w, key, row, size) PROVE KInv'
  <2>1. Stores(key, row, size) \in Seq(LoneSteps) /\ <<Indexes(key, row, size)>> \in Seq(LoneSteps)
    <3>1. Indexes(key, row, size) \in LoneSteps
      BY DocSteps
    <3>2. Stores(key, row, size) \in Seq(LoneSteps)
      BY DocSteps
    <3> QED BY <3>1, <3>2
  <2>2. Stores(key, row, size) \o <<Indexes(key, row, size)>> \in Seq(LoneSteps)
    BY <2>1
  <2> QED BY <1>2, <2>2, LoneQueues, ServedQuietly DEF IngestDocument
<1>3. ASSUME ApproveDocument(w, key) PROVE KInv'
  <2>1. PICK row : row = [docs[key] EXCEPT !.status = "approved"]
    OBVIOUS
  <2>2. row \in DocRow /\ row.status = "approved"
    BY <1>3, <2>1 DEF ApproveDocument, KInv, KTypeOK, DocRow, DocStatus
  <2>3. PICK put : put = PutsDoc(key, row)
    OBVIOUS
  <2>4. /\ put \in Behind(put) /\ PutsChunks(key, row, Size420) \in Behind(put)
        /\ Indexes(key, row, Size420) \in Behind(put) /\ [do |-> "sweep", key |-> key] \in Behind(put)
    BY <2>2, <2>3, DocSteps, LoneBehind
  <2>5. [do |-> "graph", prov |-> DocProv(key, row)] \in Behind(put)
    BY <2>2, <2>3 DEF DocProv, Provenances, PutsDoc, DocRow, Behind, Steps, Learned, Backed
  <2>6. PICK a, b, c : /\ a = <<put, [do |-> "sweep", key |-> key], PutsChunks(key, row, Size420)>>
                       /\ b = <<Indexes(key, row, Size420), Indexes(key, row, Size420)>>
                       /\ c = <<[do |-> "graph", prov |-> DocProv(key, row)]>>
    OBVIOUS
  <2>7. a \in Seq(Behind(put)) /\ b \in Seq(Behind(put)) /\ c \in Seq(Behind(put)) /\ a[1] = put /\ Len(a) = 3
    BY <2>4, <2>5, <2>6
  <2>8. a \o b \o c \in Seq(Behind(put)) /\ (a \o b \o c)[1] = put
    BY <2>7, SMTT(30)
  <2>9. a \o b \o c \in SafeQueues
    BY <2>8, HeadedQueues
  <2>10. Serve(w, a \o b \o c) /\ UNCHANGED confirmed
    BY <1>3, <2>1, <2>2, <2>3, <2>6 DEF ApproveDocument, Replaces, GraphsDoc
  <2> QED BY <2>9, <2>10, ServedQuietly
<1>4. ASSUME RetireDocument(w, key) PROVE KInv'
  <2>1. PICK row : row = [docs[key] EXCEPT !.status = "retired", !.ended = TRUE]
    OBVIOUS
  <2>2. row \in DocRow
    BY <1>4, <2>1 DEF RetireDocument, KInv, KTypeOK, DocRow, DocStatus
  <2>3. Replaces(key, row) \in Seq(LoneSteps) /\ <<Indexes(key, row, Size420)>> \in Seq(LoneSteps)
    BY <2>2, DocSteps DEF Replaces
  <2>4. Replaces(key, row) \o <<Indexes(key, row, Size420)>> \in Seq(LoneSteps)
    BY <2>3
  <2> QED BY <1>4, <2>1, <2>4, LoneQueues, ServedQuietly DEF RetireDocument
<1>5. ASSUME NEW row \in DocRow, IngestGraphDocument(w, key, row) PROVE KInv'
  <2>1. [do |-> "graph", prov |-> PayloadProv(key, row)] \in LoneSteps
    BY DEF PayloadProv, DocProv, Provenances, DocRow, LoneSteps, Steps, Learned
  <2>2. <<[do |-> "graph", prov |-> PayloadProv(key, row)]>> \in SafeQueues
    BY <2>1, LoneQueues
  <2> QED BY <1>5, <2>2, ServedQuietly DEF IngestGraphDocument
<1>6. ASSUME NEW new \in DocRow, NEW v \in Versions, SupersedeDocument(w, key, v, new) PROVE KInv'
  <2>1. PICK old, newKey : /\ old = [docs[key] EXCEPT !.status = "superseded", !.ended = TRUE]
                           /\ newKey = <<key[1], v>>
    OBVIOUS
  <2>2. old \in DocRow /\ newKey \in Keys
    BY <1>6, <2>1 DEF SupersedeDocument, KInv, KTypeOK, DocRow, DocStatus, Keys
  <2>3. PICK a, b, c : /\ a = Stores(newKey, new, Size420) /\ b = Replaces(key, old)
                       /\ c = <<Indexes(key, old, Size420), Indexes(newKey, new, Size420),
                                Indexes(newKey, new, Size420)>>
    OBVIOUS
  <2>4. a \in Seq(LoneSteps) /\ b \in Seq(LoneSteps) /\ c \in Seq(LoneSteps)
    <3>1. Stores(newKey, new, Size420) \in Seq(LoneSteps)
      BY <2>2, DocSteps
    <3>2. Replaces(key, old) \in Seq(LoneSteps)
      BY <2>2, DocSteps DEF Replaces
    <3>3. Indexes(key, old, Size420) \in LoneSteps /\ Indexes(newKey, new, Size420) \in LoneSteps
      BY <2>2, DocSteps
    <3> QED BY <2>3, <3>1, <3>2, <3>3
  <2>5. a \o b \o c \in SafeQueues
    <3>1. a \o b \o c \in Seq(LoneSteps)
      BY <2>4
    <3> QED BY <3>1, LoneQueues
  <2>6. Serve(w, a \o b \o c) /\ UNCHANGED confirmed
    BY <1>6, <2>1, <2>3 DEF SupersedeDocument
  <2> QED BY <2>5, <2>6, ServedQuietly
<1> QED BY <1>1, <1>2, <1>3, <1>4, <1>5, <1>6

LEMMA RecordRequestsKeep ==
  ASSUME KInv, NEW w \in KWorkers, NEW r \in Records
  PROVE  /\ ApproveRecord(w, r) \/ RetireRecord(w, r) => KInv'
         /\ \A status \in DocStatus : CreateRecord(w, r, status) \/ UpdateRecord(w, r, status) => KInv'
<1>1. ASSUME NEW status \in DocStatus PROVE PutsRecord(r, status) \in LoneSteps
  BY DEF PutsRecord, LoneSteps, Steps, Learned
<1>2. ASSUME NEW status \in DocStatus
      PROVE  <<PutsRecord(r, status)>> \o GraphsRecord(r, status) \in SafeQueues
  <2> DEFINE put == PutsRecord(r, status)
             then == GraphsRecord(r, status)
             prov == [kind |-> "fmea", key |-> r, cause |-> NoCause]
  <2>1. put \in Behind(put)
    BY <1>1, LoneBehind
  <2>2. status = "approved" => [do |-> "graph", prov |-> prov] \in Behind(put)
    BY DEF Provenances, PutsRecord, Behind, Steps, Learned, Backed
  <2>3. then \in Seq(Behind(put))
    BY <2>2 DEF GraphsRecord
  <2> HIDE DEF put, then
  <2>4. <<put>> \o then \in Seq(Behind(put)) /\ (<<put>> \o then)[1] = put
    BY <2>1, <2>3
  <2>5. <<put>> \o then \in SafeQueues
    BY <2>4, HeadedQueues
  <2> QED BY <2>5 DEF put, then
<1>3. \A status \in DocStatus : CreateRecord(w, r, status) => KInv'
  BY <1>2, ServedQuietly DEF CreateRecord
<1>4. \A status \in DocStatus : UpdateRecord(w, r, status) => KInv'
  BY <1>1, LoneQueues, ServedQuietly DEF UpdateRecord
<1>5. ApproveRecord(w, r) => KInv'
  BY <1>2, ServedQuietly DEF ApproveRecord, DocStatus
<1>6. RetireRecord(w, r) => KInv'
  BY <1>1, LoneQueues, ServedQuietly DEF RetireRecord, DocStatus
<1> QED BY <1>3, <1>4, <1>5, <1>6

LEMMA Appended ==
  ASSUME NEW S, NEW q \in Seq(S), NEW x \in S
  PROVE  /\ q \o <<x>> \in Seq(S) /\ Len(q \o <<x>>) = Len(q) + 1
         /\ \A i \in 1..Len(q) : (q \o <<x>>)[i] = q[i]
         /\ (q \o <<x>>)[Len(q) + 1] = x
OBVIOUS

\* The document, its chunks, their index entries, then the candidate, then the graph.
LEMMA PromotionKeeps ==
  ASSUME KInv, NEW w \in KWorkers, NEW c \in Cases, NEW key \in Keys, PromoteCandidate(w, c, key)
  PROVE  KInv'
<1>1. c \in DOMAIN candidates /\ candidates[c] \in CandidateRow /\ <<c, candidates[c].cause>> \in confirmed
  BY DEF PromoteCandidate, KInv, KTypeOK, StoresSafe
<1>2. PICK row : row = [status |-> "approved", text |-> CaseText, cause |-> candidates[c].cause, ended |-> FALSE]
  OBVIOUS
<1>3. row \in DocRow /\ row.status = "approved" /\ Size420 \in Sizes
  BY <1>1, <1>2, KAssumption DEF DocRow, DocStatus, CandidateRow
<1>4. PICK put, cut, idx, cand, gr :
        /\ put = PutsDoc(key, row) /\ cut = PutsChunks(key, row, Size420) /\ idx = Indexes(key, row, Size420)
        /\ cand = [do |-> "candidate", key |-> c,
                   row |-> [candidates[c] EXCEPT !.status = "approved", !.doc = {key}]]
        /\ gr = [do |-> "graph", prov |-> DocProv(key, row)]
  OBVIOUS
<1>5. PICK q : q = <<put, cut>> \o <<idx>> \o <<cand>> \o <<gr>>
  OBVIOUS
<1>6. Stores(key, row, Size420) = <<put, cut>> /\ GraphsDoc(key, row) = <<gr>>
  BY <1>3, <1>4 DEF Stores, GraphsDoc
<1>7. Serve(w, q) /\ UNCHANGED confirmed
  BY <1>2, <1>4, <1>5, <1>6 DEF PromoteCandidate
<1>8. put \in LoneSteps /\ cut \in LoneSteps /\ idx \in LoneSteps /\ idx.do = "index" /\ idx.id[1] = key
  BY <1>3, <1>4, DocSteps DEF Indexes
<1>9. put \in Behind(put) /\ cut \in Behind(put) /\ idx \in Behind(put)
  BY <1>8, LoneBehind
<1>10. put.do = "doc" /\ put.key = key /\ put.row.status = "approved" /\ cut.do # "candidate"
  BY <1>3, <1>4 DEF PutsDoc, PutsChunks
<1>11. gr \in Behind(put) /\ gr.do # "candidate"
  BY <1>3, <1>4, <1>10 DEF DocProv, Provenances, DocRow, Behind, Steps, Learned, Backed
<1>12. cand \in Steps /\ Learned(cand) /\ Backed(cand, put) /\ cand.row.doc = {key} /\ cand.do = "candidate"
  BY <1>1, <1>4, <1>10 DEF Steps, CandidateRow, Learned, Backed
<1>13. /\ q \in Seq(Steps) /\ Len(q) = 5
       /\ q[1] = put /\ q[2] = cut /\ q[3] = idx /\ q[4] = cand /\ q[5] = gr
  <2>1. put \in Steps /\ cut \in Steps /\ idx \in Steps /\ cand \in Steps /\ gr \in Steps
    BY <1>9, <1>11, <1>12 DEF Behind
  <2>2. PICK a : a = <<put, cut>> \o <<idx>>
    OBVIOUS
  <2>3. PICK b : b = a \o <<cand>>
    OBVIOUS
  <2>4. a \in Seq(Steps) /\ Len(a) = 3 /\ a[1] = put /\ a[2] = cut /\ a[3] = idx
    BY <2>1, <2>2
  <2>5. b \in Seq(Steps) /\ Len(b) = 4 /\ b[1] = put /\ b[2] = cut /\ b[3] = idx /\ b[4] = cand
    <3>1. a \in Seq(Steps)
      BY <2>4
    <3>2. /\ b \in Seq(Steps) /\ Len(b) = Len(a) + 1 /\ b[Len(a) + 1] = cand
          /\ \A i \in 1..Len(a) : b[i] = a[i]
      BY <2>1, <2>3, <3>1, Appended
    <3> QED BY <2>4, <3>2
  <2>6. q = b \o <<gr>>
    BY <1>5, <2>2, <2>3
  <2>7. b \in Seq(Steps)
    BY <2>5
  <2>8. /\ q \in Seq(Steps) /\ Len(q) = Len(b) + 1 /\ q[Len(b) + 1] = gr
        /\ \A i \in 1..Len(b) : q[i] = b[i]
    BY <2>1, <2>6, <2>7, Appended
  <2> QED BY <2>5, <2>8
<1>14. ASSUME NEW i \in 1..Len(q) PROVE Learned(q[i]) /\ Backed(q[i], q[1]) /\ Announced(q, i)
  <2>1. i \in {1, 2, 3, 4, 5}
    BY <1>13
  <2>2. Learned(q[i]) /\ Backed(q[i], q[1])
    BY <1>9, <1>11, <1>12, <1>13, <2>1 DEF Behind
  <2>3. CASE i = 4
    <3>1. q[i - 1] = idx /\ i > 1 /\ q[i] = cand
      BY <1>13, <2>3
    <3>2. Announced(q, i)
      BY <1>8, <1>12, <3>1 DEF Announced
    <3> QED BY <2>2, <3>2
  <2>4. CASE i # 4
    <3>1. q[i].do # "candidate"
      BY <1>8, <1>10, <1>11, <1>13, <2>1, <2>4
    <3> QED BY <2>2, <3>1 DEF Announced
  <2> QED BY <2>3, <2>4
<1>15. q \in SafeQueues
  BY <1>13, <1>14 DEF SafeQueues
<1> QED BY <1>7, <1>15, ServedQuietly

LEMMA NewDocsAreDocs == \A default \in DocStatus : NewDocs(default) \subseteq DocRow
<1> SUFFICES ASSUME NEW default \in DocStatus, NEW doc \in NewDocs(default) PROVE doc \in DocRow
  OBVIOUS
<1>1. PICK s \in {default, "draft"}, t \in Texts :
        doc = [status |-> s, text |-> t, cause |-> NoCause, ended |-> FALSE]
  BY DEF NewDocs
<1>2. s \in DocStatus
  BY DEF DocStatus
<1> QED BY <1>1, <1>2 DEF DocRow

LEMMA RequestsKeep ==
  ASSUME KInv, NEW w \in KWorkers, CaseRequest(w) \/ DocRequest(w) \/ RecordRequest(w)
  PROVE  KInv'
<1>1. CASE CaseRequest(w)
  BY <1>1, CaseRequestsKeep, PromotionKeeps DEF CaseRequest
<1>2. CASE DocRequest(w)
  <2>1. NewDocs("approved") \subseteq DocRow /\ NewDocs("candidate") \subseteq DocRow
    BY NewDocsAreDocs DEF DocStatus
  <2>2. \A row \in NewDocs("approved"), cause \in Causes \cup {NoCause} : [row EXCEPT !.cause = cause] \in DocRow
    BY <2>1 DEF DocRow
  <2> QED BY <1>2, <2>1, <2>2, DocRequestsKeep DEF DocRequest
<1>3. CASE RecordRequest(w)
  <2>1. {"draft", "approved", "rejected"} \subseteq DocStatus
    BY DEF DocStatus
  <2> QED BY <1>3, <2>1, RecordRequestsKeep DEF RecordRequest
<1> QED BY <1>1, <1>2, <1>3

-----------------------------------------------------------------------------
\* The steps of a handler.

LEMMA HeadOf ==
  ASSUME KInv, NEW w \in KWorkers, todo[w] # <<>>
  PROVE  /\ todo[w] \in SafeQueues /\ todo[w][1] = Head(todo[w])
         /\ Head(todo[w]) \in Steps /\ Learned(Head(todo[w]))
         /\ Backed(Head(todo[w]), Head(todo[w])) /\ Announced(todo[w], 1)
<1>1. PICK q : q = todo[w]
  OBVIOUS
<1>2. /\ q \in SafeQueues /\ q \in Seq(Steps) /\ q # <<>>
      /\ \A i \in 1..Len(q) : Learned(q[i]) /\ Backed(q[i], q[1]) /\ Announced(q, i)
  BY <1>1 DEF KInv, SafeQueues
<1>3. 1 \in 1..Len(q) /\ q[1] = Head(q) /\ q[1] \in Steps
  BY <1>2
<1> QED BY <1>1, <1>2, <1>3

\* A handler that does its first step leaves the invariant when the stores stay safe.
LEMMA Popped ==
  ASSUME KInv, NEW w \in KWorkers, todo[w] # <<>>, todo' = [todo EXCEPT ![w] = Tail(@)],
         Grows, KTypeOK', StoresSafe', NEW s, s = Head(todo[w]),
         s.do = "doc" => s.key \in DOMAIN docs' /\ (s.row.status = "approved" => s.key \in approved'),
         s.do = "fmea" /\ s.row = "approved" => s.key \in approved',
         s.do = "index" /\ Backend = "vector" => s.id \in DOMAIN index'
  PROVE  KInv'
<1>1. todo[w] \in SafeQueues /\ todo[w][1] = s
  BY HeadOf
<1>2. Tail(todo[w]) \in SafeQueues'
  BY <1>1, QueuesPop
<1>3. todo \in [KWorkers -> SafeQueues']
  BY QueuesGrow DEF KInv
<1>4. todo' \in [KWorkers -> SafeQueues']
  BY <1>2, <1>3
<1> QED BY <1>4 DEF KInv

LEMMA Replaced ==
  ASSUME KInv, NEW w \in KWorkers, NEW q \in SafeQueues', todo' = [todo EXCEPT ![w] = q],
         UNCHANGED stores, UNCHANGED confirmed
  PROVE  KInv'
<1>1. Grows
  BY DEF stores, Grows
<1>2. KTypeOK' /\ StoresSafe'
  BY DEF KInv, KTypeOK, StoresSafe, GraphSafe, Indexed, stores
<1>3. todo \in [KWorkers -> SafeQueues']
  BY <1>1, QueuesGrow DEF KInv
<1>4. todo' \in [KWorkers -> SafeQueues']
  BY <1>3
<1> QED BY <1>2, <1>4 DEF KInv

LEMMA HandlerStepsKeep ==
  ASSUME KInv, NEW w \in KWorkers, HandlerStep(w)
  PROVE  KInv'
<1>0. todo[w] # <<>>
  BY DEF HandlerStep, Does, PutCase, RereadCase, AddFeedback, PutCandidate, PutDoc, ListChunks, DeleteChunks,
         PutChunks, UpsertIndex, PutRecord, UpsertGraph
<1>1. PICK s : s = Head(todo[w])
  OBVIOUS
<1>2. s \in Steps /\ Learned(s) /\ Backed(s, s) /\ Announced(todo[w], 1) /\ todo[w][1] = s
  BY <1>0, <1>1, HeadOf
<1>3. KTypeOK /\ StoresSafe
  BY DEF KInv
<1>4. CASE PutCase(w)
  <2>1. /\ s.do = "case" /\ todo' = [todo EXCEPT ![w] = Tail(@)]
        /\ cases' = Put(cases, s.key, s.row)
        /\ resolved' = resolved \cup IF s.row.status = "resolved" THEN {s.key} ELSE {}
        /\ UNCHANGED <<reviewed, candidates, docs, chunks, index, fmea, graph, approved, confirmed>>
    BY <1>1, <1>4 DEF PutCase, Does
  <2>2. /\ s.key \in Cases /\ s.row \in CaseRow
        /\ s.row.cause # NoCause => <<s.key, s.row.cause>> \in confirmed
        /\ s.row.status = "closed" => s.key \in resolved
    BY <1>2, <2>1 DEF Steps, Learned
  <2>3. /\ DOMAIN cases' = DOMAIN cases \cup {s.key}
        /\ \A k \in DOMAIN cases' : cases'[k] = IF k = s.key THEN s.row ELSE cases[k]
    BY <2>1 DEF Put
  <2>4. Grows
    BY <2>1, <2>3 DEF Grows
  <2>5. KTypeOK'
    BY <1>3, <2>1, <2>2, <2>3 DEF KTypeOK
  <2>6. StoresSafe'
    BY <1>3, <2>1, <2>2, <2>3 DEF StoresSafe, GraphSafe, Indexed
  <2> QED BY <1>0, <1>1, <2>1, <2>4, <2>5, <2>6, Popped
<1>5. CASE RereadCase(w)
  <2>1. PICK closes : closes = PutsCase(s.key, Moved(s.key, "closed", NoCause))
    OBVIOUS
  <2>2. /\ s.do = "reread" /\ todo' = [todo EXCEPT ![w] = <<closes>>]
        /\ UNCHANGED stores /\ UNCHANGED confirmed
    BY <1>1, <1>5, <2>1 DEF RereadCase
  <2>3. s.key \in DOMAIN cases /\ s.key \in resolved
    BY <1>2, <2>2 DEF Learned
  <2>4. /\ s.key \in Cases /\ cases[s.key] \in CaseRow
        /\ cases[s.key].cause # NoCause => <<s.key, cases[s.key].cause>> \in confirmed
    BY <1>3, <2>3 DEF KTypeOK, StoresSafe
  <2>5. closes \in LoneSteps
    BY <2>1, <2>3, <2>4 DEF PutsCase, Moved, CaseRow, Stages, LoneSteps, Steps, Learned
  <2>6. <<closes>> \in SafeQueues'
    BY <2>2, <2>5, LoneQueues, QueuesGrow DEF Grows, stores
  <2> QED BY <2>2, <2>6, Replaced
<1>6. CASE AddFeedback(w)
  <2>1. /\ s.do = "feedback" /\ todo' = [todo EXCEPT ![w] = Tail(@)]
        /\ reviewed' = reviewed \cup {s.key}
        /\ UNCHANGED <<cases, candidates, docs, chunks, index, fmea, graph, approved, resolved, confirmed>>
    BY <1>1, <1>6 DEF AddFeedback, Does
  <2>2. s.key \in Cases
    BY <1>2, <2>1 DEF Steps
  <2>3. Grows
    BY <2>1 DEF Grows
  <2>4. KTypeOK' /\ StoresSafe'
    BY <1>3, <2>1, <2>2 DEF KTypeOK, StoresSafe, GraphSafe, Indexed
  <2> QED BY <1>0, <1>1, <2>1, <2>3, <2>4, Popped
<1>7. CASE PutCandidate(w)
  <2>1. /\ s.do = "candidate" /\ todo' = [todo EXCEPT ![w] = Tail(@)]
        /\ candidates' = Put(candidates, s.key, s.row)
        /\ UNCHANGED <<cases, reviewed, docs, chunks, index, fmea, graph, approved, resolved, confirmed>>
    BY <1>1, <1>7 DEF PutCandidate, Does
  <2>2. s.key \in Cases /\ s.row \in CandidateRow /\ <<s.key, s.row.cause>> \in confirmed
    BY <1>2, <2>1 DEF Steps, Learned
  <2>3. \A key \in s.row.doc : key \in DOMAIN docs /\ (Backend = "vector" => Indexed(key))
    BY <1>2, <2>1 DEF Backed, Announced
  <2>4. /\ DOMAIN candidates' = DOMAIN candidates \cup {s.key}
        /\ \A k \in DOMAIN candidates' : candidates'[k] = IF k = s.key THEN s.row ELSE candidates[k]
    BY <2>1 DEF Put
  <2>5. Grows
    BY <2>1 DEF Grows
  <2>6. KTypeOK'
    BY <1>3, <2>1, <2>2, <2>4 DEF KTypeOK
  <2>7. StoresSafe'
    BY <1>3, <2>1, <2>2, <2>3, <2>4 DEF StoresSafe, GraphSafe, Indexed
  <2> QED BY <1>0, <1>1, <2>1, <2>5, <2>6, <2>7, Popped
<1>8. CASE PutDoc(w)
  <2>1. /\ s.do = "doc" /\ todo' = [todo EXCEPT ![w] = Tail(@)]
        /\ docs' = Put(docs, s.key, s.row)
        /\ approved' = approved \cup IF s.row.status = "approved" THEN {s.key} ELSE {}
        /\ UNCHANGED <<cases, reviewed, candidates, chunks, index, fmea, graph, resolved, confirmed>>
    BY <1>1, <1>8 DEF PutDoc, Does
  <2>2. s.key \in Keys /\ s.row \in DocRow
    BY <1>2, <2>1 DEF Steps
  <2>3. /\ DOMAIN docs' = DOMAIN docs \cup {s.key}
        /\ \A k \in DOMAIN docs' : docs'[k] = IF k = s.key THEN s.row ELSE docs[k]
    BY <2>1 DEF Put
  <2>4. Grows
    BY <2>1, <2>3 DEF Grows
  <2>5. KTypeOK'
    BY <1>3, <2>1, <2>2, <2>3 DEF KTypeOK
  <2>6. StoresSafe'
    BY <1>3, <2>1, <2>2, <2>3 DEF StoresSafe, GraphSafe, Indexed
  <2> QED BY <1>0, <1>1, <2>1, <2>3, <2>4, <2>5, <2>6, Popped
<1>9. CASE ListChunks(w)
  <2>1. PICK del : del = [do |-> "delete", ids |-> {id \in DOMAIN chunks : id[1] = s.key}]
    OBVIOUS
  <2>2. PICK q : q = todo[w]
    OBVIOUS
  <2>3. /\ s.do = "sweep" /\ todo' = [todo EXCEPT ![w] = <<del>> \o Tail(q)]
        /\ UNCHANGED stores /\ UNCHANGED confirmed
    BY <1>1, <1>9, <2>1, <2>2 DEF ListChunks
  <2>4. del \in Steps /\ Learned(del) /\ del.do = "delete"
    BY <1>3, <2>1 DEF Steps, Learned, KTypeOK
  <2>5. /\ q \in Seq(Steps) /\ q # <<>> /\ q[1] = s
        /\ \A i \in 1..Len(q) : Learned(q[i]) /\ Backed(q[i], q[1]) /\ Announced(q, i)
    BY <1>0, <1>2, <2>2, HeadOf DEF SafeQueues
  <2>6. PICK r : r = <<del>> \o Tail(q)
    OBVIOUS
  <2>7. /\ r \in Seq(Steps) /\ Len(r) = Len(q) /\ r[1] = del
        /\ \A i \in 1..Len(r) : i # 1 => r[i] = q[i]
    BY <2>4, <2>5, <2>6
  <2>8. ASSUME NEW i \in 1..Len(r) PROVE Learned(r[i]) /\ Backed(r[i], r[1]) /\ Announced(r, i)
    <3>1. CASE i = 1
      BY <2>4, <2>7, <3>1 DEF Backed, Announced
    <3>2. CASE i # 1
      <4>1. r[i] = q[i] /\ i \in 1..Len(q) /\ i - 1 \in 1..Len(r) /\ i \in Nat
        BY <2>5, <2>7, <3>2
      <4>2. Learned(r[i]) /\ Backed(r[i], r[1])
        BY <2>3, <2>4, <2>5, <2>7, <4>1 DEF Backed
      <4>3. q[i - 1].do = "index" => r[i - 1] = q[i - 1]
        BY <2>3, <2>5, <2>7, <4>1
      <4>4. Announced(r, i)
        BY <2>5, <3>2, <4>1, <4>3 DEF Announced
      <4> QED BY <4>2, <4>4
    <3> QED BY <3>1, <3>2
  <2>9. r \in SafeQueues
    BY <2>7, <2>8 DEF SafeQueues
  <2>10. r \in SafeQueues'
    BY <2>3, <2>9, QueuesGrow DEF Grows, stores
  <2> QED BY <2>3, <2>6, <2>10, Replaced
<1>10. CASE DeleteChunks(w)
  <2>1. /\ s.do = "delete" /\ todo' = [todo EXCEPT ![w] = Tail(@)]
        /\ chunks' = Delete(chunks, s.ids)
        /\ UNCHANGED <<cases, reviewed, candidates, docs, index, fmea, graph, approved, resolved, confirmed>>
    BY <1>1, <1>10 DEF DeleteChunks, Does
  <2>2. Grows
    BY <2>1 DEF Grows
  <2>3. KTypeOK' /\ StoresSafe'
    BY <1>3, <2>1 DEF KTypeOK, StoresSafe, GraphSafe, Indexed, Delete
  <2> QED BY <1>0, <1>1, <2>1, <2>2, <2>3, Popped
<1>11. CASE PutChunks(w)
  <2>1. /\ s.do = "chunks" /\ todo' = [todo EXCEPT ![w] = Tail(@)]
        /\ chunks' = Put(chunks, s.id, s.row)
        /\ UNCHANGED <<cases, reviewed, candidates, docs, index, fmea, graph, approved, resolved, confirmed>>
    BY <1>1, <1>11 DEF PutChunks, Does
  <2>2. s.id \in ChunkIds /\ s.row \in ChunkRow
    BY <1>2, <2>1 DEF Steps
  <2>3. Grows
    BY <2>1 DEF Grows
  <2>4. KTypeOK' /\ StoresSafe'
    BY <1>3, <2>1, <2>2 DEF KTypeOK, StoresSafe, GraphSafe, Indexed, Put
  <2> QED BY <1>0, <1>1, <2>1, <2>3, <2>4, Popped
<1>12. CASE UpsertIndex(w)
  <2>1. /\ s.do = "index" /\ todo' = [todo EXCEPT ![w] = Tail(@)]
        /\ index' = IF Backend = "local" THEN index ELSE Put(index, s.id, s.row)
        /\ UNCHANGED <<cases, reviewed, candidates, docs, chunks, fmea, graph, approved, resolved, confirmed>>
    BY <1>1, <1>12 DEF UpsertIndex, Does
  <2>2. s.id \in ChunkIds /\ s.row \in ChunkRow
    BY <1>2, <2>1 DEF Steps
  <2>3. /\ DOMAIN index \subseteq DOMAIN index' /\ DOMAIN index' \subseteq ChunkIds
        /\ Backend = "vector" => s.id \in DOMAIN index'
        /\ \A id \in DOMAIN index' : index'[id] \in ChunkRow
    BY <1>3, <2>1, <2>2 DEF Put, KTypeOK
  <2>4. Grows
    BY <2>1, <2>3 DEF Grows
  <2>5. KTypeOK'
    BY <1>3, <2>1, <2>3 DEF KTypeOK
  <2>6. StoresSafe'
    BY <1>3, <2>1, <2>3 DEF StoresSafe, GraphSafe, Indexed
  <2> QED BY <1>0, <1>1, <2>1, <2>3, <2>4, <2>5, <2>6, Popped
<1>13. CASE PutRecord(w)
  <2>1. /\ s.do = "fmea" /\ todo' = [todo EXCEPT ![w] = Tail(@)]
        /\ fmea' = Put(fmea, s.key, s.row)
        /\ approved' = approved \cup IF s.row = "approved" THEN {s.key} ELSE {}
        /\ UNCHANGED <<cases, reviewed, candidates, docs, chunks, index, graph, resolved, confirmed>>
    BY <1>1, <1>13 DEF PutRecord, Does
  <2>2. s.key \in Records /\ s.row \in DocStatus
    BY <1>2, <2>1 DEF Steps
  <2>3. Grows
    BY <2>1 DEF Grows
  <2>4. KTypeOK'
    BY <1>3, <2>1, <2>2 DEF KTypeOK, Put
  <2>5. StoresSafe'
    BY <1>3, <2>1, <2>2 DEF StoresSafe, GraphSafe, Indexed, Put
  <2> QED BY <1>0, <1>1, <2>1, <2>3, <2>4, <2>5, Popped
<1>14. CASE UpsertGraph(w)
  <2>1. /\ s.do = "graph" /\ todo' = [todo EXCEPT ![w] = Tail(@)]
        /\ graph' = graph \cup {s.prov}
        /\ UNCHANGED <<cases, reviewed, candidates, docs, chunks, index, fmea, approved, resolved, confirmed>>
    BY <1>1, <1>14 DEF UpsertGraph, Does
  <2>2. /\ s.prov.kind = "case" => <<s.prov.key, s.prov.cause>> \in confirmed
        /\ s.prov.kind \notin {"case", "payload"} => s.prov.key \in approved
    BY <1>2, <2>1 DEF Learned, Backed
  <2>3. Grows
    BY <2>1 DEF Grows
  <2>4. KTypeOK' /\ StoresSafe'
    BY <1>3, <2>1, <2>2 DEF KTypeOK, StoresSafe, GraphSafe, Indexed
  <2> QED BY <1>0, <1>1, <2>1, <2>3, <2>4, Popped
<1> QED BY <1>4, <1>5, <1>6, <1>7, <1>8, <1>9, <1>10, <1>11, <1>12, <1>13, <1>14 DEF HandlerStep

LEMMA NothingToDo == <<>> \in SafeQueues /\ <<>> \in SafeQueues'
<1>1. <<>> \in Seq(LoneSteps) /\ <<>> \in Seq(LoneSteps')
  OBVIOUS
<1> QED BY <1>1, LoneQueues

LEMMA FailuresKeep ==
  ASSUME KInv, (\E w \in KWorkers : FailHandler(w)) \/ Restart
  PROVE  KInv'
<1>1. ASSUME NEW w \in KWorkers, FailHandler(w) PROVE KInv'
  BY <1>1, NothingToDo, Replaced DEF FailHandler
<1>2. CASE Restart
  <2>1. /\ todo' = [w \in KWorkers |-> <<>>]
        /\ UNCHANGED <<cases, reviewed, candidates, docs, chunks, index, fmea, confirmed, approved, resolved>>
        /\ graph' = graph
             \cup {DocProv(key, docs[key]) : key \in {k \in DOMAIN docs : docs[k].status = "approved"}}
             \cup {[kind |-> "fmea", key |-> r, cause |-> NoCause] :
                     r \in {x \in DOMAIN fmea : fmea[x] = "approved"}}
    BY <1>2 DEF Restart
  <2>2. \A g \in graph' : g \in graph \/ (g.kind # "case" /\ g.key \in approved)
    BY <2>1 DEF DocProv, KInv, StoresSafe, GraphSafe
  <2>3. KTypeOK'
    BY <2>1 DEF KInv, KTypeOK
  <2>4. StoresSafe'
    BY <2>1, <2>2 DEF KInv, StoresSafe, GraphSafe, Indexed
  <2>5. todo' \in [KWorkers -> SafeQueues']
    BY <2>1, NothingToDo
  <2> QED BY <2>3, <2>4, <2>5 DEF KInv
<1> QED BY <1>1, <1>2

-----------------------------------------------------------------------------
LEMMA KInvHolds == KSpec => []KInv
<1>1. KInit => KInv
  <2> SUFFICES ASSUME KInit PROVE KInv
    OBVIOUS
  <2>1. KTypeOK
    BY DEF KInit, KTypeOK
  <2>2. StoresSafe
    BY DEF KInit, StoresSafe
  <2>3. todo \in [KWorkers -> SafeQueues]
    BY NothingToDo DEF KInit
  <2> QED BY <2>1, <2>2, <2>3 DEF KInv
<1>2. KInv /\ [KNext]_kvars => KInv'
  <2> SUFFICES ASSUME KInv, [KNext]_kvars PROVE KInv'
    OBVIOUS
  <2>1. ASSUME NEW w \in KWorkers, CaseRequest(w) \/ DocRequest(w) \/ RecordRequest(w) PROVE KInv'
    BY <2>1, RequestsKeep
  <2>2. ASSUME NEW w \in KWorkers, HandlerStep(w) PROVE KInv'
    BY <2>2, HandlerStepsKeep
  <2>3. ASSUME (\E w \in KWorkers : FailHandler(w)) \/ Restart PROVE KInv'
    BY <2>3, FailuresKeep
  <2>4. CASE UNCHANGED kvars
    <3>1. Grows /\ UNCHANGED todo
      BY <2>4 DEF kvars, Grows
    <3>2. KTypeOK' /\ StoresSafe'
      BY <2>4 DEF kvars, KInv, KTypeOK, StoresSafe, GraphSafe, Indexed
    <3>3. todo' \in [KWorkers -> SafeQueues']
      BY <3>1, QueuesGrow DEF KInv
    <3> QED BY <3>2, <3>3 DEF KInv
  <2> QED BY <2>1, <2>2, <2>3, <2>4 DEF KNext
<1> QED BY <1>1, <1>2, PTL DEF KSpec

\* Rows, queues' rows and history have their types (the stores of knowledge_store.py,
\* rca_store.py and the FMEA and candidate collections).
THEOREM KTypeCorrect == KSpec => []KTypeOK
<1>1. KInv => KTypeOK
  BY DEF KInv
<1> QED BY <1>1, KInvHolds, PTL

\* However many handlers run, fail or put back stale rows, a knowledge candidate and an
\* edge of the graph name a cause an engineer confirmed for that case (review, resolve,
\* candidate_from_case and ingest_rca_case).
THEOREM OnlyConfirmedIsLearned == KSpec => []LearnedFromConfirmed
<1>1. KInv => LearnedFromConfirmed
  BY DEF KInv, StoresSafe, GraphSafe, LearnedFromConfirmed
<1> QED BY <1>1, KInvHolds, PTL

\* The platform brings no document or record into the graph that was never stored as
\* approved, across deaths and restarts (approval, promotion, ingest_fmea and the
\* start-up bootstrap; the payloads of ingest-document are told apart and excepted).
THEOREM OnlyApprovedIsCited == KSpec => []GraphOnlyApproved
<1>1. KInv => GraphOnlyApproved
  BY DEF KInv, StoresSafe, GraphSafe, GraphOnlyApproved
<1> QED BY <1>1, KInvHolds, PTL

\* An approved candidate's document is stored and known to the search backend
\* (promote_candidate writes document, chunks, index and candidate in that order).
THEOREM PromotionsAreSearchable == KSpec => []PromotedIsSearchable
<1>1. KInv => PromotedIsSearchable
  BY DEF KInv, StoresSafe, GraphSafe, PromotedIsSearchable, Indexed
<1> QED BY <1>1, KInvHolds, PTL

\* Whoever closes a case, it was resolved before (the check of close, and the second
\* reading of the case by update).
THEOREM OnlyResolvedAreClosed == KSpec => []ClosedWasResolved
<1>1. KInv => ClosedWasResolved
  BY DEF KInv, StoresSafe, ClosedWasResolved
<1> QED BY <1>1, KInvHolds, PTL

=============================================================================
