-------------------------- MODULE KnowledgeLifecycle --------------------------
(***************************************************************************)
(* The learning loop of the platform: RCA cases, the knowledge candidates  *)
(* they become, the knowledge documents with their chunks and vector       *)
(* index, FMEA records and the industrial graph all of them feed.          *)
(*                                                                         *)
(* A handler reads rows, computes what it will write and then writes row   *)
(* by row; nothing locks two of those calls together.  todo[w] is what the *)
(* handler served by w has still to do.  A row in it was computed from     *)
(* what the handler had read, and is put back whole, however stale.        *)
(***************************************************************************)
EXTENDS Naturals, Sequences, FiniteSets

CONSTANTS
  KWorkers,     \* threads that serve requests
  Cases,        \* RCA cases; a case is also the id of the document made of it
  Manuals,      \* ids of the documents that come from elsewhere
  Versions,     \* document versions
  V1,           \* the version a document gets when it names none, "1.0"
  Causes,       \* root causes and failure modes
  NoCause,
  Texts,        \* contents of documents
  CaseText,     \* the content promote_candidate writes
  Sizes,        \* chunk sizes a submission may ask for
  Size420,      \* the size replace_document always uses
  Backend,      \* "local" searches the chunks, "vector" an index beside them
  Records,      \* FMEA records
  MaxKCalls,    \* bound: requests served in a behaviour
  MaxKDeaths    \* bound: handlers that die or fail half way

ASSUME KAssumption == /\ V1 \in Versions
                      /\ NoCause \notin Causes
                      /\ CaseText \in Texts
                      /\ Size420 \in Sizes
                      /\ Backend \in {"local", "vector"}
                      /\ MaxKCalls \in Nat
                      /\ MaxKDeaths \in Nat

VARIABLES
  cases,        \* rca_cases: case -> row
  reviewed,     \* cases with an entry in the feedback file
  candidates,   \* knowledge_candidates: case -> row
  docs,         \* knowledge_documents: <<id, version>> -> row
  chunks,       \* knowledge_chunks: chunk id -> row
  index,        \* the vector backend: chunk id -> row
  fmea,         \* fmea_records: record -> status
  graph,        \* where the graph's nodes and edges come from
  todo,         \* what each worker's handler has still to do
  calls, deaths,
  confirmed,    \* history: the causes engineers confirmed, by case
  approved,     \* history: the documents and records ever put as approved
  resolved      \* history: the cases ever put as resolved

kvars == <<cases, reviewed, candidates, docs, chunks, index, fmea, graph, todo,
           calls, deaths, confirmed, approved, resolved>>

Stages == {"open", "analyzed", "reviewed", "resolved", "closed"}
DocStatus == {"draft", "candidate", "approved", "superseded", "retired", "rejected"}

Ids == Cases \cup Manuals
Keys == Ids \X Versions
CaseRow == [status : Stages, cause : Causes \cup {NoCause}]
CandidateRow == [status : {"candidate", "approved"}, cause : Causes, doc : SUBSET Keys]
\* ended: effective_to has been set, and nothing ever clears it.
DocRow == [status : DocStatus, text : Texts, cause : Causes \cup {NoCause}, ended : BOOLEAN]

\* The chunks of one text cut to one size: their ids depend on both.
ChunkIds == Keys \X Texts \X Sizes
ChunkRow == [status : DocStatus, ended : BOOLEAN]
ChunkId(key, doc, size) == <<key, doc.text, size>>
ChunkOf(doc) == [status |-> doc.status, ended |-> doc.ended]

Put(store, key, row) ==
  [k \in DOMAIN store \cup {key} |-> IF k = key THEN row ELSE store[k]]
Delete(store, keys) == [k \in DOMAIN store \ keys |-> store[k]]

KInit ==
  /\ cases = <<>> /\ reviewed = {} /\ candidates = <<>> /\ docs = <<>> /\ chunks = <<>>
  /\ index = <<>> /\ fmea = <<>> /\ graph = {}
  /\ todo = [w \in KWorkers |-> <<>>]
  /\ calls = 0 /\ deaths = 0 /\ confirmed = {} /\ approved = {} /\ resolved = {}

stores == <<cases, reviewed, candidates, docs, chunks, index, fmea, graph, approved, resolved>>

\* A free worker takes a request whose handler will do these steps.
Serve(w, steps) ==
  /\ todo[w] = <<>> /\ calls < MaxKCalls
  /\ todo' = [todo EXCEPT ![w] = steps]
  /\ calls' = calls + 1
  /\ UNCHANGED <<stores, deaths>>

-----------------------------------------------------------------------------
(* RCA cases.  Every handler but close accepts a case in any status.       *)

PutsCase(c, row) == [do |-> "case", key |-> c, row |-> row]
CaseProv(c, cause) == [kind |-> "case", key |-> c, cause |-> cause]
Moved(c, status, cause) ==
  [status |-> status, cause |-> IF cause = NoCause THEN cases[c].cause ELSE cause]
Confirms(c, cause) ==
  confirmed' = confirmed \cup IF cause = NoCause THEN {} ELSE {<<c, cause>>}

CreateCase(w, c) ==
  /\ Serve(w, <<PutsCase(c, [status |-> "open", cause |-> NoCause])>>)
  /\ UNCHANGED confirmed

\* Mutant: the analysis stores its first hypothesis as the root cause.
AnalyzeCaseHasty(w, c) ==
  /\ c \in DOMAIN cases
  /\ \E cause \in Causes : Serve(w, <<PutsCase(c, Moved(c, "analyzed", cause))>>)
  /\ UNCHANGED confirmed

AnalyzeCase(w, c) ==
  /\ c \in DOMAIN cases
  /\ Serve(w, <<PutsCase(c, Moved(c, "analyzed", NoCause))>>)
  /\ UNCHANGED confirmed

\* cause: the correct cause, or the predicted one when it was accepted.
ReviewCase(w, c, cause) ==
  /\ c \in DOMAIN cases
  /\ Serve(w, <<PutsCase(c, Moved(c, "reviewed", cause)), [do |-> "feedback", key |-> c]>>)
  /\ Confirms(c, cause)

\* The graph gets the cause of the row that was put, the row's own if it has one.
ResolveCase(w, c, cause) ==
  /\ c \in DOMAIN cases
  /\ LET row == Moved(c, "resolved", cause) IN
       Serve(w, <<PutsCase(c, row)>> \o
                IF row.cause = NoCause THEN <<>>
                ELSE <<[do |-> "graph", prov |-> CaseProv(c, row.cause)]>>)
  /\ Confirms(c, cause)

\* Mutant: the status is not looked at.
CloseCaseAnytime(w, c) ==
  /\ c \in DOMAIN cases
  /\ Serve(w, <<[do |-> "reread", key |-> c]>>)
  /\ UNCHANGED confirmed

\* close looks at the status, and update reads the case again.
CloseCase(w, c) ==
  /\ c \in DOMAIN cases /\ cases[c].status = "resolved"
  /\ Serve(w, <<[do |-> "reread", key |-> c]>>)
  /\ UNCHANGED confirmed

IngestCase(w, c) ==
  /\ c \in DOMAIN cases /\ cases[c].cause # NoCause
  /\ Serve(w, <<[do |-> "graph", prov |-> CaseProv(c, cases[c].cause)]>>)
  /\ UNCHANGED confirmed

CandidateFromCase(w, c) ==
  /\ c \in DOMAIN cases /\ cases[c].cause # NoCause
  /\ Serve(w, <<[do |-> "candidate", key |-> c,
                 row |-> [status |-> "candidate", cause |-> cases[c].cause, doc |-> {}]]>>)
  /\ UNCHANGED confirmed

-----------------------------------------------------------------------------
(* Knowledge documents.                                                    *)

PutsDoc(key, row) == [do |-> "doc", key |-> key, row |-> row]
PutsChunks(key, row, size) == [do |-> "chunks", id |-> ChunkId(key, row, size), row |-> ChunkOf(row)]
Indexes(key, row, size) == [do |-> "index", id |-> ChunkId(key, row, size), row |-> ChunkOf(row)]
DocProv(key, row) == [kind |-> "doc", key |-> key, cause |-> row.cause]
\* The store does not tell these from DocProv; the kind is history.
PayloadProv(key, row) == [DocProv(key, row) EXCEPT !.kind = "payload"]

\* ingest_knowledge skips what is not approved.
GraphsDoc(key, row) ==
  IF row.status = "approved" THEN <<[do |-> "graph", prov |-> DocProv(key, row)]>> ELSE <<>>

\* put_document leaves the chunks of an earlier text or size where they are.
Stores(key, row, size) == <<PutsDoc(key, row), PutsChunks(key, row, size)>>
\* replace_document lists and deletes the chunks of the version, then puts new ones.
Replaces(key, row) == <<PutsDoc(key, row), [do |-> "sweep", key |-> key], PutsChunks(key, row, Size420)>>

SubmitDocument(w, key, row) ==
  /\ Serve(w, Stores(key, row, Size420))
  /\ UNCHANGED confirmed

IngestDocument(w, key, row, size) ==
  /\ Serve(w, Stores(key, row, size) \o <<Indexes(key, row, size)>>)
  /\ UNCHANGED confirmed

\* The workflow indexes the chunks, and the endpoint indexes them once more.
ApproveDocument(w, key) ==
  /\ key \in DOMAIN docs
  /\ LET row == [docs[key] EXCEPT !.status = "approved"] IN
       Serve(w, Replaces(key, row) \o <<Indexes(key, row, Size420), Indexes(key, row, Size420)>>
                \o GraphsDoc(key, row))
  /\ UNCHANGED confirmed

RetireDocument(w, key) ==
  /\ key \in DOMAIN docs
  /\ LET row == [docs[key] EXCEPT !.status = "retired", !.ended = TRUE] IN
       Serve(w, Replaces(key, row) \o <<Indexes(key, row, Size420)>>)
  /\ UNCHANGED confirmed

\* The old row was read before the replacement was put, which may have its version.
SupersedeDocument(w, key, version, new) ==
  /\ key \in DOMAIN docs
  /\ LET newKey == <<key[1], version>>
         old == [docs[key] EXCEPT !.status = "superseded", !.ended = TRUE] IN
       Serve(w, Stores(newKey, new, Size420) \o Replaces(key, old)
                \o <<Indexes(key, old, Size420), Indexes(newKey, new, Size420),
                     Indexes(newKey, new, Size420)>>)
  /\ UNCHANGED confirmed

\* Mutant: the candidate is marked before its document is stored.
PromoteCandidateFirst(w, c, key) ==
  /\ c \in DOMAIN candidates
  /\ LET row == [status |-> "approved", text |-> CaseText, cause |-> candidates[c].cause,
                 ended |-> FALSE] IN
       Serve(w, <<[do |-> "candidate", key |-> c,
                   row |-> [candidates[c] EXCEPT !.status = "approved", !.doc = {key}]]>>
                \o Stores(key, row, Size420) \o <<Indexes(key, row, Size420)>>
                \o GraphsDoc(key, row))
  /\ UNCHANGED confirmed

\* A payload may name the document; what it leaves out comes from the candidate.
PromoteCandidate(w, c, key) ==
  /\ c \in DOMAIN candidates
  /\ LET row == [status |-> "approved", text |-> CaseText, cause |-> candidates[c].cause,
                 ended |-> FALSE] IN
       Serve(w, Stores(key, row, Size420) \o <<Indexes(key, row, Size420)>>
                \o <<[do |-> "candidate", key |-> c,
                      row |-> [candidates[c] EXCEPT !.status = "approved", !.doc = {key}]]>>
                \o GraphsDoc(key, row))
  /\ UNCHANGED confirmed

\* The caller hands in the document: any payload goes in, stored or not, unless it
\* names a status other than approved.
IngestGraphDocument(w, key, row) ==
  /\ row.status = "approved"
  /\ Serve(w, <<[do |-> "graph", prov |-> PayloadProv(key, row)]>>)
  /\ UNCHANGED confirmed

-----------------------------------------------------------------------------
(* FMEA records.                                                           *)

PutsRecord(r, status) == [do |-> "fmea", key |-> r, row |-> status]

\* Mutant: ingestion takes any record.
GraphsAnyRecord(r, status) ==
  <<[do |-> "graph", prov |-> [kind |-> "fmea", key |-> r, cause |-> NoCause]]>>

GraphsRecord(r, status) ==
  IF status = "approved"
  THEN <<[do |-> "graph", prov |-> [kind |-> "fmea", key |-> r, cause |-> NoCause]]>> ELSE <<>>

CreateRecord(w, r, status) ==
  /\ Serve(w, <<PutsRecord(r, status)>> \o GraphsRecord(r, status))
  /\ UNCHANGED confirmed

\* An update may carry any status, and never reaches the graph.
UpdateRecord(w, r, status) ==
  /\ r \in DOMAIN fmea
  /\ Serve(w, <<PutsRecord(r, status)>>)
  /\ UNCHANGED confirmed

ApproveRecord(w, r) ==
  /\ r \in DOMAIN fmea /\ fmea[r] \notin {"retired", "rejected"}
  /\ Serve(w, <<PutsRecord(r, "approved")>> \o GraphsRecord(r, "approved"))
  /\ UNCHANGED confirmed

RetireRecord(w, r) ==
  /\ r \in DOMAIN fmea
  /\ Serve(w, <<PutsRecord(r, "retired")>>)
  /\ UNCHANGED confirmed

-----------------------------------------------------------------------------
(* The steps of a handler.                                                 *)

Does(w, what) ==
  /\ todo[w] # <<>> /\ Head(todo[w]).do = what
  /\ todo' = [todo EXCEPT ![w] = Tail(@)]
  /\ UNCHANGED <<calls, deaths, confirmed>>

PutCase(w) ==
  /\ Does(w, "case")
  /\ LET step == Head(todo[w]) IN
       /\ cases' = Put(cases, step.key, step.row)
       /\ resolved' = resolved \cup IF step.row.status = "resolved" THEN {step.key} ELSE {}
  /\ UNCHANGED <<reviewed, candidates, docs, chunks, index, fmea, graph, approved>>

RereadCase(w) ==
  /\ todo[w] # <<>> /\ Head(todo[w]).do = "reread"
  /\ todo' = [todo EXCEPT ![w] = <<PutsCase(Head(@).key, Moved(Head(@).key, "closed", NoCause))>>]
  /\ UNCHANGED <<stores, calls, deaths, confirmed>>

AddFeedback(w) ==
  /\ Does(w, "feedback")
  /\ reviewed' = reviewed \cup {Head(todo[w]).key}
  /\ UNCHANGED <<cases, candidates, docs, chunks, index, fmea, graph, approved, resolved>>

PutCandidate(w) ==
  /\ Does(w, "candidate")
  /\ candidates' = Put(candidates, Head(todo[w]).key, Head(todo[w]).row)
  /\ UNCHANGED <<cases, reviewed, docs, chunks, index, fmea, graph, approved, resolved>>

PutDoc(w) ==
  /\ Does(w, "doc")
  /\ LET step == Head(todo[w]) IN
       /\ docs' = Put(docs, step.key, step.row)
       /\ approved' = approved \cup IF step.row.status = "approved" THEN {step.key} ELSE {}
  /\ UNCHANGED <<cases, reviewed, candidates, chunks, index, fmea, graph, resolved>>

\* The chunks that are listed now are the ones that will be deleted.
ListChunks(w) ==
  /\ todo[w] # <<>> /\ Head(todo[w]).do = "sweep"
  /\ LET listed == {id \in DOMAIN chunks : id[1] = Head(todo[w]).key} IN
       todo' = [todo EXCEPT ![w] = <<[do |-> "delete", ids |-> listed]>> \o Tail(@)]
  /\ UNCHANGED <<stores, calls, deaths, confirmed>>

DeleteChunks(w) ==
  /\ Does(w, "delete")
  /\ chunks' = Delete(chunks, Head(todo[w]).ids)
  /\ UNCHANGED <<cases, reviewed, candidates, docs, index, fmea, graph, approved, resolved>>

PutChunks(w) ==
  /\ Does(w, "chunks")
  /\ chunks' = Put(chunks, Head(todo[w]).id, Head(todo[w]).row)
  /\ UNCHANGED <<cases, reviewed, candidates, docs, index, fmea, graph, approved, resolved>>

\* The local backend searches the chunks themselves and keeps no index.
UpsertIndex(w) ==
  /\ Does(w, "index")
  /\ index' = IF Backend = "local" THEN index
              ELSE Put(index, Head(todo[w]).id, Head(todo[w]).row)
  /\ UNCHANGED <<cases, reviewed, candidates, docs, chunks, fmea, graph, approved, resolved>>

PutRecord(w) ==
  /\ Does(w, "fmea")
  /\ LET step == Head(todo[w]) IN
       /\ fmea' = Put(fmea, step.key, step.row)
       /\ approved' = approved \cup IF step.row = "approved" THEN {step.key} ELSE {}
  /\ UNCHANGED <<cases, reviewed, candidates, docs, chunks, index, graph, resolved>>

\* Nodes and edges are upserts under ids made of what they say.
UpsertGraph(w) ==
  /\ Does(w, "graph")
  /\ graph' = graph \cup {Head(todo[w]).prov}
  /\ UNCHANGED <<cases, reviewed, candidates, docs, chunks, index, fmea, approved, resolved>>

\* A store fails or the thread dies: the rest of the handler never happens.
FailHandler(w) ==
  /\ todo[w] # <<>> /\ deaths < MaxKDeaths
  /\ todo' = [todo EXCEPT ![w] = <<>>]
  /\ deaths' = deaths + 1
  /\ UNCHANGED <<stores, calls, confirmed>>

\* The process restarts; before it serves, it ingests every approved document
\* and record into the graph again.
Restart ==
  /\ deaths < MaxKDeaths
  /\ deaths' = deaths + 1
  /\ todo' = [w \in KWorkers |-> <<>>]
  /\ graph' = graph
       \cup {DocProv(key, docs[key]) : key \in {k \in DOMAIN docs : docs[k].status = "approved"}}
       \cup {[kind |-> "fmea", key |-> r, cause |-> NoCause] :
               r \in {x \in DOMAIN fmea : fmea[x] = "approved"}}
  /\ UNCHANGED <<cases, reviewed, candidates, docs, chunks, index, fmea, calls, confirmed, approved, resolved>>

-----------------------------------------------------------------------------
CaseRequest(w) ==
  \E c \in Cases :
    \/ CreateCase(w, c) \/ AnalyzeCase(w, c) \/ CloseCase(w, c) \/ IngestCase(w, c)
    \/ CandidateFromCase(w, c)
    \/ \E cause \in Causes \cup {NoCause} : ReviewCase(w, c, cause) \/ ResolveCase(w, c, cause)
    \/ \E key \in Keys : PromoteCandidate(w, c, key)

NewDocs(default) ==
  {[status |-> s, text |-> t, cause |-> NoCause, ended |-> FALSE] :
     s \in {default, "draft"}, t \in Texts}

DocRequest(w) ==
  \/ \E key \in Keys, size \in Sizes : \E row \in NewDocs("approved") : IngestDocument(w, key, row, size)
  \/ \E key \in Keys : \E row \in NewDocs("candidate") : SubmitDocument(w, key, row)
  \/ \E key \in Keys : ApproveDocument(w, key) \/ RetireDocument(w, key)
  \/ \E key \in Keys, cause \in Causes \cup {NoCause} : \E row \in NewDocs("approved") :
       IngestGraphDocument(w, key, [row EXCEPT !.cause = cause])
  \/ \E key \in Keys, v \in Versions : \E row \in NewDocs("approved") : SupersedeDocument(w, key, v, row)

RecordRequest(w) ==
  \E r \in Records :
    \/ ApproveRecord(w, r) \/ RetireRecord(w, r)
    \/ \E s \in {"draft", "approved", "rejected"} : CreateRecord(w, r, s) \/ UpdateRecord(w, r, s)

HandlerStep(w) ==
  \/ PutCase(w) \/ RereadCase(w) \/ AddFeedback(w) \/ PutCandidate(w)
  \/ PutDoc(w) \/ ListChunks(w) \/ DeleteChunks(w) \/ PutChunks(w) \/ UpsertIndex(w)
  \/ PutRecord(w) \/ UpsertGraph(w)

KNext ==
  \/ \E w \in KWorkers :
       \/ CaseRequest(w) \/ DocRequest(w) \/ RecordRequest(w)
       \/ HandlerStep(w) \/ FailHandler(w)
  \/ Restart

KSpec == KInit /\ [][KNext]_kvars

-----------------------------------------------------------------------------
KTypeOK ==
  /\ DOMAIN cases \subseteq Cases /\ \A c \in DOMAIN cases : cases[c] \in CaseRow
  /\ reviewed \subseteq Cases
  /\ DOMAIN candidates \subseteq Cases /\ \A c \in DOMAIN candidates : candidates[c] \in CandidateRow
  /\ DOMAIN docs \subseteq Keys /\ \A k \in DOMAIN docs : docs[k] \in DocRow
  /\ DOMAIN chunks \subseteq ChunkIds /\ \A id \in DOMAIN chunks : chunks[id] \in ChunkRow
  /\ DOMAIN index \subseteq ChunkIds /\ \A id \in DOMAIN index : index[id] \in ChunkRow
  /\ DOMAIN fmea \subseteq Records /\ \A r \in DOMAIN fmea : fmea[r] \in DocStatus
  /\ confirmed \subseteq Cases \X Causes
  /\ approved \subseteq Keys \cup Records
  /\ resolved \subseteq Cases

\* Only what people confirmed is learned: a knowledge candidate, and an edge the
\* graph has from a case, name a cause an engineer gave for that very case in a
\* review or a resolution, whatever stale rows the handlers put back
\* (docs/ARCHITECTURE_V1_2.md, "Knowledge promotion").
LearnedFromConfirmed ==
  /\ \A c \in DOMAIN candidates : <<c, candidates[c].cause>> \in confirmed
  /\ \A g \in graph : g.kind = "case" => <<g.key, g.cause>> \in confirmed

\* A document or an FMEA record that the platform itself brings into the graph, by
\* approval, promotion or the ingestion at startup, was stored as approved before,
\* across failures and restarts (docs/ARCHITECTURE_V1_3.md, "Automatic graph
\* promotion").  A caller of ingest-document brings in what it likes.
GraphOnlyApproved == \A g \in graph : g.kind \notin {"case", "payload"} => g.key \in approved

\* A promotion that is recorded has happened: the document of an approved
\* candidate is stored and the search backend knows it, although promotion writes
\* document, chunks, index and candidate one after the other.
PromotedIsSearchable ==
  \A c \in DOMAIN candidates : \A key \in candidates[c].doc :
    /\ key \in DOMAIN docs
    /\ Backend = "vector" => \E id \in DOMAIN index : id[1] = key

\* A closed case was resolved at some time, although close checks the status of
\* one reading and puts another.
ClosedWasResolved == \A c \in DOMAIN cases : cases[c].status = "closed" => c \in resolved
=============================================================================
