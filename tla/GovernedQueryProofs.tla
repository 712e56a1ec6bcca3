-------------------------- MODULE GovernedQueryProofs --------------------------
(***************************************************************************)
(* What GovernedQuery guarantees for every semantic model, role, question, *)
(* number of threads and cache limits, whatever reloads, failures, deaths  *)
(* and expiries happen.  First what the searches of the planner compute,   *)
(* for every graph of entities; then that an answer, computed or cached,   *)
(* is about one entity and obeys the policies it was computed under for    *)
(* the caller it is given to, that an answer that can be served again was  *)
(* recorded and audited, and that what callers were told is what the       *)
(* trail, the telemetry and the counts say; last the order of metrics.     *)
(***************************************************************************)
EXTENDS GovernedQuery, FiniteSetTheorems, SequenceTheorems, WellFoundedInduction, TLAPS

-----------------------------------------------------------------------------
(* Functions that are defined by recursion.                                *)

\* What holds of 0 and passes from a number to the next holds up to n.
LEMMA Stepwise ==
  ASSUME NEW n \in Nat, NEW T, 0 \in T, \A k \in 1 .. n : k - 1 \in T => k \in T
  PROVE  \A k \in 0 .. n : k \in T
<1> DEFINE U == {k \in 0 .. n : k \notin T}
<1> SUFFICES ASSUME U # {} PROVE FALSE
  OBVIOUS
<1>1. U \subseteq Nat
  OBVIOUS
<1>2. PICK k \in U : \A j \in U : ~ (<<j, k>> \in OpToRel(<, Nat))
  <2> HIDE DEF U
  <2> QED BY <1>1, NatLessThanWellFounded, WFMin
<1>3. \A j \in U : ~ (j < k)
  <2> HIDE DEF U
  <2> QED BY <1>1, <1>2 DEF OpToRel
<1>4. k \in 0 .. n /\ k \notin T
  BY <1>2
<1>4a. k # 0
  BY <1>4
<1>4b. k \in 1 .. n
  BY <1>4, <1>4a
<1>5. k - 1 \in 0 .. n /\ k - 1 < k
  BY <1>4b
<1>6. k - 1 \in T
  BY <1>3, <1>5
<1> QED BY <1>4, <1>4b, <1>6

Iterates(g, n, base, step) == g[0] = base /\ \A k \in 1 .. n : g[k] = step[<<g[k - 1], k>>]

\* A function may be defined by its first value and how each follows from the last.
LEMMA Recursion ==
  ASSUME NEW S, NEW n \in Nat, NEW base \in S, NEW step \in [S \X (1 .. n) -> S]
  PROVE  \E g \in [0 .. n -> S] : Iterates(g, n, base, step)
<1> DEFINE Upto(j, g) == g[0] = base /\ \A k \in 1 .. j : g[k] = step[<<g[k - 1], k>>]
           T == {j \in 0 .. n : \E g \in [0 .. j -> S] : Upto(j, g)}
<1>1. 0 \in T
  <2> DEFINE g == [k \in 0 .. 0 |-> base]
  <2>1. g \in [0 .. 0 -> S] /\ g[0] = base
    OBVIOUS
  <2>2. \A k \in 1 .. 0 : FALSE
    OBVIOUS
  <2>3. Upto(0, g)
    BY <2>1, <2>2
  <2> HIDE DEF g, Upto
  <2> QED BY <2>1, <2>3
<1>2. ASSUME NEW j \in 1 .. n, j - 1 \in T PROVE j \in T
  <2>1. PICK g \in [0 .. j - 1 -> S] : Upto(j - 1, g)
    BY <1>2
  <2> DEFINE last == step[<<g[j - 1], j>>]
             h == [k \in 0 .. j |-> IF k = j THEN last ELSE g[k]]
  <2>2. g[j - 1] \in S /\ last \in S
    BY <2>1
  <2>3. \A k \in 0 .. j : k # j => k \in 0 .. j - 1
    OBVIOUS
  <2>4. h \in [0 .. j -> S]
    BY <2>1, <2>2, <2>3
  <2>5. h[0] = base
    BY <2>1
  <2>6. ASSUME NEW k \in 1 .. j PROVE h[k] = step[<<h[k - 1], k>>]
    <3>1. k - 1 \in 0 .. j /\ k - 1 # j /\ k \in 0 .. j
      OBVIOUS
    <3>2. h[k - 1] = g[k - 1]
      BY <3>1
    <3>3. CASE k = j
      BY <3>1, <3>2, <3>3
    <3>4. CASE k # j
      <4>1. k \in 1 .. j - 1
        BY <3>4
      <4>2. g[k] = step[<<g[k - 1], k>>]
        BY <4>1, <2>1
      <4> QED BY <3>1, <3>2, <3>4, <4>2
    <3> QED BY <3>3, <3>4
  <2>7. Upto(j, h)
    BY <2>5, <2>6
  <2> HIDE DEF h, Upto
  <2> QED BY <2>4, <2>7
<1>3. n \in T
  <2> HIDE DEF T
  <2>1. \A k \in 0 .. n : k \in T
    BY <1>1, <1>2, Stepwise
  <2> QED BY <2>1
<1> QED BY <1>3 DEF Iterates

-----------------------------------------------------------------------------
(* The search terminates where its recursive definitions say it does.      *)

\* A search among the entities P.
Searches(P) == [queue : Seq(Seq(P)), visited : SUBSET P, found : Seq(P)]

LEMMA VisitTyped ==
  ASSUME NEW P, NEW s \in Searches(P), NEW path \in Seq(P), NEW to \in P, NEW from, NEW target
  PROVE  Visit(target, path, s, from, to) \in Searches(P)
<1>1. Append(path, to) \in Seq(P)
  BY AppendProperties
<1>2. s.queue \in Seq(Seq(P))
  BY DEF Searches
<1>3. Append(s.queue, Append(path, to)) \in Seq(Seq(P))
  BY <1>1, <1>2, AppendProperties
<1> QED BY <1>1, <1>3 DEF Visit, Searches

\* Both edges of a relationship.
Across(target, path, s, r) ==
  Visit(target, path, Visit(target, path, s, r.from, r.to), r.to, r.from)

LEMMA TriedDef ==
  ASSUME NEW o, o.rels \in Seq(Range(o.rels)), NEW P, Joined(o) \subseteq P,
         NEW s \in Searches(P), NEW path \in Seq(P), NEW target
  PROVE  /\ Tried(o, target, path, s)[0] = s
         /\ \A k \in 1 .. Len(o.rels) :
              Tried(o, target, path, s)[k] = Across(target, path, Tried(o, target, path, s)[k - 1], o.rels[k])
         /\ \A k \in 0 .. Len(o.rels) : Tried(o, target, path, s)[k] \in Searches(P)
<1> DEFINE n == Len(o.rels)
           f == Tried(o, target, path, s)
           step == [p \in Searches(P) \X (1 .. n) |-> Across(target, path, p[1], o.rels[p[2]])]
           Eq(g) == g = [k \in 0 .. n |-> IF k = 0 THEN s ELSE Across(target, path, g[k - 1], o.rels[k])]
<1>1. n \in Nat
  BY LenProperties
<1>2. \A k \in 1 .. n : o.rels[k].from \in P /\ o.rels[k].to \in P
  <2>1. \A k \in 1 .. n : o.rels[k] \in Range(o.rels)
    BY ElementOfSeq, LenProperties
  <2> QED BY <2>1 DEF Joined
<1>3. ASSUME NEW t \in Searches(P), NEW k \in 1 .. n PROVE Across(target, path, t, o.rels[k]) \in Searches(P)
  BY <1>2, VisitTyped DEF Across
<1>4. step \in [Searches(P) \X (1 .. n) -> Searches(P)]
  BY <1>3
<1>5. PICK g \in [0 .. n -> Searches(P)] : Iterates(g, n, s, step)
  <2> HIDE DEF step, n
  <2> QED BY <1>1, <1>4, Recursion
<1>6. ASSUME NEW k \in 0 .. n, k # 0 PROVE g[k] = Across(target, path, g[k - 1], o.rels[k])
  <2>1. k \in 1 .. n /\ k - 1 \in 0 .. n
    BY <1>1, <1>6
  <2>2. <<g[k - 1], k>> \in Searches(P) \X (1 .. n)
    BY <1>5, <2>1
  <2> QED BY <1>5, <2>1, <2>2 DEF Iterates
<1>7. Eq(g)
  BY <1>5, <1>6 DEF Iterates
<1>8. f = CHOOSE h : Eq(h)
  BY DEF Tried, Across
<1>9. Eq(f)
  <2> HIDE DEF Eq, f
  <2> QED BY <1>7, <1>8
<1>10. f[0] = s /\ \A k \in 1 .. n : f[k] = Across(target, path, f[k - 1], o.rels[k])
  <2>1. 0 \in 0 .. n /\ \A k \in 1 .. n : k \in 0 .. n /\ k # 0
    BY <1>1
  <2> HIDE DEF f, n
  <2> QED BY <1>9, <2>1
<1>11. \A k \in 0 .. n : f[k] \in Searches(P)
  <2> DEFINE T == {k \in 0 .. n : f[k] \in Searches(P)}
  <2> HIDE DEF f, n
  <2>1. 0 \in T
    BY <1>1, <1>10
  <2>2. ASSUME NEW k \in 1 .. n, k - 1 \in T PROVE k \in T
    BY <1>1, <1>3, <1>10, <2>2
  <2> HIDE DEF T
  <2>3. \A k \in 0 .. n : k \in T
    BY <1>1, <2>1, <2>2, Stepwise
  <2> QED BY <2>3 DEF T
<1> QED BY <1>10, <1>11

LEMMA PoppedDef ==
  ASSUME NEW o, o.rels \in Seq(Range(o.rels)), NEW P, Joined(o) \subseteq P,
         NEW s \in Searches(P), NEW target
  PROVE  /\ Popped(o, target, s)[0] = [s EXCEPT !.queue = <<>>]
         /\ \A k \in 1 .. Len(s.queue) :
              Popped(o, target, s)[k] = Tried(o, target, s.queue[k], Popped(o, target, s)[k - 1])[Len(o.rels)]
         /\ \A k \in 0 .. Len(s.queue) : Popped(o, target, s)[k] \in Searches(P)
<1> DEFINE n == Len(s.queue)
           f == Popped(o, target, s)
           base == [s EXCEPT !.queue = <<>>]
           next(t, k) == Tried(o, target, s.queue[k], t)[Len(o.rels)]
           step == [p \in Searches(P) \X (1 .. n) |-> next(p[1], p[2])]
           Eq(g) == g = [k \in 0 .. n |-> IF k = 0 THEN base ELSE next(g[k - 1], k)]
<1>1. n \in Nat /\ Len(o.rels) \in Nat /\ s.queue \in Seq(Seq(P))
  BY LenProperties DEF Searches
<1>2. base \in Searches(P)
  BY EmptySeq DEF Searches
<1>3. ASSUME NEW t \in Searches(P), NEW k \in 1 .. n PROVE next(t, k) \in Searches(P)
  <2>1. s.queue[k] \in Seq(P)
    BY <1>1, ElementOfSeq
  <2>2. Len(o.rels) \in 0 .. Len(o.rels)
    BY <1>1
  <2> QED BY <2>1, <2>2, TriedDef
<1>4. step \in [Searches(P) \X (1 .. n) -> Searches(P)]
  <2> HIDE DEF next, n
  <2> QED BY <1>3
<1>5. PICK g \in [0 .. n -> Searches(P)] : Iterates(g, n, base, step)
  <2> HIDE DEF step, n, base
  <2> QED BY <1>1, <1>2, <1>4, Recursion
<1>6. ASSUME NEW k \in 0 .. n, k # 0 PROVE g[k] = next(g[k - 1], k)
  <2>1. k \in 1 .. n /\ k - 1 \in 0 .. n
    BY <1>1, <1>6
  <2>2. <<g[k - 1], k>> \in Searches(P) \X (1 .. n)
    BY <1>5, <2>1
  <2> HIDE DEF next, n, base
  <2> QED BY <1>5, <2>1, <2>2 DEF Iterates
<1>7. Eq(g)
  <2> HIDE DEF next, n, base, step
  <2> QED BY <1>5, <1>6 DEF Iterates
<1>8. f = CHOOSE h : Eq(h)
  BY DEF Popped
<1>9. Eq(f)
  <2> HIDE DEF Eq, f
  <2> QED BY <1>7, <1>8
<1>10. f[0] = base /\ \A k \in 1 .. n : f[k] = next(f[k - 1], k)
  <2>1. 0 \in 0 .. n /\ \A k \in 1 .. n : k \in 0 .. n /\ k # 0
    BY <1>1
  <2> HIDE DEF f, n, next, base
  <2> QED BY <1>9, <2>1
<1>11. \A k \in 0 .. n : f[k] \in Searches(P)
  <2> DEFINE T == {k \in 0 .. n : f[k] \in Searches(P)}
  <2> HIDE DEF f, n, next, base
  <2>1. 0 \in T
    BY <1>1, <1>2, <1>10
  <2>2. ASSUME NEW k \in 1 .. n, k - 1 \in T PROVE k \in T
    BY <1>1, <1>3, <1>10, <2>2
  <2> HIDE DEF T
  <2>3. \A k \in 0 .. n : k \in T
    BY <1>1, <2>1, <2>2, Stepwise
  <2> QED BY <2>3 DEF T
<1> QED BY <1>10, <1>11

\* The search before the first hop.
Setout(source) == [queue |-> <<<<source>>>>, visited |-> {source}, found |-> <<>>]

LEMMA SearchedDef ==
  ASSUME NEW o, o.rels \in Seq(Range(o.rels)), NEW P, Joined(o) \subseteq P,
         NEW source \in P, NEW target
  PROVE  /\ Searched(o, source, target)[0] = Setout(source)
         /\ \A k \in 1 .. MaxHops :
              Searched(o, source, target)[k] =
                Popped(o, target, Searched(o, source, target)[k - 1])[Len(Searched(o, source, target)[k - 1].queue)]
         /\ \A k \in 0 .. MaxHops : Searched(o, source, target)[k] \in Searches(P)
<1> DEFINE n == MaxHops
           f == Searched(o, source, target)
           base == Setout(source)
           next(t) == Popped(o, target, t)[Len(t.queue)]
           step == [p \in Searches(P) \X (1 .. n) |-> next(p[1])]
           Eq(g) == g = [k \in 0 .. n |-> IF k = 0 THEN base ELSE next(g[k - 1])]
<1>1. n \in Nat
  BY HopsAssumption
<1>2. base \in Searches(P)
  <2>1. <<source>> \in Seq(P) /\ <<<<source>>>> \in Seq(Seq(P)) /\ <<>> \in Seq(P)
    OBVIOUS
  <2> QED BY <2>1 DEF Searches, Setout
<1>3. ASSUME NEW t \in Searches(P) PROVE next(t) \in Searches(P)
  <2>1. Len(t.queue) \in 0 .. Len(t.queue)
    BY LenProperties DEF Searches
  <2> QED BY <2>1, PoppedDef
<1>4. step \in [Searches(P) \X (1 .. n) -> Searches(P)]
  <2> HIDE DEF next, n
  <2> QED BY <1>3
<1>5. PICK g \in [0 .. n -> Searches(P)] : Iterates(g, n, base, step)
  <2> HIDE DEF step, n, base
  <2> QED BY <1>1, <1>2, <1>4, Recursion
<1>6. ASSUME NEW k \in 0 .. n, k # 0 PROVE g[k] = next(g[k - 1])
  <2>1. k \in 1 .. n /\ k - 1 \in 0 .. n
    BY <1>1, <1>6
  <2>2. <<g[k - 1], k>> \in Searches(P) \X (1 .. n)
    BY <1>5, <2>1
  <2> HIDE DEF next, n, base
  <2> QED BY <1>5, <2>1, <2>2 DEF Iterates
<1>7. Eq(g)
  <2> HIDE DEF next, n, base, step
  <2> QED BY <1>5, <1>6 DEF Iterates
<1>8. f = CHOOSE h : Eq(h)
  BY DEF Searched, Setout
<1>9. Eq(f)
  <2> HIDE DEF Eq, f
  <2> QED BY <1>7, <1>8
<1>10. f[0] = base /\ \A k \in 1 .. n : f[k] = next(f[k - 1])
  <2>1. 0 \in 0 .. n /\ \A k \in 1 .. n : k \in 0 .. n /\ k # 0
    BY <1>1
  <2> HIDE DEF f, n, next, base
  <2> QED BY <1>9, <2>1
<1>11. \A k \in 0 .. n : f[k] \in Searches(P)
  <2> DEFINE T == {k \in 0 .. n : f[k] \in Searches(P)}
  <2> HIDE DEF f, n, next, base
  <2>1. 0 \in T
    BY <1>1, <1>2, <1>10
  <2>2. ASSUME NEW k \in 1 .. n, k - 1 \in T PROVE k \in T
    BY <1>1, <1>3, <1>10, <2>2
  <2> HIDE DEF T
  <2>3. \A k \in 0 .. n : k \in T
    BY <1>1, <2>1, <2>2, Stepwise
  <2> QED BY <2>3 DEF T
<1> QED BY <1>10, <1>11

\* The entities within k joins of e.
LEMMA NearDef ==
  ASSUME NEW o, NEW e
  PROVE  /\ Near(o, e)[0] = {e}
         /\ \A k \in 1 .. MaxHops :
              Near(o, e)[k] = Near(o, e)[k - 1] \cup {y \in Joined(o) : \E x \in Near(o, e)[k - 1] : Adjacent(o, x, y)}
<1> DEFINE S == SUBSET ({e} \cup Joined(o))
           n == MaxHops
           f == Near(o, e)
           next(b) == b \cup {y \in Joined(o) : \E x \in b : Adjacent(o, x, y)}
           step == [p \in S \X (1 .. n) |-> next(p[1])]
           Eq(g) == g = [k \in 0 .. n |-> IF k = 0 THEN {e} ELSE next(g[k - 1])]
<1>1. n \in Nat
  BY HopsAssumption
<1>2. {e} \in S
  OBVIOUS
<1>3. ASSUME NEW b \in S PROVE next(b) \in S
  OBVIOUS
<1>4. step \in [S \X (1 .. n) -> S]
  <2> HIDE DEF next, n, S
  <2> QED BY <1>3
<1>5. PICK g \in [0 .. n -> S] : Iterates(g, n, {e}, step)
  <2> HIDE DEF step, n, S
  <2> QED BY <1>1, <1>2, <1>4, Recursion
<1>6. ASSUME NEW k \in 0 .. n, k # 0 PROVE g[k] = next(g[k - 1])
  <2>1. k \in 1 .. n /\ k - 1 \in 0 .. n
    BY <1>1, <1>6
  <2>2. <<g[k - 1], k>> \in S \X (1 .. n)
    BY <1>5, <2>1
  <2> HIDE DEF next, n, S
  <2> QED BY <1>5, <2>1, <2>2 DEF Iterates
<1>7. Eq(g)
  <2> HIDE DEF next, n, S, step
  <2> QED BY <1>5, <1>6 DEF Iterates
<1>8. f = CHOOSE h : Eq(h)
  BY DEF Near
<1>9. Eq(f)
  <2> HIDE DEF Eq, f
  <2> QED BY <1>7, <1>8
<1>10. 0 \in 0 .. n /\ \A k \in 1 .. n : k \in 0 .. n /\ k # 0
  BY <1>1
<1> HIDE DEF f, n, next
<1>11. f[0] = {e} /\ \A k \in 1 .. n : f[k] = next(f[k - 1])
  BY <1>9, <1>10
<1> QED BY <1>11 DEF f, n, next

-----------------------------------------------------------------------------
(* Breadth first: after n hops the search has visited what lies within n   *)
(* joins, and its queue leads to what lies exactly n joins away.           *)

\* A path of n joins from x, no entity of which could be reached sooner.
Direct(o, x, n, p) ==
  /\ Len(p) = n + 1 /\ p[1] = x
  /\ \A k \in 2 .. n + 1 : Adjacent(o, p[k - 1], p[k]) /\ p[k] \in Near(o, x)[k - 1] \ Near(o, x)[k - 2]

LEMMA NearGrows ==
  ASSUME NEW o, NEW x
  PROVE  /\ \A k \in 1 .. MaxHops : Near(o, x)[k - 1] \subseteq Near(o, x)[k]
         /\ \A k \in 0 .. MaxHops : x \in Near(o, x)[k]
<1> DEFINE near == Near(o, x)
           T == {k \in 0 .. MaxHops : x \in near[k]}
<1>1. near[0] = {x} /\ \A k \in 1 .. MaxHops : near[k - 1] \subseteq near[k]
  BY NearDef
<1> HIDE DEF near
<1>2. 0 \in T /\ MaxHops \in Nat
  BY <1>1, HopsAssumption
<1>3. \A k \in 1 .. MaxHops : k - 1 \in T => k \in T
  BY <1>1, HopsAssumption
<1> HIDE DEF T
<1>4. \A k \in 0 .. MaxHops : k \in T
  BY <1>2, <1>3, Stepwise
<1> USE DEF T
<1> QED BY <1>1, <1>4 DEF near

\* A direct path ends where only n joins lead.
LEMMA DirectEnds ==
  ASSUME NEW o, NEW x, NEW n \in 0 .. MaxHops, NEW p, Direct(o, x, n, p)
  PROVE  Last(p) \in Near(o, x)[n] /\ p # <<>>
<1>1. n \in Nat /\ Last(p) = p[n + 1] /\ p # <<>>
  BY HopsAssumption DEF Direct, Last
<1>2. CASE n = 0
  BY <1>1, <1>2, NearDef DEF Direct
<1>3. CASE n # 0
  <2>1. n + 1 \in 2 .. n + 1 /\ n + 1 - 1 = n
    BY <1>1, <1>3
  <2>2. p[n + 1] \in Near(o, x)[n + 1 - 1]
    BY <2>1 DEF Direct
  <2> QED BY <1>1, <2>1, <2>2
<1> QED BY <1>2, <1>3

\* A direct path goes on to a neighbour that is not within n joins.
LEMMA DirectExtends ==
  ASSUME NEW o, NEW x, NEW n \in 1 .. MaxHops, NEW P, NEW p \in Seq(P), Direct(o, x, n - 1, p),
         NEW y \in P, y \in Joined(o), Adjacent(o, Last(p), y), y \notin Near(o, x)[n - 1]
  PROVE  /\ Direct(o, x, n, Append(p, y)) /\ Last(Append(p, y)) = y
         /\ y \in Near(o, x)[n] /\ Append(p, y) # <<>>
<1> DEFINE q == Append(p, y)
           near == Near(o, x)
<1>1. n \in Nat \ {0} /\ n - 1 \in 0 .. MaxHops /\ Len(p) = n /\ p[1] = x
  BY HopsAssumption DEF Direct
<1>2. /\ Len(q) = n + 1 /\ q[n + 1] = y
      /\ \A k \in 1 .. n : q[k] = p[k]
  BY <1>1, AppendProperties
<1>3. Last(p) = p[n] /\ Last(p) \in near[n - 1]
  BY <1>1, DirectEnds DEF Last
<1>4. y \in near[n]
  <2> HIDE DEF near
  <2>1. near[n] = near[n - 1] \cup {z \in Joined(o) : \E w \in near[n - 1] : Adjacent(o, w, z)}
    BY NearDef DEF near
  <2> QED BY <2>1, <1>3
<1>5. q[1] = x /\ q[n] = p[n]
  BY <1>1, <1>2
<1>6. ASSUME NEW k \in 2 .. n + 1
      PROVE  Adjacent(o, q[k - 1], q[k]) /\ q[k] \in near[k - 1] \ near[k - 2]
  <2>1. CASE k = n + 1
    <3>1. k - 1 = n /\ k - 2 = n - 1
      BY <2>1, <1>1
    <3>2. q[k] = y /\ q[k - 1] = p[n]
      BY <2>1, <3>1, <1>2, <1>5
    <3> HIDE DEF near, q
    <3> QED BY <3>1, <3>2, <1>3, <1>4 DEF near
  <2>2. CASE k # n + 1
    <3>1. k \in 2 .. n - 1 + 1 /\ k \in 1 .. n /\ k - 1 \in 1 .. n
      BY <2>2, <1>1
    <3>2. Adjacent(o, p[k - 1], p[k]) /\ p[k] \in near[k - 1] \ near[k - 2]
      BY <3>1 DEF Direct
    <3>3. q[k] = p[k] /\ q[k - 1] = p[k - 1]
      BY <3>1, <1>2
    <3> HIDE DEF near, q
    <3> QED BY <3>2, <3>3
  <2> QED BY <2>1, <2>2
<1>7. Last(q) = y /\ q # <<>>
  BY <1>1, <1>2 DEF Last
<1> HIDE DEF q, near
<1>8. Direct(o, x, n, q)
  BY <1>2, <1>5, <1>6 DEF Direct, near
<1> QED BY <1>4, <1>7, <1>8 DEF q, near

\* The target was found at the end of a direct path of at most n joins.
FoundAt(o, x, target, n, t) ==
  \E m \in 1 .. n : Direct(o, x, m, t.found) /\ Last(t.found) = target

\* After n hops.
Level(o, x, target, n, s) ==
  /\ target \notin s.visited
  /\ s.found = <<>> =>
       /\ s.visited = Near(o, x)[n]
       /\ \A i \in 1 .. Len(s.queue) : Direct(o, x, n, s.queue[i])
       /\ \A y \in Near(o, x)[n] : n = 0 \/ y \notin Near(o, x)[n - 1] =>
            \E i \in 1 .. Len(s.queue) : Last(s.queue[i]) = y
  /\ s.found # <<>> => FoundAt(o, x, target, n, s)

\* During the hop that makes the paths n joins long.
Hopping(o, x, target, n, t) ==
  /\ target \notin t.visited
  /\ t.found = <<>> =>
       /\ Near(o, x)[n - 1] \subseteq t.visited /\ t.visited \subseteq Near(o, x)[n]
       /\ \A i \in 1 .. Len(t.queue) : Direct(o, x, n, t.queue[i])
       /\ \A y \in t.visited : y \notin Near(o, x)[n - 1] =>
            \E i \in 1 .. Len(t.queue) : Last(t.queue[i]) = y
  /\ t.found # <<>> => FoundAt(o, x, target, n, t)

\* A search only goes on while nothing is found, and forgets nothing it visited.
Onward(s, t) == t.found = <<>> => s.found = <<>> /\ s.visited \subseteq t.visited

LEMMA VisitHops ==
  ASSUME NEW o, NEW x, NEW target, NEW n \in 1 .. MaxHops, NEW P, NEW t \in Searches(P),
         Hopping(o, x, target, n, t),
         NEW path \in Seq(P), Direct(o, x, n - 1, path),
         NEW from, NEW to \in P, to \in Joined(o), Adjacent(o, from, to)
  PROVE  /\ Hopping(o, x, target, n, Visit(target, path, t, from, to))
         /\ Onward(t, Visit(target, path, t, from, to))
         /\ Visit(target, path, t, from, to).found = <<>> /\ from = Last(path) =>
              to \in Visit(target, path, t, from, to).visited
<1> DEFINE v == Visit(target, path, t, from, to)
<1>0. /\ t.queue \in Seq(Seq(P)) /\ t.found \in Seq(P) /\ t.visited \subseteq P
      /\ Append(path, to) \in Seq(P)
      /\ "queue" \in DOMAIN t /\ "found" \in DOMAIN t /\ "visited" \in DOMAIN t
  BY AppendProperties DEF Searches
<1>1. CASE from # Last(path) \/ t.found # <<>> \/ to \in t.visited
  BY <1>1 DEF Visit, Onward
<1>2. CASE ~ (from # Last(path) \/ t.found # <<>> \/ to \in t.visited)
  <2>1. from = Last(path) /\ t.found = <<>> /\ to \notin t.visited /\ to \notin Near(o, x)[n - 1]
    BY <1>2 DEF Hopping
  <2>2. /\ Direct(o, x, n, Append(path, to)) /\ Last(Append(path, to)) = to
        /\ to \in Near(o, x)[n] /\ Append(path, to) # <<>>
    BY <2>1, DirectExtends
  <2>3. CASE to = target
    <3>1. v.found = Append(path, to) /\ v.visited = t.visited
      BY <1>0, <1>2, <2>3 DEF Visit
    <3>2. n \in 1 .. n
      BY HopsAssumption
    <3>3. FoundAt(o, x, target, n, v)
      BY <3>1, <3>2, <2>2, <2>3 DEF FoundAt
    <3> HIDE DEF v
    <3>4. Hopping(o, x, target, n, v)
      BY <3>1, <3>3, <2>2 DEF Hopping
    <3> QED BY <3>1, <3>4, <2>2 DEF v, Onward
  <2>4. CASE to # target
    <3>1. /\ v.found = t.found /\ v.visited = t.visited \cup {to}
          /\ v.queue = Append(t.queue, Append(path, to))
      BY <1>0, <1>2, <2>4 DEF Visit
    <3> HIDE DEF v
    <3>2. /\ Len(t.queue) \in Nat /\ Len(v.queue) = Len(t.queue) + 1
          /\ v.queue[Len(t.queue) + 1] = Append(path, to)
          /\ \A i \in 1 .. Len(t.queue) : v.queue[i] = t.queue[i]
      BY <1>0, <3>1, AppendProperties, LenProperties
    <3>3. \A i \in 1 .. Len(v.queue) : i \in 1 .. Len(t.queue) \/ i = Len(t.queue) + 1
      BY <3>2
    <3>4. \A i \in 1 .. Len(v.queue) : Direct(o, x, n, v.queue[i])
      BY <3>2, <3>3, <2>1, <2>2 DEF Hopping
    <3>5. /\ Len(t.queue) + 1 \in 1 .. Len(v.queue)
          /\ \A i \in 1 .. Len(t.queue) : i \in 1 .. Len(v.queue)
      BY <3>2
    <3>6. ASSUME NEW y \in v.visited, y \notin Near(o, x)[n - 1]
          PROVE  \E i \in 1 .. Len(v.queue) : Last(v.queue[i]) = y
      <4>1. CASE y = to
        BY <4>1, <3>2, <3>5, <2>2
      <4>2. CASE y \in t.visited
        <5>1. PICK i \in 1 .. Len(t.queue) : Last(t.queue[i]) = y
          BY <4>2, <3>6, <2>1 DEF Hopping
        <5> QED BY <5>1, <3>2, <3>5
      <4> QED BY <4>1, <4>2, <3>1
    <3>7. /\ Near(o, x)[n - 1] \subseteq v.visited /\ v.visited \subseteq Near(o, x)[n]
          /\ target \notin v.visited
      BY <3>1, <2>1, <2>2, <2>4 DEF Hopping
    <3>8. Hopping(o, x, target, n, v)
      BY <3>1, <3>4, <3>6, <3>7, <2>1 DEF Hopping
    <3> QED BY <3>1, <3>8 DEF v, Onward
  <2> QED BY <2>3, <2>4
<1> QED BY <1>1, <1>2

\* What the neighbours of an entity are, as the list of relationships has them.
Crossed(o, e, k, t) ==
  \A j \in 1 .. k : /\ o.rels[j].from = e => o.rels[j].to \in t.visited
                    /\ o.rels[j].to = e => o.rels[j].from \in t.visited

\* A path tried extends to every neighbour of where it leads.
LEMMA TriedHops ==
  ASSUME NEW o, o.rels \in Seq(Range(o.rels)), NEW x, NEW target, NEW n \in 1 .. MaxHops,
         NEW P, Joined(o) \subseteq P, NEW t \in Searches(P), Hopping(o, x, target, n, t),
         NEW path \in Seq(P), Direct(o, x, n - 1, path), NEW v, v = Tried(o, target, path, t)[Len(o.rels)]
  PROVE  /\ Hopping(o, x, target, n, v) /\ Onward(t, v)
         /\ v.found = <<>> => \A y : Adjacent(o, Last(path), y) => y \in v.visited
<1> DEFINE f == Tried(o, target, path, t)
           N == Len(o.rels)
           T == {k \in 0 .. N : /\ Hopping(o, x, target, n, f[k]) /\ Onward(t, f[k])
                                /\ f[k].found = <<>> => Crossed(o, Last(path), k, f[k])}
<1>1. /\ f[0] = t
      /\ \A k \in 1 .. N : f[k] = Across(target, path, f[k - 1], o.rels[k])
      /\ \A k \in 0 .. N : f[k] \in Searches(P)
  BY TriedDef
<1>2. N \in Nat /\ \A k \in 1 .. N : o.rels[k] \in Range(o.rels)
  BY LenProperties, ElementOfSeq
<1> HIDE DEF f, N
<1>3. 0 \in T
  <2>1. \A j \in 1 .. 0 : FALSE
    OBVIOUS
  <2> QED BY <1>1, <1>2, <2>1 DEF Crossed, Onward
<1>4. ASSUME NEW k \in 1 .. N, k - 1 \in T PROVE k \in T
  <2> DEFINE a == f[k - 1]
             r == o.rels[k]
             b == Visit(target, path, a, r.from, r.to)
             c == Visit(target, path, b, r.to, r.from)
  <2>1. k - 1 \in 0 .. N /\ k \in 0 .. N /\ \A j \in 1 .. k : j \in 1 .. k - 1 \/ j = k
    BY <1>2
  <2>2. a \in Searches(P) /\ f[k] = c
    BY <1>1, <2>1 DEF Across
  <2>3. /\ r.from \in Joined(o) /\ r.to \in Joined(o)
        /\ Adjacent(o, r.from, r.to) /\ Adjacent(o, r.to, r.from)
    BY <1>2 DEF Joined, Adjacent
  <2>4. /\ Hopping(o, x, target, n, a) /\ Onward(t, a)
        /\ a.found = <<>> => Crossed(o, Last(path), k - 1, a)
    BY <1>4
  <2> HIDE DEF a, T
  <2>5. b \in Searches(P)
    BY <2>2, <2>3, VisitTyped
  <2>6. /\ Hopping(o, x, target, n, b) /\ Onward(a, b)
        /\ b.found = <<>> /\ r.from = Last(path) => r.to \in b.visited
    BY <2>2, <2>3, <2>4, VisitHops
  <2> HIDE DEF b
  <2>7. /\ Hopping(o, x, target, n, c) /\ Onward(b, c)
        /\ c.found = <<>> /\ r.to = Last(path) => r.from \in c.visited
    BY <2>3, <2>5, <2>6, VisitHops
  <2> HIDE DEF c
  <2>8. Onward(t, c) /\ Onward(a, c)
    BY <2>4, <2>6, <2>7 DEF Onward
  <2>9. ASSUME c.found = <<>> PROVE Crossed(o, Last(path), k, c)
    <3>1. a.found = <<>> /\ b.found = <<>> /\ a.visited \subseteq c.visited /\ b.visited \subseteq c.visited
      BY <2>6, <2>7, <2>8, <2>9 DEF Onward
    <3>2. Crossed(o, Last(path), k - 1, a)
      BY <2>4, <3>1
    <3> HIDE DEF r
    <3>3. ASSUME NEW j \in 1 .. k - 1
          PROVE  /\ o.rels[j].from = Last(path) => o.rels[j].to \in c.visited
                 /\ o.rels[j].to = Last(path) => o.rels[j].from \in c.visited
      BY <3>1, <3>2 DEF Crossed
    <3>4. /\ r.from = Last(path) => r.to \in c.visited
          /\ r.to = Last(path) => r.from \in c.visited
      BY <2>6, <2>7, <2>9, <3>1
    <3> QED BY <2>1, <3>3, <3>4 DEF Crossed, r
  <2> QED BY <2>1, <2>2, <2>7, <2>8, <2>9 DEF T
<1> HIDE DEF T
<1>5. \A k \in 0 .. N : k \in T
  BY <1>2, <1>3, <1>4, Stepwise
<1>6. /\ Hopping(o, x, target, n, v) /\ Onward(t, v)
      /\ v.found = <<>> => Crossed(o, Last(path), N, v)
  BY <1>2, <1>5 DEF T, f, N
<1>7. ASSUME v.found = <<>>, NEW y, Adjacent(o, Last(path), y) PROVE y \in v.visited
  <2>1. PICK r \in Range(o.rels) : {r.from, r.to} = {Last(path), y}
    BY <1>7 DEF Adjacent
  <2>2. PICK j \in 1 .. N : o.rels[j] = r
    <3>1. DOMAIN o.rels = 1 .. N
      BY LenProperties DEF N
    <3> QED BY <2>1, <3>1 DEF Range
  <2>3. (r.from = Last(path) /\ r.to = y) \/ (r.to = Last(path) /\ r.from = y)
    BY <2>1
  <2> QED BY <2>2, <2>3, <1>6, <1>7 DEF Crossed
<1> QED BY <1>6, <1>7

\* Once the target is found nothing is tried.
LEMMA TriedSettled ==
  ASSUME NEW o, o.rels \in Seq(Range(o.rels)), NEW P, Joined(o) \subseteq P,
         NEW s \in Searches(P), NEW path \in Seq(P), NEW target, s.found # <<>>
  PROVE  Tried(o, target, path, s)[Len(o.rels)] = s
<1> DEFINE f == Tried(o, target, path, s)
           N == Len(o.rels)
           T == {k \in 0 .. N : f[k] = s}
<1>1. N \in Nat /\ f[0] = s /\ \A k \in 1 .. N : f[k] = Across(target, path, f[k - 1], o.rels[k])
  BY TriedDef, LenProperties
<1>2. \A r : Across(target, path, s, r) = s
  BY DEF Across, Visit
<1> HIDE DEF f, N
<1>3. 0 \in T /\ \A k \in 1 .. N : k - 1 \in T => k \in T
  BY <1>1, <1>2
<1> HIDE DEF T
<1>4. \A k \in 0 .. N : k \in T
  BY <1>1, <1>3, Stepwise
<1> QED BY <1>1, <1>4 DEF T, f, N

\* A hop takes the search one join further.
LEMMA PoppedHops ==
  ASSUME NEW o, o.rels \in Seq(Range(o.rels)), NEW x, NEW target, NEW n \in 1 .. MaxHops,
         NEW P, Joined(o) \subseteq P, NEW s \in Searches(P), Level(o, x, target, n - 1, s),
         NEW v, v = Popped(o, target, s)[Len(s.queue)]
  PROVE  Level(o, x, target, n, v)
<1> DEFINE f == Popped(o, target, s)
           N == Len(s.queue)
           near == Near(o, x)
           Left(k, t) == \A j \in 1 .. k : \A y : Adjacent(o, Last(s.queue[j]), y) => y \in t.visited
           T == {k \in 0 .. N : /\ f[k] \in Searches(P)
                                /\ Hopping(o, x, target, n, f[k]) /\ Onward(s, f[k])
                                /\ f[k].found = <<>> => Left(k, f[k])}
<1>1. /\ f[0] = [s EXCEPT !.queue = <<>>]
      /\ \A k \in 1 .. N : f[k] = Tried(o, target, s.queue[k], f[k - 1])[Len(o.rels)]
      /\ \A k \in 0 .. N : f[k] \in Searches(P)
  BY PoppedDef
<1>2. /\ N \in Nat /\ s.queue \in Seq(Seq(P)) /\ Len(o.rels) \in Nat
      /\ "queue" \in DOMAIN s /\ "found" \in DOMAIN s /\ "visited" \in DOMAIN s
  BY LenProperties DEF Searches
<1>3. /\ near[n - 1] \subseteq near[n] /\ n \in Nat \ {0} /\ n - 1 \in 0 .. MaxHops
      /\ near[n] = near[n - 1] \cup {y \in Joined(o) : \E z \in near[n - 1] : Adjacent(o, z, y)}
  BY NearGrows, NearDef, HopsAssumption
<1>4. \A t : FoundAt(o, x, target, n - 1, t) => FoundAt(o, x, target, n, t)
  BY <1>3 DEF FoundAt
<1> HIDE DEF f, near
<1>5. 0 \in T
  <2>1. f[0].queue = <<>> /\ f[0].found = s.found /\ f[0].visited = s.visited
    BY <1>1, <1>2
  <2>2. Len(<<>>) = 0 /\ (\A j \in 1 .. 0 : FALSE) /\ 0 \in 0 .. N
    BY <1>2
  <2>3. Onward(s, f[0]) /\ Left(0, f[0])
    BY <2>1, <2>2 DEF Onward
  <2>4. Hopping(o, x, target, n, f[0])
    <3>1. s.found = <<>> => s.visited = near[n - 1]
      BY DEF Level, near
    <3>2. target \notin s.visited /\ (s.found # <<>> => FoundAt(o, x, target, n, f[0]))
      BY <1>4, <2>1 DEF Level, FoundAt
    <3>3. \A i \in 1 .. Len(f[0].queue) : FALSE
      BY <2>1, <2>2
    <3> QED BY <3>1, <3>2, <3>3, <2>1, <1>3 DEF Hopping, near
  <2> QED BY <1>1, <2>2, <2>3, <2>4
<1>6. ASSUME NEW k \in 1 .. N, k - 1 \in T PROVE k \in T
  <2> DEFINE a == f[k - 1]
             path == s.queue[k]
             c == f[k]
  <2>1. k - 1 \in 0 .. N /\ k \in 0 .. N /\ \A j \in 1 .. k : j \in 1 .. k - 1 \/ j = k
    BY <1>2
  <2>2. /\ a \in Searches(P) /\ Hopping(o, x, target, n, a) /\ Onward(s, a)
        /\ a.found = <<>> => Left(k - 1, a)
    BY <1>6
  <2>3. path \in Seq(P)
    BY <1>2, ElementOfSeq
  <2>4. c = Tried(o, target, path, a)[Len(o.rels)] /\ c \in Searches(P)
    BY <1>1, <2>1
  <2> HIDE DEF a, T
  <2>5. CASE a.found # <<>>
    <3>1. c = a
      BY <2>2, <2>3, <2>4, <2>5, TriedSettled
    <3> QED BY <2>1, <2>2, <2>5, <3>1 DEF T
  <2>6. CASE a.found = <<>>
    <3>1. s.found = <<>>
      BY <2>2, <2>6 DEF Onward
    <3>2. Direct(o, x, n - 1, path)
      BY <3>1 DEF Level
    <3> HIDE DEF c, path
    <3>3. /\ Hopping(o, x, target, n, c) /\ Onward(a, c)
          /\ c.found = <<>> => \A y : Adjacent(o, Last(path), y) => y \in c.visited
      BY <2>2, <2>3, <2>4, <3>2, TriedHops
    <3>4. Onward(s, c)
      BY <2>2, <3>3 DEF Onward
    <3>5. ASSUME c.found = <<>> PROVE Left(k, c)
      <4>1. a.visited \subseteq c.visited
        BY <3>3, <3>5 DEF Onward
      <4>2. \A j \in 1 .. k - 1 : \A y : Adjacent(o, Last(s.queue[j]), y) => y \in c.visited
        BY <4>1, <2>2, <2>6
      <4>3. \A y : Adjacent(o, Last(s.queue[k]), y) => y \in c.visited
        BY <3>3, <3>5 DEF path
      <4> QED BY <2>1, <4>2, <4>3
    <3> HIDE DEF Left
    <3> QED BY <2>1, <2>4, <3>3, <3>4, <3>5 DEF T, c
  <2> QED BY <2>5, <2>6
<1> HIDE DEF T
<1>7. \A k \in 0 .. N : k \in T
  BY <1>2, <1>5, <1>6, Stepwise
<1>8. /\ Hopping(o, x, target, n, v) /\ Onward(s, v)
      /\ v.found = <<>> => Left(N, v)
  <2>1. N \in T /\ v = f[N]
    BY <1>2, <1>7 DEF f
  <2> HIDE DEF Left, N
  <2>2. /\ Hopping(o, x, target, n, f[N]) /\ Onward(s, f[N])
        /\ f[N].found = <<>> => Left(N, f[N])
    BY <2>1 DEF T
  <2> QED BY <2>1, <2>2
<1>9. ASSUME v.found = <<>> PROVE v.visited = near[n]
  <2>1. s.found = <<>> /\ s.visited = near[n - 1] /\ near[n - 1] \subseteq v.visited /\ v.visited \subseteq near[n]
    BY <1>8, <1>9 DEF Onward, Level, near, Hopping
  <2>2. ASSUME NEW y \in near[n] PROVE y \in v.visited
    <3>1. CASE y \in near[n - 1]
      BY <3>1, <2>1
    <3>2. CASE y \notin near[n - 1]
      <4>1. PICK z \in near[n - 1] : Adjacent(o, z, y) /\ y \in Joined(o)
        BY <3>2, <1>3
      <4>2. n - 1 = 0 \/ z \notin near[n - 1 - 1]
        <5> SUFFICES ASSUME n - 1 # 0, z \in near[n - 1 - 1] PROVE FALSE
          OBVIOUS
        <5>1. n - 1 \in 1 .. MaxHops
          BY <1>3
        <5>2. near[n - 1] = near[n - 1 - 1] \cup {w \in Joined(o) : \E u \in near[n - 1 - 1] : Adjacent(o, u, w)}
          BY <5>1, NearDef DEF near
        <5> QED BY <5>2, <4>1, <3>2
      <4>3. PICK i \in 1 .. N : Last(s.queue[i]) = z
        BY <2>1, <4>1, <4>2 DEF Level, near
      <4> QED BY <4>1, <4>3, <1>8, <1>9
    <3> QED BY <3>1, <3>2
  <2> QED BY <2>1, <2>2
<1>10. ASSUME v.found = <<>>, NEW y \in near[n], n = 0 \/ y \notin near[n - 1]
       PROVE  \E i \in 1 .. Len(v.queue) : Last(v.queue[i]) = y
  BY <1>3, <1>8, <1>9, <1>10 DEF Hopping, near
<1> QED BY <1>8, <1>9, <1>10 DEF Level, Hopping, near

LEMMA SearchedLevels ==
  ASSUME NEW o, o.rels \in Seq(Range(o.rels)), NEW x, NEW target, target # x
  PROVE  Level(o, x, target, MaxHops, Searched(o, x, target)[MaxHops])
<1> DEFINE P == {x} \cup Joined(o)
           f == Searched(o, x, target)
           T == {k \in 0 .. MaxHops : Level(o, x, target, k, f[k])}
<1>1. /\ f[0] = Setout(x)
      /\ \A k \in 1 .. MaxHops : f[k] = Popped(o, target, f[k - 1])[Len(f[k - 1].queue)]
      /\ \A k \in 0 .. MaxHops : f[k] \in Searches(P)
  BY SearchedDef
<1>2. MaxHops \in Nat /\ Joined(o) \subseteq P
  BY HopsAssumption
<1> HIDE DEF f, P
<1>3. 0 \in T
  <2>1. f[0].visited = {x} /\ f[0].found = <<>> /\ f[0].queue = <<<<x>>>>
    BY <1>1 DEF Setout
  <2>2. Len(<<<<x>>>>) = 1 /\ <<<<x>>>>[1] = <<x>> /\ Len(<<x>>) = 1 /\ <<x>>[1] = x
    OBVIOUS
  <2>3. Near(o, x)[0] = {x}
    BY NearDef
  <2>4. Direct(o, x, 0, <<x>>) /\ Last(<<x>>) = x
    <3>1. \A k \in 2 .. 0 + 1 : FALSE
      OBVIOUS
    <3> QED BY <2>2, <3>1 DEF Direct, Last
  <2>5. \A i \in 1 .. 1 : i = 1
    OBVIOUS
  <2>6. 1 \in 1 .. 1 /\ 0 \in 0 .. MaxHops
    BY <1>2
  <2> QED BY <2>1, <2>2, <2>3, <2>4, <2>5, <2>6 DEF Level
<1>4. ASSUME NEW k \in 1 .. MaxHops, k - 1 \in T PROVE k \in T
  <2>1. k - 1 \in 0 .. MaxHops /\ k \in 0 .. MaxHops
    BY <1>2
  <2>2. Level(o, x, target, k - 1, f[k - 1]) /\ f[k - 1] \in Searches(P)
    BY <1>1, <1>4, <2>1
  <2>3. Level(o, x, target, k, f[k])
    BY <1>1, <1>2, <2>2, PoppedHops
  <2> QED BY <2>1, <2>3
<1> HIDE DEF T
<1>5. \A k \in 0 .. MaxHops : k \in T
  BY <1>2, <1>3, <1>4, Stepwise
<1> QED BY <1>2, <1>5 DEF T, f

\* The search of FindPath against the reference definition, for one pair of ends.
Shortest(o, x, y, p) ==
  IF p = <<>> THEN y \notin Near(o, x)[MaxHops]
  ELSE /\ p[1] = x /\ Last(p) = y
       /\ \A k \in 2 .. Len(p) :
            Adjacent(o, p[k - 1], p[k]) /\ p[k] \in Near(o, x)[k - 1] \ Near(o, x)[k - 2]

LEMMA FindPathShortest ==
  ASSUME NEW o, o.rels \in Seq(Range(o.rels)), NEW x, NEW y
  PROVE  Shortest(o, x, y, FindPath(o, x, y))
<1> DEFINE p == FindPath(o, x, y)
           t == Searched(o, x, y)[MaxHops]
<1> SUFFICES Shortest(o, x, y, p)
  OBVIOUS
<1>1. CASE x = y
  <2>1. p = <<x>> /\ p # <<>> /\ p[1] = x /\ Len(p) = 1 /\ Last(p) = x
    BY <1>1 DEF FindPath, Last
  <2>2. \A k \in 2 .. 1 : FALSE
    OBVIOUS
  <2> QED BY <1>1, <2>1, <2>2 DEF Shortest
<1>2. CASE x # y
  <2>1. Level(o, x, y, MaxHops, t) /\ p = t.found
    BY <1>2, SearchedLevels DEF FindPath
  <2> HIDE DEF t, p
  <2>2. CASE p = <<>>
    BY <2>1, <2>2 DEF Level, Shortest
  <2>3. CASE p # <<>>
    <3>1. PICK m \in 1 .. MaxHops : Direct(o, x, m, p) /\ Last(p) = y
      BY <2>1, <2>3 DEF Level, FoundAt
    <3> QED BY <3>1, <2>3 DEF Direct, Shortest
  <2> QED BY <2>2, <2>3
<1> QED BY <1>1, <1>2

\* Theorem: join paths are shortest, in every semantic model and for every limit
\* on their joins.
THEOREM JoinPathsShortest == QSpec => []PathsAreShortest
<1>1. PathsAreShortest
  <2> SUFFICES ASSUME NEW o \in Ontologies, NEW x \in DOMAIN o.entities, NEW y \in DOMAIN o.entities
               PROVE  Shortest(o, x, y, FindPath(o, x, y))
    BY DEF PathsAreShortest, Shortest
  <2>1. o.rels \in Seq(Range(o.rels))
    BY ListsAssumption
  <2> QED BY <2>1, FindPathShortest
<1> QED BY <1>1, PTL

-----------------------------------------------------------------------------
(* Joins lead back: what one search finds the opposite search finds too.   *)

LEMMA NearMonotone ==
  ASSUME NEW o, NEW x, NEW i \in 0 .. MaxHops, NEW j \in 0 .. MaxHops, i <= j
  PROVE  Near(o, x)[i] \subseteq Near(o, x)[j]
<1> DEFINE T == {k \in 0 .. MaxHops : i <= k => Near(o, x)[i] \subseteq Near(o, x)[k]}
<1>1. MaxHops \in Nat /\ i \in Nat /\ j \in Nat
  BY HopsAssumption
<1>2. 0 \in T
  <2>1. i <= 0 => i = 0
    BY <1>1
  <2> QED BY <1>1, <2>1
<1>3. ASSUME NEW k \in 1 .. MaxHops, k - 1 \in T PROVE k \in T
  <2>1. k \in 0 .. MaxHops /\ (i <= k => i = k \/ i <= k - 1)
    BY <1>1
  <2>2. Near(o, x)[k - 1] \subseteq Near(o, x)[k]
    BY NearGrows
  <2> QED BY <1>3, <2>1, <2>2
<1> HIDE DEF T
<1>4. j \in T
  BY <1>1, <1>2, <1>3, Stepwise
<1> QED BY <1>4 DEF T

\* What is within reach of a neighbour is within reach, one join further.
LEMMA NearNeighbour ==
  ASSUME NEW o, NEW y, NEW z, z \in Joined(o), Adjacent(o, y, z),
         NEW n \in 1 .. MaxHops, NEW x \in Near(o, z)[n - 1]
  PROVE  x \in Near(o, y)[n]
<1> DEFINE T == {k \in 0 .. MaxHops - 1 : Near(o, z)[k] \subseteq Near(o, y)[k + 1]}
<1>1. MaxHops \in Nat /\ MaxHops - 1 \in Nat /\ n - 1 \in 0 .. MaxHops - 1
  BY HopsAssumption
<1>2. 0 \in T
  <2>1. 1 \in 1 .. MaxHops /\ 1 - 1 = 0 /\ 0 + 1 = 1 /\ 0 \in 0 .. MaxHops - 1
    BY <1>1
  <2>2. Near(o, z)[0] = {z} /\ y \in Near(o, y)[0]
    BY NearDef
  <2>3. z \in Near(o, y)[1]
    BY <2>1, <2>2, NearDef
  <2> QED BY <2>1, <2>2, <2>3
<1>3. ASSUME NEW k \in 1 .. MaxHops - 1, k - 1 \in T PROVE k \in T
  <2>1. /\ k \in 0 .. MaxHops - 1 /\ k \in 1 .. MaxHops /\ k + 1 \in 1 .. MaxHops
        /\ k + 1 - 1 = k /\ k - 1 + 1 = k
    BY <1>1
  <2>2. Near(o, z)[k - 1] \subseteq Near(o, y)[k]
    BY <1>3, <2>1
  <2>3. Near(o, y)[k] \subseteq Near(o, y)[k + 1]
    BY <2>1, NearGrows
  <2>4. ASSUME NEW v \in Joined(o), NEW u \in Near(o, z)[k - 1], Adjacent(o, u, v)
        PROVE  v \in Near(o, y)[k + 1]
    <3>1. u \in Near(o, y)[k + 1 - 1]
      BY <2>1, <2>2
    <3> QED BY <2>1, <2>4, <3>1, NearDef
  <2>5. Near(o, z)[k] \subseteq Near(o, y)[k + 1]
    BY <2>1, <2>2, <2>3, <2>4, NearDef
  <2> QED BY <2>1, <2>5
<1> HIDE DEF T
<1>4. n - 1 \in T
  BY <1>1, <1>2, <1>3, Stepwise
<1>5. n - 1 + 1 = n
  OBVIOUS
<1> QED BY <1>4, <1>5 DEF T

LEMMA NearSymmetric ==
  ASSUME NEW o, NEW x, NEW n \in 0 .. MaxHops, NEW y \in Near(o, x)[n]
  PROVE  x \in Near(o, y)[n]
<1> DEFINE T == {k \in 0 .. MaxHops : \A v \in Near(o, x)[k] : x \in Near(o, v)[k]}
<1>1. MaxHops \in Nat
  BY HopsAssumption
<1>2. 0 \in T
  BY <1>1, NearDef
<1>3. ASSUME NEW k \in 1 .. MaxHops, k - 1 \in T PROVE k \in T
  <2>1. k \in 0 .. MaxHops
    BY <1>1
  <2>2. ASSUME NEW v \in Near(o, x)[k] PROVE x \in Near(o, v)[k]
    <3>1. CASE v \in Near(o, x)[k - 1]
      <4>1. x \in Near(o, v)[k - 1]
        BY <1>3, <3>1
      <4> QED BY <4>1, NearGrows
    <3>2. ASSUME v \notin Near(o, x)[k - 1] PROVE x \in Near(o, v)[k]
      <4>1. PICK u \in Near(o, x)[k - 1] : Adjacent(o, u, v)
        BY <3>2, NearDef
      <4>2. x \in Near(o, u)[k - 1]
        BY <1>3
      <4>3. Adjacent(o, v, u) /\ u \in Joined(o)
        BY <4>1 DEF Adjacent, Joined
      <4> QED BY <4>2, <4>3, NearNeighbour
    <3> QED BY <3>1, <3>2
  <2> QED BY <2>1, <2>2
<1> HIDE DEF T
<1>4. n \in T
  BY <1>1, <1>2, <1>3, Stepwise
<1> QED BY <1>4 DEF T

\* What a search returns.
Leads(o, x, y, p) ==
  /\ p \in Seq({x} \cup Joined(o))
  /\ IF p = <<>> THEN y \notin Near(o, x)[MaxHops]
     ELSE \E m \in 0 .. MaxHops : Direct(o, x, m, p) /\ Last(p) = y

LEMMA FindPathLeads ==
  ASSUME NEW o, o.rels \in Seq(Range(o.rels)), NEW x, NEW y
  PROVE  Leads(o, x, y, FindPath(o, x, y))
<1> DEFINE p == FindPath(o, x, y)
           t == Searched(o, x, y)[MaxHops]
<1>1. CASE x = y
  <2>1. /\ p = <<x>> /\ p # <<>> /\ p[1] = x /\ Len(p) = 0 + 1 /\ Last(p) = x
        /\ p \in Seq({x} \cup Joined(o))
    BY <1>1 DEF FindPath, Last
  <2>2. 0 \in 0 .. MaxHops /\ \A k \in 2 .. 0 + 1 : FALSE
    BY HopsAssumption
  <2> HIDE DEF p
  <2>3. Direct(o, x, 0, p)
    BY <2>1, <2>2 DEF Direct
  <2>4. Leads(o, x, y, p)
    BY <1>1, <2>1, <2>2, <2>3 DEF Leads
  <2> QED BY <2>4 DEF p
<1>2. CASE x # y
  <2>1. Level(o, x, y, MaxHops, t) /\ p = t.found
    BY <1>2, SearchedLevels DEF FindPath
  <2>2. 1 .. MaxHops \subseteq 0 .. MaxHops /\ MaxHops \in 0 .. MaxHops
    BY HopsAssumption
  <2>2a. t \in Searches({x} \cup Joined(o))
    BY <2>2, SearchedDef
  <2> HIDE DEF t, p
  <2>3. Leads(o, x, y, p)
    BY <2>1, <2>2, <2>2a DEF Level, FoundAt, Leads, Searches
  <2> QED BY <2>3 DEF p
<1> QED BY <1>1, <1>2

\* A path is found exactly to what lies within the joins a path may have.
LEMMA FoundIsNear ==
  ASSUME NEW o, o.rels \in Seq(Range(o.rels)), NEW x, NEW y
  PROVE  FindPath(o, x, y) # <<>> <=> y \in Near(o, x)[MaxHops]
<1> DEFINE p == FindPath(o, x, y)
<1>1. Leads(o, x, y, p)
  BY FindPathLeads
<1> HIDE DEF p
<1>2. ASSUME p # <<>> PROVE y \in Near(o, x)[MaxHops]
  <2>1. PICK m \in 0 .. MaxHops : Direct(o, x, m, p) /\ Last(p) = y
    BY <1>1, <1>2 DEF Leads
  <2>2. MaxHops \in 0 .. MaxHops /\ m <= MaxHops
    BY HopsAssumption
  <2>3. y \in Near(o, x)[m]
    BY <2>1, DirectEnds
  <2> QED BY <2>2, <2>3, NearMonotone
<1>3. p # <<>> <=> y \in Near(o, x)[MaxHops]
  BY <1>1, <1>2 DEF Leads
<1> QED BY <1>3 DEF p

\* The opposite of a path of m joins has not more.
LEMMA NoLonger ==
  ASSUME NEW o, NEW x, NEW y, NEW m \in 0 .. MaxHops, NEW k \in 0 .. MaxHops, NEW p, NEW q,
         Direct(o, x, m, p), Last(p) = y, Direct(o, y, k, q), Last(q) = x
  PROVE  k <= m
<1> SUFFICES ASSUME m < k PROVE FALSE
  BY HopsAssumption
<1>1. /\ k + 1 \in 2 .. k + 1 /\ k + 1 - 1 = k /\ k + 1 - 2 = k - 1
      /\ k - 1 \in 0 .. MaxHops /\ m <= k - 1
  BY HopsAssumption
<1>2. x = q[k + 1]
  BY HopsAssumption DEF Direct, Last
<1>3. x \notin Near(o, y)[k - 1]
  BY <1>1, <1>2 DEF Direct
<1>4. x \in Near(o, y)[m]
  BY DirectEnds, NearSymmetric
<1> QED BY <1>1, <1>3, <1>4, NearMonotone

\* Theorem: the search from either end of a join path finds a path of the same
\* length or none, so the subject a statement must be scoped to is found from an
\* entity whenever that entity was found from the subject.
THEOREM PathsReversible ==
  ASSUME NEW o \in Ontologies \cup SemanticModels, NEW x, NEW y
  PROVE  Len(FindPath(o, x, y)) = Len(FindPath(o, y, x))
<1> DEFINE p == FindPath(o, x, y)
           q == FindPath(o, y, x)
<1>1. o.rels \in Seq(Range(o.rels)) /\ MaxHops \in 0 .. MaxHops
  BY ListsAssumption, HopsAssumption
<1>2. p # <<>> <=> q # <<>>
  <2>1. y \in Near(o, x)[MaxHops] <=> x \in Near(o, y)[MaxHops]
    BY <1>1, NearSymmetric
  <2> QED BY <1>1, <2>1, FoundIsNear
<1>3. Leads(o, x, y, p) /\ Leads(o, y, x, q)
  BY <1>1, FindPathLeads
<1> HIDE DEF p, q
<1>4. CASE p = <<>>
  BY <1>2, <1>4 DEF p, q
<1>5. ASSUME p # <<>> PROVE Len(p) = Len(q)
  <2>1. PICK m \in 0 .. MaxHops : Direct(o, x, m, p) /\ Last(p) = y
    BY <1>3, <1>5 DEF Leads
  <2>2. PICK k \in 0 .. MaxHops : Direct(o, y, k, q) /\ Last(q) = x
    BY <1>2, <1>3, <1>5 DEF Leads
  <2>3. k <= m /\ m <= k
    BY <2>1, <2>2, NoLonger
  <2>4. k = m
    BY <2>3
  <2> QED BY <2>1, <2>2, <2>4 DEF Direct
<1> QED BY <1>4, <1>5 DEF p, q

-----------------------------------------------------------------------------
(* Every statement of a plan is about the subject.                         *)

\* What lies on a path that was found was found itself.
LEMMA OnTheWay ==
  ASSUME NEW o, o.rels \in Seq(Range(o.rels)), NEW x, NEW y, NEW e \in Range(FindPath(o, x, y))
  PROVE  FindPath(o, x, e) # <<>>
<1> DEFINE p == FindPath(o, x, y)
<1>1. Leads(o, x, y, p) /\ e \in Range(p)
  BY FindPathLeads
<1> HIDE DEF p
<1>2. PICK k \in DOMAIN p : p[k] = e
  BY <1>1 DEF Range
<1>3. p # <<>>
  BY <1>2
<1>4. PICK m \in 0 .. MaxHops : Direct(o, x, m, p)
  BY <1>1, <1>3 DEF Leads
<1>5. MaxHops \in 0 .. MaxHops
  BY HopsAssumption
<1>6. e \in Near(o, x)[MaxHops]
  <2>1. CASE k = 1
    BY <1>2, <1>4, <1>5, <2>1, NearGrows DEF Direct
  <2>2. CASE k \in 2 .. m + 1
    <3>1. e \in Near(o, x)[k - 1]
      BY <1>2, <1>4, <2>2 DEF Direct
    <3>2. k - 1 \in 0 .. MaxHops /\ k - 1 <= MaxHops
      BY <2>2, HopsAssumption
    <3> QED BY <1>5, <3>1, <3>2, NearMonotone
  <2>3. k = 1 \/ k \in 2 .. m + 1
    <3>1. DOMAIN p = 1 .. Len(p)
      BY <1>1 DEF Leads
    <3> QED BY <1>2, <1>4, <3>1 DEF Direct
  <2> QED BY <2>1, <2>2, <2>3
<1> QED BY <1>6, FoundIsNear
\* A plan looks for each path from the subject, its diagnostic statements from the
\* entity they are about; what was found the one way is found the other.
LEMMA BuiltScoped ==
  ASSUME NEW o, o.rels \in Seq(Range(o.rels)), NEW i, Builds(o, i)
  PROVE  /\ \A e \in Diagnosed(o, i) : FindPath(o, e, i.subject) # <<>>
         /\ \A s \in Statements(o, i) : i.subject \in s.tables
<1>1. MaxHops \in 0 .. MaxHops
  BY HopsAssumption
<1>2. ASSUME NEW e \in Required(o, i) PROVE FindPath(o, e, i.subject) # <<>>
  <2>1. FindPath(o, i.subject, e) # <<>>
    <3>1. CASE e \in Requested(o, i)
      BY <3>1 DEF Builds
    <3>2. CASE \E y \in Requested(o, i) : e \in Range(FindPath(o, i.subject, y))
      BY <3>2, OnTheWay
    <3> QED BY <1>2, <3>1, <3>2 DEF Required, Nodes
  <2>2. e \in Near(o, i.subject)[MaxHops]
    BY <2>1, FoundIsNear
  <2>3. i.subject \in Near(o, e)[MaxHops]
    BY <1>1, <2>2, NearSymmetric
  <2> QED BY <2>3, FoundIsNear
<1>3. Diagnosed(o, i) \subseteq Required(o, i)
  BY DEF Diagnosed
<1>4. ASSUME NEW e, FindPath(o, e, i.subject) # <<>>
      PROVE  i.subject \in Nodes(FindPath(o, e, i.subject))
  <2> DEFINE p == FindPath(o, e, i.subject)
  <2>1. Leads(o, e, i.subject, p) /\ p # <<>>
    BY <1>4, FindPathLeads
  <2> HIDE DEF p
  <2>2. Last(p) = i.subject /\ p \in Seq({e} \cup Joined(o))
    BY <2>1 DEF Leads
  <2>3. Len(p) \in 1 .. Len(p) /\ DOMAIN p = 1 .. Len(p)
    BY <2>1, <2>2
  <2>4. i.subject \in Range(p)
    BY <2>2, <2>3 DEF Last, Range
  <2> QED BY <2>4 DEF Nodes, p
<1>5. i.subject \in EvidenceStatement(i).tables
  BY DEF EvidenceStatement
<1>6. i.subject \in MetricStatement(o, i).tables
  <2>1. PICK m \in LeavesOf(o, i) : LeafCompiles(o, i, m)
    BY DEF Builds
  <2>2. i.subject \in Targets(i, o.metrics[m].entity)
    BY DEF Targets
  <2>3. FindPath(o, o.metrics[m].entity, i.subject) # <<>>
    BY <2>1, <2>2 DEF LeafCompiles
  <2>4. i.subject \in LeafTables(o, i, m)
    BY <1>4, <2>2, <2>3 DEF LeafTables
  <2> QED BY <2>1, <2>4 DEF MetricStatement
<1>7. ASSUME NEW e \in Diagnosed(o, i) PROVE i.subject \in DiagnosticStatement(o, i, e).tables
  BY <1>2, <1>3, <1>4, <1>7 DEF DiagnosticStatement
<1>8. ASSUME NEW s \in Statements(o, i) PROVE i.subject \in s.tables
  BY <1>5, <1>6, <1>7, <1>8 DEF Statements
<1> QED BY <1>2, <1>3, <1>8

\* Theorem: a diagnostic plan never fails for want of a path back to its subject,
\* and every statement it executes reads the subject's table.
THEOREM StatementsAreScoped ==
  ASSUME NEW o \in Ontologies \cup SemanticModels, NEW i, Builds(o, i)
  PROVE  /\ \A e \in Diagnosed(o, i) : FindPath(o, e, i.subject) # <<>>
         /\ \A s \in Statements(o, i) : i.subject \in s.tables
BY ListsAssumption, BuiltScoped

-----------------------------------------------------------------------------
\* What the planner and the gateway ask of an answer: its statements are all about
\* one entity, every table they read is there, and those of series are bounded.
Scoped(answer) ==
  /\ \E e \in DOMAIN answer.model.entities : \A s \in answer.statements : e \in s.tables
  /\ \A s \in answer.statements : \A e \in s.tables :
       HasTable(answer.model, e) /\ (answer.model.entities[e].series => s.bounded)

\* What the policies of a context ask of an answer besides.
Governs(answer, ctx) ==
  /\ Scoped(answer)
  /\ \A s \in answer.statements : \A e \in s.tables : Allowed(e, AllowedEntities(answer.model, EffectiveRoles(ctx)))
  /\ \E s \in answer.statements : s.filters # {} \/ RowFilters(answer.model, ctx) = {}
  /\ \A s \in answer.statements : s.filters # {} => RowFilters(answer.model, ctx) \subseteq s.filters

\* A resolved intent has a list of filters, which the row policies extend.
LEMMA ResolvedFilters ==
  ASSUME NEW o, NEW q
  PROVE  "filters" \in DOMAIN Resolve(o, q)
BY DEF Resolve

\* What compiles reads only allowed tables and carries the row filters: the gateway
\* compares the statements with the plan, and the decision the plan with the roles.
LEMMA CompileGoverns ==
  ASSUME NEW o \in SemanticModels, NEW intent, NEW ctx, NEW id,
         "filters" \in DOMAIN intent,
         Compile(o, intent, ctx).ok
  PROVE  Governs([by |-> id, model |-> o, statements |-> Compile(o, intent, ctx).statements], ctx)
<1> DEFINE roles == EffectiveRoles(ctx)
           i == ApplyIntent(o, intent, ctx)
           plan == Compile(o, intent, ctx)
<1>1. ~Rejected.ok
  BY DEF Rejected
<1>2. /\ plan = Build(o, i) /\ plan.ok /\ PlanAllowed(o, i, plan, roles)
      /\ \A s \in plan.statements : StatementAllowed(o, s, plan)
  BY <1>1 DEF Compile
<1>3. plan = Plan(o, i) /\ Builds(o, i)
  BY <1>1, <1>2 DEF Build
<1>4. /\ plan.statements = Statements(o, i) /\ plan.required = Required(o, i)
      /\ plan.tables \subseteq plan.required
  BY <1>3 DEF Plan
<1>5. i.filters = intent.filters \cup RowFilters(o, ctx)
  BY DEF ApplyIntent
<1>6. \A s \in plan.statements : \A e \in s.tables : Allowed(e, AllowedEntities(o, roles))
  BY <1>2, <1>4 DEF StatementAllowed, PlanAllowed
<1>7. MetricStatement(o, i) \in plan.statements /\ MetricStatement(o, i).filters = i.filters
  BY <1>4 DEF Statements, MetricStatement
<1>8. \A s \in plan.statements : s.filters # {} => s.filters = i.filters
  BY <1>4 DEF Statements, MetricStatement, EvidenceStatement, DiagnosticStatement
<1>9. \E s \in plan.statements : s.filters # {} \/ RowFilters(o, ctx) = {}
  BY <1>5, <1>7
<1>10. \A s \in plan.statements : s.filters # {} => RowFilters(o, ctx) \subseteq s.filters
  BY <1>5, <1>8
<1>11. i.subject \in DOMAIN o.entities /\ \A s \in plan.statements : i.subject \in s.tables
  BY <1>3, <1>4, ListsAssumption, BuiltScoped DEF Builds
<1>12. \A s \in plan.statements : \A e \in s.tables : HasTable(o, e)
  BY <1>3, <1>4 DEF Builds
<1>13. \A s \in plan.statements : \A e \in s.tables : o.entities[e].series => s.bounded
  BY <1>2 DEF StatementAllowed
<1> HIDE DEF plan, roles, i
<1>14. Scoped([by |-> id, model |-> o, statements |-> plan.statements])
  BY <1>11, <1>12, <1>13 DEF Scoped
<1> QED BY <1>6, <1>9, <1>10, <1>14 DEF Governs, plan, roles

-----------------------------------------------------------------------------
\* Where a worker holds an answer, and where that is recorded and audited.
Answering == {"preview", "execute", "count", "record", "audit", "cache"}

JobOK(j) ==
  /\ "at" \in DOMAIN j
  /\ j # Idle => "id" \in DOMAIN j /\ j.id \in Ids
  /\ j.at # "idle" => j # Idle
  /\ j.at = "compile" => "filters" \in DOMAIN j.intent
  /\ j.at \in Answering => j.answer.by = j.id /\ Governs(j.answer, asked[j.id].context)
  /\ j.at \in {"audit", "cache"} => <<j.id, TRUE>> \in telemetry
  /\ j.at = "cache" => <<j.id, "allow">> \in trail

\* An answer that may be served to everyone who asks under the key.
Servable(answer, key) ==
  /\ answer.by \in Ids /\ Key(asked[answer.by]) = key
  /\ <<answer.by, TRUE>> \in telemetry /\ <<answer.by, "allow">> \in trail
  /\ Governs(answer, key[2])

OutcomeOK(n) ==
  /\ n \in Ids
  /\ outcome[n].kind = "cached" => Servable(outcome[n].answer, Key(asked[n]))
  /\ outcome[n].kind # "error" => Governs(outcome[n].answer, asked[n].context)

JobsOK == DOMAIN job = QWorkers /\ \A w \in QWorkers : JobOK(job[w])
CacheOK == \A k \in DOMAIN cache : Servable(cache[k].answer, k)
OutcomesOK == \A n \in DOMAIN outcome : OutcomeOK(n)

QInv == model \in SemanticModels /\ asked \in Seq(Requests) /\ JobsOK /\ CacheOK /\ OutcomesOK

\* The request of a number never changes, and no record is taken back.
Grows ==
  /\ asked' = asked \/ \E r \in Requests : asked' = Append(asked, r)
  /\ telemetry \subseteq telemetry' /\ trail \subseteq trail'

LEMMA OnlyGrows == QInv /\ [QNext]_qvars => Grows
BY DEF QNext, qvars, Grows, Ask, ServeCached, Miss, CompilePlan, Preview, Execute, CountSuccess,
       RecordSuccess, AuditAllow, CacheAnswer, CountFailure, RecordFailure, AuditDeny, StepFails,
       Dies, ChangeModel, ReloadPolicies, ClearCache, QTick

LEMMA NumbersKept ==
  ASSUME asked \in Seq(Requests), Grows
  PROVE  /\ asked' \in Seq(Requests) /\ Ids \subseteq Ids'
         /\ \A n \in Ids : asked'[n] = asked[n]
<1>1. CASE asked' = asked
  BY <1>1 DEF Ids
<1>2. ASSUME NEW r \in Requests, asked' = Append(asked, r)
      PROVE  /\ asked' \in Seq(Requests) /\ Ids \subseteq Ids'
             /\ \A n \in Ids : asked'[n] = asked[n]
  BY <1>2 DEF Ids
<1> QED BY <1>1, <1>2 DEF Grows

\* What was once servable, and what a worker knows, stays so.
LEMMA Persists ==
  ASSUME QInv, Grows
  PROVE  /\ \A j : JobOK(j) => JobOK(j)'
         /\ \A a, k : Servable(a, k) => Servable(a, k)'
<1>1. /\ Ids \subseteq Ids' /\ \A n \in Ids : asked'[n] = asked[n]
      /\ telemetry \subseteq telemetry' /\ trail \subseteq trail'
  BY NumbersKept DEF QInv, Grows
<1>2. ASSUME NEW j, JobOK(j) PROVE JobOK(j)'
  <2>1. j.at \in Answering \cup {"compile", "audit", "cache"} => j.id \in Ids
    BY <1>2 DEF JobOK, Answering
  <2> QED BY <1>1, <1>2, <2>1 DEF JobOK, Answering
<1>3. ASSUME NEW a, NEW k, Servable(a, k) PROVE Servable(a, k)'
  BY <1>1, <1>3 DEF Servable, Key
<1> QED BY <1>2, <1>3

\* A step that moves one worker, to a job it may have, keeps every worker's.
LEMMA OneMoves ==
  ASSUME QInv, Grows, NEW w \in QWorkers, NEW next, Moves(w, next), JobOK(next)'
  PROVE  JobsOK'
<1>1. DOMAIN job' = QWorkers /\ \A v \in QWorkers : job'[v] = IF v = w THEN next ELSE job[v]
  BY DEF Moves, QInv, JobsOK
<1>2. ASSUME NEW v \in QWorkers PROVE JobOK(job[v])'
  <2>1. CASE v = w
    BY <1>1, <2>1 DEF JobOK
  <2>2. CASE v # w
    <3>1. job'[v] = job[v] /\ JobOK(job[v])
      BY <1>1, <2>2 DEF QInv, JobsOK
    <3>2. PICK j : j = job[v]
      OBVIOUS
    <3>3. JobOK(j)'
      BY <3>1, <3>2, Persists
    <3> QED BY <3>1, <3>2, <3>3 DEF JobOK
  <2> QED BY <2>1, <2>2
<1> QED BY <1>1, <1>2 DEF JobsOK

-----------------------------------------------------------------------------
\* Every step leaves each worker with a job it may have.
LEMMA JobsStep == QInv /\ [QNext]_qvars => JobsOK'
<1> SUFFICES ASSUME QInv, [QNext]_qvars PROVE JobsOK'
  OBVIOUS
<1>1. Grows
  BY OnlyGrows
<1>2. JobOK(Idle)'
  BY DEF JobOK, Idle, Answering
<1>3. ASSUME NEW w \in QWorkers, NEW next, Moves(w, next), JobOK(next)' PROVE JobsOK'
  BY <1>1, <1>3, OneMoves
<1>4. ASSUME UNCHANGED job PROVE JobsOK'
  <2>1. ASSUME NEW v \in QWorkers PROVE JobOK(job[v])'
    <3>1. PICK j : j = job[v]
      OBVIOUS
    <3>2. JobOK(j)'
      BY <1>1, <3>1, Persists DEF QInv, JobsOK
    <3> QED BY <1>4, <3>1, <3>2 DEF JobOK
  <2> QED BY <1>4, <2>1 DEF QInv, JobsOK
<1>5. ASSUME NEW w \in QWorkers, NEW r \in Requests, Ask(w, r) PROVE JobsOK'
  <2>1. PICK next : next = [at |-> "lookup", id |-> Len(asked) + 1]
    OBVIOUS
  <2>2. next.id \in Ids'
    BY <1>5, <2>1 DEF Ask, Ids, QInv
  <2>3. JobOK(next)'
    BY <2>1, <2>2 DEF JobOK, Answering, Idle
  <2> QED BY <1>3, <1>5, <2>1, <2>3 DEF Ask
<1>6. ASSUME NEW w \in QWorkers, Moves(w, Idle) PROVE JobsOK'
  BY <1>2, <1>3, <1>6
<1>7. ASSUME NEW w \in QWorkers, Miss(w) PROVE JobsOK'
  <2>1. PICK next : next = [at |-> "compile", id |-> job[w].id, intent |-> Resolve(model, Req(w).question)]
    OBVIOUS
  <2>2. job[w].id \in Ids'
    BY <1>1, <1>7, NumbersKept DEF Miss, QInv, JobsOK, JobOK
  <2>3. JobOK(next)'
    BY <2>1, <2>2, ResolvedFilters DEF JobOK, Answering, Idle
  <2> QED BY <1>3, <1>7, <2>1, <2>3 DEF Miss
<1>8. ASSUME NEW w \in QWorkers, CompilePlan(w) PROVE JobsOK'
  <2> DEFINE plan == Compile(model, job[w].intent, Req(w).context)
  <2>1. /\ job[w].at = "compile" /\ "filters" \in DOMAIN job[w].intent /\ job[w].id \in Ids
        /\ UNCHANGED <<asked, telemetry, trail>>
    BY <1>8 DEF CompilePlan, QInv, JobsOK, JobOK
  <2>2. CASE plan.ok
    <3>1. PICK next : /\ next = [at |-> IF Req(w).preview THEN "preview" ELSE "execute", id |-> job[w].id,
                                 answer |-> [by |-> job[w].id, model |-> model, statements |-> plan.statements]]
                      /\ Moves(w, next)
      BY <1>8, <2>2 DEF CompilePlan
    <3>2. Governs([by |-> job[w].id, model |-> model, statements |-> plan.statements], Req(w).context)
      BY <2>1, <2>2, CompileGoverns DEF QInv
    <3> HIDE DEF plan
    <3>3. JobOK(next)'
      BY <2>1, <3>1, <3>2 DEF JobOK, Answering, Idle, Req, Ids
    <3> QED BY <1>3, <3>1, <3>3
  <2>3. CASE ~plan.ok
    <3>1. PICK next : next = [at |-> "refuse", id |-> job[w].id] /\ Moves(w, next)
      BY <1>8, <2>3 DEF CompilePlan
    <3>2. JobOK(next)'
      BY <2>1, <3>1 DEF JobOK, Answering, Idle, Ids
    <3> QED BY <1>3, <3>1, <3>2
  <2> QED BY <2>2, <2>3
<1>9. ASSUME NEW w \in QWorkers, NEW from, NEW to, Goes(w, from, to), asked' = asked, from # "idle",
             \/ to \in {"refuse", "record failure", "audit failure"}
             \/ /\ to \in {"count", "record"} /\ from \in Answering
             \/ to = "audit" /\ from \in Answering /\ <<job[w].id, TRUE>> \in telemetry'
             \/ to = "cache" /\ from = "audit" /\ <<job[w].id, "allow">> \in trail'
      PROVE  JobsOK'
  <2>1. PICK next : next = [job[w] EXCEPT !.at = to] /\ Moves(w, next)
    BY <1>9 DEF Goes
  <2>2. JobOK(job[w]) /\ job[w].at = from /\ job[w] # Idle
    BY <1>9 DEF Goes, QInv, JobsOK, JobOK
  <2>3. /\ DOMAIN next = DOMAIN job[w] /\ next.at = to
        /\ \A f \in DOMAIN job[w] \ {"at"} : next[f] = job[w][f]
    BY <2>1, <2>2 DEF JobOK
  <2>4. next.id = job[w].id /\ next.id \in Ids'
    BY <1>9, <2>2, <2>3 DEF JobOK, Ids
  <2>5. telemetry \subseteq telemetry'
    BY <1>1 DEF Grows
  <2>6. to \in Answering => next.answer = job[w].answer
    BY <2>1, <2>2 DEF JobOK
  <2>7. JobOK(next)'
    BY <1>9, <2>2, <2>3, <2>4, <2>5, <2>6 DEF JobOK, Answering, Idle
  <2> QED BY <1>3, <2>1, <2>7
<1>10. ASSUME NEW w \in QWorkers, StepFails(w) PROVE JobsOK'
  <2>1. PICK next : next = [at |-> "refuse", id |-> job[w].id] /\ Moves(w, next)
    BY <1>10 DEF StepFails
  <2>2. job[w].id \in Ids'
    BY <1>1, <1>10, NumbersKept DEF StepFails, QInv, JobsOK, JobOK
  <2>3. JobOK(next)'
    BY <2>1, <2>2 DEF JobOK, Answering, Idle
  <2> QED BY <1>3, <2>1, <2>3
<1>11. ASSUME NEW w \in QWorkers,
              Execute(w) \/ CountSuccess(w) \/ RecordSuccess(w) \/ AuditAllow(w)
       PROVE  JobsOK'
  BY <1>9, <1>11 DEF Execute, CountSuccess, RecordSuccess, AuditAllow, Answering, Goes
<1>12. ASSUME NEW w \in QWorkers, CountFailure(w) \/ RecordFailure(w) PROVE JobsOK'
  BY <1>9, <1>12 DEF CountFailure, RecordFailure
<1>13. ASSUME NEW w \in QWorkers,
              ServeCached(w) \/ Preview(w) \/ CacheAnswer(w) \/ AuditDeny(w) \/ Dies(w)
       PROVE  JobsOK'
  BY <1>6, <1>13 DEF ServeCached, Preview, CacheAnswer, AuditDeny, Dies, Finishes
<1>14. ASSUME ChangeModel \/ ReloadPolicies \/ ClearCache \/ QTick \/ UNCHANGED qvars PROVE JobsOK'
  BY <1>4, <1>14 DEF ChangeModel, ReloadPolicies, ClearCache, QTick, qvars
<1> QED BY <1>5, <1>7, <1>8, <1>10, <1>11, <1>12, <1>13, <1>14 DEF QNext

-----------------------------------------------------------------------------
\* The cache takes only answers that were recorded and audited.
LEMMA CacheStep == QInv /\ [QNext]_qvars => CacheOK'
<1> SUFFICES ASSUME QInv, [QNext]_qvars PROVE CacheOK'
  OBVIOUS
<1>1. \A a, k : Servable(a, k) => Servable(a, k)'
  BY OnlyGrows, Persists
<1>2. ASSUME UNCHANGED cache PROVE CacheOK'
  BY <1>1, <1>2 DEF QInv, CacheOK, Servable
<1>3. ASSUME NEW w \in QWorkers, CacheAnswer(w) PROVE CacheOK'
  <2> DEFINE entries == With(cache, Key(Req(w)), [answer |-> job[w].answer, time |-> now])
  <2>1. PICK keys \in Kept(entries) : cache' = [k \in keys |-> entries[k]]
    BY <1>3 DEF CacheAnswer
  <2>2. keys \subseteq DOMAIN entries
    BY <2>1 DEF Kept
  <2>3. Servable(job[w].answer, Key(Req(w)))
    BY <1>3 DEF CacheAnswer, QInv, JobsOK, JobOK, Servable, Answering, Req, Key, Idle
  <2>4. \A k \in DOMAIN entries : Servable(entries[k].answer, k)
    BY <2>3 DEF With, QInv, CacheOK
  <2> HIDE DEF entries
  <2>5. ASSUME NEW k \in keys PROVE Servable(cache[k].answer, k)'
    <3>1. PICK a : a = entries[k].answer
      OBVIOUS
    <3>2. Servable(a, k)'
      BY <1>1, <2>2, <2>4, <3>1
    <3>3. cache'[k].answer = a
      BY <2>1, <3>1
    <3> QED BY <3>2, <3>3 DEF Servable
  <2> QED BY <2>1, <2>5 DEF CacheOK
<1>4. ASSUME ClearCache PROVE CacheOK'
  BY <1>4 DEF ClearCache, CacheOK
<1> QED BY <1>2, <1>3, <1>4
      DEF QNext, qvars, Ask, ServeCached, Miss, CompilePlan, Preview, Execute, CountSuccess,
          RecordSuccess, AuditAllow, CountFailure, RecordFailure, AuditDeny, StepFails, Dies,
          ChangeModel, ReloadPolicies, QTick

\* What a finished request was told is governed, and servable when it was cached.
LEMMA OutcomesStep == QInv /\ [QNext]_qvars => OutcomesOK'
<1> SUFFICES ASSUME QInv, [QNext]_qvars PROVE OutcomesOK'
  OBVIOUS
<1>1. /\ Grows /\ Ids \subseteq Ids' /\ \A n \in Ids : asked'[n] = asked[n]
      /\ \A a, k : Servable(a, k) => Servable(a, k)'
  BY OnlyGrows, NumbersKept, Persists DEF QInv
<1>2. ASSUME NEW n \in DOMAIN outcome, outcome'[n] = outcome[n] PROVE OutcomeOK(n)'
  <2>1. PICK a, k : a = outcome[n].answer /\ k = Key(asked[n])
    OBVIOUS
  <2>2. OutcomeOK(n)
    BY DEF QInv, OutcomesOK
  <2>3. n \in Ids /\ n \in Ids' /\ asked'[n] = asked[n]
    BY <1>1, <2>2 DEF OutcomeOK
  <2>4. outcome[n].kind = "cached" => Servable(a, k)'
    BY <1>1, <2>1, <2>2 DEF OutcomeOK
  <2> QED BY <1>2, <2>1, <2>2, <2>3, <2>4 DEF OutcomeOK, Servable, Key
<1>3. ASSUME UNCHANGED outcome PROVE OutcomesOK'
  BY <1>2, <1>3 DEF OutcomesOK
<1>4. ASSUME NEW w \in QWorkers, NEW result, Finishes(w, result), job[w] # Idle,
             result.kind = "cached" => Servable(result.answer, Key(Req(w))),
             result.kind # "error" => Governs(result.answer, Req(w).context)
      PROVE  OutcomesOK'
  <2>1. PICK n : n = job[w].id
    OBVIOUS
  <2>2. n \in Ids /\ n \in Ids' /\ asked'[n] = asked[n] /\ Req(w) = asked[n]
    BY <1>1, <1>4, <2>1 DEF QInv, JobsOK, JobOK, Req
  <2>3. /\ DOMAIN outcome' = DOMAIN outcome \cup {n} /\ outcome'[n] = result
        /\ \A m \in DOMAIN outcome \ {n} : outcome'[m] = outcome[m]
    BY <1>4, <2>1 DEF Finishes, With
  <2>4. PICK a, k : a = result.answer /\ k = Key(asked[n])
    OBVIOUS
  <2>5. result.kind = "cached" => Servable(a, k)'
    BY <1>1, <1>4, <2>2, <2>4
  <2>6. OutcomeOK(n)'
    BY <1>4, <2>2, <2>3, <2>4, <2>5 DEF OutcomeOK, Servable, Key
  <2> QED BY <1>2, <2>3, <2>6 DEF OutcomesOK
<1>5. ASSUME NEW w \in QWorkers, ServeCached(w) PROVE OutcomesOK'
  <2>1. PICK result : /\ result = [kind |-> "cached", answer |-> cache[Key(Req(w))].answer]
                      /\ Finishes(w, result)
    BY <1>5 DEF ServeCached
  <2>2. Servable(result.answer, Key(Req(w)))
    BY <1>5, <2>1 DEF ServeCached, Hit, QInv, CacheOK
  <2>3. Governs(result.answer, Req(w).context)
    BY <2>2 DEF Servable, Key
  <2>4. job[w] # Idle
    BY <1>5 DEF ServeCached, Idle
  <2> QED BY <1>4, <2>1, <2>2, <2>3, <2>4
<1>6. ASSUME NEW w \in QWorkers, Preview(w) \/ CacheAnswer(w) PROVE OutcomesOK'
  <2>1. PICK result : /\ result = [kind |-> "preview", answer |-> job[w].answer]
                         \/ result = [kind |-> "answer", answer |-> job[w].answer]
                      /\ Finishes(w, result)
    BY <1>6 DEF Preview, CacheAnswer
  <2>2. job[w].at \in Answering /\ job[w] # Idle
    BY <1>6 DEF Preview, CacheAnswer, Answering, Idle
  <2>3. Governs(job[w].answer, Req(w).context)
    BY <2>2 DEF QInv, JobsOK, JobOK, Req
  <2>4. result.answer = job[w].answer /\ result.kind # "cached"
    BY <2>1
  <2> QED BY <1>4, <2>1, <2>2, <2>3, <2>4
<1>7. ASSUME NEW w \in QWorkers, AuditDeny(w) PROVE OutcomesOK'
  <2>1. PICK result : result = [kind |-> "error"] /\ Finishes(w, result)
    BY <1>7 DEF AuditDeny
  <2>2. job[w] # Idle
    BY <1>7 DEF AuditDeny, QInv, JobsOK, JobOK
  <2> QED BY <1>4, <2>1, <2>2
<1> QED BY <1>3, <1>5, <1>6, <1>7
      DEF QNext, qvars, Ask, Miss, CompilePlan, Execute, CountSuccess, RecordSuccess, AuditAllow,
          CountFailure, RecordFailure, StepFails, Dies, ChangeModel, ReloadPolicies, ClearCache, QTick

-----------------------------------------------------------------------------
\* The invariant behind both theorems, for every value of the constants.
LEMMA QueryInvariant == QSpec => []QInv
<1>1. QInit => QInv
  BY DEF QInit, QInv, JobsOK, JobOK, CacheOK, OutcomesOK, Idle, Answering
<1>2. QInv /\ [QNext]_qvars => QInv'
  <2> SUFFICES ASSUME QInv, [QNext]_qvars PROVE QInv'
    OBVIOUS
  <2>1. asked' \in Seq(Requests)
    BY OnlyGrows, NumbersKept DEF QInv
  <2>2. model' \in SemanticModels
    BY DEF QInv, QNext, qvars, Ask, ServeCached, Miss, CompilePlan, Preview, Execute, CountSuccess,
           RecordSuccess, AuditAllow, CacheAnswer, CountFailure, RecordFailure, AuditDeny, StepFails,
           Dies, ChangeModel, ReloadPolicies, ClearCache, QTick
  <2> QED BY <2>1, <2>2, JobsStep, CacheStep, OutcomesStep DEF QInv
<1> QED BY <1>1, <1>2, PTL DEF QSpec

\* Whatever is answered, computed or from the cache, reads only tables of entities
\* the caller's roles allow and carries the row filters of the caller, under the
\* policies in force when it was computed, for every semantic model, policy and
\* question (main.py _compile_governed_plan, chat).
THEOREM AnswersObeyPolicies == QSpec => []AnswersGoverned
<1>1. QInv => AnswersGoverned
  BY DEF QInv, OutcomesOK, OutcomeOK, Governs, AnswersGoverned, Answered
<1> QED BY <1>1, QueryInvariant, PTL

\* Whatever is answered, computed or from the cache and whatever was reloaded in
\* between, its statements are all about one entity that the model it was compiled
\* against defines, none reads a table that is not bound there, and none reads a time
\* series without a bound on time (planner.py build, guardrail.py).
AnswersScoped == \A n \in Answered : Scoped(outcome[n].answer)
THEOREM AnswersAreScoped == QSpec => []AnswersScoped
<1>1. QInv => AnswersScoped
  BY DEF QInv, OutcomesOK, OutcomeOK, Governs, AnswersScoped, Answered
<1> QED BY <1>1, QueryInvariant, PTL

\* An answer that can be served again was recorded and audited as allowed when it was
\* computed, whatever fails, dies or is reloaded in between (main.py chat).
THEOREM CacheIsAudited == QSpec => []CachedWasAudited
<1>1. QInv => CachedWasAudited
  BY DEF QInv, CacheOK, OutcomesOK, OutcomeOK, Servable, CachedWasAudited
<1> QED BY <1>1, QueryInvariant, PTL

-----------------------------------------------------------------------------
\* Phases before a request is counted, and after it was counted as a success or as
\* a failure; a request may pass from the first to any of them, never back.
Uncounted == {"lookup", "compile", "preview", "execute", "count"}
Succeeded == {"record", "audit", "cache"}
Failed == {"record failure", "audit failure"}

\* The numbers of the requests in some phases, and of those whose callers were told.
At(phases) == {job[w].id : w \in {v \in QWorkers : job[v].at \in phases}}
Told(kind) == {n \in DOMAIN outcome : outcome[n].kind = kind}

\* A number is with one worker only, and until its caller is told nothing is denied.
NumbersApart ==
  /\ \A v, w \in QWorkers : v # w /\ job[v].at # "idle" /\ job[w].at # "idle" => job[v].id # job[w].id
  /\ \A w \in QWorkers : job[w].at # "idle" =>
       /\ job[w].id \in Ids \ DOMAIN outcome
       /\ <<job[w].id, "deny">> \notin trail
       /\ job[w].at = "audit failure" => <<job[w].id, FALSE>> \in telemetry
       /\ job[w].at \in {"audit", "cache"} => <<job[w].id, TRUE>> \in telemetry
       /\ job[w].at = "cache" => <<job[w].id, "allow">> \in trail

\* What callers were told is on record.
ToldOnRecord ==
  /\ \A n \in Told("answer") : <<n, "allow">> \in trail /\ <<n, "deny">> \notin trail /\ <<n, TRUE>> \in telemetry
  /\ \A n \in Told("error") : <<n, "deny">> \in trail /\ <<n, FALSE>> \in telemetry

\* Every success told, or still to be told, was counted; every request counts at most
\* once as a success and at most once as a failure.
Counts ==
  /\ counted \in [success : Nat, failed : Nat]
  /\ Cardinality(Told("answer") \cup At(Succeeded)) <= counted.success
  /\ Cardinality(Told("error") \cup At(Failed)) <= counted.failed
  /\ counted.success + Cardinality(At(Uncounted)) <= Len(asked)
  /\ counted.failed + Cardinality(At(Uncounted \cup Succeeded \cup {"refuse"})) <= Len(asked)

Records ==
  /\ asked \in Seq(Requests) /\ Len(asked) <= MaxQCalls
  /\ DOMAIN job = QWorkers
  /\ \A w \in QWorkers : job[w].at \in Phases /\ (job[w].at = "idle" <=> job[w] = Idle)
  /\ telemetry \subseteq Ids \X BOOLEAN /\ trail \subseteq Ids \X {"allow", "deny"}
  /\ DOMAIN outcome \subseteq Ids
  /\ \A n \in DOMAIN outcome : outcome[n].kind \in {"answer", "cached", "preview", "error"}

AccountInv == Records /\ NumbersApart /\ ToldOnRecord /\ Counts

\* A step that takes worker w with request n to a phase: what it may write, and what
\* it must have written.
Turn(w, n, to) ==
  /\ w \in QWorkers /\ n \in Ids' /\ to \in Phases
  /\ DOMAIN job' = QWorkers
  /\ \A v \in QWorkers \ {w} : job'[v] = job[v] /\ (job[v].at # "idle" => job[v].id # n)
  /\ job'[w].at = to
  /\ to = "idle" => job'[w] = Idle
  /\ to # "idle" => job'[w] # Idle /\ job'[w].id = n
  /\ \/ job[w].at = "idle" /\ to = "lookup" /\ Len(asked) < MaxQCalls
        /\ n = Len(asked) + 1 /\ \E r \in Requests : asked' = Append(asked, r)
     \/ job[w].at # "idle" /\ job[w].id = n /\ asked' = asked /\ to # "lookup"
  /\ to \in Uncounted => job[w].at \in Uncounted \cup {"idle"}
  /\ to \in Succeeded => job[w].at \in Succeeded \cup {"count"}
  /\ to \in Failed => job[w].at \in Failed \cup {"refuse"}
  /\ to = "refuse" => job[w].at \in Uncounted \cup Succeeded
  /\ \/ to = "record" /\ job[w].at = "count" /\ counted' = [counted EXCEPT !.success = @ + 1]
     \/ to = "record failure" /\ job[w].at = "refuse" /\ counted' = [counted EXCEPT !.failed = @ + 1]
     \/ to \notin {"record", "record failure"} /\ counted' = counted
  /\ \/ telemetry' = telemetry
     \/ \E b \in BOOLEAN : telemetry' = telemetry \cup {<<n, b>>}
  /\ to = "audit failure" => job[w].at = "record failure" /\ <<n, FALSE>> \in telemetry'
  /\ to = "audit" => job[w].at = "record" /\ <<n, TRUE>> \in telemetry'
  /\ to = "cache" => job[w].at = "audit" /\ <<n, "allow">> \in trail'
  /\ \/ to = "idle" /\ job[w].at = "audit failure" /\ trail' = trail \cup {<<n, "deny">>}
        /\ outcome' = With(outcome, n, [kind |-> "error"])
     \/ /\ trail' \in {trail, trail \cup {<<n, "allow">>}}
        /\ \/ outcome' = outcome
           \/ to = "idle" /\ \E kind \in {"answer", "cached", "preview"} : \E a :
                /\ outcome' = With(outcome, n, [kind |-> kind, answer |-> a])
                /\ kind = "answer" => job[w].at = "cache"

\* Steps of the model, the policies, the cache and the clock.
Rest == UNCHANGED <<asked, job, counted, telemetry, trail, outcome>>

LEMMA Unnumbered ==
  ASSUME AccountInv, NEW v \in QWorkers, job[v].at # "idle"
  PROVE  job[v].id # Len(asked) + 1
<1>1. Len(asked) \in Nat
  BY DEF AccountInv, Records
<1>2. job[v].id \in 1 .. Len(asked)
  BY DEF AccountInv, NumbersApart, Ids
<1> QED BY <1>1, <1>2

\* Every step is a turn of some worker, or none of the requests' business.
LEMMA TurnsTaken ==
  ASSUME QInv, AccountInv, QNext
  PROVE  Rest \/ \E w, n, to : Turn(w, n, to)
<1>1. Records /\ NumbersApart /\ counted \in [success : Nat, failed : Nat]
  BY DEF AccountInv, Counts
<1>2. \A v, w \in QWorkers : v # w /\ job[v].at # "idle" /\ job[w].at # "idle" => job[v].id # job[w].id
  BY <1>1 DEF NumbersApart
<1>3. ASSUME NEW w \in QWorkers, NEW r \in Requests, Ask(w, r)
      PROVE  Turn(w, Len(asked) + 1, "lookup")
  <2>1. PICK n : n = Len(asked) + 1
    OBVIOUS
  <2>2. job[w] = Idle /\ job[w].at = "idle"
    BY <1>3 DEF Ask, Idle
  <2>3. /\ DOMAIN job' = QWorkers /\ \A v \in QWorkers \ {w} : job'[v] = job[v]
        /\ job'[w] = [at |-> "lookup", id |-> n]
    BY <1>1, <1>3, <2>1 DEF Ask, Moves, Records
  <2>4. n \in Ids' /\ asked' = Append(asked, r) /\ Len(asked) < MaxQCalls
    BY <1>1, <1>3, <2>1 DEF Ask, Ids, Records
  <2>5. \A v \in QWorkers \ {w} : job[v].at # "idle" => job[v].id # n
    BY Unnumbered, <2>1
  <2>6. job'[w] # Idle /\ job'[w].id = n /\ job'[w].at = "lookup"
    BY <2>3 DEF Idle
  <2> QED BY <1>3, <2>1, <2>2, <2>3, <2>4, <2>5, <2>6 DEF Turn, Ask, Phases, Uncounted, Succeeded, Failed
<1>4. ASSUME NEW w \in QWorkers, NEW next, Moves(w, next), job[w].at # "idle", asked' = asked
      PROVE  /\ DOMAIN job' = QWorkers /\ job'[w] = next
             /\ \A v \in QWorkers \ {w} : job'[v] = job[v] /\ (job[v].at # "idle" => job[v].id # job[w].id)
             /\ job[w].id \in Ids'
  BY <1>1, <1>2, <1>4 DEF Moves, Records, NumbersApart, Ids
<1>5. ASSUME NEW w \in QWorkers, NEW result, Finishes(w, result), job[w].at # "idle", asked' = asked
      PROVE  /\ DOMAIN job' = QWorkers /\ job'[w] = Idle /\ job'[w].at = "idle"
             /\ \A v \in QWorkers \ {w} : job'[v] = job[v] /\ (job[v].at # "idle" => job[v].id # job[w].id)
             /\ job[w].id \in Ids' /\ outcome' = With(outcome, job[w].id, result)
  BY <1>4, <1>5 DEF Finishes, Idle
<1>6. ASSUME NEW w \in QWorkers, ServeCached(w) PROVE Turn(w, job[w].id, "idle")
  <2>1. PICK a : Finishes(w, [kind |-> "cached", answer |-> a])
    BY <1>6 DEF ServeCached
  <2>2. job[w].at = "lookup" /\ UNCHANGED <<asked, counted, telemetry, trail>>
    BY <1>6 DEF ServeCached
  <2> QED BY <1>5, <2>1, <2>2 DEF Turn, Phases, Uncounted, Succeeded, Failed
<1>7. ASSUME NEW w \in QWorkers, Preview(w) PROVE Turn(w, job[w].id, "idle")
  <2>1. PICK a : Finishes(w, [kind |-> "preview", answer |-> a])
    BY <1>7 DEF Preview
  <2>2. job[w].at = "preview" /\ UNCHANGED <<asked, counted, telemetry, trail>>
    BY <1>7 DEF Preview
  <2> QED BY <1>5, <2>1, <2>2 DEF Turn, Phases, Uncounted, Succeeded, Failed
<1>8. ASSUME NEW w \in QWorkers, CacheAnswer(w) PROVE Turn(w, job[w].id, "idle")
  <2>1. PICK a : Finishes(w, [kind |-> "answer", answer |-> a])
    BY <1>8 DEF CacheAnswer
  <2>2. job[w].at = "cache" /\ UNCHANGED <<asked, counted, telemetry, trail>>
    BY <1>8 DEF CacheAnswer
  <2> QED BY <1>5, <2>1, <2>2 DEF Turn, Phases, Uncounted, Succeeded, Failed
<1>9. ASSUME NEW w \in QWorkers, AuditDeny(w) PROVE Turn(w, job[w].id, "idle")
  <2>1. Finishes(w, [kind |-> "error"]) /\ job[w].at = "audit failure"
        /\ trail' = trail \cup {<<job[w].id, "deny">>} /\ UNCHANGED <<asked, counted, telemetry>>
    BY <1>9 DEF AuditDeny
  <2> QED BY <1>5, <2>1 DEF Turn, Phases, Uncounted, Succeeded, Failed
<1>10. ASSUME NEW w \in QWorkers, Dies(w) PROVE Turn(w, job[w].id, "idle")
  <2>1. Moves(w, Idle) /\ job[w].at # "idle" /\ UNCHANGED <<asked, counted, telemetry, trail, outcome>>
    BY <1>1, <1>10 DEF Dies, Records
  <2>2. Idle.at = "idle"
    BY DEF Idle
  <2> QED BY <1>4, <2>1, <2>2 DEF Turn, Phases, Uncounted, Succeeded, Failed
<1>11. ASSUME NEW w \in QWorkers, Miss(w) PROVE Turn(w, job[w].id, "compile")
  <2>1. PICK i : Moves(w, [at |-> "compile", id |-> job[w].id, intent |-> i])
    BY <1>11 DEF Miss
  <2>2. job[w].at = "lookup" /\ UNCHANGED <<asked, counted, telemetry, trail, outcome>>
    BY <1>11 DEF Miss
  <2>3. PICK next : next = [at |-> "compile", id |-> job[w].id, intent |-> i]
    OBVIOUS
  <2>4. next # Idle /\ next.at = "compile" /\ next.id = job[w].id
    BY <2>3 DEF Idle
  <2> QED BY <1>4, <2>1, <2>2, <2>3, <2>4 DEF Turn, Phases, Uncounted, Succeeded, Failed
<1>12. ASSUME NEW w \in QWorkers, CompilePlan(w) PROVE \E to : Turn(w, job[w].id, to)
  <2>1. PICK next : /\ Moves(w, next) /\ next # Idle /\ next.id = job[w].id
                    /\ next.at \in {"preview", "execute", "refuse"}
    <3> DEFINE plan == Compile(model, job[w].intent, Req(w).context)
               good == [at |-> IF Req(w).preview THEN "preview" ELSE "execute", id |-> job[w].id,
                        answer |-> [by |-> job[w].id, model |-> model, statements |-> plan.statements]]
               bad == [at |-> "refuse", id |-> job[w].id]
    <3>1. Moves(w, good) \/ Moves(w, bad)
      BY <1>12 DEF CompilePlan
    <3> HIDE DEF plan
    <3>2. good # Idle /\ good.id = job[w].id /\ good.at \in {"preview", "execute", "refuse"}
      BY DEF Idle
    <3>3. bad # Idle /\ bad.id = job[w].id /\ bad.at \in {"preview", "execute", "refuse"}
      BY DEF Idle
    <3> QED BY <3>1, <3>2, <3>3
  <2>2. job[w].at = "compile" /\ UNCHANGED <<asked, counted, telemetry, trail, outcome>>
    BY <1>12 DEF CompilePlan
  <2>3. PICK to : to = next.at
    OBVIOUS
  <2>4. Turn(w, job[w].id, to)
    BY <1>4, <2>1, <2>2, <2>3 DEF Turn, Phases, Uncounted, Succeeded, Failed
  <2> QED BY <2>4
<1>13. ASSUME NEW w \in QWorkers, NEW from, NEW to, Goes(w, from, to), from # "idle", to # "idle", asked' = asked
       PROVE  /\ DOMAIN job' = QWorkers /\ job'[w].at = to /\ job'[w].id = job[w].id /\ job'[w] # Idle
              /\ \A v \in QWorkers \ {w} : job'[v] = job[v] /\ (job[v].at # "idle" => job[v].id # job[w].id)
              /\ job[w].id \in Ids' /\ job[w].at = from
  <2>1. PICK next : next = [job[w] EXCEPT !.at = to] /\ Moves(w, next) /\ job[w].at = from
    BY <1>13 DEF Goes
  <2>2. job[w] # Idle /\ "at" \in DOMAIN job[w] /\ "id" \in DOMAIN job[w]
    BY <1>1, <1>13, <2>1 DEF Records, QInv, JobsOK, JobOK
  <2>3. next.at = to /\ next.id = job[w].id
    BY <2>1, <2>2
  <2>4. next # Idle
    BY <1>13, <2>3 DEF Idle
  <2> QED BY <1>4, <1>13, <2>1, <2>3, <2>4
<1>14. ASSUME NEW w \in QWorkers, Execute(w) PROVE Turn(w, job[w].id, "count")
  <2>1. Goes(w, "execute", "count") /\ UNCHANGED <<asked, counted, telemetry, trail, outcome>>
    BY <1>14 DEF Execute
  <2> QED BY <1>13, <2>1 DEF Turn, Phases, Uncounted, Succeeded, Failed
<1>15. ASSUME NEW w \in QWorkers, CountSuccess(w) PROVE Turn(w, job[w].id, "record")
  <2>1. Goes(w, "count", "record") /\ UNCHANGED <<asked, telemetry, trail, outcome>>
        /\ counted' = [counted EXCEPT !.success = @ + 1]
    BY <1>15 DEF CountSuccess
  <2> QED BY <1>13, <2>1 DEF Turn, Phases, Uncounted, Succeeded, Failed
<1>16. ASSUME NEW w \in QWorkers, RecordSuccess(w) PROVE Turn(w, job[w].id, "audit")
  <2>1. Goes(w, "record", "audit") /\ UNCHANGED <<asked, counted, trail, outcome>>
        /\ telemetry' = telemetry \cup {<<job[w].id, TRUE>>}
    BY <1>16 DEF RecordSuccess
  <2> QED BY <1>13, <2>1 DEF Turn, Phases, Uncounted, Succeeded, Failed
<1>17. ASSUME NEW w \in QWorkers, AuditAllow(w) PROVE Turn(w, job[w].id, "cache")
  <2>1. Goes(w, "audit", "cache") /\ UNCHANGED <<asked, counted, telemetry, outcome>>
        /\ trail' = trail \cup {<<job[w].id, "allow">>}
    BY <1>17 DEF AuditAllow
  <2> QED BY <1>13, <2>1 DEF Turn, Phases, Uncounted, Succeeded, Failed
<1>18. ASSUME NEW w \in QWorkers, CountFailure(w) PROVE Turn(w, job[w].id, "record failure")
  <2>1. Goes(w, "refuse", "record failure") /\ UNCHANGED <<asked, telemetry, trail, outcome>>
        /\ counted' = [counted EXCEPT !.failed = @ + 1]
    BY <1>18 DEF CountFailure
  <2> QED BY <1>13, <2>1 DEF Turn, Phases, Uncounted, Succeeded, Failed
<1>19. ASSUME NEW w \in QWorkers, RecordFailure(w) PROVE Turn(w, job[w].id, "audit failure")
  <2>1. Goes(w, "record failure", "audit failure") /\ UNCHANGED <<asked, counted, trail, outcome>>
        /\ telemetry' = telemetry \cup {<<job[w].id, FALSE>>}
    BY <1>19 DEF RecordFailure
  <2> QED BY <1>13, <2>1 DEF Turn, Phases, Uncounted, Succeeded, Failed
<1>20. ASSUME NEW w \in QWorkers, StepFails(w) PROVE Turn(w, job[w].id, "refuse")
  <2>1. PICK next : next = [at |-> "refuse", id |-> job[w].id] /\ Moves(w, next)
    BY <1>20 DEF StepFails
  <2>2. job[w].at \in {"lookup", "compile", "execute", "count", "record", "audit", "cache"}
        /\ UNCHANGED <<asked, counted, telemetry, trail, outcome>>
    BY <1>20 DEF StepFails
  <2>3. next # Idle /\ next.at = "refuse" /\ next.id = job[w].id
    BY <2>1 DEF Idle
  <2> QED BY <1>4, <2>1, <2>2, <2>3 DEF Turn, Phases, Uncounted, Succeeded, Failed
<1>21. ASSUME ChangeModel \/ ReloadPolicies \/ ClearCache \/ QTick PROVE Rest
  BY <1>21 DEF ChangeModel, ReloadPolicies, ClearCache, QTick, Rest
<1> QED BY <1>3, <1>6, <1>7, <1>8, <1>9, <1>10, <1>11, <1>12, <1>14, <1>15, <1>16, <1>17, <1>18, <1>19,
           <1>20, <1>21 DEF QNext

-----------------------------------------------------------------------------
\* What a turn does to the requests in some phases.
LEMMA TurnMoves ==
  ASSUME AccountInv, NEW w, NEW n, NEW to, Turn(w, n, to), NEW S, "idle" \notin S
  PROVE  /\ At(S)' \subseteq At(S) \cup {n}
         /\ to \notin S => At(S)' \subseteq At(S) \ {n}
         /\ job[w].at \in S => n \in At(S) /\ At(S)' \subseteq At(S)
<1>1. /\ w \in QWorkers /\ job'[w].at = to /\ (to # "idle" => job'[w].id = n)
      /\ \A v \in QWorkers \ {w} : job'[v] = job[v] /\ (job[v].at # "idle" => job[v].id # n)
      /\ job[w].at # "idle" => job[w].id = n
  BY DEF Turn
<1>2. ASSUME NEW m \in At(S)' PROVE (m = n /\ to \in S) \/ (m \in At(S) /\ m # n)
  <2>1. PICK v \in QWorkers : job'[v].at \in S /\ m = job'[v].id
    BY DEF At
  <2>2. CASE v = w
    BY <1>1, <2>1, <2>2
  <2>3. CASE v # w
    <3>1. job[v].at \in S /\ m = job[v].id /\ m # n
      BY <1>1, <2>1, <2>3
    <3> QED BY <3>1 DEF At
  <2> QED BY <2>2, <2>3
<1>3. job[w].at \in S => n \in At(S)
  BY <1>1 DEF At
<1> QED BY <1>2, <1>3

LEMMA Numbered ==
  ASSUME AccountInv, NEW S, "idle" \notin S
  PROVE  /\ At(S) \subseteq Ids /\ IsFiniteSet(At(S)) /\ Cardinality(At(S)) \in Nat
         /\ IsFiniteSet(Told("answer")) /\ IsFiniteSet(Told("error"))
<1>1. IsFiniteSet(Ids)
  BY FS_Interval DEF AccountInv, Records, Ids
<1>2. At(S) \subseteq Ids
  BY DEF AccountInv, NumbersApart, At
<1>3. Told("answer") \subseteq Ids /\ Told("error") \subseteq Ids
  BY DEF AccountInv, Records, Told
<1> QED BY <1>1, <1>2, <1>3, FS_Subset, FS_CardinalityType

\* A number that may grow by one when the set may, and must shrink when it does.
LEMMA NoMore ==
  ASSUME NEW S, IsFiniteSet(S), NEW T, T \subseteq S
  PROVE  Cardinality(T) \in Nat /\ Cardinality(S) \in Nat /\ Cardinality(T) <= Cardinality(S)
BY FS_Subset, FS_CardinalityType

LEMMA OneMore ==
  ASSUME NEW S, IsFiniteSet(S), NEW x, NEW T, T \subseteq S \cup {x}
  PROVE  Cardinality(T) \in Nat /\ Cardinality(S) \in Nat /\ Cardinality(T) <= Cardinality(S) + 1
<1>1. /\ IsFiniteSet(S \cup {x}) /\ Cardinality(S \cup {x}) <= Cardinality(S) + 1
      /\ Cardinality(S) \in Nat
  BY FS_AddElement, FS_CardinalityType
<1>2. Cardinality(T) \in Nat /\ Cardinality(S \cup {x}) \in Nat /\ Cardinality(T) <= Cardinality(S \cup {x})
  BY <1>1, NoMore
<1> QED BY <1>1, <1>2

LEMMA OneFewer ==
  ASSUME NEW S, IsFiniteSet(S), NEW x \in S, NEW T, T \subseteq S \ {x}
  PROVE  Cardinality(T) \in Nat /\ Cardinality(S) \in Nat /\ Cardinality(T) + 1 <= Cardinality(S)
<1>1. /\ IsFiniteSet(S \ {x}) /\ Cardinality(S \ {x}) = Cardinality(S) - 1
      /\ Cardinality(S) \in Nat
  BY FS_RemoveElement, FS_CardinalityType
<1>2. Cardinality(T) \in Nat /\ Cardinality(T) <= Cardinality(S \ {x}) /\ Cardinality(S \ {x}) \in Nat
  BY <1>1, NoMore
<1> QED BY <1>1, <1>2

\* What was told to callers after a turn.
LEMMA ToldNext ==
  ASSUME AccountInv, NEW w, NEW n, NEW to, Turn(w, n, to)
  PROVE  /\ Told("answer")' \subseteq Told("answer") \cup {n}
         /\ Told("answer")' \subseteq Told("answer") \/ (to = "idle" /\ job[w].at = "cache")
         /\ Told("error")' \subseteq Told("error") \cup {n}
         /\ Told("error")' \subseteq Told("error") \/ (to = "idle" /\ job[w].at = "audit failure")
         /\ DOMAIN outcome' \subseteq DOMAIN outcome \cup {n}
         /\ to # "idle" => outcome' = outcome
         /\ \A m \in DOMAIN outcome' : outcome'[m].kind \in {"answer", "cached", "preview", "error"}
<1>1. \A m \in DOMAIN outcome : outcome[m].kind \in {"answer", "cached", "preview", "error"}
  BY DEF AccountInv, Records
<1>2. CASE outcome' = outcome
  BY <1>1, <1>2 DEF Told
<1>3. ASSUME NEW result, outcome' = With(outcome, n, result), to = "idle",
             result.kind \in {"answer", "cached", "preview", "error"},
             result.kind = "answer" => job[w].at = "cache",
             result.kind = "error" => job[w].at = "audit failure"
      PROVE  /\ Told("answer")' \subseteq Told("answer") \cup {n}
             /\ Told("answer")' \subseteq Told("answer") \/ (to = "idle" /\ job[w].at = "cache")
             /\ Told("error")' \subseteq Told("error") \cup {n}
             /\ Told("error")' \subseteq Told("error") \/ (to = "idle" /\ job[w].at = "audit failure")
             /\ DOMAIN outcome' \subseteq DOMAIN outcome \cup {n}
             /\ to # "idle" => outcome' = outcome
             /\ \A m \in DOMAIN outcome' : outcome'[m].kind \in {"answer", "cached", "preview", "error"}
  <2>1. /\ DOMAIN outcome' = DOMAIN outcome \cup {n} /\ outcome'[n] = result
        /\ \A m \in DOMAIN outcome \ {n} : outcome'[m] = outcome[m]
    BY <1>3 DEF With
  <2> QED BY <1>1, <1>3, <2>1 DEF Told
<1>4. CASE to = "idle" /\ job[w].at = "audit failure" /\ outcome' = With(outcome, n, [kind |-> "error"])
  <2>1. PICK result : result = [kind |-> "error"] /\ outcome' = With(outcome, n, result)
    BY <1>4
  <2> QED BY <1>3, <1>4, <2>1
<1>5. ASSUME to = "idle", NEW kind \in {"answer", "cached", "preview"}, NEW a,
             outcome' = With(outcome, n, [kind |-> kind, answer |-> a]),
             kind = "answer" => job[w].at = "cache"
      PROVE  /\ Told("answer")' \subseteq Told("answer") \cup {n}
             /\ Told("answer")' \subseteq Told("answer") \/ (to = "idle" /\ job[w].at = "cache")
             /\ Told("error")' \subseteq Told("error") \cup {n}
             /\ Told("error")' \subseteq Told("error") \/ (to = "idle" /\ job[w].at = "audit failure")
             /\ DOMAIN outcome' \subseteq DOMAIN outcome \cup {n}
             /\ to # "idle" => outcome' = outcome
             /\ \A m \in DOMAIN outcome' : outcome'[m].kind \in {"answer", "cached", "preview", "error"}
  <2>1. PICK result : result = [kind |-> kind, answer |-> a] /\ outcome' = With(outcome, n, result)
    BY <1>5
  <2> QED BY <1>3, <1>5, <2>1
<1> QED BY <1>2, <1>4, <1>5 DEF Turn

LEMMA TurnCounts ==
  ASSUME AccountInv, NEW w, NEW n, NEW to, Turn(w, n, to)
  PROVE  Counts'
<1> DEFINE A == Told("answer") \cup At(Succeeded)
           B == Told("error") \cup At(Failed)
           C == At(Uncounted)
           Open == Uncounted \cup Succeeded \cup {"refuse"}
           D == At(Open)
<1>1. /\ "idle" \notin Succeeded /\ "idle" \notin Failed /\ "idle" \notin Uncounted /\ "idle" \notin Open
  BY DEF Succeeded, Failed, Uncounted
<1>2. IsFiniteSet(A) /\ IsFiniteSet(B) /\ IsFiniteSet(C) /\ IsFiniteSet(D)
  BY <1>1, Numbered, FS_Union
<1>3. A' \subseteq A \/ (to = "record" /\ A' \subseteq A \cup {n})
  <2>1. At(Succeeded)' \subseteq At(Succeeded) \/ (to = "record" /\ At(Succeeded)' \subseteq At(Succeeded) \cup {n})
    <3>1. CASE to \notin Succeeded
      BY <1>1, <3>1, TurnMoves
    <3>2. CASE job[w].at \in Succeeded
      BY <1>1, <3>2, TurnMoves
    <3>3. CASE to \in Succeeded /\ job[w].at = "count"
      <4>1. to = "record"
        BY <3>3 DEF Turn, Succeeded, AccountInv, NumbersApart
      <4> QED BY <1>1, <4>1, TurnMoves
    <3> QED BY <3>1, <3>2, <3>3 DEF Turn
  <2>2. CASE Told("answer")' \subseteq Told("answer")
    BY <2>1, <2>2
  <2>3. CASE to = "idle" /\ job[w].at = "cache"
    <3>1. n \in At(Succeeded) /\ At(Succeeded)' \subseteq At(Succeeded)
      <4>1. job[w].at \in Succeeded
        BY <2>3 DEF Succeeded
      <4> QED BY <1>1, <4>1, TurnMoves
    <3> QED BY <3>1, ToldNext
  <2> QED BY <2>2, <2>3, ToldNext
<1>4. B' \subseteq B \/ (to = "record failure" /\ B' \subseteq B \cup {n})
  <2>1. At(Failed)' \subseteq At(Failed) \/ (to = "record failure" /\ At(Failed)' \subseteq At(Failed) \cup {n})
    <3>1. CASE to \notin Failed
      BY <1>1, <3>1, TurnMoves
    <3>2. CASE job[w].at \in Failed
      BY <1>1, <3>2, TurnMoves
    <3>3. CASE to \in Failed /\ job[w].at = "refuse"
      <4>1. to = "record failure"
        BY <3>3 DEF Turn, Failed, AccountInv, NumbersApart
      <4> QED BY <1>1, <4>1, TurnMoves
    <3> QED BY <3>1, <3>2, <3>3 DEF Turn
  <2>2. CASE Told("error")' \subseteq Told("error")
    BY <2>1, <2>2
  <2>3. CASE to = "idle" /\ job[w].at = "audit failure"
    <3>1. n \in At(Failed) /\ At(Failed)' \subseteq At(Failed)
      <4>1. job[w].at \in Failed
        BY <2>3 DEF Failed
      <4> QED BY <1>1, <4>1, TurnMoves
    <3> QED BY <3>1, ToldNext
  <2> QED BY <2>2, <2>3, ToldNext
<1>5. \/ job[w].at = "idle" /\ to = "lookup" /\ Len(asked') = Len(asked) + 1
         /\ C' \subseteq C \cup {n} /\ D' \subseteq D \cup {n}
      \/ job[w].at # "idle" /\ asked' = asked /\ C' \subseteq C /\ D' \subseteq D
  <2>1. CASE job[w].at = "idle" /\ to = "lookup" /\ \E r \in Requests : asked' = Append(asked, r)
    BY <1>1, <2>1, TurnMoves DEF AccountInv, Records
  <2>2. CASE job[w].at # "idle" /\ asked' = asked
    <3>1. to \in Uncounted => job[w].at \in Uncounted
      BY <2>2 DEF Turn
    <3>2. to \in Open => job[w].at \in Open
      BY <2>2 DEF Turn, Uncounted, Succeeded
    <3>3. C' \subseteq C
      BY <1>1, <3>1, TurnMoves
    <3>4. D' \subseteq D
      BY <1>1, <3>2, TurnMoves
    <3> QED BY <2>2, <3>3, <3>4
  <2> QED BY <2>1, <2>2 DEF Turn
<1>6. to = "record" => n \in C /\ C' \subseteq C \ {n}
  <2>1. to = "record" => job[w].at \in Uncounted /\ to \notin Uncounted
    BY DEF Turn, Uncounted
  <2> QED BY <1>1, <2>1, TurnMoves
<1>7. to = "record failure" => n \in D /\ D' \subseteq D \ {n}
  <2> SUFFICES ASSUME to = "record failure" PROVE n \in D /\ D' \subseteq D \ {n}
    OBVIOUS
  <2>1. job[w].at \in Open /\ to \notin Open
    BY DEF Turn, Uncounted, Succeeded
  <2> HIDE DEF Open
  <2>2. n \in At(Open) /\ At(Open)' \subseteq At(Open) \ {n}
    BY <1>1, <2>1, TurnMoves
  <2> QED BY <2>2
<1>8. PICK s \in Nat, f \in Nat : counted = [success |-> s, failed |-> f]
  BY DEF AccountInv, Counts
<1>9. PICK s1 \in Nat, f1 \in Nat :
        /\ counted' = [success |-> s1, failed |-> f1]
        /\ s1 \in {s, s + 1} /\ f1 \in {f, f + 1}
        /\ to = "record" => s1 = s + 1 /\ f1 = f
        /\ to = "record failure" => s1 = s /\ f1 = f + 1
        /\ to \notin {"record", "record failure"} => s1 = s /\ f1 = f
  <2>1. CASE to = "record" /\ counted' = [counted EXCEPT !.success = @ + 1]
    <3>1. counted' = [success |-> s + 1, failed |-> f] /\ s + 1 \in Nat
      BY <1>8, <2>1
    <3> QED BY <2>1, <3>1, Zenon
  <2>2. CASE to = "record failure" /\ counted' = [counted EXCEPT !.failed = @ + 1]
    <3>1. counted'= [counted EXCEPT !.failed = @ + 1]
      BY <2>2
    <3>2. counted' = [success |-> s, failed |-> f + 1] /\ f + 1 \in Nat
      BY <1>8, <3>1
    <3> QED BY <2>2, <3>2, Zenon
  <2>3. CASE to \notin {"record", "record failure"} /\ counted' = counted
    BY <1>8, <2>3, Zenon
  <2> QED BY <2>1, <2>2, <2>3 DEF Turn
<1>10. /\ Cardinality(A) <= s /\ Cardinality(B) <= f
       /\ s + Cardinality(C) <= Len(asked) /\ f + Cardinality(D) <= Len(asked)
  <2>1. counted.success = s /\ counted.failed = f
    BY <1>8
  <2> QED BY <2>1 DEF AccountInv, Counts
<1>11. Len(asked) \in Nat
  BY DEF AccountInv, Records
<1> HIDE DEF A, B, C, D
<1>12. s1 \in {s, s + 1} /\ f1 \in {f, f + 1}
  BY <1>9
<1>13. Cardinality(A') <= s1
  <2>1. CASE A' \subseteq A
    <3>1. Cardinality(A') \in Nat /\ Cardinality(A) \in Nat /\ Cardinality(A') <= Cardinality(A)
      BY <1>2, <2>1, NoMore
    <3> QED BY <1>10, <1>12, <3>1
  <2>2. CASE to = "record" /\ A' \subseteq A \cup {n}
    <3>1. Cardinality(A') \in Nat /\ Cardinality(A) \in Nat /\ Cardinality(A') <= Cardinality(A) + 1
      BY <1>2, <2>2, OneMore
    <3>2. s1 = s + 1
      BY <1>9, <2>2, Zenon
    <3> QED BY <1>10, <3>1, <3>2
  <2> QED BY <1>3, <2>1, <2>2
<1>14. Cardinality(B') <= f1
  <2>1. CASE B' \subseteq B
    <3>1. Cardinality(B') \in Nat /\ Cardinality(B) \in Nat /\ Cardinality(B') <= Cardinality(B)
      BY <1>2, <2>1, NoMore
    <3> QED BY <1>10, <1>12, <3>1
  <2>2. CASE to = "record failure" /\ B' \subseteq B \cup {n}
    <3>1. Cardinality(B') \in Nat /\ Cardinality(B) \in Nat /\ Cardinality(B') <= Cardinality(B) + 1
      BY <1>2, <2>2, OneMore
    <3>2. f1 = f + 1
      BY <1>9, <2>2, Zenon
    <3> QED BY <1>10, <3>1, <3>2
  <2> QED BY <1>4, <2>1, <2>2
<1>15. s1 + Cardinality(C') <= Len(asked')
  <2>1. CASE to = "record"
    <3>1. Cardinality(C') \in Nat /\ Cardinality(C) \in Nat /\ Cardinality(C') + 1 <= Cardinality(C)
      BY <1>2, <1>6, <2>1, OneFewer
    <3>2. s1 = s + 1 /\ asked' = asked
      BY <1>5, <1>9, <2>1, Zenon
    <3> QED BY <1>10, <1>11, <3>1, <3>2
  <2>2. CASE to # "record" /\ C' \subseteq C /\ asked' = asked
    <3>1. Cardinality(C') \in Nat /\ Cardinality(C) \in Nat /\ Cardinality(C') <= Cardinality(C)
      BY <1>2, <2>2, NoMore
    <3>2. s1 = s /\ asked' = asked
      BY <1>9, <2>2, Zenon
    <3> QED BY <1>10, <1>11, <3>1, <3>2
  <2>3. CASE to = "lookup" /\ Len(asked') = Len(asked) + 1 /\ C' \subseteq C \cup {n}
    <3>1. Cardinality(C') \in Nat /\ Cardinality(C) \in Nat /\ Cardinality(C') <= Cardinality(C) + 1
      BY <1>2, <2>3, OneMore
    <3>2. s1 = s /\ Len(asked') = Len(asked) + 1
      BY <1>9, <2>3, Zenon
    <3> QED BY <1>10, <1>11, <3>1, <3>2
  <2> QED BY <1>5, <2>1, <2>2, <2>3
<1>16. f1 + Cardinality(D') <= Len(asked')
  <2>1. CASE to = "record failure"
    <3>1. Cardinality(D') \in Nat /\ Cardinality(D) \in Nat /\ Cardinality(D') + 1 <= Cardinality(D)
      BY <1>2, <1>7, <2>1, OneFewer
    <3>2. f1 = f + 1 /\ asked' = asked
      BY <1>5, <1>9, <2>1, Zenon
    <3> QED BY <1>10, <1>11, <3>1, <3>2
  <2>2. CASE to # "record failure" /\ D' \subseteq D /\ asked' = asked
    <3>1. Cardinality(D') \in Nat /\ Cardinality(D) \in Nat /\ Cardinality(D') <= Cardinality(D)
      BY <1>2, <2>2, NoMore
    <3>2. f1 = f /\ asked' = asked
      BY <1>9, <2>2, Zenon
    <3> QED BY <1>10, <1>11, <3>1, <3>2
  <2>3. CASE to = "lookup" /\ Len(asked') = Len(asked) + 1 /\ D' \subseteq D \cup {n}
    <3>1. Cardinality(D') \in Nat /\ Cardinality(D) \in Nat /\ Cardinality(D') <= Cardinality(D) + 1
      BY <1>2, <2>3, OneMore
    <3>2. f1 = f /\ Len(asked') = Len(asked) + 1
      BY <1>9, <2>3, Zenon
    <3> QED BY <1>10, <1>11, <3>1, <3>2
  <2> QED BY <1>5, <2>1, <2>2, <2>3
<1> USE DEF A, B, C, D
<1>17. counted' \in [success : Nat, failed : Nat] /\ counted'.success = s1 /\ counted'.failed = f1
  BY <1>9
<1> QED BY <1>13, <1>14, <1>15, <1>16, <1>17 DEF Counts

LEMMA TurnRecords ==
  ASSUME AccountInv, NEW w, NEW n, NEW to, Turn(w, n, to)
  PROVE  Records' /\ NumbersApart' /\ ToldOnRecord' /\ Ids \subseteq Ids'
<1>1. Records /\ NumbersApart /\ ToldOnRecord
  BY DEF AccountInv
<1>2. asked' \in Seq(Requests) /\ Len(asked') <= MaxQCalls /\ Ids \subseteq Ids' /\ n \in Ids'
  <2>1. CASE \E r \in Requests : asked' = Append(asked, r) /\ Len(asked) < MaxQCalls
    <3>1. PICK r \in Requests : asked' = Append(asked, r)
      BY <2>1
    <3>2. asked \in Seq(Requests) /\ Len(asked) < MaxQCalls /\ MaxQCalls \in Nat
      BY <1>1, <2>1, QAssumption DEF Records
    <3>3. asked' \in Seq(Requests) /\ Len(asked') = Len(asked) + 1 /\ Len(asked) \in Nat
      BY <3>1, <3>2
    <3>4. n \in Ids'
      BY DEF Turn
    <3> QED BY <3>2, <3>3, <3>4 DEF Ids
  <2>2. CASE asked' = asked
    BY <1>1, <2>2 DEF Records, Ids, Turn
  <2> QED BY <2>1, <2>2 DEF Turn
<1>3. /\ w \in QWorkers /\ DOMAIN job' = QWorkers /\ job'[w].at = to /\ to \in Phases
      /\ (to = "idle" => job'[w] = Idle) /\ (to # "idle" => job'[w] # Idle /\ job'[w].id = n)
      /\ \A v \in QWorkers \ {w} : job'[v] = job[v] /\ (job[v].at # "idle" => job[v].id # n)
  BY DEF Turn
<1>4. /\ telemetry \subseteq telemetry' /\ trail \subseteq trail'
      /\ telemetry' \subseteq telemetry \cup ({n} \X BOOLEAN)
      /\ trail' \subseteq trail \cup {<<n, "allow">>, <<n, "deny">>}
      /\ <<n, "deny">> \in trail' \ trail => to = "idle" /\ job[w].at = "audit failure"
      /\ \A m \in Ids' : m # n => (<<m, "deny">> \in trail' => <<m, "deny">> \in trail)
  <2>1. telemetry' = telemetry \/ \E b \in BOOLEAN : telemetry' = telemetry \cup {<<n, b>>}
    BY DEF Turn
  <2>2. \/ trail' = trail \cup {<<n, "deny">>} /\ to = "idle" /\ job[w].at = "audit failure"
        \/ trail' = trail \/ trail' = trail \cup {<<n, "allow">>}
    BY DEF Turn
  <2>3. telemetry \subseteq telemetry' /\ telemetry' \subseteq telemetry \cup ({n} \X BOOLEAN)
    BY <2>1
  <2>4. trail \subseteq trail' /\ trail' \subseteq trail \cup {<<n, "allow">>, <<n, "deny">>}
    BY <2>2
  <2>5. <<n, "deny">> # <<n, "allow">> /\ \A m \in Ids' : <<m, "deny">> # <<n, "allow">>
    OBVIOUS
  <2>6. <<n, "deny">> \in trail' \ trail => to = "idle" /\ job[w].at = "audit failure"
    BY <2>2, <2>5
  <2>7. ASSUME NEW m \in Ids', m # n, <<m, "deny">> \in trail' PROVE <<m, "deny">> \in trail
    <3>1. <<m, "deny">> # <<n, "deny">>
      BY <2>7
    <3> QED BY <2>2, <2>7, <2>5, <3>1
  <2> QED BY <2>3, <2>4, <2>6, <2>7
<1>5. telemetry' \subseteq Ids' \X BOOLEAN /\ trail' \subseteq Ids' \X {"allow", "deny"}
  <2>1. telemetry \subseteq Ids \X BOOLEAN /\ trail \subseteq Ids \X {"allow", "deny"}
    BY <1>1 DEF Records
  <2> HIDE DEF Ids
  <2>2. telemetry' \subseteq Ids' \X BOOLEAN
    BY <1>2, <1>4, <2>1
  <2>3. trail' \subseteq Ids' \X {"allow", "deny"}
    <3>1. <<n, "allow">> \in Ids' \X {"allow", "deny"} /\ <<n, "deny">> \in Ids' \X {"allow", "deny"}
      BY <1>2
    <3> QED BY <3>1, <1>2, <1>4, <2>1
  <2> QED BY <2>2, <2>3
<1>6. n \notin DOMAIN outcome /\ <<n, "deny">> \notin trail
  <2>1. CASE job[w].at # "idle" /\ job[w].id = n
    BY <1>1, <1>3, <2>1 DEF NumbersApart
  <2>2. CASE n = Len(asked) + 1
    <3>1. n \notin Ids
      BY <1>1, <2>2 DEF Records, Ids
    <3> QED BY <1>1, <3>1 DEF Records
  <2> QED BY <2>1, <2>2 DEF Turn
<1>7. Records'
  <2>1. \A v \in QWorkers : job'[v].at \in Phases /\ (job'[v].at = "idle" <=> job'[v] = Idle)
    BY <1>1, <1>3 DEF Records, Idle
  <2>2. DOMAIN outcome' \subseteq Ids'
    <3>1. DOMAIN outcome' \subseteq DOMAIN outcome \cup {n} /\ DOMAIN outcome \subseteq Ids
      BY <1>1, ToldNext DEF Records
    <3> QED BY <1>2, <3>1
  <2>3. \A m \in DOMAIN outcome' : outcome'[m].kind \in {"answer", "cached", "preview", "error"}
    BY ToldNext
  <2> QED BY <1>2, <1>3, <1>5, <2>1, <2>2, <2>3 DEF Records
<1>8. NumbersApart'
  <2>1. ASSUME NEW v \in QWorkers, NEW u \in QWorkers, v # u, job'[v].at # "idle", job'[u].at # "idle"
        PROVE  job'[v].id # job'[u].id
    <3>1. CASE v = w
      BY <1>3, <2>1, <3>1
    <3>2. CASE u = w
      BY <1>3, <2>1, <3>2
    <3>3. CASE v # w /\ u # w
      BY <1>1, <1>3, <2>1, <3>3, ZenonT(40) DEF NumbersApart
    <3> QED BY <3>1, <3>2, <3>3
  <2>2. ASSUME NEW v \in QWorkers, job'[v].at # "idle"
        PROVE  /\ job'[v].id \in Ids' \ DOMAIN outcome'
               /\ <<job'[v].id, "deny">> \notin trail'
               /\ job'[v].at = "audit failure" => <<job'[v].id, FALSE>> \in telemetry'
               /\ job'[v].at \in {"audit", "cache"} => <<job'[v].id, TRUE>> \in telemetry'
               /\ job'[v].at = "cache" => <<job'[v].id, "allow">> \in trail'
    <3>1. CASE v # w
      <4>1. job'[v] = job[v] /\ job[v].at # "idle" /\ job[v].id # n
        BY <1>3, <2>2, <3>1
      <4>2. /\ job[v].id \in Ids \ DOMAIN outcome /\ <<job[v].id, "deny">> \notin trail
            /\ job[v].at = "audit failure" => <<job[v].id, FALSE>> \in telemetry
            /\ job[v].at \in {"audit", "cache"} => <<job[v].id, TRUE>> \in telemetry
            /\ job[v].at = "cache" => <<job[v].id, "allow">> \in trail
        BY <1>1, <4>1 DEF NumbersApart
      <4>3. job[v].id \in Ids' \ DOMAIN outcome'
        BY <1>2, <4>1, <4>2, ToldNext
      <4>4. <<job[v].id, "deny">> \notin trail'
        BY <1>4, <4>1, <4>2
      <4> QED BY <1>4, <4>1, <4>2, <4>3, <4>4
    <3>2. CASE v = w
      <4>1. job'[v].id = n /\ to # "idle" /\ outcome' = outcome
        <5>1. to # "idle"
          BY <1>3, <2>2, <3>2
        <5>2. to # "idle" => outcome' = outcome
          BY ToldNext
        <5> QED BY <1>3, <3>2, <5>1, <5>2
      <4>2. <<n, "deny">> \notin trail'
        BY <1>4, <1>6, <4>1
      <4>3. /\ to = "audit failure" => <<n, FALSE>> \in telemetry'
            /\ to \in {"audit", "cache"} => <<n, TRUE>> \in telemetry'
            /\ to = "cache" => <<n, "allow">> \in trail'
        <5>1. to = "cache" => <<n, TRUE>> \in telemetry
          BY <1>1 DEF Turn, NumbersApart
        <5> QED BY <1>4, <5>1 DEF Turn
      <4> QED BY <1>2, <1>3, <1>6, <3>2, <4>1, <4>2, <4>3
    <3> QED BY <3>1, <3>2
  <2> QED BY <2>1, <2>2 DEF NumbersApart
<1>9. ToldOnRecord'
  <2>1. ASSUME NEW m \in Told("answer")'
        PROVE  <<m, "allow">> \in trail' /\ <<m, "deny">> \notin trail' /\ <<m, TRUE>> \in telemetry'
    <3>1. CASE m \in Told("answer")
      <4>1. m # n /\ <<m, "allow">> \in trail /\ <<m, "deny">> \notin trail /\ <<m, TRUE>> \in telemetry
        BY <1>1, <1>6, <3>1 DEF ToldOnRecord, Told
      <4> QED BY <1>4, <4>1
    <3>2. CASE m \notin Told("answer")
      <4>1. m = n /\ to = "idle" /\ job[w].at = "cache"
        BY <2>1, <3>2, ToldNext
      <4>2. job[w].id = n /\ <<n, "allow">> \in trail /\ <<n, TRUE>> \in telemetry
        BY <1>1, <4>1 DEF Turn, NumbersApart
      <4>3. <<n, "deny">> \notin trail'
        BY <1>4, <1>6, <4>1
      <4> QED BY <1>4, <4>1, <4>2, <4>3
    <3> QED BY <3>1, <3>2
  <2>2. ASSUME NEW m \in Told("error")' PROVE <<m, "deny">> \in trail' /\ <<m, FALSE>> \in telemetry'
    <3>1. CASE m \in Told("error")
      BY <1>1, <1>4, <3>1 DEF ToldOnRecord
    <3>2. CASE m \notin Told("error")
      <4>1. m = n /\ to = "idle" /\ job[w].at = "audit failure"
        BY <2>2, <3>2, ToldNext
      <4>2. job[w].id = n /\ <<n, FALSE>> \in telemetry
        BY <1>1, <4>1 DEF Turn, NumbersApart
      <4>3. <<n, "deny">> \in trail'
        <5>1. CASE trail' = trail \cup {<<n, "deny">>}
          BY <5>1
        <5>2. CASE outcome' = outcome
          BY <2>2, <3>2, <5>2 DEF Told
        <5>3. ASSUME NEW kind \in {"answer", "cached", "preview"}, NEW a,
                     outcome' = With(outcome, n, [kind |-> kind, answer |-> a])
              PROVE  FALSE
          <6>1. outcome'[n].kind = kind
            BY <5>3 DEF With
          <6> QED BY <2>2, <4>1, <5>3, <6>1 DEF Told
        <5> QED BY <5>1, <5>2, <5>3 DEF Turn
      <4> QED BY <1>4, <4>1, <4>2, <4>3
    <3> QED BY <3>1, <3>2
  <2> QED BY <2>1, <2>2 DEF ToldOnRecord
<1> QED BY <1>2, <1>7, <1>8, <1>9

-----------------------------------------------------------------------------
\* What callers were told is accounted for in every reachable state.
LEMMA AccountInvariant == QSpec => []AccountInv
<1>1. QInit => AccountInv
  <2> SUFFICES ASSUME QInit PROVE AccountInv
    OBVIOUS
  <2>1. \A w \in QWorkers : job[w].at = "idle" /\ job[w] = Idle
    BY DEF QInit, Idle
  <2>2. Records /\ NumbersApart
    <3>1. asked = <<>> /\ Len(asked) = 0 /\ Ids = 1 .. 0 /\ asked \in Seq(Requests)
      BY DEF QInit, Ids
    <3>2. DOMAIN job = QWorkers /\ DOMAIN outcome = {} /\ telemetry = {} /\ trail = {}
      BY DEF QInit
    <3>3. \A w \in QWorkers : job[w].at \in Phases /\ (job[w].at = "idle" <=> job[w] = Idle)
      BY <2>1 DEF Phases
    <3>4. Records
      BY <3>1, <3>2, <3>3, QAssumption DEF Records
    <3>5. NumbersApart
      BY <2>1 DEF NumbersApart
    <3> QED BY <3>4, <3>5
  <2>3. Told("answer") = {} /\ Told("error") = {}
    BY DEF QInit, Told
  <2>4. \A S : "idle" \notin S => At(S) = {}
    BY <2>1 DEF At
  <2>5. /\ At(Succeeded) = {} /\ At(Failed) = {} /\ At(Uncounted) = {}
        /\ At(Uncounted \cup Succeeded \cup {"refuse"}) = {}
    BY <2>4 DEF Succeeded, Failed, Uncounted
  <2>6. Counts
    <3>1. /\ Told("answer") \cup At(Succeeded) = {} /\ Told("error") \cup At(Failed) = {}
          /\ Len(asked) = 0 /\ counted = [success |-> 0, failed |-> 0]
      BY <2>3, <2>5 DEF QInit
    <3>2. Cardinality({}) = 0
      BY FS_EmptySet
    <3>3. counted \in [success : Nat, failed : Nat] /\ counted.success = 0 /\ counted.failed = 0
      BY <3>1
    <3>4. /\ Cardinality(Told("answer") \cup At(Succeeded)) = 0
          /\ Cardinality(Told("error") \cup At(Failed)) = 0
          /\ Cardinality(At(Uncounted)) = 0
          /\ Cardinality(At(Uncounted \cup Succeeded \cup {"refuse"})) = 0
      BY <2>5, <3>1, <3>2, Zenon
    <3> QED BY <3>1, <3>3, <3>4 DEF Counts
  <2> QED BY <2>2, <2>3, <2>6 DEF AccountInv, ToldOnRecord
<1>2. QInv /\ AccountInv /\ [QNext]_qvars => AccountInv'
  <2> SUFFICES ASSUME QInv, AccountInv, [QNext]_qvars PROVE AccountInv'
    OBVIOUS
  <2>1. CASE Rest
    <3>1. Ids' = Ids /\ Told("answer")' = Told("answer") /\ Told("error")' = Told("error")
      BY <2>1 DEF Rest, Ids, Told
    <3>2. /\ At(Succeeded)' = At(Succeeded) /\ At(Failed)' = At(Failed) /\ At(Uncounted)' = At(Uncounted)
          /\ At(Uncounted \cup Succeeded \cup {"refuse"})' = At(Uncounted \cup Succeeded \cup {"refuse"})
      BY <2>1 DEF Rest, At
    <3>3. Records' /\ NumbersApart'
      BY <2>1, <3>1 DEF Rest, AccountInv, Records, NumbersApart
    <3>4. ToldOnRecord' /\ Counts'
      BY <2>1, <3>1, <3>2 DEF Rest, AccountInv, ToldOnRecord, Counts
    <3> QED BY <3>3, <3>4 DEF AccountInv
  <2>2. CASE UNCHANGED qvars
    BY <2>1, <2>2 DEF qvars, Rest
  <2>3. ASSUME NEW w, NEW n, NEW to, Turn(w, n, to) PROVE AccountInv'
    BY <2>3, TurnCounts, TurnRecords DEF AccountInv
  <2> QED BY <2>1, <2>2, <2>3, TurnsTaken
<1> QED BY <1>1, <1>2, QueryInvariant, PTL DEF QSpec

\* What the caller was told is what the trail, the telemetry and the counts say, and
\* no outcome is missing from the success rate, whatever step failed or thread died
\* (main.py chat, its try block and its except branch).
THEOREM EveryOutcomeAccounted == QSpec => []OutcomesAccounted
<1>1. AccountInv => OutcomesAccounted
  <2> SUFFICES ASSUME AccountInv PROVE OutcomesAccounted
    OBVIOUS
  <2>1. Cardinality(Told("answer")) <= counted.success
    <3>1. "idle" \notin Succeeded
      BY DEF Succeeded
    <3>2. IsFiniteSet(Told("answer") \cup At(Succeeded))
      BY <3>1, Numbered, FS_Union
    <3> QED BY <3>2, NoMore DEF AccountInv, Counts
  <2>2. Cardinality(Told("error")) <= counted.failed
    <3>1. "idle" \notin Failed
      BY DEF Failed
    <3>2. IsFiniteSet(Told("error") \cup At(Failed))
      BY <3>1, Numbered, FS_Union
    <3> QED BY <3>2, NoMore DEF AccountInv, Counts
  <2> QED BY <2>1, <2>2 DEF AccountInv, ToldOnRecord, OutcomesAccounted, Told
<1> QED BY <1>1, AccountInvariant, PTL

-----------------------------------------------------------------------------
\* The cache holds answers to questions and callers, of the past, up to its limit.
CacheBounded ==
  /\ now \in Nat /\ model \in SemanticModels
  /\ DOMAIN cache \subseteq Questions \X Contexts
  /\ IsFiniteSet(DOMAIN cache) /\ Cardinality(DOMAIN cache) <= MaxCached
  /\ \A k \in DOMAIN cache : cache[k].time \in 0 .. now

LEMMA CacheKept ==
  ASSUME QInv, AccountInv, CacheBounded, NEW w \in QWorkers, CacheAnswer(w)
  PROVE  CacheBounded'
<1> DEFINE entry == [answer |-> job[w].answer, time |-> now]
           entries == With(cache, Key(Req(w)), entry)
<1>1. PICK keys \in Kept(entries) : cache' = [k \in keys |-> entries[k]]
  BY DEF CacheAnswer
<1>2. Key(Req(w)) \in Questions \X Contexts
  <2>1. Req(w) \in Requests
    <3>1. job[w].at # "idle" /\ asked \in Seq(Requests)
      BY DEF CacheAnswer, AccountInv, Records
    <3>2. job[w].id \in 1 .. Len(asked)
      BY <3>1 DEF AccountInv, NumbersApart, Ids
    <3> QED BY <3>1, <3>2 DEF Req
  <2> QED BY <2>1 DEF Key, Requests
<1>3. /\ DOMAIN entries = DOMAIN cache \cup {Key(Req(w))}
      /\ \A k \in DOMAIN entries : entries[k].time \in 0 .. now
  BY DEF With, CacheBounded
<1>4. /\ IsFiniteSet(DOMAIN entries) /\ Cardinality(DOMAIN entries) \in Nat
      /\ Cardinality(DOMAIN entries) <= Cardinality(DOMAIN cache) + 1 /\ Cardinality(DOMAIN cache) \in Nat
  <2>1. IsFiniteSet(DOMAIN cache)
    BY DEF CacheBounded
  <2> HIDE DEF entries
  <2>2. IsFiniteSet(DOMAIN entries)
    BY <1>3, <2>1, FS_AddElement
  <2> QED BY <1>3, <2>1, <2>2, OneMore
<1> HIDE DEF entries
<1>5. keys \subseteq DOMAIN entries /\ IsFiniteSet(keys) /\ Cardinality(keys) <= MaxCached
  <2>1. CASE Cardinality(DOMAIN entries) <= MaxCached /\ keys = DOMAIN entries
    BY <1>4, <2>1
  <2>2. ASSUME NEW x \in DOMAIN entries, keys = DOMAIN entries \ {x}
        PROVE  keys \subseteq DOMAIN entries /\ IsFiniteSet(keys) /\ Cardinality(keys) <= MaxCached
    <3>1. IsFiniteSet(keys) /\ Cardinality(keys) = Cardinality(DOMAIN entries) - 1
      BY <1>4, <2>2, FS_RemoveElement
    <3> QED BY <1>4, <2>2, <3>1, QAssumption DEF CacheBounded
  <2> QED BY <1>1, <2>1, <2>2 DEF Kept
<1>6. /\ DOMAIN cache' = keys /\ \A k \in keys : cache'[k].time \in 0 .. now
      /\ now' = now /\ model' = model
  BY <1>1, <1>3, <1>5 DEF CacheAnswer
<1> QED BY <1>2, <1>3, <1>5, <1>6 DEF CacheBounded

\* Jobs, records and the cache stay within their types and limits: the cache keeps at
\* most its limit, and a request counts at most once as a success and once as a
\* failure (main.py chat; cache_audit.py QueryCache).
THEOREM QTypeCorrect == QSpec => []QTypeOK
<1>1. QInit => CacheBounded
  BY FS_EmptySet, QAssumption DEF QInit, CacheBounded
<1>2. QInv /\ AccountInv /\ CacheBounded /\ [QNext]_qvars => CacheBounded'
  <2> SUFFICES ASSUME QInv, AccountInv, CacheBounded, [QNext]_qvars PROVE CacheBounded'
    OBVIOUS
  <2>1. CASE UNCHANGED <<cache, now, model>>
    BY <2>1 DEF CacheBounded
  <2>2. ASSUME NEW w \in QWorkers, CacheAnswer(w) PROVE CacheBounded'
    BY <2>2, CacheKept
  <2>3. CASE ClearCache
    BY <2>3, FS_EmptySet, QAssumption DEF ClearCache, CacheBounded
  <2>4. CASE QTick
    BY <2>4 DEF QTick, CacheBounded
  <2>5. CASE ChangeModel \/ ReloadPolicies
    BY <2>5 DEF ChangeModel, ReloadPolicies, CacheBounded
  <2> QED BY <2>1, <2>2, <2>3, <2>4, <2>5
          DEF QNext, qvars, Ask, ServeCached, Miss, CompilePlan, Preview, Execute, CountSuccess,
              RecordSuccess, AuditAllow, CountFailure, RecordFailure, AuditDeny, StepFails, Dies
<1>3. AccountInv /\ CacheBounded => QTypeOK
  <2> SUFFICES ASSUME AccountInv, CacheBounded PROVE QTypeOK
    OBVIOUS
  <2>1. counted \in [success : 0 .. MaxQCalls, failed : 0 .. MaxQCalls]
    <3>1. "idle" \notin Uncounted /\ "idle" \notin Uncounted \cup Succeeded \cup {"refuse"}
      BY DEF Uncounted, Succeeded
    <3>2. /\ Cardinality(At(Uncounted)) \in Nat
          /\ Cardinality(At(Uncounted \cup Succeeded \cup {"refuse"})) \in Nat
      BY <3>1, Numbered
    <3>3. counted.success <= MaxQCalls /\ counted.failed <= MaxQCalls
      BY <3>2, QAssumption DEF AccountInv, Counts, Records
    <3> QED BY <3>3 DEF AccountInv, Counts
  <2>2. \A w \in QWorkers : job[w].at \in Phases /\ (job[w] # Idle => job[w].id \in Ids)
    BY DEF AccountInv, Records, NumbersApart
  <2> QED BY <2>1, <2>2 DEF AccountInv, Records, CacheBounded, QTypeOK
<1> QED BY <1>1, <1>2, <1>3, QueryInvariant, AccountInvariant, PTL DEF QSpec

-----------------------------------------------------------------------------
(* Depth first: the recursion ends, because every visit below another has  *)
(* one metric more in progress.                                            *)

Deps(o, n) == Range(o.metrics[n].deps)

\* What ListsAssumption says of the metrics of one model.
Listed(o) ==
  /\ IsFiniteSet(Names(o))
  /\ \A m \in DOMAIN o.metrics : o.metrics[m].deps \in Seq(Range(o.metrics[m].deps))

\* v visits every metric with the metrics X in progress, and leaves them in progress.
KeepsAt(o, v, X) ==
  \A w \in Walks(o) : w.temporary = X =>
    \A n \in Names(o) : v[<<w, n>>] \in Walks(o) /\ v[<<w, n>>].temporary = X

AgreeAt(o, v, u, X) ==
  \A w \in Walks(o) : w.temporary = X => \A n \in Names(o) : v[<<w, n>>] = u[<<w, n>>]

LEMMA DepsNamed ==
  ASSUME NEW o, Listed(o), NEW n \in DOMAIN o.metrics
  PROVE  /\ n \in Names(o) /\ Len(o.metrics[n].deps) \in Nat
         /\ \A k \in 1 .. Len(o.metrics[n].deps) :
              o.metrics[n].deps[k] \in Names(o) /\ o.metrics[n].deps[k] \in Deps(o, n)
         /\ \A d \in Deps(o, n) : d \in Names(o) /\ \E k \in 1 .. Len(o.metrics[n].deps) : o.metrics[n].deps[k] = d
<1> DEFINE s == o.metrics[n].deps
<1>1. s \in Seq(Range(s))
  BY DEF Listed
<1> HIDE DEF s
<1>2. Len(s) \in Nat /\ DOMAIN s = 1 .. Len(s)
  BY <1>1, LenProperties
<1>3. \A k \in 1 .. Len(s) : s[k] \in Range(s)
  BY <1>2 DEF Range
<1>4. \A d \in Range(s) : \E k \in 1 .. Len(s) : s[k] = d
  BY <1>2 DEF Range
<1>5. Range(s) \subseteq Names(o) /\ n \in Names(o)
  BY DEF s, Names
<1> QED BY <1>2, <1>3, <1>4, <1>5 DEF s, Deps

\* What the walks f of a descent into the dependencies of n are.
Descends(o, v, w, n, f) ==
  /\ f[0] = [w EXCEPT !.temporary = @ \cup {n}]
  /\ \A k \in 1 .. Len(o.metrics[n].deps) : f[k] = v[<<f[k - 1], o.metrics[n].deps[k]>>]
  /\ \A k \in 0 .. Len(o.metrics[n].deps) : f[k] \in Walks(o) /\ f[k].temporary = w.temporary \cup {n}

LEMMA DescendedDef ==
  ASSUME NEW o, Listed(o), NEW v, NEW w \in Walks(o), NEW n \in DOMAIN o.metrics,
         KeepsAt(o, v, w.temporary \cup {n})
  PROVE  Descends(o, v, w, n, Descended(o, v, w, n))
<1> DEFINE N == Len(o.metrics[n].deps)
           d == o.metrics[n].deps
           f == Descended(o, v, w, n)
           X == w.temporary \cup {n}
           S == {t \in Walks(o) : t.temporary = X}
           base == [w EXCEPT !.temporary = @ \cup {n}]
           step == [p \in S \X (1 .. N) |-> v[<<p[1], d[p[2]]>>]]
           Eq(g) == g = [k \in 0 .. N |-> IF k = 0 THEN base ELSE v[<<g[k - 1], d[k]>>]]
<1>1. N \in Nat /\ n \in Names(o) /\ \A k \in 1 .. N : d[k] \in Names(o)
  BY DepsNamed
<1>2. base \in S
  BY <1>1 DEF Walks
<1> HIDE DEF N, d, base
<1>3. ASSUME NEW t \in S, NEW k \in 1 .. N PROVE v[<<t, d[k]>>] \in S
  BY <1>1, <1>3 DEF KeepsAt
<1>4. step \in [S \X (1 .. N) -> S]
  <2> HIDE DEF S
  <2> QED BY <1>3
<1>5. PICK g \in [0 .. N -> S] : Iterates(g, N, base, step)
  <2> HIDE DEF step, S
  <2> QED BY <1>1, <1>2, <1>4, Recursion
<1> HIDE DEF S
<1>6. ASSUME NEW k \in 0 .. N, k # 0 PROVE g[k] = v[<<g[k - 1], d[k]>>]
  <2>1. k \in 1 .. N /\ k - 1 \in 0 .. N
    BY <1>1, <1>6
  <2>2. <<g[k - 1], k>> \in S \X (1 .. N)
    BY <1>5, <2>1
  <2> QED BY <1>5, <2>1, <2>2 DEF Iterates
<1>7. Eq(g)
  <2> HIDE DEF step
  <2> QED BY <1>5, <1>6 DEF Iterates
<1>8. f = CHOOSE h : Eq(h)
  BY DEF Descended, base, N, d
<1>9. Eq(f)
  <2> HIDE DEF Eq, f
  <2> QED BY <1>7, <1>8
<1>10. f[0] = base /\ \A k \in 1 .. N : f[k] = v[<<f[k - 1], d[k]>>]
  <2>1. 0 \in 0 .. N /\ \A k \in 1 .. N : k \in 0 .. N /\ k # 0
    BY <1>1
  <2> HIDE DEF f
  <2> QED BY <1>9, <2>1
<1>11. \A k \in 0 .. N : f[k] \in S
  <2> DEFINE T == {k \in 0 .. N : f[k] \in S}
  <2> HIDE DEF f
  <2>1. 0 \in T
    BY <1>1, <1>2, <1>10
  <2>2. ASSUME NEW k \in 1 .. N, k - 1 \in T PROVE k \in T
    <3>1. k \in 0 .. N /\ f[k - 1] \in S
      BY <1>1, <2>2
    <3>2. f[k] \in S
      BY <1>3, <1>10, <3>1
    <3> QED BY <3>1, <3>2
  <2> HIDE DEF T
  <2>3. \A k \in 0 .. N : k \in T
    BY <1>1, <2>1, <2>2, Stepwise
  <2> QED BY <2>3 DEF T
<1> QED BY <1>10, <1>11 DEF S, N, d, base, Descends

LEMMA DescendedAgree ==
  ASSUME NEW o, Listed(o), NEW v, NEW u, NEW w \in Walks(o), NEW n \in DOMAIN o.metrics,
         KeepsAt(o, v, w.temporary \cup {n}), AgreeAt(o, v, u, w.temporary \cup {n})
  PROVE  Descended(o, v, w, n)[Len(o.metrics[n].deps)] = Descended(o, u, w, n)[Len(o.metrics[n].deps)]
<1> DEFINE N == Len(o.metrics[n].deps)
           d == o.metrics[n].deps
           f == Descended(o, v, w, n)
           g == Descended(o, u, w, n)
           X == w.temporary \cup {n}
           T == {k \in 0 .. N : f[k] = g[k]}
<1>1. KeepsAt(o, u, X)
  BY DEF KeepsAt, AgreeAt
<1>2a. Descends(o, v, w, n, f)
  BY DescendedDef
<1>2b. Descends(o, u, w, n, g)
  BY <1>1, DescendedDef
<1>2. /\ f[0] = g[0]
      /\ \A k \in 1 .. N : f[k] = v[<<f[k - 1], d[k]>>]
      /\ \A k \in 1 .. N : g[k] = u[<<g[k - 1], d[k]>>]
      /\ \A k \in 0 .. N : f[k] \in Walks(o) /\ f[k].temporary = X
  BY <1>2a, <1>2b DEF Descends
<1>3. N \in Nat /\ \A k \in 1 .. N : d[k] \in Names(o)
  BY DepsNamed
<1> HIDE DEF f, g, N, d
<1>4. 0 \in T
  BY <1>2, <1>3
<1>5. ASSUME NEW k \in 1 .. N, k - 1 \in T PROVE k \in T
  <2>1. k - 1 \in 0 .. N /\ k \in 0 .. N /\ f[k - 1] = g[k - 1]
    BY <1>3, <1>5
  <2>2. v[<<f[k - 1], d[k]>>] = u[<<f[k - 1], d[k]>>]
    BY <2>1, <1>2, <1>3 DEF AgreeAt
  <2> QED BY <1>2, <2>1, <2>2
<1> HIDE DEF T
<1>6. \A k \in 0 .. N : k \in T
  BY <1>3, <1>4, <1>5, Stepwise
<1> QED BY <1>3, <1>6 DEF T, f, g, N

\* A visit goes into the dependencies of n.
Enters(o, w, n) ==
  ~ w.failed /\ n \notin Range(w.order) /\ n \notin w.temporary /\ n \in DOMAIN o.metrics

LEMMA VisitedKeeps ==
  ASSUME NEW o, Listed(o), NEW v, NEW w \in Walks(o), NEW n \in Names(o),
         Enters(o, w, n) => KeepsAt(o, v, w.temporary \cup {n})
  PROVE  Visited(o, v, w, n) \in Walks(o) /\ Visited(o, v, w, n).temporary = w.temporary
<1>1. CASE ~ Enters(o, w, n)
  <2>1. [w EXCEPT !.failed = TRUE] \in Walks(o) /\ [w EXCEPT !.failed = TRUE].temporary = w.temporary
    BY DEF Walks
  <2>2. Visited(o, v, w, n) = w \/ Visited(o, v, w, n) = [w EXCEPT !.failed = TRUE]
    BY <1>1 DEF Visited, Enters
  <2> QED BY <2>1, <2>2
<1>2. CASE Enters(o, w, n)
  <2> DEFINE b == Descended(o, v, w, n)[Len(o.metrics[n].deps)]
             r == [b EXCEPT !.temporary = @ \ {n}, !.order = Append(@, n)]
  <2>1. Descends(o, v, w, n, Descended(o, v, w, n)) /\ Len(o.metrics[n].deps) \in Nat
    BY <1>2, DescendedDef, DepsNamed DEF Enters
  <2>2. b \in Walks(o) /\ b.temporary = w.temporary \cup {n}
    BY <2>1 DEF Descends
  <2>3. Visited(o, v, w, n) = r
    BY <1>2 DEF Visited, Enters
  <2> HIDE DEF b
  <2>4. b.order \in Seq(Names(o)) /\ Append(b.order, n) \in Seq(Names(o))
    BY <2>2, AppendProperties DEF Walks
  <2>5. r \in Walks(o) /\ r.temporary = b.temporary \ {n}
    BY <2>2, <2>4 DEF Walks
  <2> QED BY <2>2, <2>3, <2>5, <1>2 DEF Enters
<1> QED BY <1>1, <1>2

LEMMA VisitedAgree ==
  ASSUME NEW o, Listed(o), NEW v, NEW u, NEW w \in Walks(o), NEW n \in Names(o),
         Enters(o, w, n) => KeepsAt(o, v, w.temporary \cup {n}) /\ AgreeAt(o, v, u, w.temporary \cup {n})
  PROVE  Visited(o, v, w, n) = Visited(o, u, w, n)
<1>1. CASE Enters(o, w, n)
  <2>1. n \in DOMAIN o.metrics
    BY <1>1 DEF Enters
  <2>2. Descended(o, v, w, n)[Len(o.metrics[n].deps)] = Descended(o, u, w, n)[Len(o.metrics[n].deps)]
    BY <1>1, <2>1, DescendedAgree
  <2> QED BY <2>2 DEF Visited
<1>2. CASE ~ Enters(o, w, n)
  BY <1>2 DEF Visited, Enters
<1> QED BY <1>1, <1>2

\* How many metrics are not in progress.
Room(o, X) == Cardinality(Names(o) \ X)

LEMMA RoomShrinks ==
  ASSUME NEW o, Listed(o), NEW X, NEW n \in Names(o), n \notin X
  PROVE  Room(o, X) \in Nat /\ Room(o, X \cup {n}) \in Nat /\ Room(o, X \cup {n}) < Room(o, X)
<1>1. IsFiniteSet(Names(o) \ X) /\ Cardinality(Names(o) \ X) \in Nat
  <2>1. IsFiniteSet(Names(o)) /\ Names(o) \ X \subseteq Names(o)
    BY DEF Listed
  <2> QED BY <2>1, FS_Subset, FS_CardinalityType
<1>2. Names(o) \ (X \cup {n}) = (Names(o) \ X) \ {n} /\ n \in Names(o) \ X
  OBVIOUS
<1>3. Cardinality((Names(o) \ X) \ {n}) = Cardinality(Names(o) \ X) - 1
  BY <1>1, <1>2, FS_RemoveElement
<1>4. Cardinality((Names(o) \ X) \ {n}) \in Nat
  BY <1>1, FS_RemoveElement, FS_CardinalityType
<1> DEFINE a == Cardinality(Names(o) \ X)
           b == Cardinality((Names(o) \ X) \ {n})
<1>5. Room(o, X) = a /\ Room(o, X \cup {n}) = b
  BY <1>2 DEF Room
<1>6. a \in Nat /\ b \in Nat /\ b = a - 1
  BY <1>1, <1>3, <1>4
<1> HIDE DEF a, b
<1>7. b < a
  BY <1>6
<1> QED BY <1>5, <1>6, <1>7

LEMMA RoomBounded ==
  ASSUME NEW o, Listed(o), NEW X
  PROVE  Room(o, X) \in Nat /\ Room(o, {}) \in Nat /\ Room(o, X) <= Room(o, {})
<1>1. IsFiniteSet(Names(o)) /\ Names(o) \ X \subseteq Names(o) /\ Names(o) \ {} = Names(o)
  BY DEF Listed
<1> QED BY <1>1, FS_Subset, FS_CardinalityType DEF Room

\* The recursive definition has a solution: the limit of visits that go d deep.
LEMMA VisitsDef ==
  ASSUME NEW o, Listed(o)
  PROVE  Visits(o) = [p \in Walks(o) \X Names(o) |-> Visited(o, Visits(o), p[1], p[2])]
<1> DEFINE R == Walks(o) \X Names(o)
           S == {v \in [R -> Walks(o)] : \A p \in R : v[p].temporary = p[1].temporary}
           N == Room(o, {}) + 2
           base == [p \in R |-> p[1]]
           next(v) == [p \in R |-> Visited(o, v, p[1], p[2])]
           step == [p \in S \X (1 .. N) |-> next(p[1])]
           Eq(v) == v = [p \in R |-> Visited(o, v, p[1], p[2])]
<1>1. N \in Nat /\ N - 1 \in Nat
  BY RoomBounded
<1>2. base \in S
  OBVIOUS
<1>3. \A v \in S : \A X : KeepsAt(o, v, X)
  <2> TAKE v \in S
  <2> TAKE X
  <2>1. \A w \in Walks(o), n \in Names(o) : <<w, n>> \in R /\ <<w, n>>[1] = w
    OBVIOUS
  <2> HIDE DEF R
  <2> QED BY <2>1 DEF KeepsAt
<1>4. ASSUME NEW v \in S PROVE next(v) \in S
  <2>1. \A p \in R : p[1] \in Walks(o) /\ p[2] \in Names(o)
    OBVIOUS
  <2> HIDE DEF R
  <2>2. ASSUME NEW p \in R
        PROVE  Visited(o, v, p[1], p[2]) \in Walks(o) /\ Visited(o, v, p[1], p[2]).temporary = p[1].temporary
    <3>1. KeepsAt(o, v, p[1].temporary \cup {p[2]})
      BY <1>3
    <3> HIDE DEF S
    <3> QED BY <2>1, <3>1, VisitedKeeps
  <2> QED BY <2>2
<1>5. step \in [S \X (1 .. N) -> S]
  <2> HIDE DEF S, next, N
  <2> QED BY <1>4
<1>6. PICK g \in [0 .. N -> S] : Iterates(g, N, base, step)
  <2> HIDE DEF step, S, base, N
  <2> QED BY <1>1, <1>2, <1>5, Recursion
<1>7. ASSUME NEW d \in 1 .. N PROVE g[d] = next(g[d - 1]) /\ g[d - 1] \in S /\ d - 1 \in 0 .. N
  <2>1. d - 1 \in 0 .. N
    BY <1>1
  <2>2. g[d - 1] \in S /\ <<g[d - 1], d>> \in S \X (1 .. N)
    BY <1>6, <2>1
  <2> HIDE DEF S, next, N, base
  <2> QED BY <1>6, <2>1, <2>2 DEF Iterates
<1> DEFINE Settled(d) == \A w \in Walks(o) : Room(o, w.temporary) < d =>
                            \A n \in Names(o) : g[d][<<w, n>>] = g[d + 1][<<w, n>>]
           T == {d \in 0 .. N - 1 : Settled(d)}
<1>8. 0 \in T
  <2>1. \A w \in Walks(o) : ~ (Room(o, w.temporary) < 0)
    BY RoomBounded
  <2> QED BY <2>1, <1>1
<1>9. ASSUME NEW d \in 1 .. N - 1, d - 1 \in T PROVE d \in T
  <2>1. Settled(d - 1) /\ d \in 0 .. N - 1 /\ d \in 1 .. N /\ d + 1 \in 1 .. N /\ d - 1 + 1 = d /\ d + 1 - 1 = d
    BY <1>9, <1>1
  <2>2. g[d] = next(g[d - 1]) /\ g[d + 1] = next(g[d]) /\ g[d - 1] \in S /\ g[d] \in S
    <3> HIDE DEF next, S, N, T, Settled
    <3>1. g[d] = next(g[d - 1]) /\ g[d - 1] \in S
      BY <2>1, <1>7
    <3>2. g[d + 1] = next(g[d + 1 - 1]) /\ g[d + 1 - 1] \in S
      BY <2>1, <1>7
    <3> QED BY <3>1, <3>2, <2>1
  <2>3. ASSUME NEW w \in Walks(o), Room(o, w.temporary) < d, NEW n \in Names(o)
        PROVE  g[d][<<w, n>>] = g[d + 1][<<w, n>>]
    <3>1. <<w, n>> \in R /\ <<w, n>>[1] = w /\ <<w, n>>[2] = n
      OBVIOUS
    <3>2. g[d][<<w, n>>] = Visited(o, g[d - 1], w, n) /\ g[d + 1][<<w, n>>] = Visited(o, g[d], w, n)
      BY <2>2, <3>1
    <3>3. ASSUME Enters(o, w, n)
          PROVE  KeepsAt(o, g[d - 1], w.temporary \cup {n}) /\ AgreeAt(o, g[d - 1], g[d], w.temporary \cup {n})
      <4>1. Room(o, w.temporary \cup {n}) < d - 1
        <5>1. /\ Room(o, w.temporary) \in Nat /\ Room(o, w.temporary \cup {n}) \in Nat
              /\ Room(o, w.temporary \cup {n}) < Room(o, w.temporary)
          BY <3>3, RoomShrinks DEF Enters
        <5> QED BY <5>1, <2>3, <1>1
      <4>2. AgreeAt(o, g[d - 1], g[d], w.temporary \cup {n})
        BY <4>1, <2>1 DEF AgreeAt
      <4> HIDE DEF S
      <4> QED BY <4>2, <2>2, <1>3
    <3> HIDE DEF S, next
    <3> QED BY <3>2, <3>3, VisitedAgree
  <2>4. Settled(d)
    BY <2>3
  <2> HIDE DEF Settled
  <2> QED BY <2>1, <2>4
<1>10. Settled(N - 1)
  <2> HIDE DEF T, N
  <2>1. \A d \in 0 .. N - 1 : d \in T
    BY <1>1, <1>8, <1>9, Stepwise
  <2> HIDE DEF Settled
  <2> QED BY <2>1, <1>1 DEF T
<1> DEFINE u == g[N - 1]
<1>11. Eq(u)
  <2>1. N \in 1 .. N /\ N - 1 \in 1 .. N /\ N - 1 + 1 = N
    BY RoomBounded
  <2>2. g[N] = next(u) /\ u \in S
    BY <2>1, <1>7
  <2>3. ASSUME NEW p \in R PROVE u[p] = g[N][p]
    <3>1. p[1] \in Walks(o) /\ p[2] \in Names(o) /\ p = <<p[1], p[2]>>
      OBVIOUS
    <3>2. Room(o, p[1].temporary) < N - 1
      BY RoomBounded
    <3> HIDE DEF N, R
    <3> QED BY <3>1, <3>2, <2>1, <1>10
  <2>4. u \in [R -> Walks(o)]
    BY <2>2
  <2> HIDE DEF u, N, R
  <2>5. \A p \in R : u[p] = Visited(o, u, p[1], p[2])
    BY <2>2, <2>3
  <2> QED BY <2>4, <2>5
<1>12. Visits(o) = CHOOSE v : Eq(v)
  BY DEF Visits
<1>13. Eq(Visits(o))
  <2> HIDE DEF Eq, u
  <2> QED BY <1>11, <1>12
<1> QED BY <1>13

LEMMA VisitsAt ==
  ASSUME NEW o, Listed(o), NEW w \in Walks(o), NEW n \in Names(o)
  PROVE  Visits(o)[<<w, n>>] = Visited(o, Visits(o), w, n)
<1> DEFINE R == Walks(o) \X Names(o)
           v == Visits(o)
<1>1. v = [p \in R |-> Visited(o, v, p[1], p[2])]
  BY VisitsDef
<1>2. <<w, n>> \in R /\ <<w, n>>[1] = w /\ <<w, n>>[2] = n
  OBVIOUS
<1> HIDE DEF R, v
<1>3. v[<<w, n>>] = Visited(o, v, <<w, n>>[1], <<w, n>>[2])
  BY <1>1, <1>2
<1> QED BY <1>2, <1>3 DEF v

LEMMA VisitsKeep ==
  ASSUME NEW o, Listed(o), NEW X
  PROVE  KeepsAt(o, Visits(o), X)
<1> DEFINE N == Room(o, {}) + 1
           Held(d) == \A w \in Walks(o) : Room(o, w.temporary) < d => KeepsAt(o, Visits(o), w.temporary)
           T == {d \in 0 .. N : Held(d)}
<1>1. N \in Nat
  BY RoomBounded
<1>2. 0 \in T
  <2>1. \A w \in Walks(o) : ~ (Room(o, w.temporary) < 0)
    BY RoomBounded
  <2> QED BY <2>1, <1>1
<1>3. ASSUME NEW d \in 1 .. N, d - 1 \in T PROVE d \in T
  <2>1. Held(d - 1) /\ d \in 0 .. N
    BY <1>1, <1>3
  <2>2. ASSUME NEW w \in Walks(o), Room(o, w.temporary) < d, NEW t \in Walks(o), t.temporary = w.temporary,
               NEW n \in Names(o)
        PROVE  Visits(o)[<<t, n>>] \in Walks(o) /\ Visits(o)[<<t, n>>].temporary = w.temporary
    <3>1. ASSUME Enters(o, t, n) PROVE KeepsAt(o, Visits(o), t.temporary \cup {n})
      <4>1. /\ Room(o, t.temporary) \in Nat /\ Room(o, t.temporary \cup {n}) \in Nat
            /\ Room(o, t.temporary \cup {n}) < Room(o, t.temporary)
        BY <3>1, RoomShrinks DEF Enters
      <4>2. Room(o, t.temporary \cup {n}) < d - 1
        <5> HIDE DEF N
        <5> QED BY <4>1, <2>2, <1>1
      <4> DEFINE u == [t EXCEPT !.temporary = @ \cup {n}]
      <4>3. u \in Walks(o) /\ u.temporary = t.temporary \cup {n}
        BY DEF Walks
      <4> HIDE DEF u
      <4> QED BY <4>2, <4>3, <2>1
    <3>2. Visited(o, Visits(o), t, n) \in Walks(o) /\ Visited(o, Visits(o), t, n).temporary = t.temporary
      BY <3>1, VisitedKeeps
    <3> QED BY <3>2, <2>2, VisitsAt
  <2>3. Held(d)
    BY <2>2 DEF KeepsAt
  <2> HIDE DEF Held
  <2> QED BY <2>1, <2>3
<1>4. N \in T
  <2> HIDE DEF T, N
  <2>1. \A d \in 0 .. N : d \in T
    BY <1>1, <1>2, <1>3, Stepwise
  <2> QED BY <1>1, <2>1
<1>5. SUFFICES ASSUME NEW w \in Walks(o), w.temporary = X PROVE KeepsAt(o, Visits(o), X)
  BY DEF KeepsAt
<1>6. Room(o, w.temporary) < N
  BY RoomBounded
<1> HIDE DEF N
<1> QED BY <1>4, <1>5, <1>6

-----------------------------------------------------------------------------
(* What a visit finds and orders, for a metric m that is asked for.        *)

\* The metrics m stands for, and whether all of them can be computed.
Whole(o, m) == Below(o, m) \cup {m}
Sound(o, m) == Below(o, m) \subseteq DOMAIN o.metrics /\ \A d \in Whole(o, m) : d \notin Below(o, d)

LEMMA BelowLeast ==
  ASSUME NEW o, Listed(o), NEW m \in DOMAIN o.metrics
  PROVE  /\ Deps(o, m) \subseteq Below(o, m) /\ Below(o, m) \subseteq Names(o)
         /\ \A d \in Below(o, m) \cap DOMAIN o.metrics : Deps(o, d) \subseteq Below(o, m)
         /\ \A S \in SUBSET Names(o) : Deps(o, m) \subseteq S /\ Closed(o, S) => Below(o, m) \subseteq S
<1>1. \A d \in DOMAIN o.metrics : Deps(o, d) \subseteq Names(o)
  BY DEF Deps, Names
<1>2. ASSUME NEW d \in Below(o, m) \cap DOMAIN o.metrics, NEW e \in Deps(o, d) PROVE e \in Below(o, m)
  BY <1>1, <1>2 DEF Below, Closed, Deps
<1> QED BY <1>1, <1>2 DEF Below, Deps

\* Everything in the order comes after what it depends on, and once.
Topological(o, s) ==
  /\ \A b \in 1 .. Len(s) : s[b] \in DOMAIN o.metrics /\ \A x \in Deps(o, s[b]) : \E a \in 1 .. b - 1 : s[a] = x
  /\ \A a, b \in 1 .. Len(s) : s[a] = s[b] => a = b

\* A walk on behalf of m with the metrics X in progress.
Walking(o, m, X, w) ==
  /\ w.failed => ~ Sound(o, m)
  /\ ~ w.failed => /\ Topological(o, w.order)
                   /\ Range(w.order) \cap X = {}
                   /\ Range(w.order) \subseteq Whole(o, m)

\* The metrics in progress lie above n, which m stands for.
Above(o, m, X, n) ==
  /\ X \subseteq DOMAIN o.metrics \cap Whole(o, m) /\ n \in Whole(o, m)
  /\ \A t \in X : n \in Below(o, t)

\* A visit of n orders it, unless it fails, and drops nothing ordered before.
Arrives(n, w, r) ==
  /\ w.failed => r.failed
  /\ ~ r.failed => n \in Range(r.order) /\ Range(w.order) \subseteq Range(r.order)

LEMMA OrderRange ==
  ASSUME NEW S, NEW s \in Seq(S)
  PROVE  /\ Len(s) \in Nat
         /\ \A x : x \in Range(s) <=> \E k \in 1 .. Len(s) : s[k] = x
         /\ \A x \in S : /\ Range(Append(s, x)) = Range(s) \cup {x}
                         /\ Len(Append(s, x)) = Len(s) + 1 /\ Append(s, x)[Len(s) + 1] = x
                         /\ \A k \in 1 .. Len(s) : Append(s, x)[k] = s[k]
<1>1. Len(s) \in Nat /\ DOMAIN s = 1 .. Len(s)
  BY LenProperties
<1>2. \A x : x \in Range(s) <=> \E k \in 1 .. Len(s) : s[k] = x
  BY <1>1 DEF Range
<1>3. ASSUME NEW x \in S
      PROVE  /\ Range(Append(s, x)) = Range(s) \cup {x}
             /\ Len(Append(s, x)) = Len(s) + 1 /\ Append(s, x)[Len(s) + 1] = x
             /\ \A k \in 1 .. Len(s) : Append(s, x)[k] = s[k]
  <2> DEFINE q == Append(s, x)
  <2>1. /\ Len(q) = Len(s) + 1 /\ q[Len(s) + 1] = x /\ DOMAIN q = 1 .. Len(s) + 1
        /\ \A k \in 1 .. Len(s) : q[k] = s[k]
    BY <1>1, AppendProperties, LenProperties
  <2> HIDE DEF q
  <2>2. \A k \in 1 .. Len(s) + 1 : k \in 1 .. Len(s) \/ k = Len(s) + 1
    BY <1>1
  <2>3. Len(s) + 1 \in 1 .. Len(s) + 1 /\ \A k \in 1 .. Len(s) : k \in 1 .. Len(s) + 1
    BY <1>1
  <2>4. Range(q) = Range(s) \cup {x}
    BY <2>1, <2>2, <2>3, <1>1 DEF Range
  <2> QED BY <2>1, <2>4 DEF q
<1> QED BY <1>1, <1>2, <1>3

\* Appending what is not in the order, when everything it depends on is.
LEMMA TopologicalExtends ==
  ASSUME NEW o, Listed(o), NEW s \in Seq(Names(o)), Topological(o, s),
         NEW n \in DOMAIN o.metrics, n \notin Range(s), Deps(o, n) \subseteq Range(s)
  PROVE  Topological(o, Append(s, n))
<1> DEFINE q == Append(s, n)
           N == Len(s)
<1>1. /\ N \in Nat /\ Len(q) = N + 1 /\ q[N + 1] = n
      /\ \A k \in 1 .. N : q[k] = s[k]
      /\ \A x : x \in Range(s) <=> \E k \in 1 .. N : s[k] = x
  BY OrderRange, DepsNamed
<1>2. \A k \in 1 .. N : s[k] # n
  BY <1>1
<1> HIDE DEF q, N
<1>3. \A k \in 1 .. N + 1 : k \in 1 .. N \/ k = N + 1
  BY <1>1
<1>4. ASSUME NEW b \in 1 .. N + 1
      PROVE  q[b] \in DOMAIN o.metrics /\ \A x \in Deps(o, q[b]) : \E a \in 1 .. b - 1 : q[a] = x
  <2>1. CASE b = N + 1
    <3>1. b - 1 = N /\ q[b] = n
      BY <2>1, <1>1
    <3> QED BY <3>1, <1>1
  <2>2. CASE b \in 1 .. N
    <3>1. q[b] = s[b] /\ \A a \in 1 .. b - 1 : a \in 1 .. N
      BY <2>2, <1>1
    <3>2. s[b] \in DOMAIN o.metrics /\ \A x \in Deps(o, s[b]) : \E a \in 1 .. b - 1 : s[a] = x
      BY <2>2 DEF Topological, N
    <3> QED BY <3>1, <3>2, <1>1
  <2> QED BY <2>1, <2>2, <1>3
<1>5. ASSUME NEW a \in 1 .. N + 1, NEW b \in 1 .. N + 1, q[a] = q[b] PROVE a = b
  <2>1. \A i, j \in 1 .. N : s[i] = s[j] => i = j
    BY DEF Topological, N
  <2> QED BY <2>1, <1>1, <1>2, <1>3, <1>5
<1> QED BY <1>1, <1>4, <1>5 DEF Topological, q

\* A dependency of n lies below whatever n lies below.
LEMMA AboveDependency ==
  ASSUME NEW o, Listed(o), NEW m \in DOMAIN o.metrics, NEW X, NEW n \in DOMAIN o.metrics,
         Above(o, m, X, n), NEW d \in Deps(o, n)
  PROVE  Above(o, m, X \cup {n}, d)
<1>1. d \in Below(o, n)
  BY BelowLeast
<1>2. ASSUME NEW t \in X PROVE d \in Below(o, t)
  <2>1. t \in DOMAIN o.metrics /\ n \in Below(o, t)
    BY <1>2 DEF Above
  <2> QED BY <2>1, BelowLeast
<1>3. d \in Whole(o, m)
  <2>1. n = m \/ n \in Below(o, m)
    BY DEF Above, Whole
  <2>2. d \in Below(o, m)
    BY <2>1, BelowLeast
  <2> QED BY <2>2 DEF Whole
<1> QED BY <1>1, <1>2, <1>3 DEF Above

\* A visit fails for a reason: n is in progress above itself, or is no metric.
LEMMA FailsUnsound ==
  ASSUME NEW o, Listed(o), NEW m \in DOMAIN o.metrics, NEW X, NEW n,
         Above(o, m, X, n), n \in X \/ n \notin DOMAIN o.metrics
  PROVE  ~ Sound(o, m)
<1>1. CASE n \in X
  BY <1>1 DEF Above, Sound
<1>2. CASE n \notin DOMAIN o.metrics
  BY <1>2 DEF Above, Sound, Whole
<1> QED BY <1>1, <1>2

Reaches(o, m, w, n, r) == Walking(o, m, w.temporary, r) /\ Arrives(n, w, r)

LEMMA VisitReaches ==
  ASSUME NEW o, Listed(o), NEW m \in DOMAIN o.metrics, NEW w \in Walks(o), NEW n \in Names(o),
         Walking(o, m, w.temporary, w), Above(o, m, w.temporary, n),
         \A t \in Walks(o) : t.temporary = w.temporary \cup {n} =>
           \A e \in Names(o) : Enters(o, w, n) /\ Walking(o, m, t.temporary, t) /\ Above(o, m, t.temporary, e) =>
              Reaches(o, m, t, e, Visits(o)[<<t, e>>])
  PROVE  Reaches(o, m, w, n, Visits(o)[<<w, n>>])
<1> DEFINE v == Visits(o)
           r == v[<<w, n>>]
<1>1. r = Visited(o, v, w, n)
  BY VisitsAt
<1> HIDE DEF r, v
<1>2. CASE w.failed \/ n \in Range(w.order)
  <2>1. r = w
    BY <1>1, <1>2 DEF Visited
  <2>2. Arrives(n, w, w)
    BY <1>2 DEF Arrives
  <2> QED BY <2>1, <2>2 DEF Reaches, r, v
<1>3. CASE ~ (w.failed \/ n \in Range(w.order)) /\ (n \in w.temporary \/ n \notin DOMAIN o.metrics)
  <2>1. r = [w EXCEPT !.failed = TRUE] /\ r.failed
    BY <1>1, <1>3 DEF Visited, Walks
  <2>2. ~ Sound(o, m)
    BY <1>3, FailsUnsound
  <2> QED BY <2>1, <2>2 DEF Reaches, Walking, Arrives, r, v
<1>4. CASE Enters(o, w, n)
  <2> DEFINE f == Descended(o, v, w, n)
             N == Len(o.metrics[n].deps)
             d == o.metrics[n].deps
             Y == w.temporary \cup {n}
             Ordering(k, t) == ~ t.failed => /\ Range(w.order) \subseteq Range(t.order)
                                            /\ \A j \in 1 .. k : d[j] \in Range(t.order)
             T == {k \in 0 .. N : Walking(o, m, Y, f[k]) /\ Ordering(k, f[k])}
  <2>1. /\ n \in DOMAIN o.metrics /\ n \notin w.temporary /\ n \notin Range(w.order) /\ ~ w.failed
        /\ N \in Nat /\ \A k \in 1 .. N : d[k] \in Names(o) /\ d[k] \in Deps(o, n)
    BY <1>4, DepsNamed DEF Enters
  <2>2. Descends(o, v, w, n, f)
    BY <2>1, VisitsKeep, DescendedDef DEF v
  <2>3. /\ f[0] = [w EXCEPT !.temporary = @ \cup {n}]
        /\ \A k \in 1 .. N : f[k] = v[<<f[k - 1], d[k]>>]
        /\ \A k \in 0 .. N : f[k] \in Walks(o) /\ f[k].temporary = Y
    BY <2>2 DEF Descends
  <2>4. r = [f[N] EXCEPT !.temporary = @ \ {n}, !.order = Append(@, n)]
    BY <1>1, <1>4 DEF Visited, Enters
  <2>5. \A e \in Deps(o, n) : Above(o, m, Y, e) /\ e \in Names(o)
    BY <2>1, AboveDependency, DepsNamed
  <2>6. n \in Whole(o, m)
    BY DEF Above
  <2>7. \A e \in Deps(o, n) : \E k \in 1 .. N : d[k] = e
    BY <2>1, DepsNamed
  <2> HIDE DEF f, N, d
  <2>8. 0 \in T
    <3>1. f[0].order = w.order /\ f[0].failed = w.failed
      BY <2>3 DEF Walks
    <3>2. \A j \in 1 .. 0 : FALSE
      OBVIOUS
    <3>3. Walking(o, m, Y, f[0])
      BY <3>1, <2>1 DEF Walking
    <3> QED BY <3>1, <3>2, <3>3, <2>1
  <2>9. ASSUME NEW k \in 1 .. N, k - 1 \in T PROVE k \in T
    <3> DEFINE a == f[k - 1]
               c == f[k]
    <3>1. k - 1 \in 0 .. N /\ k \in 0 .. N /\ \A j \in 1 .. k : j \in 1 .. k - 1 \/ j = k
      BY <2>1
    <3>2. a \in Walks(o) /\ a.temporary = Y /\ c = v[<<a, d[k]>>] /\ c.temporary = Y
      BY <3>1, <2>3
    <3>3. Walking(o, m, Y, a) /\ Ordering(k - 1, a)
      BY <2>9
    <3> HIDE DEF a, T
    <3>4. Reaches(o, m, a, d[k], c)
      BY <1>4, <2>1, <2>5, <3>2, <3>3 DEF v
    <3>5. Walking(o, m, Y, c) /\ Arrives(d[k], a, c)
      BY <3>2, <3>4 DEF Reaches
    <3> HIDE DEF c
    <3>6. Ordering(k, c)
      <4> SUFFICES ASSUME ~ c.failed
                   PROVE  Range(w.order) \subseteq Range(c.order) /\ \A j \in 1 .. k : d[j] \in Range(c.order)
        OBVIOUS
      <4>1. ~ a.failed /\ d[k] \in Range(c.order) /\ Range(a.order) \subseteq Range(c.order)
        BY <3>5 DEF Arrives
      <4>2. Range(w.order) \subseteq Range(a.order) /\ \A j \in 1 .. k - 1 : d[j] \in Range(a.order)
        BY <4>1, <3>3
      <4> QED BY <4>1, <4>2, <3>1
    <3> HIDE DEF Ordering
    <3> QED BY <3>1, <3>5, <3>6 DEF T, c
  <2> HIDE DEF T
  <2>10. \A k \in 0 .. N : k \in T
    BY <2>1, <2>8, <2>9, Stepwise
  <2> DEFINE b == f[N]
  <2>11. b \in Walks(o) /\ b.temporary = Y /\ Walking(o, m, Y, b) /\ Ordering(N, b)
    <3> HIDE DEF Ordering
    <3>1. N \in 0 .. N
      BY <2>1
    <3>2. N \in T
      BY <3>1, <2>10
    <3>3. Walking(o, m, Y, f[N]) /\ Ordering(N, f[N])
      BY <3>2 DEF T
    <3> QED BY <2>3, <3>1, <3>3
  <2> HIDE DEF b, Y
  <2>12. r.failed = b.failed /\ r.order = Append(b.order, n) /\ b.order \in Seq(Names(o)) /\ n \in Names(o)
    BY <2>4, <2>11 DEF Walks, b
  <2>13. CASE b.failed
    BY <2>11, <2>12, <2>13 DEF Reaches, Walking, Arrives, r, v
  <2>14. CASE ~ b.failed
    <3>1. /\ Topological(o, b.order) /\ Range(b.order) \cap Y = {} /\ Range(b.order) \subseteq Whole(o, m)
          /\ Range(w.order) \subseteq Range(b.order) /\ \A j \in 1 .. N : d[j] \in Range(b.order)
      BY <2>11, <2>14 DEF Walking
    <3>2. Range(r.order) = Range(b.order) \cup {n}
      BY <2>12, OrderRange
    <3>3. Deps(o, n) \subseteq Range(b.order)
      BY <3>1, <2>7
    <3>4. n \notin Range(b.order) /\ Range(b.order) \cap w.temporary = {}
      BY <3>1 DEF Y
    <3>5. Topological(o, r.order)
      BY <3>1, <3>3, <3>4, <2>1, <2>12, TopologicalExtends
    <3>6. Walking(o, m, w.temporary, r)
      BY <2>12, <2>14, <3>1, <3>2, <3>4, <3>5, <2>1, <2>6 DEF Walking
    <3>7. Arrives(n, w, r)
      BY <2>1, <3>1, <3>2 DEF Arrives
    <3> QED BY <3>6, <3>7 DEF Reaches, r, v
  <2> QED BY <2>13, <2>14
<1> QED BY <1>2, <1>3, <1>4 DEF Enters

\* By the number of metrics that are not in progress.
LEMMA VisitsReach ==
  ASSUME NEW o, Listed(o), NEW m \in DOMAIN o.metrics, NEW w \in Walks(o), NEW n \in Names(o),
         Walking(o, m, w.temporary, w), Above(o, m, w.temporary, n)
  PROVE  Reaches(o, m, w, n, Visits(o)[<<w, n>>])
<1> DEFINE N == Room(o, {}) + 1
           Good(t, e) == Walking(o, m, t.temporary, t) /\ Above(o, m, t.temporary, e) =>
                           Reaches(o, m, t, e, Visits(o)[<<t, e>>])
           Goods(d) == \A t \in Walks(o) : Room(o, t.temporary) < d => \A e \in Names(o) : Good(t, e)
           T == {d \in 0 .. N : Goods(d)}
<1>1. N \in Nat
  BY RoomBounded
<1>2. 0 \in T
  <2>1. \A t \in Walks(o) : ~ (Room(o, t.temporary) < 0)
    BY RoomBounded
  <2> QED BY <2>1, <1>1
<1>3. ASSUME NEW d \in 1 .. N, d - 1 \in T PROVE d \in T
  <2>1. Goods(d - 1) /\ d \in 0 .. N
    BY <1>1, <1>3
  <2>2. ASSUME NEW t \in Walks(o), Room(o, t.temporary) < d, NEW e \in Names(o) PROVE Good(t, e)
    <3> SUFFICES ASSUME Walking(o, m, t.temporary, t), Above(o, m, t.temporary, e)
                 PROVE  Reaches(o, m, t, e, Visits(o)[<<t, e>>])
      OBVIOUS
    <3>1. ASSUME Enters(o, t, e) PROVE Room(o, t.temporary \cup {e}) < d - 1
      <4>1. /\ Room(o, t.temporary) \in Nat /\ Room(o, t.temporary \cup {e}) \in Nat
            /\ Room(o, t.temporary \cup {e}) < Room(o, t.temporary)
        BY <3>1, RoomShrinks DEF Enters
      <4> HIDE DEF N
      <4> QED BY <4>1, <2>2, <1>1
    <3>2. ASSUME NEW u \in Walks(o), u.temporary = t.temporary \cup {e}, NEW x \in Names(o), Enters(o, t, e),
                 Walking(o, m, u.temporary, u), Above(o, m, u.temporary, x)
          PROVE  Reaches(o, m, u, x, Visits(o)[<<u, x>>])
      BY <2>1, <3>1, <3>2
    <3> QED BY <3>2, VisitReaches
  <2>3. Goods(d)
    BY <2>2
  <2> HIDE DEF Goods
  <2> QED BY <2>1, <2>3
<1>4. N \in T
  <2> HIDE DEF T, N
  <2>1. \A d \in 0 .. N : d \in T
    BY <1>1, <1>2, <1>3, Stepwise
  <2> QED BY <1>1, <2>1
<1>5. Room(o, w.temporary) < N
  BY RoomBounded
<1> HIDE DEF N
<1> QED BY <1>4, <1>5

\* An order that has m and all its dependencies is of what m stands for, and shows
\* that none of it depends on itself.
LEMMA OrderedSound ==
  ASSUME NEW o, Listed(o), NEW m \in DOMAIN o.metrics, NEW s \in Seq(Names(o)),
         Topological(o, s), m \in Range(s), Range(s) \subseteq Whole(o, m)
  PROVE  Sound(o, m) /\ Range(s) = Whole(o, m)
<1> DEFINE N == Len(s)
<1>1. /\ N \in Nat
      /\ \A x : x \in Range(s) <=> \E k \in 1 .. N : s[k] = x
  BY OrderRange
<1>2. Range(s) \subseteq Names(o)
  BY RangeOfSeq
<1>3. \A k \in 1 .. N : s[k] \in DOMAIN o.metrics /\ \A x \in Deps(o, s[k]) : \E a \in 1 .. k - 1 : s[a] = x
  BY DEF Topological
<1>4. \A i, j \in 1 .. N : s[i] = s[j] => i = j
  BY DEF Topological
<1> HIDE DEF N
<1>5. \A x \in Range(s) : x \in DOMAIN o.metrics /\ Deps(o, x) \subseteq Range(s)
  <2>1. \A k \in 1 .. N : \A a \in 1 .. k - 1 : a \in 1 .. N
    BY <1>1
  <2> QED BY <1>1, <1>3, <2>1
<1>6. Below(o, m) \subseteq Range(s)
  <2>1. Closed(o, Range(s))
    BY <1>5 DEF Closed, Deps
  <2> QED BY <1>2, <1>5, <2>1, BelowLeast
<1>7. Range(s) = Whole(o, m) /\ Below(o, m) \subseteq DOMAIN o.metrics
  BY <1>5, <1>6 DEF Whole
<1>8. ASSUME NEW d \in Whole(o, m) PROVE d \notin Below(o, d)
  <2>1. PICK b \in 1 .. N : s[b] = d
    BY <1>1, <1>7
  <2> DEFINE S == {s[a] : a \in 1 .. b - 1}
  <2>2. \A a \in 1 .. b - 1 : a \in 1 .. N /\ a # b
    BY <1>1
  <2>3. S \subseteq Range(s) /\ d \notin S
    BY <2>1, <2>2, <1>1, <1>4
  <2>4. Deps(o, d) \subseteq S
    BY <2>1, <1>3
  <2>5. Closed(o, S)
    <3> SUFFICES ASSUME NEW a \in 1 .. b - 1 PROVE Deps(o, s[a]) \subseteq S
      BY DEF Closed, Deps
    <3>1. a \in 1 .. N /\ \A c \in 1 .. a - 1 : c \in 1 .. b - 1
      BY <2>2, <1>1
    <3> QED BY <3>1, <1>3
  <2>6. d \in DOMAIN o.metrics
    BY <2>1, <1>3
  <2> HIDE DEF S
  <2>7. Below(o, d) \subseteq S
    BY <2>3, <2>4, <2>5, <2>6, <1>2, BelowLeast
  <2> QED BY <2>3, <2>7
<1> QED BY <1>7, <1>8 DEF Sound

\* An order has as many entries as metrics.
LEMMA OrderCounts ==
  ASSUME NEW o, NEW s \in Seq(Names(o)), Topological(o, s)
  PROVE  /\ Cardinality(Range(s)) = Len(s)
         /\ \A a, b \in DOMAIN s : s[a] \in Deps(o, s[b]) => a < b
<1>1. /\ Len(s) \in Nat /\ DOMAIN s = 1 .. Len(s) /\ s \in [1 .. Len(s) -> Range(s)]
      /\ \A x \in Range(s) : \E k \in 1 .. Len(s) : s[k] = x
  BY LenProperties DEF Range
<1>2. \A i, j \in 1 .. Len(s) : s[i] = s[j] => i = j
  BY DEF Topological
<1>3. s \in Injection(1 .. Len(s), Range(s)) /\ s \in Surjection(1 .. Len(s), Range(s))
  BY <1>1, <1>2 DEF Injection, Surjection, IsInjective
<1>4. IsFiniteSet(1 .. Len(s)) /\ Cardinality(1 .. Len(s)) = Len(s)
  <2>1. 1 \in Int /\ Len(s) \in Int
    BY <1>1
  <2>2. /\ IsFiniteSet(1 .. Len(s))
        /\ Cardinality(1 .. Len(s)) = IF 1 > Len(s) THEN 0 ELSE Len(s) - 1 + 1
    BY <2>1, FS_Interval
  <2>3. Len(s) = IF 1 > Len(s) THEN 0 ELSE Len(s) - 1 + 1
    BY <1>1
  <2> QED BY <2>2, <2>3
<1>5. Cardinality(Range(s)) = Cardinality(1 .. Len(s))
  BY <1>3, <1>4, FS_Surjection
<1>6. ASSUME NEW a \in 1 .. Len(s), NEW b \in 1 .. Len(s), s[a] \in Deps(o, s[b]) PROVE a < b
  <2>1. PICK c \in 1 .. b - 1 : s[c] = s[a]
    BY <1>6 DEF Topological
  <2>2. c \in 1 .. Len(s) /\ c < b
    BY <1>1
  <2>3. c = a
    BY <2>1, <2>2, <1>2
  <2> QED BY <2>2, <2>3
<1> QED BY <1>1, <1>4, <1>5, <1>6

\* Theorem: whatever the metrics of a semantic model depend on, a metric is refused
\* exactly when a cycle or an unknown dependency lies below it, and otherwise it is
\* ordered with all it stands for, each once and after what it depends on.
THEOREM DependenciesOrdered == QSpec => []DependenciesFirst
<1>1. ASSUME NEW o \in Ontologies, NEW m \in DOMAIN o.metrics
      PROVE  LET walk == Ordered(o, m) IN
               /\ walk.failed <=> ~ Sound(o, m)
               /\ Sound(o, m) => /\ Range(walk.order) = Whole(o, m)
                                 /\ Cardinality(Whole(o, m)) = Len(walk.order)
                                 /\ \A a, b \in DOMAIN walk.order :
                                      walk.order[a] \in Deps(o, walk.order[b]) => a < b
  <2> DEFINE r == Visits(o)[<<Start, m>>]
  <2>1. Listed(o) /\ m \in Names(o)
    BY ListsAssumption DEF Listed, Names
  <2>2. Ordered(o, m) = r
    BY <2>1 DEF Ordered
  <2>3. /\ Start \in Walks(o) /\ Start.temporary = {} /\ ~ Start.failed
        /\ Start.order = <<>> /\ Range(<<>>) = {} /\ Len(<<>>) = 0
    BY DEF Start, Walks, Range
  <2>4. Walking(o, m, {}, Start)
    <3>1. \A k \in 1 .. 0 : FALSE
      OBVIOUS
    <3>2. Topological(o, <<>>)
      BY <2>3, <3>1 DEF Topological
    <3> QED BY <2>3, <3>2 DEF Walking
  <2>5. Above(o, m, {}, m)
    BY DEF Above, Whole
  <2>6. r \in Walks(o)
    BY <2>1, <2>3, VisitsKeep DEF KeepsAt
  <2>7. Reaches(o, m, Start, m, r)
    BY <2>1, <2>3, <2>4, <2>5, VisitsReach
  <2> HIDE DEF r
  <2>8. Walking(o, m, {}, r) /\ Arrives(m, Start, r) /\ r.order \in Seq(Names(o))
    BY <2>3, <2>6, <2>7 DEF Reaches, Walks
  <2>9. CASE r.failed
    BY <2>2, <2>8, <2>9 DEF Walking
  <2>10. CASE ~ r.failed
    <3>1. Topological(o, r.order) /\ m \in Range(r.order) /\ Range(r.order) \subseteq Whole(o, m)
      BY <2>8, <2>10 DEF Walking, Arrives
    <3>2. Sound(o, m) /\ Range(r.order) = Whole(o, m)
      BY <2>1, <2>8, <3>1, OrderedSound
    <3>3. /\ Cardinality(Range(r.order)) = Len(r.order)
          /\ \A a, b \in DOMAIN r.order : r.order[a] \in Deps(o, r.order[b]) => a < b
      BY <2>8, <3>1, OrderCounts
    <3> QED BY <2>2, <2>10, <3>2, <3>3
  <2> QED BY <2>9, <2>10
<1>2. DependenciesFirst
  BY <1>1 DEF DependenciesFirst, Sound, Whole, Deps
<1> QED BY <1>2, PTL
=============================================================================
