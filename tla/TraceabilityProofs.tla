------------------------- MODULE TraceabilityProofs -------------------------
(***************************************************************************)
(* Proofs about Traceability, for every tree of specs, every set of copies *)
(* and of gaps, every server, and any limits.                              *)
(***************************************************************************)
EXTENDS Traceability, FiniteSetTheorems, WellFoundedInduction, TLAPS

(* Of the intervals up to a number of a set, one has no other within it.   *)
LEMMA LeastExists ==
  ASSUME NEW W \in SUBSET Nat, W # {}
  PROVE  \E x \in W : \A y \in W : x <= y
<1> DEFINE T == {0..m : m \in W}
           R == StrictSubsetOrdering(Nat)
<1>1. IsWellFoundedOn(R, FiniteSubsetsOf(Nat))
  BY FS_StrictSubsetOrderingWellFounded
<1>2. T \subseteq FiniteSubsetsOf(Nat) /\ T # {}
  <2>1. \A m \in W : 0..m \in SUBSET Nat /\ IsFiniteSet(0..m)
    BY FS_Interval
  <2> QED
    BY <2>1 DEF FiniteSubsetsOf
<1> HIDE DEF R
<1>3. \E x \in T : \A y \in T : ~(<<y, x>> \in R)
  <2> HIDE DEF T
  <2> QED
    BY <1>1, <1>2, WFMin
<1>4. PICK x \in W : \A y \in W : ~(<<0..y, 0..x>> \in R)
  BY <1>3
<1>5. ASSUME NEW y \in W, y < x
      PROVE  <<0..y, 0..x>> \in R
  <2>1. 0..y \in SUBSET Nat /\ 0..x \in SUBSET Nat /\ 0..y \subseteq 0..x
    BY <1>5
  <2>2. x \in 0..x /\ x \notin 0..y
    BY <1>5
  <2> QED
    BY <2>1, <2>2 DEF R, StrictSubsetOrdering
<1>6. \A y \in W : ~(y < x)
  BY <1>4, <1>5, Zenon
<1> QED
  BY <1>6

-----------------------------------------------------------------------------
(* The tree                                                                *)

Acyclic == \A s \in Specs : parent[s] # None => s \notin Lineage(parent[s])

WorldInv ==
  /\ parent \in [Specs -> Specs \cup {None}]
  /\ Acyclic
  /\ component \in [Specs -> Components]
  /\ copied \in SUBSET Specs
  /\ verified \in SUBSET Specs
  /\ server \in Servers

Closed(S) == \A x \in S : parent[x] # None => parent[x] \in S

LEMMA LineageIsClosed ==
  ASSUME WorldInv, NEW s \in Specs
  PROVE  /\ Lineage(s) \in SUBSET Specs /\ s \in Lineage(s) /\ Closed(Lineage(s))
         /\ \A S \in SUBSET Specs : s \in S /\ Closed(S) => Lineage(s) \subseteq S
<1>1. ASSUME NEW x \in Lineage(s), parent[x] # None
      PROVE  parent[x] \in Lineage(s)
  <2>1. x \in Specs /\ parent[x] \in Specs
    BY <1>1, TraceabilityAssumption DEF Lineage, WorldInv
  <2>2. ASSUME NEW S \in SUBSET Specs, s \in S, Closed(S)
        PROVE  parent[x] \in S
    BY <1>1, <2>2 DEF Lineage, Closed
  <2> QED
    BY <2>1, <2>2 DEF Lineage, Closed
<1> QED
  BY <1>1 DEF Lineage, Closed

LEMMA LineageOfChild ==
  ASSUME WorldInv, NEW s \in Specs, parent[s] # None
  PROVE  /\ parent[s] \in Specs
         /\ Lineage(s) = {s} \cup Lineage(parent[s])
         /\ s \notin Lineage(parent[s])
<1> DEFINE p == parent[s]
<1>1. p \in Specs /\ s \notin Lineage(p)
  BY DEF WorldInv, Acyclic
<1>2. Closed({s} \cup Lineage(p)) /\ {s} \cup Lineage(p) \in SUBSET Specs
  BY <1>1, LineageIsClosed DEF Closed
<1>3. Lineage(s) \subseteq {s} \cup Lineage(p)
  BY <1>2, LineageIsClosed
<1>4. Lineage(s) \in SUBSET Specs /\ s \in Lineage(s) /\ Closed(Lineage(s))
  BY LineageIsClosed
<1>5. p \in Lineage(s)
  BY <1>4 DEF Closed
<1>6. Lineage(p) \subseteq Lineage(s)
  BY <1>1, <1>4, <1>5, LineageIsClosed
<1> QED
  BY <1>1, <1>3, <1>4, <1>6

(* The specs from one up to an ancestor.                                   *)
Way(d, s) == Lineage(d) \cap Subtree(s)

LEMMA WayOfChild ==
  ASSUME WorldInv, NEW s \in Specs, NEW d \in Subtree(s), d # s
  PROVE  /\ parent[d] # None /\ parent[d] \in Subtree(s)
         /\ Way(d, s) = {d} \cup Way(parent[d], s) /\ d \notin Way(parent[d], s)
<1>1. d \in Specs /\ s \in Lineage(d)
  BY DEF Subtree
<1>2. parent[d] # None
  <2> SUFFICES ASSUME parent[d] = None
               PROVE  FALSE
    OBVIOUS
  <2>1. Closed({d}) /\ {d} \in SUBSET Specs
    BY <1>1 DEF Closed
  <2>2. Lineage(d) \subseteq {d}
    BY <1>1, <2>1, LineageIsClosed
  <2> QED
    BY <1>1, <2>2
<1>3. parent[d] \in Specs /\ Lineage(d) = {d} \cup Lineage(parent[d]) /\ d \notin Lineage(parent[d])
  BY <1>1, <1>2, LineageOfChild
<1> QED
  BY <1>1, <1>2, <1>3 DEF Subtree, Way

LEMMA WayIsFinite ==
  ASSUME WorldInv, NEW s, NEW d \in Specs
  PROVE  IsFiniteSet(Way(d, s)) /\ Cardinality(Way(d, s)) \in Nat
<1>1. Way(d, s) \in SUBSET Specs
  BY LineageIsClosed DEF Way
<1> QED
  BY <1>1, FS_Subset, FS_CardinalityType, TraceabilityAssumption

-----------------------------------------------------------------------------
(* The climb                                                               *)

LEMMA Rows ==
  ASSUME NEW scope, NEW S \in SUBSET Specs
  PROVE  /\ IdsOn(scope, S) \in SUBSET Ids
         /\ \A row \in IdsOn(scope, S) : SpecOf(row) \in S /\ row = IdOn(scope, SpecOf(row))
         /\ \A s \in S : IdOn(scope, s) \in IdsOn(scope, S) /\ SpecOf(IdOn(scope, s)) = s
  BY DEF IdsOn, IdOn, Ids, SpecOf

(* One parent up in the answer is one parent up in the tree.               *)
LEMMA ParentRowIsParent ==
  ASSUME WorldInv, NEW rows \in SUBSET Ids, NEW view, NEW row \in rows,
         NEW p \in ParentRow(row, rows, view)
  PROVE  parent[SpecOf(row)] # None /\ SpecOf(p) = parent[SpecOf(row)]
<1>1. p \in Ids /\ row \in Ids /\ ParentId(row) \in Names(p, view)
  BY DEF ParentRow
<1>2. PICK k \in {"main", "copy"}, s \in Specs : p = <<k, s>>
  BY <1>1 DEF Ids
<1>3. Names(p, view) \subseteq {<<k, s>>, <<"main", s>>}
  BY <1>2 DEF Names, SpecOf
<1>4. Names(p, view) \subseteq Ids
  BY <1>3 DEF Ids
<1>5. ParentId(row) # None
  BY <1>1, <1>4, TraceabilityAssumption
<1>6. parent[SpecOf(row)] # None /\ ParentId(row) = <<"main", parent[SpecOf(row)]>>
  BY <1>5 DEF ParentId
<1> QED
  BY <1>1, <1>2, <1>3, <1>6 DEF SpecOf

(* So a climb does not leave the lineage of the row it began at.           *)
LEMMA ClimbStaysInLineage ==
  ASSUME WorldInv, NEW rows \in SUBSET Ids, NEW view, NEW row \in rows,
         NEW n \in Nat, NEW path \in Climbs(row, n, rows, view)
  PROVE  \A i \in 0..n : SpecOf(path[i]) \in Lineage(SpecOf(row))
<1> DEFINE L == Lineage(SpecOf(row))
           W == {i \in 0..n : SpecOf(path[i]) \notin L}
<1>1. SpecOf(row) \in Specs
  BY DEF Ids, SpecOf
<1>2. SpecOf(row) \in L /\ Closed(L) /\ L \in SUBSET Specs
  BY <1>1, LineageIsClosed
<1>3. path \in [0..n -> rows] /\ path[0] = row
  BY DEF Climbs
<1> SUFFICES ASSUME W # {}
             PROVE  FALSE
  OBVIOUS
<1>4. W \in SUBSET Nat
  OBVIOUS
<1> HIDE DEF L
<1>5. PICK i \in W : \A j \in W : i <= j
  <2> HIDE DEF W
  <2> QED
    BY <1>4, LeastExists
<1>6. i # 0
  BY <1>2, <1>3
<1>7. i \in 1..n /\ i - 1 \in 0..n /\ i - 1 \notin W
  BY <1>5, <1>6
<1>8. path[i] \in ParentRow(path[i - 1], rows, view) /\ path[i - 1] \in rows
  BY <1>3, <1>7 DEF Climbs
<1>9. parent[SpecOf(path[i - 1])] # None /\ SpecOf(path[i]) = parent[SpecOf(path[i - 1])]
  BY <1>8, ParentRowIsParent
<1>10. SpecOf(path[i - 1]) \in L
  BY <1>7
<1> QED
  BY <1>2, <1>5, <1>9, <1>10 DEF Closed

(* What is found in the subtree of the subject is in it.                   *)
LEMMA FoundIsInSubtree ==
  ASSUME WorldInv, NEW rows \in SUBSET Ids, NEW view, NEW row \in rows,
         NEW subject \in Ids, InSubtree(row, subject, rows, view)
  PROVE  SpecOf(row) \in Subtree(SpecOf(subject))
<1> DEFINE Found(n) == \E path \in Climbs(row, n, rows, view) :
                         subject \in Names(path[n], view) \/ ParentId(path[n]) = subject
<1>0. PICK n \in 0..(MaxDepth - 1) : Found(n)
  BY DEF InSubtree
<1>1. PICK path \in Climbs(row, n, rows, view) :
        subject \in Names(path[n], view) \/ ParentId(path[n]) = subject
  BY <1>0
<1>2. n \in Nat /\ n \in 0..n
  BY TraceabilityAssumption
<1>3. SpecOf(path[n]) \in Lineage(SpecOf(row)) /\ path[n] \in rows
  BY <1>2, ClimbStaysInLineage DEF Climbs
<1>4. SpecOf(row) \in Specs /\ SpecOf(path[n]) \in Specs /\ SpecOf(subject) \in Specs
  BY <1>3 DEF Ids, SpecOf
<1>5. Closed(Lineage(SpecOf(row)))
  BY <1>4, LineageIsClosed
<1>6. CASE subject \in Names(path[n], view)
  <2>1. SpecOf(subject) = SpecOf(path[n])
    BY <1>6 DEF Names, SpecOf
  <2> QED
    BY <1>3, <1>4, <2>1 DEF Subtree
<1>7. CASE ParentId(path[n]) = subject
  <2>1. ParentId(path[n]) # None
    BY <1>7, TraceabilityAssumption
  <2>2. parent[SpecOf(path[n])] # None /\ SpecOf(subject) = parent[SpecOf(path[n])]
    BY <1>7, <2>1 DEF ParentId, SpecOf
  <2> QED
    BY <1>3, <1>4, <1>5, <2>2 DEF Subtree, Closed
<1> QED
  BY <1>1, <1>6, <1>7

(* Every spec on the way is found by the id its children give.             *)
Followed(d, s, scope, view) ==
  \A x \in Way(d, s) : <<"main", x>> \in Names(IdOn(scope, x), view)

(* A climb from one spec to another, no longer than the way.               *)
Reaches(d, s, scope, rows, view) ==
  \E n \in 0..(Cardinality(Way(d, s)) - 1) :
    \E path \in Climbs(IdOn(scope, d), n, rows, view) : path[n] = IdOn(scope, s)

(* An answer with the subtree of a spec leads from each of its rows up to  *)
(* the spec, when every row on the way is found by the id its children     *)
(* give.                                                                   *)
LEMMA ClimbReachesSubject ==
  ASSUME WorldInv, NEW scope \in Scopes, NEW view,
         NEW rows \in SUBSET Ids, NEW s \in Specs, NEW d \in Subtree(s),
         IdsOn(scope, Subtree(s)) \subseteq rows,
         Followed(d, s, scope, view)
  PROVE  Reaches(d, s, scope, rows, view)
<1> DEFINE Bad == {x \in Way(d, s) : ~Reaches(x, s, scope, rows, view)}
           W == {Cardinality(Way(x, s)) : x \in Bad}
<1>1. Way(d, s) \subseteq Subtree(s) /\ d \in Way(d, s) /\ Subtree(s) \subseteq Specs
  BY LineageIsClosed DEF Way, Subtree
<1>2. \A x \in Subtree(s) : IdOn(scope, x) \in rows
  BY <1>1, Rows
<1>3. \A x \in Way(d, s) : Cardinality(Way(x, s)) \in Nat
  BY <1>1, WayIsFinite
<1>4. ASSUME Bad # {}
      PROVE  FALSE
  <2>1. W \in SUBSET Nat /\ W # {}
    BY <1>3, <1>4
  <2>2. PICK c \in W : \A e \in W : c <= e
    <3> HIDE DEF W
    <3> QED
      BY <2>1, LeastExists
  <2>3. PICK x \in Bad : \A y \in Bad : Cardinality(Way(x, s)) <= Cardinality(Way(y, s))
    BY <2>2
  <2> HIDE DEF W
  <2>4. x \in Way(d, s) /\ x \in Subtree(s) /\ x \in Specs /\ x \in Way(x, s)
    BY <1>1, <2>3, LineageIsClosed DEF Way
  <2>5. IsFiniteSet(Way(x, s)) /\ Cardinality(Way(x, s)) \in Nat
    BY <2>4, WayIsFinite
  <2>6. CASE x = s
    <3> DEFINE path == [i \in 0..0 |-> IdOn(scope, x)]
    <3>1. path \in Climbs(IdOn(scope, x), 0, rows, view)
      BY <1>2, <2>4 DEF Climbs
    <3>2. path[0] = IdOn(scope, s)
      BY <2>6
    <3>3. Cardinality(Way(x, s)) # 0
      BY <2>4, <2>5, FS_EmptySet
    <3>4. 0 \in 0..(Cardinality(Way(x, s)) - 1)
      BY <2>5, <3>3
    <3> HIDE DEF path
    <3>5. Reaches(x, s, scope, rows, view)
      BY <3>1, <3>2, <3>4 DEF Reaches
    <3> QED
      BY <2>3, <3>5
  <2>7. CASE x # s
    <3> DEFINE p == parent[x]
    <3>1. p # None /\ p \in Subtree(s) /\ Way(x, s) = {x} \cup Way(p, s) /\ x \notin Way(p, s)
      BY <2>4, <2>7, WayOfChild
    <3>2. p \in Way(d, s)
      <4>1. Closed(Lineage(d)) /\ x \in Lineage(d)
        BY <1>1, <2>4, LineageIsClosed DEF Way
      <4> QED
        BY <3>1, <4>1 DEF Way, Closed
    <3>3. IsFiniteSet(Way(p, s)) /\ Cardinality(Way(p, s)) \in Nat
      BY <1>1, <3>2, WayIsFinite
    <3>4. Cardinality(Way(x, s)) = Cardinality(Way(p, s)) + 1
      <4>1. Cardinality(Way(p, s) \cup {x}) = Cardinality(Way(p, s)) + 1
        BY <3>1, <3>3, FS_AddElement
      <4>2. Way(x, s) = Way(p, s) \cup {x}
        BY <3>1
      <4> QED
        BY <4>1, <4>2
    <3>5. p \notin Bad
      BY <2>3, <2>5, <3>3, <3>4
    <3>6. Reaches(p, s, scope, rows, view)
      BY <3>2, <3>5
    <3>7. PICK n \in 0..(Cardinality(Way(p, s)) - 1) :
            \E path \in Climbs(IdOn(scope, p), n, rows, view) : path[n] = IdOn(scope, s)
      BY <3>6 DEF Reaches
    <3>8. PICK path \in Climbs(IdOn(scope, p), n, rows, view) : path[n] = IdOn(scope, s)
      BY <3>7
    <3>9. path \in [0..n -> rows] /\ path[0] = IdOn(scope, p)
          /\ \A i \in 1..n : path[i] \in ParentRow(path[i - 1], rows, view)
      BY <3>8 DEF Climbs
    <3>10. IdOn(scope, p) \in ParentRow(IdOn(scope, x), rows, view)
      <4>1. p \in Specs /\ IdOn(scope, p) \in rows
        BY <1>1, <1>2, <3>1
      <4>2. ParentId(IdOn(scope, x)) = <<"main", p>>
        BY <3>1 DEF ParentId, IdOn, SpecOf
      <4> QED
        BY <3>2, <4>1, <4>2 DEF ParentRow, Followed
    <3> DEFINE longer == [i \in 0..(n + 1) |-> IF i = 0 THEN IdOn(scope, x) ELSE path[i - 1]]
    <3>11. longer \in [0..(n + 1) -> rows] /\ longer[0] = IdOn(scope, x)
      BY <1>2, <2>4, <3>3, <3>9
    <3>12. ASSUME NEW i \in 1..(n + 1)
           PROVE  longer[i] \in ParentRow(longer[i - 1], rows, view)
      <4>1. CASE i = 1
        <5>1. longer[i] = path[0] /\ longer[i - 1] = IdOn(scope, x)
          BY <3>3, <4>1
        <5> QED
          BY <3>9, <3>10, <5>1
      <4>2. CASE i # 1
        <5>1. i - 1 \in 1..n /\ longer[i] = path[i - 1] /\ longer[i - 1] = path[(i - 1) - 1]
          BY <3>3, <4>2
        <5> QED
          BY <3>9, <5>1
      <4> QED
        BY <4>1, <4>2
    <3>13. longer[n + 1] = IdOn(scope, s)
      BY <3>3, <3>8
    <3> HIDE DEF longer
    <3>14. longer \in Climbs(IdOn(scope, x), n + 1, rows, view)
      BY <3>11, <3>12 DEF Climbs
    <3>15. n + 1 \in 0..(Cardinality(Way(x, s)) - 1)
      BY <3>3, <3>4
    <3>16. Reaches(x, s, scope, rows, view)
      BY <3>13, <3>14, <3>15 DEF Reaches
    <3> QED
      BY <2>3, <3>16
  <2> QED
    BY <2>6, <2>7
<1> QED
  BY <1>1, <1>4

-----------------------------------------------------------------------------
(* What a filter leaves                                                    *)

LEMMA AnswerTypes ==
  ASSUME WorldInv, NEW a \in Asks
  PROVE  /\ Sent(a) \in SUBSET Specs /\ Wanted(a) \in SUBSET Specs /\ Wanted(a) \subseteq Sent(a)
         /\ ScopeFor(a) \in Scopes
         /\ Answered(a).rows = IdsOn(ScopeFor(a), Sent(a))
         /\ Answered(a).rows \in SUBSET Ids
         /\ Answered(a).components \in SUBSET Components
<1>1. Wanted(a) \in SUBSET Specs /\ Sent(a) \in SUBSET Specs /\ Wanted(a) \subseteq Sent(a)
  BY DEF Wanted, Sent, Subtree
<1>2. {component[s] : s \in Sent(a)} \in SUBSET Components
  BY <1>1 DEF WorldInv
<1>3. ScopeFor(a) \in Scopes
  BY DEF ScopeFor, Scopes
<1> QED
  BY <1>1, <1>2, <1>3, Rows DEF Answered

(* Nothing that was not asked for, whatever the server sent.               *)
LEMMA NothingMore ==
  ASSUME WorldInv, NEW a \in Asks
  PROVE  LET f == Filtered(Answered(a), a) IN
         /\ f.rows \subseteq IdsOn(ScopeFor(a), Wanted(a)) /\ f.rows \subseteq Answered(a).rows
         /\ f.components \in SUBSET Components
<1> DEFINE r == Answered(a)
           scope == ScopeFor(a)
           f == Filtered(r, a)
<1>1. /\ Sent(a) \in SUBSET Specs /\ Wanted(a) \in SUBSET Specs
      /\ r.rows = IdsOn(scope, Sent(a)) /\ r.rows \in SUBSET Ids
      /\ r.components \in SUBSET Components
  BY AnswerTypes
<1> HIDE DEF r, scope
<1>2. \A row \in r.rows : SpecOf(row) \in Specs /\ row = IdOn(scope, SpecOf(row))
  BY <1>1, Rows
<1>3. CASE a.feature # None
  <2>1. f = FilterToFeature(r, a)
    BY <1>3 DEF Filtered
  <2>2. f.rows \subseteq {row \in r.rows : InSubtree(row, a.feature, r.rows, r.view)}
    BY <2>1 DEF FilterToFeature
  <2>3. f.components = {component[SpecOf(row)] : row \in f.rows}
    BY <2>1 DEF FilterToFeature
  <2>4. a.feature \in Ids /\ Wanted(a) = Subtree(SpecOf(a.feature))
    BY <1>3 DEF Asks, Wanted
  <2>5. ASSUME NEW row \in f.rows
        PROVE  row \in IdsOn(scope, Wanted(a))
    <3>1. SpecOf(row) \in Wanted(a)
      BY <1>1, <2>2, <2>4, FoundIsInSubtree
    <3> QED
      BY <1>2, <2>2, <3>1 DEF IdsOn
  <2>6. f.components \in SUBSET Components
    BY <1>2, <2>2, <2>3 DEF WorldInv
  <2> QED
    BY <2>2, <2>5, <2>6 DEF r, scope
<1>4. CASE a.feature = None /\ a.component # None
  <2>1. f = FilterToComponent(r, a) /\ Wanted(a) = {s \in Specs : component[s] = a.component}
    BY <1>4 DEF Filtered, Wanted
  <2>2. /\ f.rows \subseteq {row \in r.rows : component[SpecOf(row)] = a.component}
        /\ f.components \subseteq r.components
    BY <2>1 DEF FilterToComponent
  <2>3. f.rows \subseteq IdsOn(scope, Wanted(a))
    BY <1>2, <2>1, <2>2 DEF IdsOn
  <2> QED
    BY <1>1, <2>2, <2>3 DEF r, scope
<1>5. CASE a.feature = None /\ a.component = None
  <2>1. f = [rows |-> r.rows, components |-> r.components] /\ Wanted(a) = Specs
    BY <1>5 DEF Filtered, Wanted
  <2>2. f.rows \subseteq IdsOn(scope, Wanted(a))
    BY <1>1, <1>2, <2>1 DEF IdsOn
  <2> QED
    BY <1>1, <2>1, <2>2 DEF r, scope
<1> QED
  BY <1>3, <1>4, <1>5

(* A row of the subtree is left in, unless one of the three things that    *)
(* MissingRowsExplained names is so.                                       *)
LEMMA NothingLess ==
  ASSUME WorldInv, NEW a \in Asks, a.feature # None, a.form # "otherCase",
         a.feature \in IdsOn(ScopeFor(a), Specs) \cup ({"main"} \X Specs),
         NEW d \in Wanted(a),
         ~(Cardinality(Way(d, SpecOf(a.feature))) > MaxDepth),
         \/ Answered(a).view # "matrix"
         \/ ScopeFor(a) # "branch"
         \/ \A x \in Way(d, SpecOf(a.feature)) : x \notin copied
  PROVE  IdOn(ScopeFor(a), d) \in Filtered(Answered(a), a).rows
<1> DEFINE r == Answered(a)
           scope == ScopeFor(a)
           s == SpecOf(a.feature)
<1>1. /\ Sent(a) \in SUBSET Specs /\ Wanted(a) \subseteq Sent(a) /\ scope \in Scopes
      /\ r.rows = IdsOn(scope, Sent(a)) /\ r.rows \in SUBSET Ids
      /\ r.view \in {"summary", "matrix"}
  BY AnswerTypes DEF Answered
<1>2. a.feature \in Ids /\ s \in Specs /\ (a.feature = <<"main", s>> \/ a.feature = IdOn(scope, s))
  BY Rows DEF Asks, Ids, SpecOf
<1>3. Wanted(a) = Subtree(s) /\ Filtered(r, a) = FilterToFeature(r, a)
  BY DEF Wanted, Filtered
<1>4. \A x \in Way(d, s) : x \notin copied \/ r.view = "summary" \/ scope # "branch"
  BY <1>1
<1> HIDE DEF r, scope, s
<1>5. d \in Specs /\ s \in Way(d, s) /\ d \in Subtree(s)
  BY <1>2, <1>3, LineageIsClosed DEF Way, Subtree
<1>6. \A x \in Way(d, s) : <<"main", x>> \in Names(IdOn(scope, x), r.view)
  BY <1>4 DEF Names, IdOn, SpecOf
<1>7. IdsOn(scope, Subtree(s)) \subseteq r.rows
  BY <1>1, <1>3 DEF IdsOn
<1>8. PICK n \in 0..(Cardinality(Way(d, s)) - 1) :
        \E path \in Climbs(IdOn(scope, d), n, r.rows, r.view) : path[n] = IdOn(scope, s)
  <2>1. Followed(d, s, scope, r.view)
    BY <1>6 DEF Followed
  <2>2. Reaches(d, s, scope, r.rows, r.view)
    BY <1>1, <1>2, <1>5, <1>7, <2>1, ClimbReachesSubject
  <2> QED
    BY <2>2 DEF Reaches
<1>9. n \in 0..(MaxDepth - 1)
  <2>1. Cardinality(Way(d, s)) \in Nat
    BY <1>5, WayIsFinite
  <2>2. ~(Cardinality(Way(d, s)) > MaxDepth)
    BY DEF s
  <2> QED
    BY <2>1, <2>2, TraceabilityAssumption
<1>10. a.feature \in Names(IdOn(scope, s), r.view)
  BY <1>2, <1>5, <1>6 DEF Names
<1>11. InSubtree(IdOn(scope, d), a.feature, r.rows, r.view)
  BY <1>8, <1>9, <1>10 DEF InSubtree
<1>12. IdOn(scope, d) \in r.rows
  BY <1>3, <1>5, <1>7 DEF IdsOn
<1>13. IdOn(scope, d) \in Filtered(r, a).rows
  BY <1>3, <1>11, <1>12 DEF FilterToFeature
<1> QED
  BY <1>13 DEF r, scope

-----------------------------------------------------------------------------
(* Counting                                                                *)

(* A scope has one row for each spec.                                      *)
LEMMA RowsAreAsMany ==
  ASSUME NEW scope, NEW S \in SUBSET Specs
  PROVE  IsFiniteSet(IdsOn(scope, S)) /\ Cardinality(IdsOn(scope, S)) = Cardinality(S)
<1> DEFINE row == [s \in S |-> IdOn(scope, s)]
<1>1. row \in [S -> IdsOn(scope, S)]
  BY DEF IdsOn
<1>2. \A s, t \in S : row[s] = row[t] => s = t
  BY DEF IdOn
<1>3. \A id \in IdsOn(scope, S) : \E s \in S : row[s] = id
  BY DEF IdsOn
<1> HIDE DEF row
<1>4. row \in Bijection(S, IdsOn(scope, S))
  BY <1>1, <1>2, <1>3 DEF Bijection, Injection, Surjection, IsInjective
<1>5. IsFiniteSet(S)
  BY FS_Subset, TraceabilityAssumption
<1> QED
  BY <1>4, <1>5, FS_Bijection DEF ExistsBijection

(* A finite set has a subset of every size up to its own.                  *)
LEMMA SubsetOfSize ==
  ASSUME NEW S, IsFiniteSet(S), NEW k \in Nat, k <= Cardinality(S)
  PROVE  \E T \in SUBSET S : Cardinality(T) = k
<1> DEFINE c == Cardinality(S)
<1>1. c \in Nat /\ ExistsBijection(1..c, S)
  BY FS_CardinalityType
<1>2. PICK f \in Bijection(1..c, S) : TRUE
  BY <1>1 DEF ExistsBijection
<1>3. f \in [1..c -> S] /\ \A i, j \in 1..c : f[i] = f[j] => i = j
  BY <1>2 DEF Bijection, Injection, IsInjective
<1>4. 1..k \subseteq 1..c
  BY <1>1
<1> HIDE DEF c
<1> DEFINE T == {f[i] : i \in 1..k}
           g == [i \in 1..k |-> f[i]]
<1>5. T \in SUBSET S
  BY <1>3, <1>4
<1>6. g \in [1..k -> T] /\ (\A t \in T : \E i \in 1..k : g[i] = t)
      /\ \A i, j \in 1..k : g[i] = g[j] => i = j
  BY <1>3, <1>4
<1> HIDE DEF T, g
<1>7. g \in Bijection(1..k, T)
  BY <1>6 DEF Bijection, Injection, Surjection, IsInjective
<1>8. IsFiniteSet(1..k) /\ Cardinality(1..k) = k
  BY FS_Interval
<1>9. Cardinality(T) = k
  BY <1>7, <1>8, FS_Bijection DEF ExistsBijection
<1> QED
  BY <1>5, <1>9

(* The list of a component's gaps is cut at the cap, and not before.       *)
LEMMA ListIsCut ==
  ASSUME NEW gaps, IsFiniteSet(gaps)
  PROVE  /\ Listed(gaps) \in SUBSET gaps
         /\ Cardinality(gaps) \in Nat /\ Cardinality(Listed(gaps)) \in Nat
         /\ Cardinality(Listed(gaps)) <= Cardinality(gaps)
         /\ Cardinality(Listed(gaps)) # Cardinality(gaps) => Cardinality(Listed(gaps)) = MaxListed
<1>1. Cardinality(gaps) \in Nat
  BY FS_CardinalityType
<1>2. CASE Cardinality(gaps) > MaxListed
  <2>1. \E l \in SUBSET gaps : Cardinality(l) = MaxListed
    BY <1>1, <1>2, SubsetOfSize, TraceabilityAssumption
  <2>2. \E l \in kSubset(MaxListed, gaps) : TRUE
    BY <2>1 DEF kSubset
  <2>3. Listed(gaps) \in kSubset(MaxListed, gaps)
    BY <1>2, <2>2 DEF Listed
  <2>4. Listed(gaps) \in SUBSET gaps /\ Cardinality(Listed(gaps)) = MaxListed
    BY <2>3 DEF kSubset
  <2> QED
    BY <1>1, <1>2, <2>4, TraceabilityAssumption
<1>3. CASE ~(Cardinality(gaps) > MaxListed)
  BY <1>1, <1>3 DEF Listed
<1> QED
  BY <1>2, <1>3

-----------------------------------------------------------------------------
(* The invariant                                                           *)

(* What Tell answers.                                                      *)
Result ==
  LET f == Filtered(answer, ask)
      kind == IF ask.tests THEN "detail" ELSE IF Scoped(ask) THEN "summary" ELSE "rollup"
  IN [kind |-> kind, rows |-> f.rows,
      rollup |-> IF kind = "rollup" THEN Rollup(f) ELSE <<>>,
      note |-> f.rows # answer.rows \/ f.components # answer.components]

(* Only ids at hand are asked for.                                         *)
AskInv ==
  ask # None =>
    /\ ask \in Asks
    /\ ask.feature \in IdsOn(ScopeFor(ask), Specs) \cup ({"main"} \X Specs) \cup {None}

CallInv ==
  /\ answer # None => ask # None /\ answer = Answered(ask)
  /\ out # None =>
       \/ \E kind \in {"error", "pending"} : out = Plain(kind)
       \/ ask # None /\ answer # None /\ out = Result

Inv == WorldInv /\ AskInv /\ CallInv

(* The product is what it was when the call began.                         *)
LEMMA WorldStays ==
  ASSUME WorldInv, UNCHANGED product
  PROVE  WorldInv'
<1>1. parent' = parent /\ component' = component /\ copied' = copied
      /\ verified' = verified /\ server' = server
  BY DEF product
<1>2. Acyclic' = Acyclic
  BY <1>1 DEF Acyclic, Lineage
<1> QED
  BY <1>1, <1>2 DEF WorldInv

LEMMA SameAnswer ==
  ASSUME UNCHANGED product, UNCHANGED ask
  PROVE  Answered(ask)' = Answered(ask)
  BY DEF product, Answered, Sent, Wanted, Subtree, Lineage, IdsOn, IdOn, ScopeFor

LEMMA SameResult ==
  ASSUME UNCHANGED product, UNCHANGED <<ask, answer>>
  PROVE  Result' = Result
<1>1. /\ parent' = parent /\ component' = component /\ verified' = verified
      /\ ask' = ask /\ answer' = answer
  BY DEF product
<1>2. FilterToFeature(answer, ask)' = FilterToFeature(answer, ask)
  BY <1>1 DEF FilterToFeature, InSubtree, Climbs, ParentRow, ParentId
<1>3. FilterToComponent(answer, ask)' = FilterToComponent(answer, ask)
  BY <1>1 DEF FilterToComponent
<1> DEFINE f == Filtered(answer, ask)
<1>4. f' = f
  BY <1>1, <1>2, <1>3 DEF Filtered
<1>5. Rollup(f)' = Rollup(f)
  <2> HIDE DEF f
  <2> QED
    BY <1>1, <1>4 DEF Rollup, Gaps, InComponent
<1> QED
  BY <1>1, <1>4, <1>5, Zenon DEF Result

LEMMA SameAsk ==
  ASSUME AskInv, UNCHANGED product, UNCHANGED ask
  PROVE  AskInv'
  BY DEF AskInv, product, IdsOn, IdOn, ScopeFor

THEOREM InvHolds == Spec => []Inv
<1>1. Init => Inv
  BY DEF Init, Inv, WorldInv, AskInv, CallInv, Acyclic
<1>2. Inv /\ [Next]_vars => Inv'
  <2> SUFFICES ASSUME Inv, [Next]_vars
               PROVE  Inv'
    OBVIOUS
  <2>1. UNCHANGED product
    BY DEF Next, Ask, Answer, Fail, Tell, vars
  <2>2. WorldInv'
    BY <2>1, WorldStays DEF Inv
  <2>3. CASE Ask
    <3>1. answer = None /\ answer' = None
      BY <2>3 DEF Ask, Inv, CallInv
    <3>2. PICK a \in Asks :
            /\ a.feature \in IdsOn(ScopeFor(a), Specs) \cup ({"main"} \X Specs) \cup {None}
            /\ ask' = a
            /\ out' = IF Refused(a) THEN Plain("error") ELSE None
      BY <2>3 DEF Ask
    <3>3. AskInv'
      BY <2>1, <3>2 DEF AskInv, product, IdsOn, IdOn, ScopeFor
    <3>4. out' # None => out' = Plain("error")
      BY <3>2
    <3>5. CallInv'
      BY <3>1, <3>4 DEF CallInv, Plain
    <3> QED
      BY <2>2, <3>3, <3>5 DEF Inv
  <2>4. CASE Answer
    <3>1. ask # None /\ out = None /\ ask' = ask /\ out' = out /\ answer' = Answered(ask)
      BY <2>4 DEF Answer
    <3>2. AskInv' /\ Answered(ask)' = Answered(ask)
      BY <2>1, <3>1, SameAsk, SameAnswer DEF Inv
    <3>3. CallInv'
      BY <3>1, <3>2 DEF CallInv
    <3> QED
      BY <2>2, <3>2, <3>3 DEF Inv
  <2>5. CASE Fail
    <3>1. answer = None /\ ask' = ask /\ answer' = answer
      BY <2>5 DEF Fail
    <3>2. \E kind \in {"error", "pending"} : out' = Plain(kind)
      BY <2>5 DEF Fail
    <3>3. CallInv'
      BY <3>1, <3>2 DEF CallInv, Plain
    <3> QED
      BY <2>1, <2>2, <3>1, <3>3, SameAsk DEF Inv
  <2>6. CASE Tell
    <3>1. answer # None /\ ask' = ask /\ answer' = answer /\ out' = Result
      BY <2>6 DEF Tell, Result
    <3>2. AskInv' /\ Answered(ask)' = Answered(ask) /\ Result' = Result
      BY <2>1, <3>1, SameAsk, SameAnswer, SameResult DEF Inv
    <3>3. CallInv'
      BY <3>1, <3>2 DEF CallInv, Inv
    <3> QED
      BY <2>2, <3>2, <3>3 DEF Inv
  <2>7. CASE UNCHANGED vars
    <3>1. ask' = ask /\ answer' = answer /\ out' = out
      BY <2>7 DEF vars
    <3>2. AskInv' /\ Answered(ask)' = Answered(ask) /\ Result' = Result
      BY <2>1, <3>1, SameAsk, SameAnswer, SameResult DEF Inv
    <3>3. CallInv'
      BY <3>1, <3>2 DEF CallInv, Plain, Inv
    <3> QED
      BY <2>2, <3>2, <3>3 DEF Inv
  <2> QED
    BY <2>3, <2>4, <2>5, <2>6, <2>7 DEF Next
<1> QED
  BY <1>1, <1>2, PTL DEF Spec

LEMMA ToldIsResult ==
  ASSUME Inv, Told({"rollup", "summary", "detail"})
  PROVE  /\ ask \in Asks /\ ask # None /\ answer # None /\ answer = Answered(ask) /\ out = Result
         /\ out.kind = IF ask.tests THEN "detail" ELSE IF Scoped(ask) THEN "summary" ELSE "rollup"
         /\ out.rows = Filtered(answer, ask).rows
         /\ out.rollup = IF out.kind = "rollup" THEN Rollup(Filtered(answer, ask)) ELSE <<>>
         /\ out.note = (\/ Filtered(answer, ask).rows # answer.rows
                        \/ Filtered(answer, ask).components # answer.components)
         /\ AskedScope = ScopeFor(ask)
<1>1. \A kind \in {"error", "pending"} : out # Plain(kind)
  BY DEF Told, Plain
<1>2. ask # None /\ answer # None /\ out = Result
  BY <1>1 DEF Inv, CallInv, Told
<1>3. ask \in Asks /\ answer = Answered(ask)
  BY <1>2 DEF Inv, AskInv, CallInv
<1>4. AskedScope = ScopeFor(ask)
  BY DEF AskedScope, ScopeFor
<1> QED
  BY <1>2, <1>3, <1>4 DEF Result

(* The specs of a component, and its gaps.                                 *)
In(S, c) == {s \in S : component[s] = c}
GapsIn(S, c) == In(S, c) \ verified

(* How a component is summed up.                                           *)
SummedUp(sum, scope, S, c) ==
  LET gaps == IdsOn(scope, GapsIn(S, c)) IN
  /\ sum.specs = Cardinality(In(S, c))
  /\ sum.listed = Listed(gaps)
  /\ sum.more = Cardinality(gaps) - Cardinality(Listed(gaps))
  /\ IsFiniteSet(gaps) /\ Cardinality(gaps) = Cardinality(GapsIn(S, c))

LEMMA RollupSumsUp ==
  ASSUME NEW scope, NEW S \in SUBSET Specs, NEW r, r.rows = IdsOn(scope, S),
         NEW c \in r.components
  PROVE  SummedUp(Rollup(r)[c], scope, S, c)
<1> DEFINE specs == In(S, c)
           gaps == GapsIn(S, c)
<1>1. specs \in SUBSET Specs /\ gaps \in SUBSET Specs
  BY DEF In, GapsIn
<1>2. InComponent(r, c) = IdsOn(scope, specs)
  BY Rows DEF InComponent, IdsOn, IdOn, SpecOf, In
<1>3. Gaps(r, c) = IdsOn(scope, gaps)
  BY Rows DEF Gaps, IdsOn, IdOn, SpecOf, In, GapsIn
<1> HIDE DEF specs, gaps
<1>4. /\ Cardinality(IdsOn(scope, specs)) = Cardinality(specs)
      /\ IsFiniteSet(IdsOn(scope, gaps)) /\ Cardinality(IdsOn(scope, gaps)) = Cardinality(gaps)
  BY <1>1, RowsAreAsMany
<1>5. Rollup(r)[c] = [specs |-> Cardinality(InComponent(r, c)), listed |-> Listed(Gaps(r, c)),
                      more |-> Cardinality(Gaps(r, c)) - Cardinality(Listed(Gaps(r, c)))]
  BY DEF Rollup
<1>6. /\ Rollup(r)[c].specs = Cardinality(specs)
      /\ Rollup(r)[c].listed = Listed(IdsOn(scope, gaps))
      /\ Rollup(r)[c].more =
           Cardinality(IdsOn(scope, gaps)) - Cardinality(Listed(IdsOn(scope, gaps)))
  BY <1>2, <1>3, <1>4, <1>5
<1> QED
  BY <1>4, <1>6 DEF SummedUp, specs, gaps

-----------------------------------------------------------------------------
(* What is shown                                                           *)

(* For every tree and every server, the values have their types; that a    *)
(* rollup never counts fewer than no more gaps is the part with content.   *)
THEOREM TypeCorrect == Spec => []TypeOK
<1>1. Inv => TypeOK
  <2> SUFFICES ASSUME Inv
               PROVE  TypeOK
    OBVIOUS
  <2>1. ask \in Asks \cup {None}
    BY DEF Inv, AskInv
  <2>2. answer # None => answer.rows \in SUBSET Ids /\ answer.components \in SUBSET Components
    BY AnswerTypes DEF Inv, AskInv, CallInv
  <2>3. CASE Told({"rollup", "summary", "detail"})
    <3>1. /\ ask \in Asks /\ answer = Answered(ask)
          /\ out.kind = IF ask.tests THEN "detail" ELSE IF Scoped(ask) THEN "summary" ELSE "rollup"
          /\ out.rows = Filtered(answer, ask).rows
          /\ out.rollup = IF out.kind = "rollup" THEN Rollup(Filtered(answer, ask)) ELSE <<>>
          /\ out.note \in BOOLEAN
      BY <2>3, ToldIsResult
    <3>2. out.rows \in SUBSET Ids
      BY <3>1, NothingMore, AnswerTypes DEF Inv
    <3>3. ASSUME NEW c \in DOMAIN out.rollup
          PROVE  out.rollup[c].more \in Nat
      <4>1. CASE out.kind = "rollup"
        <5> DEFINE r == Filtered(answer, ask)
                   S == Sent(ask)
                   scope == ScopeFor(ask)
                   ids == IdsOn(scope, GapsIn(S, c))
        <5>1. r.rows = answer.rows
          BY <3>1, <4>1 DEF Filtered, Scoped
        <5>2. S \in SUBSET Specs /\ r.rows = IdsOn(scope, S)
          BY <3>1, <5>1, AnswerTypes DEF Inv
        <5>3. c \in r.components /\ out.rollup = Rollup(r)
          BY <3>1, <4>1 DEF Rollup
        <5> HIDE DEF r, S, scope
        <5>4. /\ Rollup(r)[c].more = Cardinality(ids) - Cardinality(Listed(ids))
              /\ IsFiniteSet(ids)
          BY <5>2, <5>3, RollupSumsUp DEF SummedUp
        <5> HIDE DEF ids
        <5>5. /\ Cardinality(ids) \in Nat /\ Cardinality(Listed(ids)) \in Nat
              /\ Cardinality(Listed(ids)) <= Cardinality(ids)
          BY <5>4, ListIsCut
        <5> QED
          BY <5>3, <5>4, <5>5
      <4>2. CASE out.kind # "rollup"
        BY <3>1, <4>2
      <4> QED
        BY <4>1, <4>2
    <3> QED
      BY <2>1, <2>2, <3>1, <3>2, <3>3 DEF TypeOK
  <2>4. CASE \E kind \in {"error", "pending"} : out = Plain(kind)
    <3>1. \A c \in DOMAIN out.rollup : out.rollup[c].more \in Nat
      BY <2>4 DEF Plain
    <3> QED
      BY <2>1, <2>2, <2>4, <3>1 DEF TypeOK, Plain
  <2>5. CASE out = None
    BY <2>1, <2>2, <2>5 DEF TypeOK
  <2> QED
    BY <2>3, <2>4, <2>5 DEF Inv, CallInv, Told, Result
<1> QED
  BY <1>1, InvHolds, PTL

(* Whatever the server ignores, an answer about one spec or one component  *)
(* holds no row outside it: a climb that ends at the subject began at a    *)
(* descendant, however deep the tree and wherever the branch has copies.   *)
THEOREM OnlyWhatWasAsked == Spec => []NothingOutside
<1>1. Inv => NothingOutside
  <2> SUFFICES ASSUME Inv, Told({"summary", "detail"})
               PROVE  out.rows \subseteq Due
    BY DEF NothingOutside
  <2>1. Told({"rollup", "summary", "detail"})
    BY DEF Told
  <2>2. /\ ask \in Asks /\ answer = Answered(ask)
        /\ out.rows = Filtered(answer, ask).rows /\ AskedScope = ScopeFor(ask)
    BY <2>1, ToldIsResult
  <2> QED
    BY <2>2, NothingMore DEF Inv, Due
<1> QED
  BY <1>1, InvHolds, PTL

(* A row of the subtree is missing only for one of the three reasons.      *)
THEOREM OnlyTheseAreMissing == Spec => []MissingRowsExplained
<1>1. Inv => MissingRowsExplained
  <2> SUFFICES ASSUME Inv, Told({"summary", "detail"}), ask.feature # None,
                      NEW row \in Due \ out.rows, ask.form # "otherCase",
                      ~(Cardinality(Way(SpecOf(row), SpecOf(ask.feature))) > MaxDepth)
               PROVE  /\ answer.view = "matrix" /\ AskedScope = "branch"
                      /\ CopiesOnTheWay(row) # {}
    BY DEF MissingRowsExplained, Way
  <2>1. Told({"rollup", "summary", "detail"})
    BY DEF Told
  <2>2. /\ ask \in Asks /\ ask # None /\ answer = Answered(ask)
        /\ out.rows = Filtered(answer, ask).rows /\ AskedScope = ScopeFor(ask)
    BY <2>1, ToldIsResult
  <2>3. ask.feature \in IdsOn(ScopeFor(ask), Specs) \cup ({"main"} \X Specs)
    BY <2>2 DEF Inv, AskInv
  <2>4. SpecOf(row) \in Wanted(ask) /\ row = IdOn(ScopeFor(ask), SpecOf(row))
    BY <2>2, AnswerTypes, Rows DEF Inv, Due
  <2>5. ~(\/ Answered(ask).view # "matrix"
          \/ ScopeFor(ask) # "branch"
          \/ \A x \in Way(SpecOf(row), SpecOf(ask.feature)) : x \notin copied)
    BY <2>2, <2>3, <2>4, NothingLess DEF Inv
  <2> QED
    BY <2>2, <2>5 DEF CopiesOnTheWay, Way
<1> QED
  BY <1>1, InvHolds, PTL

(* What a server that knows the query has filtered is passed on as it is.  *)
THEOREM NotFilteredAgain == Spec => []FilteredOnce
<1>1. Inv => FilteredOnce
  <2> SUFFICES ASSUME Inv, Told({"summary"}), server.view, server.filter, ~server.empty,
                      ask.form = "uuid",
                      ~(ask.feature # None /\ \E s \in Wanted(ask) :
                          Cardinality(Lineage(s) \cap Wanted(ask)) > MaxDepth)
               PROVE  out.rows = Due /\ ~out.note
    BY DEF FilteredOnce
  <2> DEFINE r == Answered(ask)
             f == Filtered(r, ask)
             scope == ScopeFor(ask)
  <2>1. Told({"rollup", "summary", "detail"}) /\ out.kind = "summary"
    BY DEF Told
  <2>2. /\ ask \in Asks /\ ask # None /\ answer = r
        /\ out.kind = IF ask.tests THEN "detail" ELSE IF Scoped(ask) THEN "summary" ELSE "rollup"
        /\ out.rows = f.rows /\ out.note = (f.rows # r.rows \/ f.components # r.components)
        /\ AskedScope = scope
    BY <2>1, ToldIsResult
  <2>3. ~ask.tests /\ Scoped(ask)
    BY <2>1, <2>2
  <2>4. /\ r.view = "summary" /\ r.rows = IdsOn(scope, Wanted(ask)) /\ Due = r.rows
        /\ r.components = {component[s] : s \in Wanted(ask)}
    BY <2>2, <2>3 DEF Answered, Sent, Due
  <2>5. Wanted(ask) \in SUBSET Specs /\ r.rows \in SUBSET Ids /\ f.rows \subseteq r.rows
    BY <2>2, AnswerTypes, NothingMore DEF Inv
  <2>6. \A s \in Wanted(ask) : IdOn(scope, s) \in r.rows /\ SpecOf(IdOn(scope, s)) = s
    BY <2>4, <2>5, Rows
  <2>7. \A row \in r.rows : SpecOf(row) \in Wanted(ask) /\ row = IdOn(scope, SpecOf(row))
    BY <2>4, <2>5, Rows
  <2>8. CASE ask.feature # None
    <3>1. ask.feature \in IdsOn(scope, Specs) \cup ({"main"} \X Specs)
      BY <2>2, <2>8 DEF Inv, AskInv
    <3>2. Wanted(ask) = Subtree(SpecOf(ask.feature))
      BY <2>8 DEF Wanted
    <3>3. \A s \in Wanted(ask) : ~(Cardinality(Way(s, SpecOf(ask.feature))) > MaxDepth)
      BY <2>8, <3>2 DEF Way
    <3>4. \A s \in Wanted(ask) : IdOn(scope, s) \in f.rows
      BY <2>2, <2>4, <2>8, <3>1, <3>3, NothingLess DEF Inv
    <3>5. f.rows = r.rows
      BY <2>5, <2>7, <3>4
    <3>6. f.components = {component[SpecOf(row)] : row \in f.rows}
      BY <2>8 DEF Filtered, FilterToFeature
    <3> HIDE DEF r, f, scope
    <3>7. f.components = r.components
      BY <2>4, <2>6, <2>7, <3>5, <3>6
    <3> QED
      BY <2>2, <2>4, <3>5, <3>7
  <2>9. CASE ask.feature = None
    <3>1. /\ ask.component # None /\ f = FilterToComponent(r, ask)
          /\ Wanted(ask) = {s \in Specs : component[s] = ask.component}
      BY <2>3, <2>9 DEF Scoped, Filtered, Wanted
    <3>2. /\ f.components = r.components \cap {ask.component}
          /\ f.rows = {row \in r.rows : component[SpecOf(row)] \in f.components}
      BY <3>1 DEF FilterToComponent
    <3> HIDE DEF r, f, scope
    <3>3. f.components = r.components
      BY <2>4, <3>1, <3>2
    <3>4. f.rows = r.rows
      BY <2>4, <2>7, <3>2, <3>3
    <3> QED
      BY <2>2, <2>4, <3>3, <3>4
  <2> QED
    BY <2>8, <2>9
<1> QED
  BY <1>1, InvHolds, PTL

(* The rollup accounts for every spec of the product once, wherever the    *)
(* list of gaps is cut.                                                    *)
THEOREM RollupIsComplete == Spec => []RollupAddsUp
<1>1. Inv => RollupAddsUp
  <2> SUFFICES ASSUME Inv, Told({"rollup"}), NEW c \in Components
               PROVE  IF c \notin DOMAIN out.rollup THEN In(Specs, c) = {}
                      ELSE /\ out.rollup[c].specs = Cardinality(In(Specs, c))
                           /\ out.rollup[c].listed \subseteq IdsOn(AskedScope, GapsIn(Specs, c))
                           /\ Cardinality(out.rollup[c].listed) + out.rollup[c].more
                                = Cardinality(GapsIn(Specs, c))
                           /\ out.rollup[c].more > 0
                                => Cardinality(out.rollup[c].listed) = MaxListed
    BY DEF RollupAddsUp, In, GapsIn
  <2> DEFINE r == Filtered(answer, ask)
             scope == ScopeFor(ask)
             ids == IdsOn(scope, GapsIn(Specs, c))
  <2>1. Told({"rollup", "summary", "detail"}) /\ out.kind = "rollup"
    BY DEF Told
  <2>2. /\ ask \in Asks /\ ask # None /\ answer = Answered(ask)
        /\ out.kind = IF ask.tests THEN "detail" ELSE IF Scoped(ask) THEN "summary" ELSE "rollup"
        /\ out.rollup = Rollup(r) /\ AskedScope = scope
    BY <2>1, ToldIsResult
  <2>3. ~Scoped(ask)
    BY <2>1, <2>2
  <2>4. Sent(ask) = Specs /\ r.rows = answer.rows /\ r.components = answer.components
    BY <2>3 DEF Scoped, Filtered, Wanted, Sent
  <2>5. answer.rows = IdsOn(scope, Specs) /\ {component[s] : s \in Specs} \subseteq answer.components
    BY <2>2, <2>3, <2>4 DEF Answered, Inv, WorldInv
  <2>6. DOMAIN out.rollup = r.components
    BY <2>2 DEF Rollup
  <2>7. CASE c \notin DOMAIN out.rollup
    BY <2>4, <2>5, <2>6, <2>7 DEF In
  <2>8. CASE c \in DOMAIN out.rollup
    <3> HIDE DEF r, scope
    <3>1. SummedUp(Rollup(r)[c], scope, Specs, c)
      BY <2>4, <2>5, <2>6, <2>8, RollupSumsUp
    <3>2. /\ out.rollup[c].specs = Cardinality(In(Specs, c))
          /\ out.rollup[c].listed = Listed(ids)
          /\ out.rollup[c].more = Cardinality(ids) - Cardinality(Listed(ids))
          /\ IsFiniteSet(ids) /\ Cardinality(ids) = Cardinality(GapsIn(Specs, c))
      BY <2>2, <3>1 DEF SummedUp
    <3> HIDE DEF ids
    <3>3. /\ Listed(ids) \in SUBSET ids
          /\ Cardinality(ids) \in Nat /\ Cardinality(Listed(ids)) \in Nat
          /\ Cardinality(Listed(ids)) # Cardinality(ids) => Cardinality(Listed(ids)) = MaxListed
      BY <3>2, ListIsCut
    <3>4. out.rollup[c].listed \subseteq IdsOn(AskedScope, GapsIn(Specs, c))
      BY <2>2, <3>2, <3>3 DEF ids
    <3>5. /\ Cardinality(out.rollup[c].listed) + out.rollup[c].more = Cardinality(GapsIn(Specs, c))
          /\ out.rollup[c].more > 0 => Cardinality(out.rollup[c].listed) = MaxListed
      BY <3>2, <3>3
    <3> QED
      BY <2>8, <3>2, <3>4, <3>5
  <2> QED
    BY <2>7, <2>8
<1> QED
  BY <1>1, InvHolds, PTL

-----------------------------------------------------------------------------
(* When the answer is the whole scope                                      *)

(* Nothing hides which spec a row stands for: no feature is asked for, it  *)
(* is not asked for on a branch that has copies, or each row names the spec*)
(* that it copies.                                                         *)
CopiesAreTold ==
  \/ ask.feature = None
  \/ AskedScope # "branch"
  \/ copied = {}
  \/ answer.view = "summary"

(* No row of the feature lies deeper below it than the tool climbs.        *)
WithinReach ==
  ask.feature # None =>
    \A s \in Wanted(ask) : Cardinality(Lineage(s) \cap Wanted(ask)) <= MaxDepth

(* An answer about one spec or one component, with the tests or without, is*)
(* just what was asked for.                                                *)
ScopeIsExact ==
  Told({"summary", "detail"}) /\ ask.form # "otherCase" /\ CopiesAreTold /\ WithinReach =>
    out.rows = Due

(* Whatever the server ignores, the rows of an answer are exactly those of *)
(* the spec with its descendants, or of the component, in the scope asked  *)
(* for, unless copies of a branch come in a matrix: only they make what the*)
(* description of include_tests says (DetailIsTheScope) untrue.            *)
THEOREM AnswersAreExact == Spec => []ScopeIsExact
<1>1. Inv => ScopeIsExact
  <2> SUFFICES ASSUME Inv, Told({"summary", "detail"}), ask.form # "otherCase", CopiesAreTold,
                      WithinReach
               PROVE  out.rows = Due
    BY DEF ScopeIsExact
  <2> DEFINE r == Answered(ask)
             f == Filtered(r, ask)
             scope == ScopeFor(ask)
  <2>1. Told({"rollup", "summary", "detail"}) /\ out.kind \in {"summary", "detail"}
    BY DEF Told
  <2>2. /\ ask \in Asks /\ ask # None /\ answer = r
        /\ out.kind = IF ask.tests THEN "detail" ELSE IF Scoped(ask) THEN "summary" ELSE "rollup"
        /\ out.rows = f.rows /\ AskedScope = scope
    BY <2>1, ToldIsResult
  <2>3. /\ Wanted(ask) \in SUBSET Specs /\ Wanted(ask) \subseteq Sent(ask)
        /\ Sent(ask) \in SUBSET Specs /\ r.rows = IdsOn(scope, Sent(ask))
        /\ f.rows \subseteq Due /\ Due = IdsOn(scope, Wanted(ask))
    BY <2>2, AnswerTypes, NothingMore DEF Inv, Due
  <2>4. \A row \in Due : SpecOf(row) \in Wanted(ask) /\ row = IdOn(scope, SpecOf(row))
    BY <2>3, Rows
  <2>5. CASE ask.feature # None
    <3>1. ask.feature \in IdsOn(scope, Specs) \cup ({"main"} \X Specs)
      BY <2>2, <2>5 DEF Inv, AskInv
    <3>2. ASSUME NEW d \in Wanted(ask)
          PROVE  IdOn(scope, d) \in f.rows
      <4>1. Wanted(ask) = Subtree(SpecOf(ask.feature))
        BY <2>5 DEF Wanted
      <4>2. Way(d, SpecOf(ask.feature)) = Lineage(d) \cap Wanted(ask)
        BY <4>1 DEF Way
      <4>3. Cardinality(Way(d, SpecOf(ask.feature))) <= MaxDepth
        BY <2>5, <4>2 DEF WithinReach
      <4>4. Cardinality(Way(d, SpecOf(ask.feature))) \in Nat /\ MaxDepth \in Nat
        BY <2>3, <4>2, WayIsFinite, TraceabilityAssumption DEF Inv
      <4>5. ~(Cardinality(Way(d, SpecOf(ask.feature))) > MaxDepth)
        BY <4>3, <4>4
      <4>6. \/ r.view # "matrix"
            \/ scope # "branch"
            \/ \A x \in Way(d, SpecOf(ask.feature)) : x \notin copied
        BY <2>2, <2>5 DEF CopiesAreTold
      <4> QED
        BY <2>2, <2>5, <3>1, <4>5, <4>6, NothingLess DEF Inv
    <3> QED
      BY <2>2, <2>3, <2>4, <3>2
  <2>6. CASE ask.feature = None /\ ask.component # None
    <3>1. f = FilterToComponent(r, ask) /\ Wanted(ask) = {s \in Specs : component[s] = ask.component}
      BY <2>6 DEF Filtered, Wanted
    <3>2. \A s \in Wanted(ask) : component[s] \in r.components
      BY <2>3, <3>1 DEF Answered, Inv, WorldInv
    <3>3. f.rows = {row \in r.rows : component[SpecOf(row)] \in r.components \cap {ask.component}}
      BY <3>1 DEF FilterToComponent
    <3> HIDE DEF r, f, scope
    <3>4. Due \subseteq r.rows
      BY <2>3 DEF IdsOn
    <3>5. \A row \in Due : row \in f.rows
      BY <2>4, <3>1, <3>2, <3>3, <3>4
    <3> QED
      BY <2>2, <2>3, <3>5
  <2>7. CASE ask.feature = None /\ ask.component = None
    <3>1. Wanted(ask) = Specs /\ f = [rows |-> r.rows, components |-> r.components]
      BY <2>7 DEF Wanted, Filtered
    <3>2. Sent(ask) = Wanted(ask)
      BY <2>3, <3>1
    <3> QED
      BY <2>2, <2>3, <3>1, <3>2
  <2> QED
    BY <2>5, <2>6, <2>7
<1> QED
  BY <1>1, InvHolds, PTL
=============================================================================
