---------------------------- MODULE PagingProofs ----------------------------
(***************************************************************************)
(* Proofs about Paging, for lists of any length, any page sizes, any       *)
(* number of pages and of changes, and every quirk of a server.            *)
(***************************************************************************)
EXTENDS Paging, FiniteSetTheorems, SequenceTheorems, TLAPS

-----------------------------------------------------------------------------
(* Lists                                                                   *)

(* The rows before a place in a list, and those after it.                  *)
Before(l, p) == {l[i] : i \in {j \in 1..Len(l) : j <= p}}
After(l, p) == {l[i] : i \in {j \in 1..Len(l) : j > p}}

Distinct(l) == \A i, j \in 1..Len(l) : l[i] = l[j] => i = j

LEMMA RowsAreFinite ==
  ASSUME NEW l \in Seq(Nat)
  PROVE  /\ IsFiniteSet(RowsOf(l)) /\ Cardinality(RowsOf(l)) \in Nat
         /\ Cardinality(RowsOf(l)) <= Len(l)
         /\ Cardinality(RowsOf(l)) = Len(l) <=> Distinct(l)
<1>1. Len(l) \in Nat /\ l \in [1..Len(l) -> RowsOf(l)]
  BY DEF RowsOf
<1>2. l \in Surjection(1..Len(l), RowsOf(l))
  BY <1>1 DEF Surjection, RowsOf
<1>3. l \in Injection(1..Len(l), RowsOf(l)) <=> Distinct(l)
  BY <1>1 DEF Injection, IsInjective, Distinct
<1>4. IsFiniteSet(1..Len(l)) /\ Cardinality(1..Len(l)) = Len(l)
  BY <1>1, FS_Interval
<1>5. /\ IsFiniteSet(RowsOf(l)) /\ Cardinality(RowsOf(l)) <= Len(l)
      /\ Cardinality(RowsOf(l)) = Len(l) <=> l \in Injection(1..Len(l), RowsOf(l))
  BY <1>2, <1>4, FS_Surjection
<1> QED
  BY <1>3, <1>5, FS_CardinalityType

LEMMA PartsAreFinite ==
  ASSUME NEW l \in Seq(Nat), NEW p \in Nat, NEW S
  PROVE  /\ IsFiniteSet(Before(l, p) \cap S) /\ Cardinality(Before(l, p) \cap S) \in Nat
         /\ IsFiniteSet(After(l, p) \cap S) /\ Cardinality(After(l, p) \cap S) \in Nat
<1>1. Before(l, p) \cap S \in SUBSET RowsOf(l) /\ After(l, p) \cap S \in SUBSET RowsOf(l)
  BY DEF Before, After, RowsOf
<1> QED
  BY <1>1, RowsAreFinite, FS_Subset, FS_CardinalityType

LEMMA InsertedList ==
  ASSUME NEW l \in Seq(Nat), NEW i \in 1..(Len(l) + 1), NEW x \in Nat
  PROVE  LET m == InsertAt(l, i, x) IN
         /\ m \in Seq(Nat) /\ Len(m) = Len(l) + 1
         /\ \A j \in 1..Len(m) : m[j] = IF j < i THEN l[j] ELSE IF j = i THEN x ELSE l[j - 1]
<1> DEFINE head == SubSeq(l, 1, i - 1)
           tail == SubSeq(l, i, Len(l))
<1>1. Len(l) \in Nat /\ \A j \in 1..Len(l) : l[j] \in Nat
  OBVIOUS
<1>2. head \in Seq(Nat) /\ Len(head) = i - 1 /\ \A j \in 1..(i - 1) : head[j] = l[j]
  BY <1>1, SubSeqProperties
<1>3. tail \in Seq(Nat) /\ Len(tail) = Len(l) - i + 1
      /\ \A j \in 1..(Len(l) - i + 1) : tail[j] = l[i + j - 1]
  BY <1>1, SubSeqProperties
<1> HIDE DEF head, tail
<1>4. <<x>> \in Seq(Nat) /\ Len(<<x>>) = 1 /\ <<x>>[1] = x
  OBVIOUS
<1> DEFINE h == head \o <<x>>
<1>5. /\ h \in Seq(Nat) /\ Len(h) = i
      /\ \A j \in 1..i : h[j] = IF j <= i - 1 THEN head[j] ELSE <<x>>[j - (i - 1)]
  BY <1>2, <1>4, ConcatProperties
<1> HIDE DEF h
<1> DEFINE m == h \o tail
<1>6. /\ m \in Seq(Nat) /\ Len(m) = Len(l) + 1
      /\ \A j \in 1..(Len(l) + 1) : m[j] = IF j <= i THEN h[j] ELSE tail[j - i]
  <2>1. /\ m \in Seq(Nat) /\ Len(m) = Len(h) + Len(tail)
        /\ \A j \in 1..(Len(h) + Len(tail)) : m[j] = IF j <= Len(h) THEN h[j] ELSE tail[j - Len(h)]
    BY <1>3, <1>5, ConcatProperties
  <2>2. Len(h) = i /\ Len(tail) = Len(l) - i + 1 /\ Len(h) + Len(tail) = Len(l) + 1
    BY <1>1, <1>3, <1>5
  <2> HIDE DEF m
  <2> QED
    BY <2>1, <2>2
<1> HIDE DEF m
<1>7. ASSUME NEW j \in 1..Len(m)
      PROVE  m[j] = IF j < i THEN l[j] ELSE IF j = i THEN x ELSE l[j - 1]
  <2>1. CASE j < i
    <3>1. j \in 1..i /\ j \in 1..(i - 1) /\ j \in 1..(Len(l) + 1) /\ j <= i /\ j <= i - 1
      BY <1>1, <1>6, <2>1
    <3> QED
      BY <1>2, <1>5, <1>6, <2>1, <3>1
  <2>2. CASE j = i
    BY <1>4, <1>5, <1>6, <2>2
  <2>3. CASE j > i
    <3>1. j - i \in 1..(Len(l) - i + 1) /\ i + (j - i) - 1 = j - 1
      BY <1>1, <1>6, <2>3
    <3>2. m[j] = tail[j - i]
      BY <1>1, <1>6, <2>3, SMTT(40)
    <3>3. tail[j - i] = l[j - 1]
      BY <1>3, <3>1
    <3> QED
      BY <1>1, <2>3, <3>2, <3>3
  <2> QED
    BY <1>6, <2>1, <2>2, <2>3
<1> QED
  BY <1>6, <1>7 DEF m, h, head, tail, InsertAt

LEMMA DeletedList ==
  ASSUME NEW l \in Seq(Nat), NEW i \in 1..Len(l)
  PROVE  LET m == RemoveAt(l, i) IN
         /\ m \in Seq(Nat) /\ Len(m) = Len(l) - 1
         /\ \A j \in 1..Len(m) : m[j] = IF j < i THEN l[j] ELSE l[j + 1]
<1> DEFINE head == SubSeq(l, 1, i - 1)
           tail == SubSeq(l, i + 1, Len(l))
<1>1. Len(l) \in Nat /\ \A j \in 1..Len(l) : l[j] \in Nat
  OBVIOUS
<1>2. head \in Seq(Nat) /\ Len(head) = i - 1 /\ \A j \in 1..(i - 1) : head[j] = l[j]
  BY <1>1, SubSeqProperties
<1>3. tail \in Seq(Nat) /\ Len(tail) = Len(l) - i
      /\ \A j \in 1..(Len(l) - i) : tail[j] = l[i + j]
  BY <1>1, SubSeqProperties
<1> HIDE DEF head, tail
<1> DEFINE m == head \o tail
<1>4. /\ m \in Seq(Nat) /\ Len(m) = Len(l) - 1
      /\ \A j \in 1..(Len(l) - 1) : m[j] = IF j <= i - 1 THEN head[j] ELSE tail[j - (i - 1)]
  <2>1. /\ m \in Seq(Nat) /\ Len(m) = Len(head) + Len(tail)
        /\ \A j \in 1..(Len(head) + Len(tail)) :
             m[j] = IF j <= Len(head) THEN head[j] ELSE tail[j - Len(head)]
    BY <1>2, <1>3, ConcatProperties
  <2>2. /\ Len(head) = i - 1 /\ Len(tail) = Len(l) - i
        /\ Len(head) + Len(tail) = Len(l) - 1
    BY <1>1, <1>2, <1>3
  <2> HIDE DEF m
  <2> QED
    BY <2>1, <2>2
<1> HIDE DEF m
<1>5. ASSUME NEW j \in 1..Len(m)
      PROVE  m[j] = IF j < i THEN l[j] ELSE l[j + 1]
  <2>1. CASE j < i
    BY <1>2, <1>4, <2>1
  <2>2. CASE j >= i
    <3>1. j - (i - 1) \in 1..(Len(l) - i) /\ i + (j - (i - 1)) = j + 1
      BY <1>1, <1>4, <2>2
    <3>2. m[j] = tail[j - (i - 1)]
      <4>1. j \in 1..(Len(l) - 1) /\ ~(j <= i - 1)
        BY <1>1, <1>4, <2>2
      <4> QED
        BY <1>4, <4>1, Zenon
    <3>3. tail[j - (i - 1)] = l[j + 1]
      BY <1>3, <3>1
    <3> QED
      BY <1>1, <2>2, <3>2, <3>3
  <2> QED
    BY <1>4, <2>1, <2>2
<1> QED
  BY <1>4, <1>5 DEF m, head, tail, RemoveAt

LEMMA Larger ==
  ASSUME NEW S, IsFiniteSet(S), NEW y, NEW T, T \subseteq S \cup {y}
  PROVE  /\ IsFiniteSet(T) /\ Cardinality(T) \in Nat /\ Cardinality(S) \in Nat
         /\ Cardinality(T) <= Cardinality(S) + 1
         /\ T \subseteq S => Cardinality(T) <= Cardinality(S)
<1>1. /\ IsFiniteSet(S \cup {y})
      /\ Cardinality(S \cup {y}) = IF y \in S THEN Cardinality(S) ELSE Cardinality(S) + 1
  BY FS_AddElement
<1>2. Cardinality(S) \in Nat /\ Cardinality(S \cup {y}) \in Nat
  BY <1>1, FS_CardinalityType
<1>3. IsFiniteSet(T) /\ Cardinality(T) <= Cardinality(S \cup {y})
  BY <1>1, FS_Subset
<1>4. Cardinality(T) \in Nat
  BY <1>3, FS_CardinalityType
<1>5. T \subseteq S => Cardinality(T) <= Cardinality(S)
  BY FS_Subset
<1>6. Cardinality(T) <= Cardinality(S) + 1
  BY <1>1, <1>2, <1>3, <1>4
<1> QED
  BY <1>2, <1>3, <1>4, <1>5, <1>6

(* The bookkeeping of a reader at a place: rows it has passed without      *)
(* getting them, and rows it has got and will meet again, have a change to *)
(* the list before the place to explain them.                              *)
Counted(l, p, t, g, m) ==
  /\ Cardinality(Before(l, p) \cap (t \ g)) <= m.up
  /\ Cardinality(After(l, p) \cap g) + m.again <= m.down

Moves == [up : Nat, down : Nat, again : Nat]

LEMMA CountedAfterInsert ==
  ASSUME NEW l \in Seq(Nat), NEW i \in 1..(Len(l) + 1), NEW x \in Nat, NEW p \in Nat,
         NEW t, NEW g, x \notin t, x \notin g, NEW m \in Moves, Counted(l, p, t, g, m)
  PROVE  Counted(InsertAt(l, i, x), p, t, g, [m EXCEPT !.down = IF i <= p THEN @ + 1 ELSE @])
<1> DEFINE n == InsertAt(l, i, x)
           missed == Before(l, p) \cap (t \ g)
           again == After(l, p) \cap g
           missed1 == Before(n, p) \cap (t \ g)
           again1 == After(n, p) \cap g
<1>1. /\ n \in Seq(Nat) /\ Len(n) = Len(l) + 1 /\ Len(l) \in Nat
      /\ \A j \in 1..Len(n) : n[j] = IF j < i THEN l[j] ELSE IF j = i THEN x ELSE l[j - 1]
  <2>1. Len(l) \in Nat
    OBVIOUS
  <2>2. /\ n \in Seq(Nat) /\ Len(n) = Len(l) + 1
        /\ \A j \in 1..Len(n) : n[j] = IF j < i THEN l[j] ELSE IF j = i THEN x ELSE l[j - 1]
    BY InsertedList
  <2> QED
    BY <2>1, <2>2
<1> HIDE DEF n
<1>2. Before(n, p) \subseteq Before(l, p) \cup {x}
  <2> SUFFICES ASSUME NEW j \in 1..Len(n), j <= p, n[j] # x
               PROVE  n[j] \in Before(l, p)
    BY DEF Before
  <2>1. \E k \in 1..Len(l) : k <= p /\ n[j] = l[k]
    <3>1. CASE j < i
      BY <1>1, <3>1
    <3>2. CASE j > i
      <4>1. j - 1 \in 1..Len(l) /\ j - 1 <= p /\ n[j] = l[j - 1]
        BY <1>1, <3>2
      <4> QED
        BY <4>1
    <3> QED
      BY <1>1, <3>1, <3>2
  <2> QED
    BY <2>1 DEF Before
<1>3. missed1 \subseteq missed
  BY <1>2
<1>4. Cardinality(missed1) <= Cardinality(missed)
  BY <1>3, PartsAreFinite, FS_Subset
<1>5. IsFiniteSet(again) /\ Cardinality(again) \in Nat
  BY PartsAreFinite
<1>6. CASE i <= p
  <2>1. After(n, p) \subseteq After(l, p) \cup {l[p]}
    <3> SUFFICES ASSUME NEW j \in 1..Len(n), j > p
                 PROVE  n[j] \in After(l, p) \cup {l[p]}
      BY DEF After
    <3>0. CASE j = p + 1
      <4>1. j > i /\ j - 1 = p
        BY <1>1, <1>6, <3>0
      <4>2. n[j] = l[j - 1]
        BY <1>1, <4>1, SMTT(40)
      <4> QED
        BY <4>1, <4>2
    <3> SUFFICES ASSUME j # p + 1
                 PROVE  n[j] \in After(l, p)
      BY <3>0
    <3>1. j - 1 \in 1..Len(l) /\ j - 1 > p /\ n[j] = l[j - 1]
      BY <1>1, <1>6
    <3> QED
      BY <3>1 DEF After
  <2>2. again1 \subseteq again \cup {l[p]}
    BY <2>1
  <2>3. Cardinality(again1) <= Cardinality(again) + 1 /\ Cardinality(again1) \in Nat
    BY <1>5, <2>2, Larger
  <2> HIDE DEF again, again1, missed, missed1
  <2>4. Cardinality(missed) <= m.up /\ Cardinality(again) + m.again <= m.down
    BY DEF Counted, missed, again
  <2>5. /\ Cardinality(missed1) <= m.up
        /\ Cardinality(again1) + m.again <= m.down + 1
    <3>1. m.up \in Nat /\ m.down \in Nat /\ m.again \in Nat
      BY DEF Moves
    <3>2. Cardinality(missed) \in Nat /\ Cardinality(missed1) \in Nat
      BY <1>1, PartsAreFinite DEF missed, missed1
    <3>3. Cardinality(missed1) <= m.up
      BY <1>4, <2>4, <3>1, <3>2
    <3>4. Cardinality(again1) + m.again <= m.down + 1
      BY <1>5, <2>3, <2>4, <3>1, SMTT(40)
    <3> QED
      BY <3>3, <3>4
  <2> QED
    BY <1>6, <2>5 DEF Counted, Moves, n, missed1, again1
<1>7. CASE ~(i <= p)
  <2>1. After(n, p) \subseteq After(l, p) \cup {x}
    <3> SUFFICES ASSUME NEW j \in 1..Len(n), j > p, n[j] # x
                 PROVE  n[j] \in After(l, p)
      BY DEF After
    <3>1. CASE j < i
      <4>1. j \in 1..Len(l) /\ n[j] = l[j]
        BY <1>1, <3>1
      <4> QED
        BY <4>1 DEF After
    <3>2. CASE j > i
      <4>1. j - 1 \in 1..Len(l) /\ j - 1 > p /\ n[j] = l[j - 1]
        BY <1>1, <1>7, <3>2
      <4> QED
        BY <4>1 DEF After
    <3> QED
      BY <1>1, <3>1, <3>2
  <2>2. again1 \subseteq again
    BY <2>1
  <2>3. Cardinality(again1) <= Cardinality(again) /\ Cardinality(again1) \in Nat
    BY <1>1, <1>5, <2>2, FS_Subset, PartsAreFinite
  <2> HIDE DEF again, again1, missed, missed1
  <2>4. Cardinality(missed) <= m.up /\ Cardinality(again) + m.again <= m.down
    BY DEF Counted, missed, again
  <2>5. /\ Cardinality(missed1) <= m.up
        /\ Cardinality(again1) + m.again <= m.down
    <3>1. m.up \in Nat /\ m.down \in Nat /\ m.again \in Nat
      BY DEF Moves
    <3>2. Cardinality(missed) \in Nat /\ Cardinality(missed1) \in Nat
      BY <1>1, PartsAreFinite DEF missed, missed1
    <3> QED
      BY <1>4, <1>5, <2>3, <2>4, <3>1, <3>2, SMTT(40)
  <2> QED
    BY <1>7, <2>5 DEF Counted, Moves, n, missed1, again1
<1> QED
  BY <1>6, <1>7

LEMMA CountedAfterDelete ==
  ASSUME NEW l \in Seq(Nat), NEW i \in 1..Len(l), NEW p \in Nat, NEW t, NEW g,
         NEW m \in Moves, Counted(l, p, t, g, m)
  PROVE  Counted(RemoveAt(l, i), p, t \ {l[i]}, g,
                 [m EXCEPT !.up = IF i <= p THEN @ + 1 ELSE @])
<1> DEFINE n == RemoveAt(l, i)
           missed == Before(l, p) \cap (t \ g)
           again == After(l, p) \cap g
           missed1 == Before(n, p) \cap ((t \ {l[i]}) \ g)
           again1 == After(n, p) \cap g
<1>1. /\ n \in Seq(Nat) /\ Len(n) = Len(l) - 1 /\ Len(l) \in Nat
      /\ \A j \in 1..Len(n) : n[j] = IF j < i THEN l[j] ELSE l[j + 1]
  <2>1. Len(l) \in Nat
    OBVIOUS
  <2>2. /\ n \in Seq(Nat) /\ Len(n) = Len(l) - 1
        /\ \A j \in 1..Len(n) : n[j] = IF j < i THEN l[j] ELSE l[j + 1]
    BY DeletedList
  <2> QED
    BY <2>1, <2>2
<1> HIDE DEF n
<1>2. After(n, p) \subseteq After(l, p)
  <2> SUFFICES ASSUME NEW j \in 1..Len(n), j > p
               PROVE  n[j] \in After(l, p)
    BY DEF After
  <2>1. CASE j < i
    <3>1. j \in 1..Len(l) /\ n[j] = l[j]
      BY <1>1, <2>1
    <3> QED
      BY <3>1 DEF After
  <2>2. CASE ~(j < i)
    <3>1. j + 1 \in 1..Len(l) /\ j + 1 > p /\ n[j] = l[j + 1]
      BY <1>1, <2>2
    <3> QED
      BY <3>1 DEF After
  <2> QED
    BY <2>1, <2>2
<1>3. again1 \subseteq again
  BY <1>2
<1>4. /\ Cardinality(again1) <= Cardinality(again)
      /\ Cardinality(again1) \in Nat /\ Cardinality(again) \in Nat
  BY <1>1, <1>3, PartsAreFinite, FS_Subset
<1>5. IsFiniteSet(missed) /\ Cardinality(missed) \in Nat /\ Cardinality(missed1) \in Nat
  BY <1>1, PartsAreFinite
<1>6. m.up \in Nat /\ m.down \in Nat /\ m.again \in Nat
  BY DEF Moves
<1>7. Cardinality(missed) <= m.up /\ Cardinality(again) + m.again <= m.down
  BY DEF Counted
<1>8. CASE i <= p
  <2>1. Before(n, p) \subseteq Before(l, p) \cup {l[p + 1]}
    <3> SUFFICES ASSUME NEW j \in 1..Len(n), j <= p
                 PROVE  n[j] \in Before(l, p) \cup {l[p + 1]}
      BY DEF Before
    <3>1. CASE j < i
      <4>0. n[j] = l[j]
        BY <1>1, <3>1
      <4>1. j \in 1..Len(l)
        BY <1>1
      <4> QED
        BY <4>0, <4>1 DEF Before
    <3>2. CASE ~(j < i)
      <4>1. j + 1 \in 1..Len(l) /\ n[j] = l[j + 1]
        BY <1>1, <3>2
      <4>2. j + 1 <= p \/ j + 1 = p + 1
        BY <1>1
      <4>3. CASE j + 1 <= p
        BY <4>1, <4>3 DEF Before
      <4>4. CASE j + 1 = p + 1
        BY <4>1, <4>4
      <4> QED
        BY <4>2, <4>3, <4>4
    <3> QED
      BY <3>1, <3>2
  <2>2. missed1 \subseteq missed \cup {l[p + 1]}
    BY <2>1
  <2>3. Cardinality(missed1) <= Cardinality(missed) + 1
    BY <1>5, <2>2, Larger
  <2> HIDE DEF missed, missed1, again, again1
  <2>4. Cardinality(missed1) <= m.up + 1
    BY <1>5, <1>6, <1>7, <2>3
  <2>5. Cardinality(again1) + m.again <= m.down
    BY <1>4, <1>6, <1>7
  <2> QED
    BY <1>8, <2>4, <2>5 DEF Counted, Moves, n, missed1, again1
<1>9. CASE ~(i <= p)
  <2>1. Before(n, p) \subseteq Before(l, p)
    <3> SUFFICES ASSUME NEW j \in 1..Len(n), j <= p
                 PROVE  n[j] \in Before(l, p)
      BY DEF Before
    <3>1. j \in 1..Len(l) /\ n[j] = l[j]
      BY <1>1, <1>9
    <3> QED
      BY <3>1 DEF Before
  <2>2. missed1 \subseteq missed
    BY <2>1
  <2>3. Cardinality(missed1) <= Cardinality(missed)
    BY <1>5, <2>2, FS_Subset
  <2> HIDE DEF missed, missed1, again, again1
  <2>4. Cardinality(missed1) <= m.up
    BY <1>5, <1>6, <1>7, <2>3
  <2>5. Cardinality(again1) + m.again <= m.down
    BY <1>4, <1>6, <1>7
  <2> QED
    BY <1>9, <2>4, <2>5 DEF Counted, Moves, n, missed1, again1
<1> QED
  BY <1>8, <1>9

(* The rows of a page are those after the place, as many as fit.           *)
LEMMA PageRows ==
  ASSUME NEW l \in Seq(Nat), NEW p \in Nat, NEW n \in Nat \ {0}
  PROVE  LET s == SubSeq(l, p + 1, Lesser(p + n, Len(l))) IN
         /\ s \in Seq(Nat) /\ Len(s) <= n
         /\ RowsOf(s) \subseteq RowsOf(l)
         /\ RowsOf(s) \subseteq After(l, p)
         /\ Before(l, p + n) = Before(l, p) \cup RowsOf(s)
         /\ After(l, p + n) \subseteq After(l, p)
         /\ Distinct(l) => Distinct(s) /\ RowsOf(s) \cap After(l, p + n) = {}
         /\ p + n >= Len(l) => Before(l, p + n) = RowsOf(l)
         /\ s = <<>> => p >= Len(l)
<1> DEFINE e == Lesser(p + n, Len(l))
           s == SubSeq(l, p + 1, e)
<1>1. Len(l) \in Nat /\ e \in Nat /\ e <= Len(l) /\ e <= p + n /\ (e = p + n \/ e = Len(l))
  BY DEF Lesser
<1>2. \A j \in (p + 1)..e : l[j] \in Nat
  BY <1>1
<1>3. /\ s \in Seq(Nat) /\ Len(s) = IF p + 1 <= e THEN e - p ELSE 0
      /\ \A j \in 1..(e - p) : s[j] = l[p + j]
  <2>1. p + 1 \in Int /\ e \in Int
    BY <1>1
  <2> HIDE DEF e
  <2>2. /\ s \in Seq(Nat) /\ Len(s) = IF p + 1 <= e THEN e - (p + 1) + 1 ELSE 0
        /\ \A j \in 1..(e - (p + 1) + 1) : s[j] = l[(p + 1) + j - 1]
    BY <1>2, <2>1, SubSeqProperties
  <2> HIDE DEF s
  <2> QED
    BY <1>1, <2>2
<1> HIDE DEF e, s
<1>4. RowsOf(s) = {l[j] : j \in (p + 1)..e}
  <2>1. ASSUME NEW j \in 1..Len(s)
        PROVE  s[j] = l[p + j] /\ p + j \in (p + 1)..e
    BY <1>1, <1>3
  <2>2. ASSUME NEW j \in (p + 1)..e
        PROVE  j - p \in 1..Len(s) /\ s[j - p] = l[j]
    <3>1. j - p \in 1..(e - p) /\ p + (j - p) = j /\ Len(s) = e - p
      BY <1>1, <1>3
    <3> QED
      BY <1>3, <3>1
  <2> QED
    BY <2>1, <2>2, SMTT(40) DEF RowsOf
<1>5. Len(s) <= n
  BY <1>1, <1>3
<1>6. RowsOf(s) \subseteq RowsOf(l) /\ RowsOf(s) \subseteq After(l, p)
  <2>1. \A j \in (p + 1)..e : j \in 1..Len(l) /\ j > p
    BY <1>1
  <2> QED
    BY <1>4, <2>1 DEF RowsOf, After
<1>7. Before(l, p + n) = Before(l, p) \cup RowsOf(s)
  <2>1. \A j \in 1..Len(l) : j <= p + n <=> j <= p \/ j \in (p + 1)..e
    BY <1>1
  <2>2. \A j \in (p + 1)..e : j \in 1..Len(l)
    BY <1>1
  <2> QED
    BY <1>4, <2>1, <2>2 DEF Before
<1>8. After(l, p + n) \subseteq After(l, p)
  BY <1>1 DEF After
<1>9. ASSUME Distinct(l)
      PROVE  Distinct(s) /\ RowsOf(s) \cap After(l, p + n) = {}
  <2>1. ASSUME NEW i \in 1..Len(s), NEW j \in 1..Len(s), s[i] = s[j]
        PROVE  i = j
    <3>1. /\ p + i \in 1..Len(l) /\ p + j \in 1..Len(l)
          /\ s[i] = l[p + i] /\ s[j] = l[p + j]
      <4>1. /\ i \in 1..(e - p) /\ j \in 1..(e - p)
            /\ p + i \in 1..Len(l) /\ p + j \in 1..Len(l)
        BY <1>1, <1>3
      <4> QED
        BY <1>3, <4>1, Zenon
    <3>2. p + i = p + j
      BY <1>9, <2>1, <3>1, Zenon DEF Distinct
    <3> QED
      BY <1>1, <1>3, <3>2
  <2>2. ASSUME NEW j \in (p + 1)..e, NEW k \in 1..Len(l), k > p + n, l[j] = l[k]
        PROVE  FALSE
    <3>1. j \in 1..Len(l) /\ j < k
      BY <1>1, <2>2
    <3> QED
      BY <1>9, <2>2, <3>1 DEF Distinct
  <2> QED
    BY <1>4, <2>1, <2>2 DEF Distinct, After
<1>10. ASSUME p + n >= Len(l)
       PROVE  Before(l, p + n) = RowsOf(l)
  <2>1. \A j \in 1..Len(l) : j <= p + n
    BY <1>1, <1>10
  <2> QED
    BY <2>1 DEF Before, RowsOf
<1>11. ASSUME s = <<>>
       PROVE  p >= Len(l)
  <2>1. Len(s) = 0
    BY <1>11
  <2> QED
    BY <1>1, <1>3, <2>1
<1> QED
  BY <1>3, <1>5, <1>6, <1>7, <1>8, <1>9, <1>10, <1>11 DEF s, e

LEMMA CountedAfterPage ==
  ASSUME NEW l \in Seq(Nat), Distinct(l), NEW p \in Nat, NEW n \in Nat \ {0},
         NEW t \in SUBSET RowsOf(l), NEW g, NEW m \in Moves, Counted(l, p, t, g, m),
         NEW s, s = SubSeq(l, p + 1, Lesser(p + n, Len(l))),
         NEW m1, m1 = [m EXCEPT !.again =
                         Lesser(@ + (Len(s) - Cardinality(RowsOf(s) \ g)), MaxChanges + 1)]
  PROVE  /\ Counted(l, p + n, t, g \cup RowsOf(s), m1) /\ m1.again <= m1.down
         /\ p + n >= Len(l) \/ s = <<>> => Cardinality(t \ (g \cup RowsOf(s))) <= m1.up
<1> DEFINE R == RowsOf(s)
           missed == Before(l, p) \cap (t \ g)
           again == After(l, p) \cap g
           missed1 == Before(l, p + n) \cap (t \ (g \cup R))
           again1 == After(l, p + n) \cap (g \cup R)
           x == Len(s) - Cardinality(R \ g)
<1>1. /\ s \in Seq(Nat) /\ R \subseteq After(l, p)
      /\ Before(l, p + n) = Before(l, p) \cup R
      /\ After(l, p + n) \subseteq After(l, p)
      /\ Distinct(s) /\ R \cap After(l, p + n) = {}
      /\ p + n >= Len(l) => Before(l, p + n) = RowsOf(l)
      /\ s = <<>> => p >= Len(l)
  BY PageRows
<1>2. m.up \in Nat /\ m.down \in Nat /\ m.again \in Nat /\ MaxChanges + 1 \in Nat
  BY PagingAssumption DEF Moves
<1>3. Cardinality(missed) <= m.up /\ Cardinality(again) + m.again <= m.down
  BY DEF Counted
<1>4. /\ IsFiniteSet(missed) /\ Cardinality(missed) \in Nat
      /\ IsFiniteSet(again) /\ Cardinality(again) \in Nat
  BY PartsAreFinite
<1>5. Cardinality(missed1) <= m.up
  <2>1. missed1 \subseteq missed
    BY <1>1
  <2>2. Cardinality(missed1) <= Cardinality(missed)
    BY <1>4, <2>1, FS_Subset
  <2>3. IsFiniteSet(missed1)
    BY <1>4, <2>1, FS_Subset
  <2>4. Cardinality(missed1) \in Nat
    BY <2>3, FS_CardinalityType
  <2> QED
    BY <1>2, <1>3, <1>4, <2>2, <2>4
<1>6. x = Cardinality(R \cap g) /\ x \in Nat /\ IsFiniteSet(R \cap g)
  <2>1. IsFiniteSet(R) /\ Cardinality(R) = Len(s)
    BY <1>1, RowsAreFinite
  <2>2. Cardinality(R \ g) = Cardinality(R) - Cardinality(R \cap g)
    BY <2>1, FS_Difference
  <2>3. IsFiniteSet(R \cap g)
    BY <2>1, FS_Intersection
  <2>4. Cardinality(R \cap g) \in Nat /\ Cardinality(R) \in Nat
    BY <2>1, <2>3, FS_CardinalityType
  <2>5. x = Cardinality(R) - Cardinality(R \ g)
    BY <2>1
  <2> HIDE DEF R, x
  <2>6. x = Cardinality(R \cap g)
    BY <2>2, <2>4, <2>5
  <2> QED
    BY <2>3, <2>4, <2>6
<1>7. Cardinality(again1) \in Nat /\ Cardinality(again1) + x <= Cardinality(again)
  <2>1. again1 = After(l, p + n) \cap g /\ again1 \subseteq again /\ R \cap g \subseteq again
        /\ again1 \cap (R \cap g) = {} /\ again1 \cup (R \cap g) \subseteq again
    BY <1>1
  <2>2. IsFiniteSet(again1)
    BY <1>4, <2>1, FS_Subset
  <2>3. Cardinality(again1 \cup (R \cap g))
          = Cardinality(again1) + Cardinality(R \cap g) - Cardinality(again1 \cap (R \cap g))
    BY <1>6, <2>2, FS_Union
  <2>4. Cardinality(again1 \cap (R \cap g)) = 0
    BY <2>1, FS_EmptySet
  <2>5. Cardinality(again1 \cup (R \cap g)) <= Cardinality(again)
    BY <1>4, <2>1, FS_Subset
  <2>6. Cardinality(again1) \in Nat
    BY <2>2, FS_CardinalityType
  <2> HIDE DEF again, again1, R, x
  <2> QED
    BY <1>6, <2>3, <2>4, <2>5, <2>6
<1>8. m1.up = m.up /\ m1.down = m.down /\ m1.again \in Nat /\ m1.again <= m.again + x
  <2>1. m1.up = m.up /\ m1.down = m.down /\ m1.again = Lesser(m.again + x, MaxChanges + 1)
    BY DEF Moves
  <2>2. x \in Nat
    BY <1>6
  <2> HIDE DEF x
  <2> DEFINE y == m.again + x
  <2>3. y \in Nat
    BY <1>2, <2>2
  <2> HIDE DEF y
  <2>4. Lesser(y, MaxChanges + 1) \in Nat /\ Lesser(y, MaxChanges + 1) <= y
    BY <1>2, <2>3, SMTT(40) DEF Lesser
  <2> QED
    BY <2>1, <2>4 DEF y
<1>9. ASSUME p + n >= Len(l) \/ s = <<>>
      PROVE  Cardinality(t \ (g \cup R)) <= m1.up
  <2>1. p + n >= Len(l)
    <3>1. Len(l) \in Nat
      OBVIOUS
    <3> QED
      BY <1>1, <1>9, <3>1
  <2>2. missed1 = t \ (g \cup R)
    BY <1>1, <2>1
  <2> QED
    BY <1>5, <1>8, <2>2
<1> HIDE DEF again, missed, again1, missed1, x
<1>10. Cardinality(again1) + m1.again <= m1.down /\ m1.again <= m1.down
  <2> DEFINE ca == Cardinality(again)
             cb == Cardinality(again1)
  <2>1. /\ ca \in Nat /\ cb \in Nat /\ x \in Nat /\ ca + m.again <= m.down /\ cb + x <= ca
        /\ m1.again \in Nat /\ m1.again <= m.again + x /\ m1.down = m.down
    BY <1>3, <1>4, <1>6, <1>7, <1>8
  <2> HIDE DEF ca, cb
  <2>2. \A a, b, y, u, v, w \in Nat :
          a + u <= w /\ b + y <= a /\ v <= u + y => b + v <= w /\ v <= w
    OBVIOUS
  <2>3. cb + m1.again <= m.down /\ m1.again <= m.down
    BY <1>2, <2>1, <2>2
  <2> QED
    BY <2>1, <2>3 DEF cb
<1>11. Counted(l, p + n, t, g \cup R, m1)
  BY <1>5, <1>8, <1>10 DEF Counted, again1, missed1
<1> QED
  BY <1>9, <1>10, <1>11

-----------------------------------------------------------------------------
(* The invariant                                                           *)

Rows == 0..(FirstNew + changes - 1)

ListInv ==
  /\ list \in Seq(Nat) /\ Distinct(list) /\ RowsOf(list) \subseteq Rows
  /\ throughout \subseteq RowsOf(list) /\ throughout \subseteq 0..(FirstNew - 1)
  /\ got \subseteq Rows
  /\ changes \in 0..MaxChanges /\ quirk \in Quirks

Unmoved == [up |-> 0, down |-> 0, again |-> 0]

ReaderInv ==
  /\ reading \in Readings \cup {"none"}
  /\ size \in 0..MaxSize /\ (reading # "none" => size # 0)
  /\ token \in Nat /\ pages \in 0..MaxPages
  /\ reading \in Loops /\ end = "reading" => pages < MaxPages
  /\ end \in Ends
  /\ moved \in [up : 0..changes, down : 0..changes, again : 0..(MaxChanges + 1)]
  /\ steady \in BOOLEAN
  /\ reading = "none" => /\ token = None /\ pages = 0 /\ got = {} /\ moved = Unmoved
                         /\ end \in {"reading", "rejected"}

CountInv ==
  Trusted /\ steady =>
    /\ end \in {"reading", "incomplete"} => Counted(list, Place, throughout, got, moved)
    /\ end = "complete" => Cardinality(throughout \ got) <= moved.up
    /\ moved.again <= moved.down

Inv == ListInv /\ ReaderInv /\ CountInv

LEMMA Served ==
  ASSUME ReaderInv, reading # "none"
  PROVE  ServedSize(size) \in Nat \ {0} /\ Place \in Nat
<1>1. ServedSize(size) \in Nat \ {0}
  BY PagingAssumption DEF ServedSize, ReaderInv
<1> QED
  BY <1>1 DEF Place, ReaderInv

LEMMA InsertedRows ==
  ASSUME NEW l \in Seq(Nat), Distinct(l), NEW i \in 1..(Len(l) + 1), NEW x \in Nat,
         x \notin RowsOf(l)
  PROVE  LET m == InsertAt(l, i, x) IN
         m \in Seq(Nat) /\ Distinct(m) /\ RowsOf(m) \subseteq RowsOf(l) \cup {x}
         /\ RowsOf(l) \subseteq RowsOf(m)
<1> DEFINE m == InsertAt(l, i, x)
<1>1. Len(l) \in Nat
  OBVIOUS
<1>2. /\ m \in Seq(Nat) /\ Len(m) = Len(l) + 1
      /\ \A j \in 1..Len(m) : m[j] = IF j < i THEN l[j] ELSE IF j = i THEN x ELSE l[j - 1]
  BY InsertedList
<1> HIDE DEF m
<1>3. ASSUME NEW j \in 1..Len(m), j # i
      PROVE  /\ (IF j < i THEN j ELSE j - 1) \in 1..Len(l)
             /\ m[j] = l[IF j < i THEN j ELSE j - 1]
  BY <1>1, <1>2, <1>3, SMTT(40)
<1>4. m[i] = x
  BY <1>1, <1>2
<1>5. RowsOf(m) \subseteq RowsOf(l) \cup {x}
  BY <1>3, <1>4 DEF RowsOf
<1>6. ASSUME NEW j \in 1..Len(l)
      PROVE  l[j] \in RowsOf(m)
  <2>1. CASE j < i
    <3>1. j \in 1..Len(m) /\ m[j] = l[j]
      BY <1>1, <1>2, <2>1
    <3> QED
      BY <3>1 DEF RowsOf
  <2>2. CASE ~(j < i)
    <3>1. j + 1 \in 1..Len(m) /\ j + 1 > i /\ (j + 1) - 1 = j
      BY <1>1, <1>2, <2>2
    <3>2. m[j + 1] = l[(j + 1) - 1]
      BY <1>2, <3>1, SMTT(40)
    <3> QED
      BY <3>1, <3>2 DEF RowsOf
  <2> QED
    BY <2>1, <2>2
<1>7. ASSUME NEW j \in 1..Len(m), NEW k \in 1..Len(m), m[j] = m[k]
      PROVE  j = k
  <2>1. CASE j = i \/ k = i
    BY <1>3, <1>4, <1>7, <2>1, SMTT(40) DEF RowsOf
  <2>2. CASE j # i /\ k # i
    <3> DEFINE J == IF j < i THEN j ELSE j - 1
               K == IF k < i THEN k ELSE k - 1
    <3>1. J \in 1..Len(l) /\ K \in 1..Len(l) /\ m[j] = l[J] /\ m[k] = l[K]
      BY <1>3, <2>2
    <3> HIDE DEF J, K
    <3>2. J = K
      BY <1>7, <3>1 DEF Distinct
    <3> QED
      <4>1. j \in Int /\ k \in Int
        BY <1>2
      <4> QED
        BY <2>2, <3>2, <4>1 DEF J, K
  <2> QED
    BY <2>1, <2>2
<1> QED
  <2>1. Distinct(m) /\ RowsOf(l) \subseteq RowsOf(m)
    BY <1>6, <1>7 DEF Distinct, RowsOf
  <2> QED
    BY <1>2, <1>5, <2>1 DEF m

LEMMA DeletedRows ==
  ASSUME NEW l \in Seq(Nat), Distinct(l), NEW i \in 1..Len(l)
  PROVE  LET m == RemoveAt(l, i) IN
         m \in Seq(Nat) /\ Distinct(m) /\ RowsOf(m) \subseteq RowsOf(l)
         /\ RowsOf(l) \ {l[i]} \subseteq RowsOf(m)
<1> DEFINE m == RemoveAt(l, i)
<1>1. Len(l) \in Nat
  OBVIOUS
<1>2. /\ m \in Seq(Nat) /\ Len(m) = Len(l) - 1
      /\ \A j \in 1..Len(m) : m[j] = IF j < i THEN l[j] ELSE l[j + 1]
  BY DeletedList
<1> HIDE DEF m
<1>3. ASSUME NEW j \in 1..Len(m)
      PROVE  /\ (IF j < i THEN j ELSE j + 1) \in 1..Len(l)
             /\ m[j] = l[IF j < i THEN j ELSE j + 1]
  <2>1. j < i => j \in 1..Len(l)
    BY <1>1, <1>2
  <2>2. ~(j < i) => j + 1 \in 1..Len(l)
    BY <1>1, <1>2
  <2>3. m[j] = IF j < i THEN l[j] ELSE l[j + 1]
    BY <1>2
  <2> QED
    BY <2>1, <2>2, <2>3, Zenon
<1>4. RowsOf(m) \subseteq RowsOf(l)
  BY <1>3 DEF RowsOf
<1>5. ASSUME NEW j \in 1..Len(l), j # i
      PROVE  l[j] \in RowsOf(m)
  <2>1. CASE j < i
    <3>1. j \in 1..Len(m) /\ m[j] = l[j]
      <4>1. j \in 1..Len(m)
        BY <1>1, <1>2, <2>1
      <4> QED
        BY <1>2, <2>1, <4>1, Zenon
    <3> QED
      BY <3>1 DEF RowsOf
  <2>2. CASE ~(j < i)
    <3>1. j - 1 \in 1..Len(m) /\ m[j - 1] = l[j]
      BY <1>1, <1>2, <1>5, <2>2
    <3> QED
      BY <3>1 DEF RowsOf
  <2> QED
    BY <2>1, <2>2
<1>6. ASSUME NEW j \in 1..Len(m), NEW k \in 1..Len(m), m[j] = m[k]
      PROVE  j = k
  <2> DEFINE J == IF j < i THEN j ELSE j + 1
             K == IF k < i THEN k ELSE k + 1
  <2>1. J \in 1..Len(l) /\ K \in 1..Len(l) /\ m[j] = l[J] /\ m[k] = l[K]
    BY <1>3
  <2> HIDE DEF J, K
  <2>2. J = K
    BY <1>6, <2>1 DEF Distinct
  <2>3. i \in Int /\ j \in Int /\ k \in Int
    BY <1>1, <1>2
  <2> QED
    BY <2>2, <2>3 DEF J, K
<1> QED
  <2>1. Distinct(m)
    BY <1>6, Zenon DEF Distinct
  <2>2. RowsOf(l) \ {l[i]} \subseteq RowsOf(m)
    BY <1>5, Zenon DEF RowsOf
  <2> QED
    BY <1>2, <1>4, <2>1, <2>2 DEF m

-----------------------------------------------------------------------------
(* The steps                                                               *)

LEMMA PlaceStays ==
  ASSUME UNCHANGED quirk, UNCHANGED agent
  PROVE  Place' = Place /\ Trusted' = Trusted
  BY DEF agent, Place, ServedSize, Trusted

LEMMA InitInv == Init => Inv
<1> SUFFICES ASSUME Init
             PROVE  Inv
  OBVIOUS
<1>1. PICK s \in Servers : list = s.list /\ quirk = s.quirk
  BY DEF Init
<1>2. s \in [list : Seq(0..(FirstNew - 1)), quirk : Quirks] /\ FirstNew \in Nat
  BY PagingAssumption
<1>3. list \in Seq(0..(FirstNew - 1)) /\ quirk \in Quirks /\ Distinct(list)
  BY <1>1, <1>2, PagingAssumption DEF Distinct
<1>4. list \in Seq(Nat) /\ RowsOf(list) \subseteq 0..(FirstNew - 1)
  <2>1. 0..(FirstNew - 1) \subseteq Nat
    OBVIOUS
  <2> QED
    BY <1>3, <2>1, SeqMonotonic, ElementOfSeq DEF RowsOf
<1>5. Rows = 0..(FirstNew - 1) /\ throughout = RowsOf(list) /\ got = {} /\ MaxChanges \in Nat
      /\ changes = 0
  BY <1>2, PagingAssumption DEF Init, Rows
<1>6. ListInv
  BY <1>3, <1>4, <1>5 DEF ListInv
<1>7. ReaderInv
  BY PagingAssumption DEF Init, ReaderInv, Unmoved, None, Ends
<1>8. CountInv
  <2>1. ServedSize(size) \in Nat
    BY PagingAssumption DEF Init, ServedSize
  <2>2. Place = 0 /\ end = "reading" /\ moved = Unmoved
    BY <2>1 DEF Init, Place, None, Unmoved
  <2>3. Before(list, Place) \cap (throughout \ got) = {} /\ After(list, Place) \cap got = {}
    BY <1>4, <1>5, <2>2 DEF Before
  <2>4. Counted(list, Place, throughout, got, moved)
    BY <2>2, <2>3, FS_EmptySet DEF Counted, Unmoved
  <2> QED
    BY <2>2, <2>4 DEF CountInv, Unmoved
<1> QED
  BY <1>6, <1>7, <1>8 DEF Inv

LEMMA OthersInv == ASSUME Inv, Others PROVE Inv'
<1>1. reading # "none" /\ end = "reading" /\ changes < MaxChanges /\ changes' = changes + 1
      /\ UNCHANGED <<quirk, agent>>
  BY DEF Others, Insert, Delete, Change
<1>2. reading' = reading /\ size' = size /\ token' = token /\ pages' = pages /\ got' = got
      /\ end' = end /\ steady' = steady
  BY <1>1 DEF agent
<1>3. Place' = Place /\ Trusted' = Trusted /\ Place \in Nat
  BY <1>1, PlaceStays, Served DEF Inv
<1>4. list \in Seq(Nat) /\ Distinct(list) /\ changes \in Nat /\ FirstNew \in Nat /\ MaxChanges \in Nat
      /\ FirstNew + changes \in Nat /\ FirstNew + changes \notin Rows
  BY PagingAssumption DEF Inv, ListInv, Rows
<1>5. moved \in Moves /\ Rows \subseteq Rows'
  BY <1>1, <1>4 DEF Inv, ReaderInv, Moves, Rows
<1>6. changes' \in 0..MaxChanges
  BY <1>1, <1>4
<1>7. ASSUME NEW i \in 1..(Len(list) + 1), Insert(i)
      PROVE  Inv'
  <2> DEFINE x == FirstNew + changes
  <2>1. list' = InsertAt(list, i, x) /\ throughout' = throughout
        /\ moved' = [moved EXCEPT !.down = IF i <= Place THEN @ + 1 ELSE @]
    BY <1>7 DEF Insert
  <2>2. x \notin RowsOf(list) /\ x \notin throughout /\ x \notin got /\ x \in Nat
    BY <1>4 DEF Inv, ListInv
  <2>3. x \in Rows'
    BY <1>1, <1>4 DEF Rows
  <2>4. list' \in Seq(Nat) /\ Distinct(list') /\ RowsOf(list') \subseteq RowsOf(list) \cup {x}
        /\ RowsOf(list) \subseteq RowsOf(list')
    BY <1>4, <2>1, <2>2, InsertedRows
  <2>5. ListInv'
    BY <1>1, <1>2, <1>5, <1>6, <2>1, <2>3, <2>4 DEF Inv, ListInv, Distinct, RowsOf
  <2>6. ReaderInv'
    <3>1. moved' \in [up : 0..changes', down : 0..changes', again : 0..(MaxChanges + 1)]
      <4>1. moved \in [up : 0..changes, down : 0..changes, again : 0..(MaxChanges + 1)]
        BY DEF Inv, ReaderInv
      <4>2. moved.up \in 0..changes' /\ (IF i <= Place THEN moved.down + 1 ELSE moved.down) \in 0..changes'
        BY <1>1, <1>4, <4>1
      <4> QED
        BY <2>1, <4>1, <4>2
    <3> QED
      BY <1>1, <1>2, <3>1 DEF Inv, ReaderInv
  <2>7. Counted(list, Place, throughout, got, moved)
          => Counted(list', Place', throughout', got', moved')
    BY <1>2, <1>3, <1>4, <1>5, <2>1, <2>2, CountedAfterInsert
  <2>8. CountInv'
    BY <1>1, <1>2, <1>3, <1>5, <2>1, <2>7 DEF Inv, CountInv, Moves
  <2> QED
    BY <2>5, <2>6, <2>8 DEF Inv
<1>8. ASSUME NEW i \in 1..Len(list), Delete(i)
      PROVE  Inv'
  <2>1. list' = RemoveAt(list, i) /\ throughout' = throughout \ {list[i]}
        /\ moved' = [moved EXCEPT !.up = IF i <= Place THEN @ + 1 ELSE @]
    BY <1>8 DEF Delete
  <2>2. list' \in Seq(Nat) /\ Distinct(list') /\ RowsOf(list') \subseteq RowsOf(list)
        /\ RowsOf(list) \ {list[i]} \subseteq RowsOf(list')
    BY <1>4, <2>1, DeletedRows
  <2>3. ListInv'
    BY <1>1, <1>2, <1>5, <1>6, <2>1, <2>2 DEF Inv, ListInv, Distinct, RowsOf
  <2>4. ReaderInv'
    <3>1. moved' \in [up : 0..changes', down : 0..changes', again : 0..(MaxChanges + 1)]
      <4>1. moved \in [up : 0..changes, down : 0..changes, again : 0..(MaxChanges + 1)]
        BY DEF Inv, ReaderInv
      <4>2. moved.down \in 0..changes' /\ (IF i <= Place THEN moved.up + 1 ELSE moved.up) \in 0..changes'
        BY <1>1, <1>4, <4>1
      <4> QED
        BY <2>1, <4>1, <4>2
    <3> QED
      BY <1>1, <1>2, <3>1 DEF Inv, ReaderInv
  <2>5. Counted(list, Place, throughout, got, moved)
          => Counted(list', Place', throughout', got', moved')
    BY <1>2, <1>3, <1>4, <1>5, <2>1, CountedAfterDelete
  <2>6. CountInv'
    BY <1>1, <1>2, <1>3, <1>5, <2>1, <2>5 DEF Inv, CountInv, Moves
  <2> QED
    BY <2>3, <2>4, <2>6 DEF Inv
<1> QED
  BY <1>7, <1>8 DEF Others

LEMMA PageOfRows ==
  ASSUME ListInv, NEW k \in Nat, NEW n \in Nat \ {0}
  PROVE  /\ k * n \in Nat /\ (k + 1) * n = k * n + n
         /\ PageOf(k, n) = SubSeq(list, k * n + 1, Lesser(k * n + n, Len(list)))
         /\ PageOf(k, n) \in Seq(Nat) /\ RowsOf(PageOf(k, n)) \subseteq RowsOf(list)
         /\ Len(PageOf(k, n)) <= n
<1>1. k * n \in Nat /\ (k + 1) * n = k * n + n
  OBVIOUS
<1>2. PageOf(k, n) = SubSeq(list, k * n + 1, Lesser(k * n + n, Len(list)))
  BY <1>1 DEF PageOf
<1> DEFINE p == k * n
<1>3. p \in Nat /\ list \in Seq(Nat)
  BY <1>1 DEF ListInv
<1> HIDE DEF p
<1>4. LET s == SubSeq(list, p + 1, Lesser(p + n, Len(list))) IN
      s \in Seq(Nat) /\ Len(s) <= n /\ RowsOf(s) \subseteq RowsOf(list)
  BY <1>3, PageRows
<1> QED
  BY <1>1, <1>2, <1>4 DEF p

(* A page that begins with its first row twice.                            *)
LEMMA TwiceRows ==
  ASSUME NEW s \in Seq(Nat), s # <<>>, NEW n \in Nat \ {0}, Len(s) <= n
  PROVE  LET w == <<s[1]>> \o SubSeq(s, 1, Lesser(Len(s), n - 1)) IN
         w \in Seq(Nat) /\ RowsOf(w) \subseteq RowsOf(s) /\ (NoRowTwice(w) => w = s)
<1> DEFINE e == Lesser(Len(s), n - 1)
           t == SubSeq(s, 1, e)
           w == <<s[1]>> \o t
<1>1. Len(s) \in Nat \ {0} /\ s[1] \in Nat
  OBVIOUS
<1>2. e \in Nat /\ e <= Len(s) /\ (e = Len(s) \/ e = n - 1)
  BY <1>1 DEF Lesser
<1>3. t \in Seq(Nat) /\ Len(t) = e /\ \A j \in 1..e : t[j] = s[j]
  <2>1. \A j \in 1..e : s[j] \in Nat
    BY <1>2
  <2> HIDE DEF e
  <2>2. /\ t \in Seq(Nat) /\ Len(t) = (IF 1 <= e THEN e - 1 + 1 ELSE 0)
        /\ \A j \in 1..(e - 1 + 1) : t[j] = s[1 + j - 1]
    BY <1>2, <2>1, SubSeqProperties
  <2> HIDE DEF t
  <2> QED
    BY <1>2, <2>2
<1> HIDE DEF e, t
<1>4. <<s[1]>> \in Seq(Nat) /\ Len(<<s[1]>>) = 1 /\ <<s[1]>>[1] = s[1]
  BY <1>1
<1>5. /\ w \in Seq(Nat) /\ Len(w) = Len(<<s[1]>>) + Len(t)
      /\ \A j \in 1..(Len(<<s[1]>>) + Len(t)) :
           w[j] = IF j <= Len(<<s[1]>>) THEN <<s[1]>>[j] ELSE t[j - Len(<<s[1]>>)]
  BY <1>3, <1>4, ConcatProperties
<1> HIDE DEF w
<1>6. Len(w) = e + 1 /\ w[1] = s[1] /\ \A j \in 2..(e + 1) : w[j] = s[j - 1]
  <2>1. Len(w) = 1 + e /\ \A j \in 1..(1 + e) : w[j] = IF j <= 1 THEN s[1] ELSE t[j - 1]
    BY <1>3, <1>4, <1>5
  <2>2. \A j \in 2..(e + 1) : w[j] = t[j - 1] /\ j - 1 \in 1..e
    BY <1>2, <2>1
  <2> QED
    BY <1>2, <1>3, <2>1, <2>2
<1>7. RowsOf(w) \subseteq RowsOf(s)
  <2> SUFFICES ASSUME NEW j \in 1..Len(w)
               PROVE  \E i \in 1..Len(s) : w[j] = s[i]
    BY DEF RowsOf
  <2>1. CASE j = 1
    BY <1>1, <1>6, <2>1
  <2>2. CASE j # 1
    <3>1. j - 1 \in 1..Len(s) /\ j \in 2..(e + 1)
      BY <1>1, <1>2, <1>6, <2>2
    <3> QED
      BY <1>6, <3>1
  <2> QED
    BY <2>1, <2>2
<1>8. ASSUME NoRowTwice(w)
      PROVE  w = s
  <2>1. Distinct(w)
    BY <1>5, <1>8, RowsAreFinite DEF NoRowTwice
  <2>2. e = 0
    <3> SUFFICES ASSUME e # 0
                 PROVE  FALSE
      OBVIOUS
    <3>1. 2 \in 2..(e + 1) /\ 2 \in 1..Len(w) /\ 1 \in 1..Len(w)
      BY <1>2, <1>6
    <3>2. w[2] = s[1]
      BY <1>6, <3>1
    <3> QED
      BY <1>6, <2>1, <3>1, <3>2 DEF Distinct
  <2>3. Len(s) = 1 /\ Len(w) = 1
    <3>1. n = 1
      BY <1>1, <1>2, <2>2
    <3>2. Len(s) = 1
      <4>1. \A x \in Nat \ {0} : x <= 1 => x = 1
        OBVIOUS
      <4>2. Len(s) <= 1
        BY <3>1
      <4> QED
        BY <1>1, <4>1, <4>2
    <3>3. Len(w) = 1
      BY <1>6, <2>2
    <3> QED
      BY <3>2, <3>3
  <2>4. \A j \in 1..Len(w) : w[j] = s[j]
    <3>1. \A j \in 1..Len(w) : j = 1
      BY <2>3
    <3> QED
      BY <1>6, <3>1
  <2> QED
    BY <1>5, <2>3, <2>4, SeqEqual
<1> QED
  BY <1>5, <1>7, <1>8 DEF w, t, e

LEMMA AnswerTypes ==
  ASSUME ListInv, ReaderInv, reading # "none"
  PROVE  LET a == Answer(reading, size) IN
         a.rows \in Seq(Nat) /\ RowsOf(a.rows) \subseteq RowsOf(list) /\ a.next \in Nat
<1> DEFINE n == ServedSize(size)
           k == IF quirk = "ignoresToken" THEN 0 ELSE token
           rows == PageOf(k, n)
           a == Answer(reading, size)
<1>1. n \in Nat \ {0} /\ k \in Nat
  BY Served DEF ReaderInv
<1>2. rows \in Seq(Nat) /\ RowsOf(rows) \subseteq RowsOf(list) /\ Len(rows) <= n
  BY <1>1, PageOfRows
<1>3. /\ a.rows = IF quirk = "sendsTwice" /\ rows # <<>>
                  THEN <<rows[1]>> \o SubSeq(rows, 1, Lesser(Len(rows), n - 1)) ELSE rows
      /\ a.next \in {k + 1, None}
  BY DEF Answer
<1> HIDE DEF a, rows, n, k
<1>4. a.rows \in Seq(Nat) /\ RowsOf(a.rows) \subseteq RowsOf(rows)
  BY <1>1, <1>2, <1>3, TwiceRows
<1> QED
  BY <1>1, <1>2, <1>3, <1>4 DEF a, None

(* A reader that can trust its pages gets the rows after its place.        *)
LEMMA AnswerPage ==
  ASSUME ListInv, ReaderInv, reading # "none", Trusted,
         reading \in Checked => NoRowTwice(Answer(reading, size).rows)
  PROVE  LET a == Answer(reading, size)
             n == ServedSize(size)
         IN /\ a.rows = SubSeq(list, Place + 1, Lesser(Place + n, Len(list)))
            /\ (token + 1) * n = Place + n
            /\ a.next = None => Place + n >= Len(list)
            /\ a.next # None => a.next = token + 1
<1> DEFINE n == ServedSize(size)
           rows == PageOf(token, n)
           a == Answer(reading, size)
<1>1. n \in Nat \ {0} /\ token \in Nat /\ Place = token * n /\ quirk # "ignoresToken"
  BY Served DEF ReaderInv, Place, Trusted
<1>2. /\ rows \in Seq(Nat) /\ Len(rows) <= n /\ token * n \in Nat
      /\ (token + 1) * n = token * n + n
      /\ rows = SubSeq(list, token * n + 1, Lesser(token * n + n, Len(list)))
  BY <1>1, PageOfRows
<1>3. /\ a.rows = IF quirk = "sendsTwice" /\ rows # <<>>
                  THEN <<rows[1]>> \o SubSeq(rows, 1, Lesser(Len(rows), n - 1)) ELSE rows
      /\ a.next = IF (token + 1) * n < Len(list) \/ quirk = "endless" THEN token + 1 ELSE None
  BY <1>1 DEF Answer
<1>4. quirk = "sendsTwice" => NoRowTwice(a.rows)
  BY DEF Trusted
<1> HIDE DEF a, rows, n
<1>5. a.rows = rows
  BY <1>1, <1>2, <1>3, <1>4, TwiceRows
<1>6. Len(list) \in Nat
  BY DEF ListInv
<1>7. a.next = None => token * n + n >= Len(list)
  BY <1>1, <1>2, <1>3, <1>6 DEF None
<1> QED
  BY <1>1, <1>2, <1>3, <1>5, <1>7 DEF a, n

LEMMA BeginInv ==
  ASSUME Inv, NEW a \in Arguments, NEW n \in Sizes, Begin(a, n)
  PROVE  Inv'
<1>1. reading = "none" /\ end = "reading"
      /\ UNCHANGED <<list, quirk, token, pages, got, steady, throughout, moved, changes>>
  BY DEF Begin
<1>2. token = 0 /\ pages = 0 /\ got = {} /\ moved = Unmoved /\ list \in Seq(Nat)
  BY <1>1 DEF Inv, ReaderInv, ListInv, None
<1>3. ListInv'
  BY <1>1 DEF Inv, ListInv, Distinct, RowsOf, Rows
<1> DEFINE r == ReadingFor(a)
<1>4. CASE r = "rejected" \/ SizeFor(r, n) = None
  <2>1. end' = "rejected" /\ reading' = reading /\ size' = size
    BY <1>4 DEF Begin
  <2>2. ReaderInv'
    BY <1>1, <2>1 DEF Inv, ReaderInv, Unmoved, Ends
  <2>3. CountInv'
    BY <1>1, <1>2, <2>1 DEF CountInv, Unmoved
  <2> QED
    BY <1>3, <2>2, <2>3 DEF Inv
<1>5. CASE ~(r = "rejected" \/ SizeFor(r, n) = None)
  <2>1. reading' = r /\ size' = SizeFor(r, n) /\ end' = end
    BY <1>5 DEF Begin
  <2>2. r \in Readings
    <3>1. a.tool \in Tools
      BY PagingAssumption
    <3>2. ReadingFor(a) \in Readings \cup {"rejected"}
      BY <3>1 DEF ReadingFor, Tools, ListSpecs, ListTests, SpecsOrTests, RunResults,
                  Readings, Loops, Checked, Identities, Projections, Plain
    <3> QED
      BY <1>5, <3>2
  <2> HIDE DEF r
  <2>3. size' \in 1..MaxSize
    <3>1. n \in Nat /\ MaxSize \in Nat \ {0} /\ DefaultSize[r] \in 1..MaxSize
      BY <2>2, PagingAssumption
    <3> QED
      BY <1>5, <2>1, <3>1 DEF SizeFor, None
  <2>4. ReaderInv'
    <3>1. reading' # "none"
      BY <2>1, <2>2 DEF Readings, Loops, Checked, Identities, Projections, Plain
    <3>2. pages' < MaxPages /\ MaxSize \in Nat
      BY <1>1, <1>2, PagingAssumption
    <3> QED
      BY <1>1, <2>1, <2>2, <2>3, <3>1, <3>2 DEF Inv, ReaderInv
  <2>5. CountInv'
    <3>1. ServedSize(size)' \in Nat
      BY <1>1, <2>3, PagingAssumption DEF ServedSize
    <3>2. Place' = 0
      BY <1>1, <1>2, <3>1 DEF Place, ServedSize
    <3>3. Before(list, 0) = {}
      BY DEF Before
    <3>4. Before(list, 0) \cap (throughout \ got) = {} /\ After(list, 0) \cap got = {}
      BY <1>2, <3>3
    <3>5. Counted(list, 0, throughout, got, moved)
      <4>1. Cardinality({}) = 0
        BY FS_EmptySet
      <4>2. moved.up = 0 /\ moved.down = 0 /\ moved.again = 0
        BY <1>2 DEF Unmoved
      <4>3. Cardinality(Before(list, 0) \cap (throughout \ got)) = 0
            /\ Cardinality(After(list, 0) \cap got) = 0
        BY <3>4, <4>1
      <4> QED
        BY <4>2, <4>3 DEF Counted
    <3>6. Counted(list', 0, throughout', got', moved')
      BY <1>1, <3>5
    <3> QED
      BY <1>1, <1>2, <2>1, <3>2, <3>6 DEF CountInv, Unmoved
  <2> QED
    BY <1>3, <2>4, <2>5 DEF Inv
<1> QED
  BY <1>4, <1>5

(* What a reader has after a page.                                         *)
PageTaken(a) ==
  LET place == Place + ServedSize(size) IN
  /\ Counted(list, place, throughout, got', moved')
  /\ moved'.again <= moved'.down
  /\ a.next = None \/ a.rows = <<>> => Cardinality(throughout \ got') <= moved'.up
  /\ a.next # None => (token' = a.next /\ quirk' = quirk /\ size' = size => Place' = place)

LEMMA TookPage ==
  ASSUME Inv, reading # "none", end = "reading",
         NEW a, a = Answer(reading, size), Took(a.rows),
         UNCHANGED <<list, quirk, reading, throughout, changes>>
  PROVE  /\ ListInv'
         /\ moved' \in [up : 0..changes', down : 0..changes', again : 0..(MaxChanges + 1)]
         /\ Trusted /\ steady /\ (reading \in Checked => NoRowTwice(a.rows)) => PageTaken(a)
<1> DEFINE R == RowsOf(a.rows)
           x == Len(a.rows) - Cardinality(R \ got)
<1>1. /\ got' = got \cup R
      /\ moved' = [moved EXCEPT !.again = Lesser(@ + x, MaxChanges + 1)]
  BY DEF Took
<1>2. a.rows \in Seq(Nat) /\ R \subseteq RowsOf(list) /\ a.next \in Nat
  BY AnswerTypes DEF Inv
<1>3. ListInv'
  BY <1>1, <1>2 DEF Inv, ListInv, Distinct, RowsOf, Rows
<1>4. x \in Nat
  <2>1. IsFiniteSet(R) /\ Cardinality(R) \in Nat /\ Cardinality(R) <= Len(a.rows)
    BY <1>2, RowsAreFinite
  <2>2. IsFiniteSet(R \ got) /\ Cardinality(R \ got) <= Cardinality(R)
    BY <2>1, FS_Subset
  <2>3. Cardinality(R \ got) \in Nat /\ Len(a.rows) \in Nat
    BY <1>2, <2>2, FS_CardinalityType
  <2> HIDE DEF R
  <2> QED
    BY <2>1, <2>2, <2>3
<1>5. moved \in [up : 0..changes, down : 0..changes, again : 0..(MaxChanges + 1)]
      /\ MaxChanges \in Nat /\ changes \in Nat
  BY PagingAssumption DEF Inv, ReaderInv, ListInv
<1>6. moved' \in [up : 0..changes', down : 0..changes', again : 0..(MaxChanges + 1)]
  <2>1. Lesser(moved.again + x, MaxChanges + 1) \in 0..(MaxChanges + 1)
    <3> HIDE DEF x
    <3>1. moved.again \in Nat
      BY <1>5
    <3>2. moved.again + x \in Nat
      BY <1>4, <3>1
    <3> QED
      BY <1>5, <3>2 DEF Lesser
  <2> QED
    BY <1>1, <1>5, <2>1
<1>7. ASSUME Trusted, steady, reading \in Checked => NoRowTwice(a.rows)
      PROVE  PageTaken(a)
  <2> DEFINE n == ServedSize(size)
  <2>1. n \in Nat \ {0} /\ Place \in Nat
    BY Served DEF Inv
  <2>2. /\ a.rows = SubSeq(list, Place + 1, Lesser(Place + n, Len(list)))
        /\ (token + 1) * n = Place + n
        /\ a.next = None => Place + n >= Len(list)
        /\ a.next # None => a.next = token + 1
    BY <1>7, AnswerPage DEF Inv
  <2>3. moved \in Moves /\ Counted(list, Place, throughout, got, moved)
        /\ list \in Seq(Nat) /\ Distinct(list) /\ throughout \subseteq RowsOf(list)
    BY <1>5, <1>7 DEF Inv, CountInv, ListInv, Moves
  <2>4. a.next # None => (token' = a.next /\ quirk' = quirk /\ size' = size => Place' = Place + n)
    BY <2>2 DEF Place, ServedSize
  <2> HIDE DEF n
  <2>5. /\ Counted(list, Place + n, throughout, got', moved') /\ moved'.again <= moved'.down
        /\ Place + n >= Len(list) \/ a.rows = <<>> => Cardinality(throughout \ got') <= moved'.up
    BY <1>1, <2>1, <2>2, <2>3, CountedAfterPage
  <2> QED
    BY <2>2, <2>4, <2>5 DEF PageTaken, n
<1> QED
  BY <1>3, <1>6, <1>7

LEMMA SizeTypes ==
  ASSUME NEW r \in Readings, NEW n \in Sizes
  PROVE  SizeFor(r, n) \in 0..MaxSize
<1>1. n \in Nat /\ MaxSize \in Nat \ {0} /\ DefaultSize[r] \in 1..MaxSize
  BY PagingAssumption
<1> QED
  BY <1>1 DEF SizeFor, None

(* The body of a loop, whose stop is the last page or an empty one.        *)
LEMMA LoopInv ==
  ASSUME Inv, reading \in Loops, end = "reading",
         NEW a, a = Answer(reading, size), NEW stop \in BOOLEAN,
         a.next = None => stop, stop => a.next = None \/ a.rows = <<>>,
         Loop(stop, a)
  PROVE  Inv'
<1>1. Took(a.rows) /\ pages' = pages + 1 /\ reading # "none" /\ reading \notin Checked
      /\ UNCHANGED <<list, quirk, reading, size, steady, throughout, changes>>
  BY DEF Loop, Loops, Checked, Identities, Projections
<1>2. /\ ListInv'
      /\ moved' \in [up : 0..changes', down : 0..changes', again : 0..(MaxChanges + 1)]
      /\ Trusted /\ steady => PageTaken(a)
  BY <1>1, TookPage
<1>3. a.next \in Nat /\ pages + 1 \in 0..MaxPages
  BY <1>1, AnswerTypes, PagingAssumption DEF Inv, ReaderInv
<1>4. \/ stop /\ end' = "complete" /\ token' = token
      \/ ~stop /\ pages' = MaxPages /\ end' = "incomplete" /\ token' = a.next
      \/ ~stop /\ pages' # MaxPages /\ end' = end /\ token' = a.next
  BY DEF Loop, Finish, GoOn
<1>5. ReaderInv'
  <2>1. token' \in Nat /\ pages' \in 0..MaxPages /\ end' \in Ends
    BY <1>1, <1>3, <1>4 DEF Inv, ReaderInv, Ends
  <2>2. end' = "reading" => pages' < MaxPages
    <3>1. end' = "reading" => pages' # MaxPages
      BY <1>4
    <3> QED
      BY <2>1, <3>1, PagingAssumption
  <2> QED
    BY <1>1, <1>2, <2>1, <2>2 DEF Inv, ReaderInv
<1>6. CountInv'
  <2> SUFFICES ASSUME Trusted', steady'
               PROVE  /\ end' \in {"reading", "incomplete"}
                           => Counted(list', Place', throughout', got', moved')
                      /\ end' = "complete" => Cardinality(throughout' \ got') <= moved'.up
                      /\ moved'.again <= moved'.down
    BY DEF CountInv
  <2>1. PageTaken(a)
    BY <1>1, <1>2 DEF Trusted
  <2> QED
    BY <1>1, <1>4, <2>1 DEF PageTaken
<1> QED
  BY <1>2, <1>5, <1>6 DEF Inv

(* A single page, when it is taken.                                        *)
LEMMA PageInv ==
  ASSUME Inv, reading \in Plain \cup Checked, end = "reading",
         NEW a, a = Answer(reading, size), reading \in Checked => NoRowTwice(a.rows),
         Page(a)
  PROVE  Inv'
<1>1. Took(a.rows) /\ reading # "none" /\ reading \in Readings /\ reading \notin Loops
      /\ UNCHANGED <<list, quirk, reading, pages, throughout, changes>>
  BY DEF Page, Loops, Checked, Identities, Projections, Plain, Readings
<1>2. /\ ListInv'
      /\ moved' \in [up : 0..changes', down : 0..changes', again : 0..(MaxChanges + 1)]
      /\ Trusted /\ steady => PageTaken(a)
  BY <1>1, TookPage
<1>3. a.next \in Nat
  BY <1>1, AnswerTypes DEF Inv
<1>4. \/ end' = "complete" /\ a.next = None /\ token' = token /\ size' = size /\ steady' = steady
      \/ end' = "stopped" /\ token' = token /\ size' = size /\ steady' = steady
      \/ /\ a.next # None /\ end' = end /\ token' = a.next
         /\ \E n \in Sizes : /\ size' = SizeFor(reading, n) /\ size' # None
                             /\ steady' = (steady /\ size' = size)
  BY DEF Page, Finish, GoOn, Resize
<1>5. size' \in 1..MaxSize /\ token' \in Nat /\ steady' \in BOOLEAN /\ end' \in Ends
  <2>1. size \in 1..MaxSize /\ token \in Nat /\ steady \in BOOLEAN /\ end \in Ends
        /\ MaxSize \in Nat
    BY <1>1, PagingAssumption DEF Inv, ReaderInv
  <2>2. ASSUME NEW n \in Sizes, SizeFor(reading, n) # None
        PROVE  SizeFor(reading, n) \in 1..MaxSize
    BY <1>1, <2>1, <2>2, SizeTypes DEF None
  <2> QED
    BY <1>3, <1>4, <2>1, <2>2 DEF Ends
<1>6. ReaderInv'
  BY <1>1, <1>2, <1>5 DEF Inv, ReaderInv
<1>7. CountInv'
  <2> SUFFICES ASSUME Trusted', steady'
               PROVE  /\ end' \in {"reading", "incomplete"}
                           => Counted(list', Place', throughout', got', moved')
                      /\ end' = "complete" => Cardinality(throughout' \ got') <= moved'.up
                      /\ moved'.again <= moved'.down
    BY DEF CountInv
  <2>1. steady /\ size' = size
    BY <1>4
  <2>2. PageTaken(a)
    BY <1>1, <1>2, <2>1 DEF Trusted
  <2> QED
    BY <1>1, <1>4, <2>1, <2>2 DEF PageTaken
<1> QED
  BY <1>2, <1>6, <1>7 DEF Inv

LEMMA ReadInv == ASSUME Inv, Read PROVE Inv'
<1>1. ASSUME NEW a \in Arguments, NEW n \in Sizes, Begin(a, n)
      PROVE  Inv'
  BY <1>1, BeginInv
<1>2. ASSUME ReleasesPage
      PROVE  Inv'
  <2> DEFINE a == Answer(reading, size)
  <2>1. reading \in Loops /\ end = "reading" /\ Loop(a.next = None \/ a.rows = <<>>, a)
    BY <1>2 DEF ReleasesPage, Asking, Loops
  <2> QED
    BY <2>1, LoopInv
<1>3. ASSUME AllPage
      PROVE  Inv'
  <2> DEFINE a == Answer(reading, size)
  <2>1. reading \in Loops /\ end = "reading" /\ Loop(a.next = None, a)
    BY <1>3 DEF AllPage, Asking, Loops
  <2> QED
    BY <2>1, LoopInv
<1>4. ASSUME PlainPage
      PROVE  Inv'
  <2> DEFINE a == Answer(reading, size)
  <2>1. reading \in Plain /\ reading \notin Checked /\ end = "reading" /\ Page(a)
    BY <1>4 DEF PlainPage, Asking, Plain, Checked, Identities, Projections
  <2> QED
    BY <2>1, PageInv
<1>5. ASSUME CheckedPage
      PROVE  Inv'
  <2> DEFINE a == Answer(reading, size)
  <2>1. reading \in Checked /\ end = "reading" /\ ((Page(a) /\ NoRowTwice(a.rows)) \/ Refuse)
    BY <1>5 DEF CheckedPage, Asking, Checked, Identities, Projections,
               SpecIdentities, TestIdentities, RunSummary
  <2>2. CASE Page(a) /\ NoRowTwice(a.rows)
    BY <2>1, <2>2, PageInv
  <2>3. CASE Refuse
    <3>1. /\ UNCHANGED <<list, quirk, reading, size, token, pages, got, steady, throughout,
                          moved, changes>>
          /\ end' = "error" /\ reading \in Readings
      BY <2>1, <2>3 DEF Refuse, Readings
    <3>2. ListInv' /\ ReaderInv'
      BY <3>1 DEF Inv, ListInv, Distinct, RowsOf, Rows, ReaderInv, Ends, Readings, Loops,
                  Checked, Identities, Projections, Plain
    <3>3. CountInv'
      BY <3>1 DEF Inv, CountInv, Trusted
    <3> QED
      BY <3>2, <3>3 DEF Inv
  <2> QED
    BY <2>1, <2>2, <2>3
<1> QED
  BY <1>1, <1>2, <1>3, <1>4, <1>5 DEF Read

THEOREM InvHolds == Spec => []Inv
<1>1. Inv /\ [Next]_vars => Inv'
  <2> SUFFICES ASSUME Inv, [Next]_vars
               PROVE  Inv'
    OBVIOUS
  <2>1. CASE Read
    BY <2>1, ReadInv
  <2>2. CASE RequestFails
    <3>1. /\ UNCHANGED <<list, quirk, reading, size, token, pages, steady, throughout,
                          moved, changes>>
          /\ end' = "error" /\ reading \in Readings /\ got' \subseteq got
      BY <2>2 DEF RequestFails, Asking
    <3>2. ListInv' /\ ReaderInv'
      BY <3>1 DEF Inv, ListInv, Distinct, RowsOf, Rows, ReaderInv, Ends, Readings, Loops,
                  Checked, Identities, Projections, Plain
    <3>3. CountInv'
      BY <3>1 DEF Inv, CountInv, Trusted
    <3> QED
      BY <3>2, <3>3 DEF Inv
  <2>3. CASE Continue
    <3>1. /\ reading \in {"allSpecs", "allTests"} /\ reading' \in {"specs", "tests"}
          /\ end = "incomplete" /\ end' = "reading"
          /\ UNCHANGED <<list, quirk, token, pages, got, throughout, moved, changes>>
      BY <2>3 DEF Continue
    <3>2. PICK n \in Sizes : Resize(n)
      BY <2>3 DEF Continue
    <3>3. size' \in 1..MaxSize /\ steady' = (steady /\ size' = size)
      <4>1. reading \in Readings /\ MaxSize \in Nat
        BY <3>1, PagingAssumption DEF Readings, Loops
      <4> QED
        BY <3>2, <4>1, SizeTypes DEF Resize, None
    <3>4. ListInv'
      BY <3>1 DEF Inv, ListInv, Distinct, RowsOf, Rows
    <3>5. ReaderInv'
      BY <3>1, <3>3 DEF Inv, ReaderInv, Ends, Readings, Loops, Checked, Identities,
                        Projections, Plain
    <3>6. CountInv'
      <4>1. Trusted' /\ steady' => Trusted /\ steady /\ Place' = Place
        BY <3>1, <3>3 DEF Trusted, Checked, Identities, Projections, Place, ServedSize
      <4> QED
        BY <3>1, <4>1 DEF Inv, CountInv
    <3> QED
      BY <3>4, <3>5, <3>6 DEF Inv
  <2>4. CASE Others
    BY <2>4, OthersInv
  <2>5. CASE UNCHANGED vars
    <3>1. UNCHANGED <<list, quirk, reading, size, token, pages, got, end, steady, throughout,
                      moved, changes>>
      BY <2>5 DEF vars, agent
    <3>2. ListInv' /\ ReaderInv'
      BY <3>1 DEF Inv, ListInv, Distinct, RowsOf, Rows, ReaderInv
    <3>3. CountInv'
      BY <3>1 DEF Inv, CountInv, Trusted, Place, ServedSize
    <3> QED
      BY <3>2, <3>3 DEF Inv
  <2> QED
    BY <2>1, <2>2, <2>3, <2>4, <2>5 DEF Next
<1> QED
  BY <1>1, InitInv, PTL DEF Spec

-----------------------------------------------------------------------------
(* What is shown                                                           *)

(* The values have their types; that a loop never reads more pages than it *)
(* may, whatever tokens it is sent, is the part with content.              *)
THEOREM TypeCorrect == Spec => []TypeOK
<1>1. Inv => TypeOK
  <2> SUFFICES ASSUME Inv
               PROVE  TypeOK
    OBVIOUS
  <2>1. Rows \subseteq Nat /\ MaxChanges \in Nat
    BY PagingAssumption DEF Inv, ListInv, Rows
  <2>2. moved \in [up : 0..MaxChanges, down : 0..MaxChanges, again : 0..(MaxChanges + 1)]
    BY <2>1 DEF Inv, ListInv, ReaderInv
  <2> QED
    BY <2>1, <2>2 DEF Inv, ListInv, ReaderInv, TypeOK
<1> QED
  BY <1>1, InvHolds, PTL

(* A complete traversal lacks no more rows than were deleted among those   *)
(* it had passed: of any list, whatever comes and goes while it is read.   *)
THEOREM NoUnexplainedMisses == Spec => []MissesExplained
<1>1. Inv => MissesExplained
  BY DEF Inv, CountInv, MissesExplained
<1> QED
  BY <1>1, InvHolds, PTL

(* A row comes again only for a row inserted among those already passed.   *)
THEOREM NoUnexplainedRepeats == Spec => []RepeatsExplained
<1>1. Inv => RepeatsExplained
  BY DEF Inv, CountInv, RepeatsExplained
<1> QED
  BY <1>1, InvHolds, PTL

-----------------------------------------------------------------------------
(* An undisturbed traversal is exact, and a truncated one had to be.       *)

(* Where a loop is, what it knows of the list when it gives up, and where  *)
(* a reader of checked pages can get to when its tokens are ignored.       *)
TokenInv ==
  /\ reading \in Loops /\ end \in {"reading", "incomplete"} /\ quirk # "ignoresToken"
       => token = pages
  /\ end = "incomplete" => reading \in Loops /\ pages = MaxPages
  /\ end = "incomplete" /\ quirk \notin {"ignoresToken", "endless"}
       => Len(list) > token * ServedSize(size)
  /\ reading \in Checked /\ quirk = "ignoresToken" => token <= 1

(* Until somebody changes the list, all that is read is there.             *)
StillInv == changes = 0 => throughout = RowsOf(list) /\ got \subseteq RowsOf(list)

(* With nothing inserted or deleted on the way, a traversal that ends with *)
(* no token left has returned the list, no row more or less.               *)
UndisturbedIsExact ==
  changes = 0 /\ end = "complete" /\ Trusted /\ steady => got = RowsOf(list)

(* A loop says its answer is incomplete only of a list that does not fit   *)
(* in the pages it may read, unless the server makes up its tokens.        *)
TruncatedOnlyBeyondLimit ==
  end = "incomplete" /\ quirk \notin {"ignoresToken", "endless"}
    => Len(list) > MaxPages * ServedSize(size)

(* The pages a loop may still read, or a reader of checked pages: those of *)
(* the list, if all changes still to come were insertions, and an empty    *)
(* or a refused one.                                                       *)
PagesLeft ==
  LET rows == Len(list) + MaxChanges - changes IN
  IF end # "reading" THEN 0
  ELSE IF reading \in Loops THEN MaxPages - pages
  ELSE IF reading \in Checked THEN IF token < rows THEN rows - token + 1 ELSE 1
  ELSE 0

(* Every page takes a loop, and a reader of checked pages, nearer to the   *)
(* end, and nothing else takes it back.                                    *)
PagesGetFewer ==
  [][reading # "none" =>
       /\ PagesLeft' <= PagesLeft
       /\ Read /\ reading \in Loops \cup Checked => PagesLeft' < PagesLeft]_vars

(* A page takes a loop one token further.                                  *)
LEMMA LoopTokenStep ==
  ASSUME Inv, TokenInv, reading \in Loops, end = "reading",
         NEW a, a = Answer(reading, size), NEW stop \in BOOLEAN,
         a.next = None => stop, Loop(stop, a)
  PROVE  TokenInv'
<1>1. /\ pages' = pages + 1 /\ UNCHANGED <<list, quirk, reading, size>>
      /\ reading \notin Checked
  BY DEF Loop, Loops, Checked, Identities, Projections
<1>2. \/ stop /\ end' = "complete"
      \/ ~stop /\ pages' = MaxPages /\ end' = "incomplete" /\ token' = a.next
      \/ ~stop /\ pages' # MaxPages /\ end' = "reading" /\ token' = a.next
  BY DEF Loop, Finish, GoOn
<1> DEFINE n == ServedSize(size)
<1>3. quirk # "ignoresToken" =>
        /\ a.next = IF (token + 1) * n < Len(list) \/ quirk = "endless"
                    THEN token + 1 ELSE None
        /\ token = pages
  BY DEF Answer, TokenInv
<1>4. n' = n /\ n \in Nat /\ token \in Nat /\ Len(list) \in Nat
  BY <1>1, Served DEF ServedSize, Inv, ListInv, ReaderInv, Loops
<1> HIDE DEF n
<1>5. ~stop /\ quirk # "ignoresToken" =>
        /\ a.next = pages'
        /\ quirk # "endless" => Len(list) > a.next * n
  <2>1. (token + 1) * n \in Nat
    BY <1>4
  <2> QED BY <1>1, <1>3, <1>4, <2>1
<1> QED BY <1>1, <1>2, <1>4, <1>5 DEF TokenInv, n

(* A page takes a reader of single pages nowhere it should not be.         *)
LEMMA PageTokenStep ==
  ASSUME Inv, TokenInv, reading \in Plain \cup Checked, end = "reading",
         NEW a, a = Answer(reading, size),
         reading \in Checked => Progresses(a), Page(a)
  PROVE  TokenInv'
<1>1. /\ UNCHANGED <<quirk, reading>> /\ reading \notin Loops
      /\ end' \in {"complete", "stopped", "reading"} /\ token' \in {token, a.next}
  BY DEF Page, Finish, GoOn, Loops, Plain, Checked, Identities, Projections
<1>2. quirk = "ignoresToken" => a.next \in {1, None}
  BY DEF Answer
<1> QED BY <1>1, <1>2 DEF TokenInv, None

LEMMA TokenInvStep == ASSUME Inv, TokenInv, [Next]_vars PROVE TokenInv'
<1>1. ASSUME NEW b \in Arguments, NEW n \in Sizes, Begin(b, n)
      PROVE  TokenInv'
  <2>1. token = 0 /\ pages = 0 /\ token' = 0 /\ pages' = 0 /\ end' \in {"reading", "rejected"}
    BY <1>1 DEF Begin, Inv, ReaderInv, None
  <2> QED BY <2>1 DEF TokenInv
<1>2. CASE ReleasesPage
  <2> DEFINE a == Answer(reading, size)
  <2>1. reading \in Loops /\ end = "reading" /\ Loop(a.next = None \/ a.rows = <<>>, a)
    BY <1>2 DEF ReleasesPage, Asking, Loops
  <2> QED BY <2>1, LoopTokenStep
<1>3. CASE AllPage
  <2> DEFINE a == Answer(reading, size)
  <2>1. reading \in Loops /\ end = "reading" /\ Loop(a.next = None, a)
    BY <1>3 DEF AllPage, Asking, Loops
  <2> QED BY <2>1, LoopTokenStep
<1>4. CASE PlainPage
  <2> DEFINE a == Answer(reading, size)
  <2>1. reading \in Plain /\ reading \notin Checked /\ end = "reading" /\ Page(a)
    BY <1>4 DEF PlainPage, Asking, Plain, Checked, Identities, Projections
  <2> QED BY <2>1, PageTokenStep
<1>5. CASE CheckedPage
  <2> DEFINE a == Answer(reading, size)
  <2>1. reading \in Checked /\ end = "reading" /\ ((Page(a) /\ Progresses(a)) \/ Refuse)
    BY <1>5 DEF CheckedPage, Asking, Checked, Identities, Projections,
               SpecIdentities, TestIdentities, RunSummary
  <2>2. CASE Page(a) /\ Progresses(a)
    BY <2>1, <2>2, PageTokenStep
  <2>3. CASE Refuse
    BY <2>3 DEF Refuse, TokenInv
  <2> QED BY <2>1, <2>2, <2>3
<1>6. CASE RequestFails
  BY <1>6 DEF RequestFails, TokenInv
<1>7. CASE Continue
  BY <1>7 DEF Continue, TokenInv, Loops, Checked, Identities, Projections
<1>8. CASE Others
  <2>1. end = "reading" /\ UNCHANGED <<quirk, reading, size, token, pages, end>>
    BY <1>8 DEF Others, Insert, Delete, agent
  <2> QED BY <2>1 DEF TokenInv
<1>9. CASE UNCHANGED vars
  BY <1>9 DEF vars, agent, TokenInv, ServedSize
<1> QED BY <1>1, <1>2, <1>3, <1>4, <1>5, <1>6, <1>7, <1>8, <1>9 DEF Next, Read

LEMMA StillInvStep == ASSUME Inv, StillInv, [Next]_vars PROVE StillInv'
<1>1. ASSUME reading # "none",
             NEW a, a = Answer(reading, size), Took(a.rows),
             UNCHANGED <<list, throughout, changes>>
      PROVE  StillInv'
  <2>1. RowsOf(a.rows) \subseteq RowsOf(list)
    BY <1>1, AnswerTypes DEF Inv
  <2> QED BY <1>1, <2>1 DEF Took, StillInv
<1>2. ASSUME UNCHANGED <<list, throughout, changes>>, got' \subseteq got
      PROVE  StillInv'
  BY <1>2 DEF StillInv
<1>3. CASE ReleasesPage \/ AllPage \/ PlainPage \/ CheckedPage
  <2> DEFINE a == Answer(reading, size)
  <2>1. /\ reading # "none" /\ UNCHANGED <<list, throughout, changes>>
        /\ Took(a.rows) \/ got' = got
    BY <1>3 DEF ReleasesPage, AllPage, PlainPage, CheckedPage, Asking, Loop, Page, Refuse,
               Plain, Checked, Identities, Projections
  <2> QED BY <1>1, <1>2, <2>1
<1>4. CASE (\E b \in Arguments, n \in Sizes : Begin(b, n)) \/ RequestFails \/ Continue
  BY <1>2, <1>4 DEF Begin, RequestFails, Continue
<1>5. CASE Others
  BY <1>5 DEF Others, Insert, Delete, Change, StillInv, Inv, ListInv
<1>6. CASE UNCHANGED vars
  BY <1>2, <1>6 DEF vars, agent
<1> QED BY <1>3, <1>4, <1>5, <1>6 DEF Next, Read

LEMMA TokenAndStillHold == Spec => [](Inv /\ TokenInv /\ StillInv)
<1>1. Init => TokenInv /\ StillInv
  BY DEF Init, TokenInv, StillInv, None
<1>2. Inv /\ TokenInv /\ StillInv /\ [Next]_vars => TokenInv' /\ StillInv'
  BY TokenInvStep, StillInvStep
<1> QED BY <1>1, <1>2, InvHolds, PTL DEF Spec

(* What is read of a list nobody changes is the list, of any length.       *)
THEOREM UndisturbedTraversalsAreExact == Spec => []UndisturbedIsExact
<1>1. Inv /\ StillInv => UndisturbedIsExact
  <2> SUFFICES ASSUME Inv, StillInv, changes = 0, end = "complete", Trusted, steady
               PROVE  RowsOf(list) \subseteq got
    BY DEF UndisturbedIsExact, StillInv
  <2>1. Cardinality(RowsOf(list) \ got) <= 0
    BY DEF Inv, CountInv, ReaderInv, StillInv
  <2>2. IsFiniteSet(RowsOf(list) \ got)
    BY RowsAreFinite, FS_Subset DEF Inv, ListInv
  <2>3. Cardinality(RowsOf(list) \ got) = 0
    BY <2>1, <2>2, FS_CardinalityType
  <2> QED BY <2>2, <2>3, FS_EmptySet
<1> QED BY <1>1, TokenAndStillHold, PTL

(* No loop gives up a list it could have read to its end.                  *)
THEOREM TruncationIsHonest == Spec => []TruncatedOnlyBeyondLimit
<1>1. TokenInv => TruncatedOnlyBeyondLimit
  BY DEF TokenInv, TruncatedOnlyBeyondLimit
<1> QED BY <1>1, TokenAndStillHold, PTL

LEMMA PagesLeftType == Inv => PagesLeft \in Nat
<1> SUFFICES ASSUME Inv
             PROVE  PagesLeft \in Nat
  OBVIOUS
<1>1. /\ Len(list) \in Nat /\ changes \in 0..MaxChanges /\ MaxChanges \in Nat
      /\ token \in Nat /\ pages \in 0..MaxPages /\ MaxPages \in Nat
  BY PagingAssumption DEF Inv, ListInv, ReaderInv
<1> QED BY <1>1 DEF PagesLeft

(* A page of checked rows that leads on has rows, so it is not the last    *)
(* that the list can have.                                                 *)
LEMMA CheckedPageGoesOn ==
  ASSUME Inv, TokenInv, reading \in Checked, end = "reading",
         NEW a, a = Answer(reading, size), Progresses(a), a.next # None
  PROVE  a.next = token + 1 /\ token < Len(list)
<1> DEFINE n == ServedSize(size)
           k == IF quirk = "ignoresToken" THEN 0 ELSE token
           rows == PageOf(k, n)
<1>1. n \in Nat \ {0} /\ k \in Nat /\ Len(list) \in Nat /\ token \in Nat
  BY Served DEF Inv, ReaderInv, ListInv, Checked, Identities, Projections
<1>2. a.next = k + 1 /\ a.rows # <<>> /\ a.next # token
  BY DEF Answer, Progresses
<1>3. rows # <<>>
  BY <1>2 DEF Answer
<1>4. k < Len(list)
  <2>1. k * n \in Nat /\ rows = SubSeq(list, k * n + 1, Lesser(k * n + n, Len(list)))
    BY <1>1, PageOfRows DEF Inv
  <2>2. k * n < Len(list)
    <3> DEFINE p == k * n
    <3>1. p \in Nat /\ rows = SubSeq(list, p + 1, Lesser(p + n, Len(list)))
      BY <2>1
    <3> HIDE DEF p, n, rows
    <3>2. SUFFICES ASSUME ~(p < Len(list)) PROVE FALSE
      BY DEF p
    <3>3. Lesser(p + n, Len(list)) = Len(list) /\ p + 1 > Len(list)
      BY <1>1, <3>1, <3>2 DEF Lesser
    <3>4. rows = <<>>
      BY <1>1, <3>1, <3>3 DEF Inv, ListInv
    <3> QED BY <1>3, <3>4
  <2>3. k <= k * n
    <3>1. \A x \in Nat, y \in Nat \ {0} : x <= x * y
      OBVIOUS
    <3> QED BY <1>1, <3>1
  <2> HIDE DEF k
  <2> QED BY <1>1, <2>1, <2>2, <2>3
<1>5. CASE quirk = "ignoresToken"
  <2>1. k = 0 /\ token = 0
    BY <1>1, <1>2, <1>5 DEF TokenInv
  <2> QED BY <1>2, <1>4, <2>1
<1>6. CASE quirk # "ignoresToken"
  BY <1>2, <1>4, <1>6
<1> QED BY <1>5, <1>6

(* A loop, and an agent that follows the tokens of checked pages, need     *)
(* finitely many pages, whatever the server sends and whoever changes the  *)
(* list: with each page fetched at last, the traversal ends.               *)
THEOREM PagesGetFewerHolds ==
  /\ Spec => [](PagesLeft \in Nat)
  /\ Spec => PagesGetFewer
<1> DEFINE Fewer == PagesLeft' < PagesLeft
           Nearer == reading # "none" =>
                       /\ PagesLeft' <= PagesLeft
                       /\ Read /\ reading \in Loops \cup Checked => Fewer
<1>1. ASSUME Inv, Inv', TokenInv, Next, reading # "none"
      PROVE  /\ PagesLeft' <= PagesLeft
             /\ Read /\ reading \in Loops \cup Checked => Fewer
  <2>1. /\ PagesLeft \in Nat
        /\ Len(list) \in Nat /\ changes \in 0..MaxChanges /\ MaxChanges \in Nat
        /\ token \in Nat /\ pages \in 0..MaxPages /\ MaxPages \in Nat
    <3>1. PagesLeft \in Nat
      BY <1>1, PagesLeftType
    <3> QED BY <1>1, <3>1, PagingAssumption DEF Inv, ListInv, ReaderInv
  <2>2. ASSUME NEW a, NEW stop \in BOOLEAN, reading \in Loops, end = "reading", Loop(stop, a)
        PROVE  Fewer
    <3>1. pages' = pages + 1 /\ reading' = reading /\ pages < MaxPages
      BY <1>1, <2>2 DEF Loop, Inv, ReaderInv
    <3>2. PagesLeft = MaxPages - pages
      BY <2>2 DEF PagesLeft
    <3>3. PagesLeft' \in {0, MaxPages - pages'}
      BY <2>2, <3>1 DEF PagesLeft
    <3> QED BY <2>1, <3>1, <3>2, <3>3
  <2>3. ASSUME ReleasesPage \/ AllPage PROVE Fewer
    <3>1. reading \in Loops /\ end = "reading"
          /\ \E stop \in BOOLEAN : Loop(stop, Answer(reading, size))
      BY <2>3 DEF ReleasesPage, AllPage, Asking, Loops
    <3> QED BY <2>2, <3>1
  <2>4. ASSUME PlainPage
        PROVE  reading \notin Loops \cup Checked /\ PagesLeft' <= PagesLeft
    <3>1. reading \notin Loops \cup Checked /\ reading' = reading
      BY <2>4 DEF PlainPage, Page, Asking, Plain, Loops, Checked, Identities, Projections
    <3> QED BY <3>1 DEF PagesLeft
  <2>5. ASSUME CheckedPage PROVE Fewer
    <3> DEFINE a == Answer(reading, size)
    <3>1. /\ reading \in Checked /\ reading \notin Loops /\ end = "reading"
          /\ (Page(a) /\ Progresses(a)) \/ Refuse
      BY <2>5 DEF CheckedPage, Asking, Checked, Identities, Projections, Loops,
                 SpecIdentities, TestIdentities, RunSummary
    <3>2. PagesLeft > 0
      BY <2>1, <3>1 DEF PagesLeft
    <3>3. CASE end' # "reading"
      BY <2>1, <3>2, <3>3 DEF PagesLeft
    <3>4. CASE end' = "reading"
      <4>1. Page(a) /\ Progresses(a) /\ a.next # None /\ token' = a.next
            /\ list' = list /\ reading' = reading /\ changes' = changes
        BY <3>1, <3>4 DEF Refuse, Page, Finish, GoOn
      <4>2. token' = token + 1 /\ token < Len(list)
        BY <1>1, <3>1, <4>1, CheckedPageGoesOn
      <4> QED BY <2>1, <3>1, <3>4, <4>1, <4>2 DEF PagesLeft
    <3> QED BY <2>1, <3>3, <3>4
  <2>6. ASSUME RequestFails \/ Continue PROVE PagesLeft' = 0
    BY <2>6 DEF RequestFails, Continue, PagesLeft, Loops, Checked, Identities, Projections
  <2>7. ASSUME Others PROVE PagesLeft' <= PagesLeft
    <3>1. UNCHANGED <<reading, token, pages, end>> /\ changes' = changes + 1
      BY <2>7 DEF Others, Insert, Delete, Change, agent
    <3>2. ASSUME NEW i \in 1..(Len(list) + 1), Insert(i) PROVE Len(list') = Len(list) + 1
      <4>1. list \in Seq(Nat) /\ FirstNew + changes \in Nat
        BY <1>1, PagingAssumption DEF Inv, ListInv
      <4> QED BY <3>2, <4>1, InsertedList DEF Insert
    <3>3. ASSUME NEW i \in 1..Len(list), Delete(i) PROVE Len(list') = Len(list) - 1
      <4>1. list \in Seq(Nat)
        BY <1>1 DEF Inv, ListInv
      <4> QED BY <3>3, <4>1, DeletedList DEF Delete
    <3>4. Len(list') \in {Len(list) + 1, Len(list) - 1}
      BY <2>7, <3>2, <3>3 DEF Others
    <3> QED BY <2>1, <3>1, <3>4 DEF PagesLeft
  <2>8. Read => ReleasesPage \/ AllPage \/ PlainPage \/ CheckedPage
    BY <1>1 DEF Read, Begin
  <2>9. PagesLeft' \in Nat
    <3>1. Inv' => (PagesLeft \in Nat)'
      BY PagesLeftType, PTL
    <3> QED BY <1>1, <3>1
  <2>10. Read /\ reading \in Loops \cup Checked => Fewer
    BY <2>3, <2>4, <2>5, <2>8, Zenon
  <2>11. Fewer => PagesLeft' <= PagesLeft
    BY <2>1, <2>9
  <2>12. PagesLeft' = 0 => PagesLeft' <= PagesLeft
    BY <2>1, <2>9
  <2>13. PagesLeft' <= PagesLeft
    BY <1>1, <2>3, <2>4, <2>5, <2>6, <2>7, <2>8, <2>11, <2>12, Zenon DEF Next
  <2> QED BY <2>10, <2>13, Zenon
<1>2. Inv /\ Inv' /\ TokenInv /\ [Next]_vars => [Nearer]_vars
  BY <1>1, Zenon
<1>3. Spec => PagesGetFewer
  BY <1>2, TokenAndStillHold, PTL DEF Spec, PagesGetFewer
<1>4. Spec => [](PagesLeft \in Nat)
  BY PagesLeftType, InvHolds, PTL
<1> QED BY <1>3, <1>4
=============================================================================
