---------------------------- MODULE RowidsProofs ----------------------------
(***************************************************************************)
(* Facts about ids: the smallest, the largest, the first few of them, and  *)
(* what INSERT, UPDATE and DELETE make of a table.                         *)
(***************************************************************************)
EXTENDS Rowids, FiniteSetTheorems, WellFoundedInduction, TLAPS

(* A set of natural numbers that is not empty has a least member.          *)
LEMMA LeastNatural ==
    ASSUME NEW S \in SUBSET Nat, S # {}
    PROVE  \E n \in S : \A m \in S : n <= m
<1> DEFINE Less == {p \in Nat \X Nat : p[1] < p[2]}
<1>1. IsWellFoundedOn(Less, Nat)
  BY NatLessThanWellFounded DEF OpToRel
<1>2. PICK n \in S : \A m \in S : <<m, n>> \notin Less
  <2> HIDE DEF Less
  <2> QED
    BY <1>1, WFMin
<1>3. ASSUME NEW m \in S PROVE n <= m
  <2>1. <<m, n>> \in Nat \X Nat /\ <<m, n>>[1] = m /\ <<m, n>>[2] = n
    OBVIOUS
  <2>2. m < n => <<m, n>> \in Less
    BY <2>1
  <2> QED
    BY <2>2, <1>2
<1> QED
  BY <1>3

(* A set of numbers below a bound that is not empty has a largest member.  *)
LEMMA LargestNatural ==
    ASSUME NEW N \in Nat, NEW S, \A m \in S : m \in Nat /\ m <= N, S # {}
    PROVE  \E n \in S : \A m \in S : m <= n
<1> DEFINE Above == {n \in Nat : \A m \in S : m <= n}
<1>1. N \in Above /\ Above \in SUBSET Nat
  OBVIOUS
<1>2. PICK n \in Above : \A k \in Above : n <= k
  <2> HIDE DEF Above
  <2> QED
    BY <1>1, LeastNatural
<1>3. n \in S
  <2> SUFFICES ASSUME n \notin S PROVE FALSE
    OBVIOUS
  <2>1. PICK k \in S : k < n
    BY <1>2
  <2>2. n - 1 \in Nat /\ \A m \in S : m <= n - 1
    BY <2>1, <1>2
  <2>3. n - 1 \in Above
    BY <2>2
  <2> QED
    BY <2>3, <1>2
<1> QED
  BY <1>3


(* One more number is at most one more element.                            *)
LEMMA OneMore ==
    ASSUME NEW S, NEW T, IsFiniteSet(T), NEW x, S \subseteq T \cup {x}
    PROVE  /\ IsFiniteSet(S)
           /\ Cardinality(S) <= Cardinality(T) + 1
<1> DEFINE c == Cardinality(T)
<1>0. c \in Nat
  BY FS_CardinalityType
<1>1. IsFiniteSet(T \cup {x}) /\ Cardinality(T \cup {x}) <= c + 1
  <2>1. /\ IsFiniteSet(T \cup {x})
        /\ Cardinality(T \cup {x}) = IF x \in T THEN c ELSE c + 1
    BY FS_AddElement
  <2> HIDE DEF c
  <2> QED
    BY <2>1, <1>0
<1>2. IsFiniteSet(S) /\ Cardinality(S) <= Cardinality(T \cup {x})
  BY <1>1, FS_Subset
<1> QED
  BY <1>1, <1>2, FS_CardinalityType

(* ORDER BY and LIMIT: no more than K numbers have fewer than K below      *)
(* them.                                                                   *)
LEMMA FirstFew ==
    ASSUME NEW N \in Nat, NEW S, \A x \in S : x \in Nat /\ x <= N, NEW K \in Nat
    PROVE  LET First == {x \in S : Cardinality({y \in S : y < x}) < K}
           IN  IsFiniteSet(First) /\ Cardinality(First) <= K
<1> DEFINE Below(x) == {y \in S : y < x}
           Size(x)  == Cardinality(Below(x))
           First    == {x \in S : Size(x) < K}
           Many     == {n \in 0..(N + 1) : Size(n) >= K}
<1>1. S \in SUBSET Nat /\ IsFiniteSet(S)
  <2>1. S \in SUBSET Nat
    OBVIOUS
  <2> QED
    BY <2>1, FS_BoundedSetOfNaturals
<1>2. \A x : IsFiniteSet(Below(x)) /\ Size(x) \in Nat
  BY <1>1, FS_Subset, FS_CardinalityType
<1>3. ASSUME NEW x, First \subseteq Below(x), Size(x) <= K
      PROVE  IsFiniteSet(First) /\ Cardinality(First) <= K
  <2> HIDE DEF First, Below
  <2>1. IsFiniteSet(First) /\ Cardinality(First) <= Cardinality(Below(x))
    BY <1>2, <1>3, FS_Subset
  <2>2. Cardinality(First) \in Nat /\ Cardinality(Below(x)) \in Nat
    BY <1>2, <2>1, FS_CardinalityType
  <2> QED
    BY <1>3, <2>1, <2>2
<1>4. CASE Many = {}
  <2>1. Size(N + 1) < K
    <3> HIDE DEF Size
    <3>1. N + 1 \in 0..(N + 1)
      OBVIOUS
    <3>2. N + 1 \notin Many
      BY <1>4
    <3> QED
      BY <3>1, <3>2, <1>2
  <2>2. First \subseteq Below(N + 1)
    OBVIOUS
  <2> HIDE DEF First, Below, Size
  <2>3. Size(N + 1) <= K
    BY <2>1, <1>2
  <2>4. IsFiniteSet(First) /\ Cardinality(First) <= K
    BY <2>2, <2>3, <1>3
  <2> QED
    BY <2>4 DEF First, Size, Below
<1>5. CASE Many # {}
  <2>1. PICK n \in Many : \A m \in Many : n <= m
    <3> HIDE DEF Many
    <3>1. Many \in SUBSET Nat
      BY DEF Many
    <3> QED
      BY <3>1, <1>5, LeastNatural
  <2>2. First \subseteq Below(n)
    <3> SUFFICES ASSUME NEW x \in First, x \notin Below(n) PROVE FALSE
      OBVIOUS
    <3>1. Below(n) \subseteq Below(x)
      OBVIOUS
    <3>2. Size(n) <= Size(x)
      BY <3>1, <1>2, FS_Subset
    <3>3. Size(x) < K /\ Size(n) >= K
      OBVIOUS
    <3> HIDE DEF Size
    <3>4. Size(x) \in Nat /\ Size(n) \in Nat
      BY <1>2
    <3> QED
      BY <3>2, <3>3, <3>4
  <2>3. Size(n) <= K
    <3>1. CASE n = 0
      <4>1. Below(n) = {}
        BY <3>1
      <4>2. Size(n) = 0
        BY <4>1, FS_EmptySet
      <4> QED
        BY <4>2
    <3>2. CASE n # 0
      <4>1. Below(n) \subseteq Below(n - 1) \cup {n - 1}
        OBVIOUS
      <4>2. Size(n) <= Size(n - 1) + 1
        <5> HIDE DEF Below
        <5> QED
          BY <4>1, <1>2, OneMore
      <4> HIDE DEF Size
      <4>3. n - 1 \in 0..(N + 1) /\ n - 1 \notin Many
        BY <3>2, <2>1
      <4>4. Size(n) \in Nat /\ Size(n - 1) \in Nat
        BY <1>2
      <4>5. Size(n - 1) < K
        BY <4>3, <4>4
      <4> QED
        BY <4>2, <4>4, <4>5
    <3> QED
      BY <3>1, <3>2
  <2> HIDE DEF First, Below, Size
  <2>4. IsFiniteSet(First) /\ Cardinality(First) <= K
    BY <2>2, <2>3, <1>3
  <2> QED
    BY <2>4 DEF First, Size, Below
<1> QED
  BY <1>4, <1>5

AllAbove(S, x) == {u \in S : u > x}

(* A number with K or more above it has among those K that have fewer than *)
(* K above them.                                                           *)
LEMMA LastFew ==
    ASSUME NEW N \in Nat, NEW S, \A x \in S : x \in Nat /\ x <= N, NEW K \in Nat \ {0},
           NEW t \in S, Cardinality(AllAbove(S, t)) >= K
    PROVE  \E Last \in SUBSET AllAbove(S, t) :
               /\ IsFiniteSet(Last) /\ Cardinality(Last) = K
               /\ \A u \in Last : Cardinality(AllAbove(S, u)) < K
<1> DEFINE Above(x) == {u \in S : u > x}
           Size(x)  == Cardinality(Above(x))
           Few      == {n \in 0..N : Size(n) <= K}
<1>1. S \in SUBSET Nat /\ IsFiniteSet(S)
  <2>1. S \in SUBSET Nat
    OBVIOUS
  <2> QED
    BY <2>1, FS_BoundedSetOfNaturals
<1>2. \A x : IsFiniteSet(Above(x)) /\ Size(x) \in Nat
  BY <1>1, FS_Subset, FS_CardinalityType
<1>3. Size(N) = 0
  <2>1. Above(N) = {}
    OBVIOUS
  <2> QED
    BY <2>1, FS_EmptySet
<1>4. PICK n \in Few : \A m \in Few : n <= m
  <2>1. N \in Few
    BY <1>3
  <2>2. Few \in SUBSET Nat
    OBVIOUS
  <2> HIDE DEF Few
  <2> QED
    BY <2>1, <2>2, LeastNatural
<1>5. \A u \in Above(n) : Size(u) < K
  <2> SUFFICES ASSUME NEW u \in Above(n) PROVE Size(u) < K
    OBVIOUS
  <2>1. Above(u) \subseteq Above(n) \ {u}
    OBVIOUS
  <2>2. /\ IsFiniteSet(Above(n) \ {u})
        /\ Cardinality(Above(n) \ {u}) = Size(n) - 1
    <3> HIDE DEF Above
    <3> QED
      BY <1>2, FS_RemoveElement
  <2>3. Size(u) <= Size(n) - 1
    BY <2>1, <2>2, FS_Subset
  <2> HIDE DEF Size
  <2>4. Size(u) \in Nat /\ Size(n) \in Nat /\ Size(n) <= K
    BY <1>2
  <2> QED
    BY <2>3, <2>4
<1>6. t <= n
  <2> SUFFICES ASSUME n < t PROVE FALSE
    OBVIOUS
  <2>1. Size(t) < K
    BY <1>5
  <2>2. Size(t) >= K
    BY DEF AllAbove
  <2>3. Size(t) \in Nat
    BY <1>2
  <2> HIDE DEF Size
  <2> QED
    BY <2>1, <2>2, <2>3
<1>7. Size(n) = K
  <2>1. Size(n) <= K /\ Size(t) >= K
    BY DEF AllAbove
  <2>2. CASE n = t
    <3>1. Size(n) \in Nat /\ Size(n) = Size(t)
      BY <2>2, <1>2
    <3> HIDE DEF Size
    <3> QED
      BY <2>1, <3>1
  <2>3. CASE t < n
    <3>1. Above(n - 1) \subseteq Above(n) \cup {n}
      OBVIOUS
    <3>2. Size(n - 1) <= Size(n) + 1
      <4> HIDE DEF Above
      <4> QED
        BY <3>1, <1>2, OneMore
    <3> HIDE DEF Size
    <3>3. n - 1 \in 0..N /\ n - 1 \notin Few
      BY <2>3, <1>4
    <3>4. Size(n) \in Nat /\ Size(n - 1) \in Nat
      BY <1>2
    <3>5. Size(n - 1) > K
      BY <3>3, <3>4
    <3> QED
      BY <2>1, <3>2, <3>4, <3>5
  <2> QED
    BY <2>2, <2>3, <1>6
<1>8. Above(n) \subseteq AllAbove(S, t)
  BY <1>6 DEF AllAbove
<1>9. \A u \in Above(n) : Cardinality(AllAbove(S, u)) < K
  BY <1>5 DEF AllAbove
<1> HIDE DEF Above
<1> QED
  BY <1>2, <1>7, <1>8, <1>9

(***************************************************************************)
(* The next rowid exists and is not in use: below MaxRowid + 1, which is   *)
(* above every id in use, there is a least number above all of them.       *)
(***************************************************************************)
LEMMA NextRowidFresh ==
    ASSUME NEW Row, NEW table, IsTable(table, Row)
    PROVE  /\ NextRowid(table) \in 1..(MaxRowid + 1)
           /\ NextRowid(table) \notin DOMAIN table
<1> DEFINE Above == {n \in Nat : n >= 1 /\ \A used \in DOMAIN table : used < n}
<1>1. DOMAIN table \subseteq 1..MaxRowid
  BY DEF IsTable, Rowids
<1>2. MaxRowid + 1 \in Above /\ Above \in SUBSET Nat
  BY <1>1, MaxRowidAssumption
<1>3. PICK n \in Above : \A m \in Above : n <= m
  <2> HIDE DEF Above
  <2> QED
    BY <1>2, LeastNatural
<1>4. ASSUME NEW m \in Above PROVE n <= m
  BY <1>3
<1>5. n \in 1..(MaxRowid + 1)
  BY <1>2, <1>4, MaxRowidAssumption
<1>6. n = 1 \/ n - 1 \in DOMAIN table
  <2> SUFFICES ASSUME n # 1 PROVE n - 1 \in DOMAIN table
    OBVIOUS
  <2>1. n - 1 \notin Above /\ n - 1 \in Nat /\ n - 1 >= 1
    BY <1>4, <1>5
  <2>2. PICK used \in DOMAIN table : ~(used < n - 1)
    BY <2>1
  <2>3. used < n /\ used \in Int
    BY <1>1, MaxRowidAssumption
  <2> QED
    BY <2>2, <2>3
<1>7. \A used \in DOMAIN table : used < n
  OBVIOUS
<1>8. /\ NextRowid(table) \in 1..(MaxRowid + 1)
      /\ \A used \in DOMAIN table : used < NextRowid(table)
  BY <1>5, <1>6, <1>7 DEF NextRowid
<1> QED
  BY <1>8, <1>1, MaxRowidAssumption

-----------------------------------------------------------------------------
(* Tables *)

(* A table stays a table when a row of its type is inserted at a free id.  *)
LEMMA InsertTable ==
    ASSUME NEW Row, NEW table, IsTable(table, Row), HasRoom(table), NEW row \in Row
    PROVE  /\ IsTable(Insert(table, row), Row)
           /\ DOMAIN Insert(table, row) = DOMAIN table \cup {NextRowid(table)}
           /\ NextRowid(table) \notin DOMAIN table
           /\ Insert(table, row)[NextRowid(table)] = row
           /\ \A id \in DOMAIN table : Insert(table, row)[id] = table[id]
<1>1. NextRowid(table) \in Rowids /\ NextRowid(table) \notin DOMAIN table
  BY NextRowidFresh DEF HasRoom
<1> QED
  BY <1>1 DEF IsTable, Insert

(* UPDATE by id keeps the ids in use and the type of the rows.             *)
LEMMA UpdateTable ==
    ASSUME NEW Row, NEW table, IsTable(table, Row), NEW id, NEW row \in Row
    PROVE  /\ IsTable(Update(table, id, row), Row)
           /\ DOMAIN Update(table, id, row) = DOMAIN table
           /\ \A i \in DOMAIN table :
                  Update(table, id, row)[i] = IF i = id THEN row ELSE table[i]
BY DEF IsTable, Update

(* DELETE leaves a table of the rows that were not deleted.                *)
LEMMA DeleteTable ==
    ASSUME NEW Row, NEW table, IsTable(table, Row), NEW ids
    PROVE  /\ IsTable(Delete(table, ids), Row)
           /\ DOMAIN Delete(table, ids) = DOMAIN table \ ids
           /\ \A i \in DOMAIN table \ ids : Delete(table, ids)[i] = table[i]
BY DEF IsTable, Delete, Restrict
=============================================================================
