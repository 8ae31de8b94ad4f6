--------------------------- MODULE TaggingProofs ----------------------------
(***************************************************************************)
(* Safety of module Tagging for any clicks, batches, limits and words.     *)
(* That nothing is paid for twice rests on the mutex: only its holder has  *)
(* rows left, so nobody else can have tagged them.                         *)
(***************************************************************************)
EXTENDS Tagging, RowidsProofs

(* Only the holder of the mutex runs, and only who runs has rows left.     *)
OneRun ==
    \A r \in Requests :
        /\ batch[r].running <=> aiTagMu = r
        /\ ~batch[r].running => DOMAIN batch[r].left = {}

GInv ==
    /\ TypeOK
    /\ OneRun
    /\ NothingPaidTwice

-----------------------------------------------------------------------------
(* Batches *)

(* Ids are natural numbers below a bound, and few.                         *)
LEMMA IdsBounded ==
  ASSUME NEW Row, NEW table, IsTable(table, Row)
  PROVE  /\ \A id \in DOMAIN table : id \in Nat /\ id <= MaxRowid
         /\ IsFiniteSet(DOMAIN table)
  <1>1. \A id \in DOMAIN table : id \in Nat /\ id <= MaxRowid
    BY MaxRowidAssumption DEF IsTable, Rowids
  <1>2. DOMAIN table \in SUBSET Nat
    BY <1>1
  <1> QED BY <1>1, <1>2, MaxRowidAssumption, FS_BoundedSetOfNaturals

(* The batch query returns untagged rows of the table, a batch at most.    *)
LEMMA SelectIsBatch ==
  ASSUME IsTable(items, Item)
  PROVE  /\ IsTable(SelectUntagged, Item)
         /\ Cardinality(DOMAIN SelectUntagged) <= BatchSize
         /\ DOMAIN SelectUntagged \subseteq UntaggedIds
  <1> DEFINE ids == {id \in UntaggedIds :
                         Cardinality({j \in UntaggedIds : j < id}) < BatchSize}
  <1>1. UntaggedIds \subseteq DOMAIN items
    BY DEF UntaggedIds
  <1>2. Cardinality(ids) <= BatchSize
    <2>1. \A id \in UntaggedIds : id \in Nat /\ id <= MaxRowid
      BY <1>1, IdsBounded
    <2> QED BY <2>1, FirstFew, MaxRowidAssumption, TaggingAssumption
  <1> HIDE DEF ids
  <1>3. ids \subseteq UntaggedIds
    BY DEF ids
  <1>4. DOMAIN Restrict(items, ids) = ids /\ IsTable(Restrict(items, ids), Item)
    BY <1>1, <1>3 DEF Restrict, IsTable
  <1>5. SelectUntagged = Restrict(items, ids)
    BY DEF SelectUntagged, ids
  <1> QED BY <1>2, <1>3, <1>4, <1>5

(* While rows are left there is a current one.                             *)
LEMMA CurrentIsLeft ==
  ASSUME NEW r \in Requests, IsBatch(batch[r]), DOMAIN batch[r].left # {}
  PROVE  Current(r) \in DOMAIN batch[r].left
  <1> DEFINE ids == DOMAIN batch[r].left
  <1>1. ids \in SUBSET Nat
    BY IdsBounded DEF IsBatch
  <1>2. \E n \in ids : \A m \in ids : n <= m
    BY <1>1, LeastNatural
  <1> HIDE DEF ids
  <1>3. Min(ids) \in ids
    BY <1>2 DEF Min
  <1> QED BY <1>3 DEF Current, ids

(* Going on to the next row leaves a batch of the other rows.              *)
LEMMA NextRowIsBatch ==
  ASSUME TypeOK, NEW r \in Requests, NEW failures \in 0..FailureLimit,
         GoesOn(r), NextRow(r, failures)
  PROVE  /\ DOMAIN batch' = Requests
         /\ \A q \in Requests : IsBatch(batch'[q])
         /\ \A q \in Requests \ {r} : batch'[q] = batch[q]
         /\ batch'[r].running = batch[r].running
         /\ DOMAIN batch'[r].left = DOMAIN batch[r].left \ {Current(r)}
  <1> DEFINE left == Delete(batch[r].left, {Current(r)})
             next == [left |-> left, failures |-> failures,
                      expired |-> FALSE, running |-> TRUE]
  <1>1. batch' = [batch EXCEPT ![r] = next]
    BY DEF NextRow
  <1>2. IsBatch(batch[r]) /\ DOMAIN batch = Requests
    BY DEF TypeOK
  <1>3. IsTable(left, Item) /\ DOMAIN left = DOMAIN batch[r].left \ {Current(r)}
    <2>1. IsTable(batch[r].left, Item)
      BY <1>2 DEF IsBatch
    <2> QED BY <2>1, DeleteTable
  <1>4. Cardinality(DOMAIN left) <= BatchSize
    <2>1. IsFiniteSet(DOMAIN batch[r].left) /\ Cardinality(DOMAIN batch[r].left) <= BatchSize
      BY <1>2, IdsBounded DEF IsBatch
    <2>2. /\ IsFiniteSet(DOMAIN left)
          /\ Cardinality(DOMAIN left) <= Cardinality(DOMAIN batch[r].left)
      BY <1>3, <2>1, FS_Subset
    <2>3. Cardinality(DOMAIN left) \in Nat /\ Cardinality(DOMAIN batch[r].left) \in Nat
      BY <2>1, <2>2, FS_CardinalityType
    <2> HIDE DEF left
    <2> QED BY <2>1, <2>2, <2>3, TaggingAssumption
  <1> HIDE DEF left
  <1>5. IsBatch(next) /\ next.left = left /\ next.running = batch[r].running
    BY <1>3, <1>4 DEF IsBatch, GoesOn, TypeOK
  <1> HIDE DEF next
  <1>6. batch'[r] = next /\ \A q \in Requests \ {r} : batch'[q] = batch[q]
    BY <1>1, <1>2
  <1> QED BY <1>1, <1>2, <1>3, <1>5, <1>6 DEF TypeOK

-----------------------------------------------------------------------------
(* The invariant *)

(* An empty inventory with no run in progress.                             *)
LEMMA InitGInv ==
  Init => GInv
  <1> SUFFICES ASSUME Init PROVE GInv
    OBVIOUS
  <1> USE TaggingAssumption DEF Init
  <1>1. DOMAIN EmptyTable = {} /\ IsTable(EmptyTable, Item)
    BY DEF EmptyTable, IsTable
  <1>2. IsBatch(NotRunning)
    BY <1>1, FS_EmptySet DEF IsBatch, NotRunning
  <1>3. TypeOK
    BY <1>1, <1>2 DEF TypeOK
  <1>4. OneRun /\ NothingPaidTwice
    BY <1>1 DEF OneRun, NothingPaidTwice, NotRunning
  <1> QED BY <1>3, <1>4 DEF GInv

(* A click that gets the mutex starts with rows that are all untagged.     *)
LEMMA ClickStep ==
  ASSUME GInv, NEW r \in Requests, Click(r)
  PROVE  GInv'
  <1> DEFINE first == [left |-> SelectUntagged, failures |-> 0,
                       expired |-> FALSE, running |-> TRUE]
  <1>1. /\ aiTagMu = Nobody /\ aiTagMu' = r /\ items' = items
        /\ batch' = [batch EXCEPT ![r] = first]
    BY DEF Click, StartRun
  <1>2. /\ IsTable(SelectUntagged, Item)
        /\ Cardinality(DOMAIN SelectUntagged) <= BatchSize
        /\ DOMAIN SelectUntagged \subseteq UntaggedIds
    BY SelectIsBatch DEF GInv, TypeOK
  <1>3. IsBatch(first) /\ first.left = SelectUntagged /\ first.running
    BY <1>2, TaggingAssumption DEF IsBatch
  <1> HIDE DEF first
  <1>4. DOMAIN batch = Requests
    BY DEF GInv, TypeOK
  <1>5. batch'[r] = first /\ \A q \in Requests \ {r} : batch'[q] = batch[q]
    BY <1>1, <1>4
  <1>6. TypeOK'
    BY <1>1, <1>3, <1>4, <1>5 DEF GInv, TypeOK
  <1>7. OneRun'
    BY <1>1, <1>3, <1>5, TaggingAssumption DEF GInv, OneRun
  <1>8. NothingPaidTwice'
    BY <1>1, <1>2, <1>3, <1>5 DEF GInv, NothingPaidTwice, UntaggedIds
  <1> QED BY <1>6, <1>7, <1>8 DEF GInv

(* The run goes on to its next row and leaves the table alone.             *)
LEMMA RowFailsStep ==
  ASSUME GInv, NEW r \in Requests, TagFails(r) \/ UpdateFails(r)
  PROVE  GInv'
  <1>1. /\ GoesOn(r) /\ items' = items /\ aiTagMu' = aiTagMu
        /\ \E n \in 0..FailureLimit : NextRow(r, n)
    <2>1. batch[r].failures \in 0..FailureLimit
      BY DEF GInv, TypeOK, IsBatch
    <2> QED BY <2>1, TaggingAssumption DEF TagFails, UpdateFails, CountFailure, GoesOn
  <1>2. /\ DOMAIN batch' = Requests
        /\ \A q \in Requests : IsBatch(batch'[q])
        /\ \A q \in Requests \ {r} : batch'[q] = batch[q]
        /\ batch'[r].running = batch[r].running
        /\ DOMAIN batch'[r].left = DOMAIN batch[r].left \ {Current(r)}
    BY <1>1, NextRowIsBatch DEF GInv
  <1>3. TypeOK'
    BY <1>1, <1>2 DEF GInv, TypeOK
  <1>4. OneRun' /\ NothingPaidTwice'
    BY <1>1, <1>2 DEF GInv, OneRun, NothingPaidTwice
  <1> QED BY <1>3, <1>4 DEF GInv

(* The row that is tagged leaves the batch, and no other run has rows.     *)
LEMMA TagSucceedsStep ==
  ASSUME GInv, NEW r \in Requests, TagSucceeds(r)
  PROVE  GInv'
  <1> DEFINE id == Current(r)
  <1>1. PICK new \in SUBSET Words :
          items' = [i \in DOMAIN items |->
                      IF i = id
                      THEN [items[i] EXCEPT !.keywords = batch[r].left[id].keywords \cup new,
                                            !.tagged = TRUE]
                      ELSE items[i]]
    BY DEF TagSucceeds
  <1>2. GoesOn(r) /\ NextRow(r, 0) /\ aiTagMu' = aiTagMu
    BY DEF TagSucceeds
  <1>3. /\ DOMAIN batch' = Requests
        /\ \A q \in Requests : IsBatch(batch'[q])
        /\ \A q \in Requests \ {r} : batch'[q] = batch[q]
        /\ batch'[r].running = batch[r].running
        /\ DOMAIN batch'[r].left = DOMAIN batch[r].left \ {id}
    BY <1>2, NextRowIsBatch, TaggingAssumption DEF GInv
  <1>4. DOMAIN items' = DOMAIN items /\ \A i \in DOMAIN items \ {id} : items'[i] = items[i]
    BY <1>1
  <1>5. IsTable(items', Item)
    <2>1. IsTable(batch[r].left, Item) /\ id \in DOMAIN batch[r].left
      BY <1>2, CurrentIsLeft DEF GInv, TypeOK, IsBatch, GoesOn
    <2>2. batch[r].left[id].keywords \in SUBSET Words
      BY <2>1 DEF IsTable, Item
    <2>3. IsTable(items, Item)
      BY DEF GInv, TypeOK
    <2>4. ASSUME NEW i \in DOMAIN items PROVE items'[i] \in Item
      <3>1. items[i] \in Item
        BY <2>3 DEF IsTable
      <3>2. batch[r].left[id].keywords \cup new \in SUBSET Words
        BY <2>2
      <3> QED BY <1>1, <3>1, <3>2 DEF Item
    <2> HIDE DEF id
    <2> QED BY <1>1, <2>3, <2>4 DEF IsTable
  <1> HIDE DEF id
  <1>6. TypeOK'
    BY <1>2, <1>3, <1>5 DEF GInv, TypeOK
  <1>7. OneRun'
    BY <1>2, <1>3 DEF GInv, OneRun
  <1>8. \A q \in Requests \ {r} : DOMAIN batch[q].left = {}
    BY <1>2, TaggingAssumption DEF GInv, OneRun, GoesOn
  <1>9. NothingPaidTwice'
    BY <1>3, <1>4, <1>8 DEF GInv, NothingPaidTwice
  <1> QED BY <1>6, <1>7, <1>9 DEF GInv

(* A run that expires or ends leaves the table alone.                      *)
LEMMA EndStep ==
  ASSUME GInv, NEW r \in Requests, Expire(r) \/ EndRun(r)
  PROVE  GInv'
  <1>1. CASE Expire(r)
    <2>1. batch' = [batch EXCEPT ![r].expired = TRUE] /\ UNCHANGED <<items, aiTagMu>>
      BY <1>1 DEF Expire
    <2>2. IsBatch(batch[r]) /\ DOMAIN batch = Requests
      BY DEF GInv, TypeOK
    <2>3. IsBatch(batch'[r]) /\ batch'[r].left = batch[r].left
          /\ batch'[r].running = batch[r].running
      BY <2>1, <2>2 DEF IsBatch
    <2>4. DOMAIN batch' = Requests /\ \A q \in Requests \ {r} : batch'[q] = batch[q]
      BY <2>1, <2>2
    <2>5. TypeOK'
      BY <2>1, <2>3, <2>4 DEF GInv, TypeOK
    <2>6. OneRun' /\ NothingPaidTwice'
      BY <2>1, <2>3, <2>4 DEF GInv, OneRun, NothingPaidTwice
    <2> QED BY <2>5, <2>6 DEF GInv
  <1>2. CASE EndRun(r)
    <2>1. /\ batch[r].running /\ aiTagMu' = Nobody /\ items' = items
          /\ batch' = [batch EXCEPT ![r] = NotRunning]
      BY <1>2 DEF EndRun
    <2>2. DOMAIN batch = Requests
      BY DEF GInv, TypeOK
    <2>3. DOMAIN batch' = Requests /\ batch'[r] = NotRunning
          /\ \A q \in Requests \ {r} : batch'[q] = batch[q]
      BY <2>1, <2>2
    <2>4. IsBatch(NotRunning) /\ ~NotRunning.running /\ DOMAIN NotRunning.left = {}
      BY TaggingAssumption, FS_EmptySet DEF IsBatch, NotRunning, EmptyTable, IsTable
    <2>5. TypeOK'
      BY <2>1, <2>3, <2>4 DEF GInv, TypeOK
    <2>6. OneRun'
      BY <2>1, <2>3, <2>4, TaggingAssumption DEF GInv, OneRun
    <2>7. NothingPaidTwice'
      BY <2>1, <2>3, <2>4 DEF GInv, NothingPaidTwice
    <2> QED BY <2>5, <2>6, <2>7 DEF GInv
  <1> QED BY <1>1, <1>2

(* Forms and imports add untagged rows, edit keywords, and delete rows.    *)
LEMMA OtherRequestStep ==
  ASSUME GInv, AddItem \/ EditItem \/ DeleteItems
  PROVE  GInv'
  <1>1. UNCHANGED <<aiTagMu, batch>> /\ IsTable(items, Item)
    BY DEF AddItem, EditItem, DeleteItems, GInv, TypeOK
  <1>2. /\ IsTable(items', Item)
        /\ \A id \in DOMAIN items' : items'[id].tagged =>
               id \in DOMAIN items /\ items[id].tagged
    <2>1. CASE AddItem
      <3>1. PICK k \in TypedKeywords, hard \in BOOLEAN :
              items' = Insert(items, [keywords |-> k, tagged |-> FALSE, hard |-> hard])
        BY <2>1 DEF AddItem
      <3> DEFINE row == [keywords |-> k, tagged |-> FALSE, hard |-> hard]
      <3>2. row \in Item /\ ~row.tagged
        BY DEF Item, TypedKeywords
      <3>3. HasRoom(items) /\ items' = Insert(items, row)
        BY <2>1, <3>1 DEF AddItem
      <3> HIDE DEF row
      <3>4. /\ IsTable(items', Item)
            /\ DOMAIN items' = DOMAIN items \cup {NextRowid(items)}
            /\ items'[NextRowid(items)] = row
            /\ \A i \in DOMAIN items : items'[i] = items[i]
        BY <1>1, <3>2, <3>3, InsertTable
      <3> QED BY <3>2, <3>4
    <2>2. CASE EditItem
      <3>1. PICK id \in DOMAIN items, k \in TypedKeywords :
              items' = [items EXCEPT ![id].keywords = k]
        BY <2>2 DEF EditItem
      <3>2. \A i \in DOMAIN items : items[i] \in Item
        BY <1>1 DEF IsTable
      <3>3. DOMAIN items' = DOMAIN items
            /\ \A i \in DOMAIN items : items'[i] \in Item /\ items'[i].tagged = items[i].tagged
        BY <3>1, <3>2 DEF Item, TypedKeywords
      <3>4. items' = [i \in DOMAIN items' |-> items'[i]]
        BY <3>1, <1>1 DEF IsTable
      <3> QED BY <1>1, <3>3, <3>4 DEF IsTable
    <2>3. CASE DeleteItems
      <3>1. PICK gone : items' = Delete(items, gone)
        BY <2>3 DEF DeleteItems
      <3>2. /\ IsTable(Delete(items, gone), Item)
            /\ DOMAIN Delete(items, gone) = DOMAIN items \ gone
            /\ \A i \in DOMAIN items \ gone : Delete(items, gone)[i] = items[i]
        BY <1>1, DeleteTable
      <3> QED BY <3>1, <3>2
    <2> QED BY <2>1, <2>2, <2>3
  <1>3. TypeOK'
    BY <1>1, <1>2 DEF GInv, TypeOK
  <1>4. OneRun'
    BY <1>1 DEF GInv, OneRun
  <1>5. NothingPaidTwice'
    BY <1>1, <1>2 DEF GInv, NothingPaidTwice
  <1> QED BY <1>3, <1>4, <1>5 DEF GInv

(* The invariant holds in every state that is reached.                     *)
LEMMA GInvAlways ==
  Spec => []GInv
  <1>1. GInv /\ [Next]_vars => GInv'
    <2> SUFFICES ASSUME GInv, [Next]_vars PROVE GInv'
      OBVIOUS
    <2>1. CASE UNCHANGED vars
      BY <2>1 DEF vars, GInv, TypeOK, OneRun, NothingPaidTwice
    <2>2. ASSUME NEW r \in Requests, Click(r) \/ RunStep(r) \/ Expire(r)
          PROVE  GInv'
      BY <2>2, ClickStep, RowFailsStep, TagSucceedsStep, EndStep DEF RunStep
    <2> QED BY <2>1, <2>2, OtherRequestStep DEF Next
  <1> QED BY <1>1, InitGInv, PTL DEF Spec

-----------------------------------------------------------------------------

(* The state is well formed, and no run holds more than a batch.           *)
THEOREM BatchesAreBounded ==
  Spec => []TypeOK
  <1>1. GInv => TypeOK
    BY DEF GInv
  <1> QED BY <1>1, GInvAlways, PTL

(* The provider is never asked about an item that is tagged already,       *)
(* however many clicks, edits and deletions there are.                     *)
THEOREM NobodyPaysTwice ==
  Spec => []NothingPaidTwice
  <1>1. GInv => NothingPaidTwice
    BY DEF GInv
  <1> QED BY <1>1, GInvAlways, PTL
=============================================================================
