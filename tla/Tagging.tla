------------------------------ MODULE Tagging -------------------------------
(***************************************************************************)
(* AI tagging: POST /items/tag (TagItems) beside the requests that add,    *)
(* edit and delete items.                                                  *)
(*                                                                         *)
(* A run takes the mutex aiTagMu, reads a batch of untagged items once,    *)
(* and then asks the provider about each of them in turn, which takes      *)
(* seconds.  Each answer is written back with an UPDATE of its own, made   *)
(* from the keywords the batch query read.                                 *)
(*                                                                         *)
(* Keywords are a set of words: mergeKeywords appends the words that are   *)
(* not there yet.  A "hard" item is one the provider never gives a usable  *)
(* tag for; it answers such an item with nothing or with an error.  The    *)
(* model is of a tag_count above 0: with 0 items are marked without asking.*)
(***************************************************************************)
EXTENDS Rowids, FiniteSets, FiniteSetsExt

CONSTANTS
    Requests,       \* the clicks on the button that can be in progress at once
    Nobody,         \* aiTagMu while it is not held
    BatchSize,      \* aiTagBatchSize
    FailureLimit,   \* aiTagConsecutiveFailureLimit
    MaxKeywords,    \* maxKeywordsLen, in words
    Words,          \* the words keywords are made of
    MaxHard         \* bound: hard items in the inventory at once

ASSUME TaggingAssumption ==
    /\ Nobody \notin Requests
    /\ BatchSize \in Nat \ {0}
    /\ FailureLimit \in Nat \ {0}
    /\ MaxKeywords \in Nat
    /\ MaxHard \in Nat

VARIABLES
    items,     \* the items table
    aiTagMu,   \* the request that holds the mutex, or Nobody
    batch      \* what each run still has to do, or NotRunning

vars == <<items, aiTagMu, batch>>

Item == [keywords : SUBSET Words, tagged : BOOLEAN, hard : BOOLEAN]

(* What a run has left of the rows that the batch query gave it, and how   *)
(* many of them failed in a row just now.                                  *)
IsBatch(b) ==
    /\ b = [left |-> b.left, failures |-> b.failures,
            expired |-> b.expired, running |-> b.running]
    /\ IsTable(b.left, Item) /\ Cardinality(DOMAIN b.left) <= BatchSize
    /\ b.failures \in 0..FailureLimit
    /\ b.expired \in BOOLEAN /\ b.running \in BOOLEAN

NotRunning == [left |-> EmptyTable, failures |-> 0, expired |-> FALSE, running |-> FALSE]

Init ==
    /\ items = EmptyTable
    /\ aiTagMu = Nobody
    /\ batch = [r \in Requests |-> NotRunning]

UntaggedIds == {id \in DOMAIN items : ~items[id].tagged}

(* Mutant: the query without its LIMIT. *)
SelectAllUntagged == Restrict(items, UntaggedIds)

(* WHERE ai_tagged = 0 ORDER BY id LIMIT BatchSize *)
SelectUntagged ==
    Restrict(items, {id \in UntaggedIds :
                         Cardinality({j \in UntaggedIds : j < id}) < BatchSize})

-----------------------------------------------------------------------------
(* A run *)

StartRun(r) ==
    /\ ~batch[r].running
    /\ batch' = [batch EXCEPT ![r] =
           [left |-> SelectUntagged, failures |-> 0,
            expired |-> FALSE, running |-> TRUE]]
    /\ UNCHANGED items

(* Mutant: TryLock's answer ignored. *)
ClickIgnoresLock(r) == StartRun(r) /\ aiTagMu' = r

(* A click while another run holds the mutex is told so and changes nothing. *)
Click(r) ==
    /\ aiTagMu = Nobody
    /\ aiTagMu' = r
    /\ StartRun(r)

GoesOn(r) ==
    /\ batch[r].running
    /\ DOMAIN batch[r].left # {}
    /\ ~batch[r].expired
    /\ batch[r].failures < FailureLimit

(* Rows are taken in the order of their ids. *)
Current(r) == Min(DOMAIN batch[r].left)

(* The run goes on to its next row, with so many failures in a row.        *)
NextRow(r, failures) ==
    batch' = [batch EXCEPT ![r] =
        [left |-> Delete(batch[r].left, {Current(r)}), failures |-> failures,
         expired |-> FALSE, running |-> TRUE]]

(* Mutant: the run gives up one failure early. *)
CountFailureTooSoon(r) == NextRow(r, FailureLimit)

CountFailure(r) == NextRow(r, batch[r].failures + 1)

(***************************************************************************)
(* The provider errs, or answers without a tag: the item is left for a     *)
(* later run and one more failure in a row is counted.  At the limit the   *)
(* run stops.                                                              *)
(***************************************************************************)
TagFails(r) ==
    /\ GoesOn(r)
    /\ CountFailure(r)
    /\ UNCHANGED <<items, aiTagMu>>

(***************************************************************************)
(* The provider answers with tags.  Those that only echo the item's name   *)
(* are dropped, maybe all of them; the others are appended to the keywords *)
(* the batch query read, and the row of that id, if there is one, gets the *)
(* result.                                                                 *)
(***************************************************************************)
TagSucceeds(r) ==
    /\ GoesOn(r)
    /\ ~batch[r].left[Current(r)].hard
    /\ \E new \in SUBSET Words :
           LET id == Current(r)
           IN  items' = [i \in DOMAIN items |->
                   IF i = id
                   THEN [items[i] EXCEPT !.keywords = batch[r].left[id].keywords \cup new,
                                         !.tagged = TRUE]
                   ELSE items[i]]
    /\ NextRow(r, 0)
    /\ UNCHANGED aiTagMu

(* The UPDATE itself fails: the item stays untagged, the run goes on. *)
UpdateFails(r) ==
    /\ GoesOn(r)
    /\ ~batch[r].left[Current(r)].hard
    /\ NextRow(r, 0)
    /\ UNCHANGED <<items, aiTagMu>>

(***************************************************************************)
(* aiTagBatchTimeout strikes, or the browser hangs up.  A crash of the     *)
(* process leaves what Expire and EndRun leave: the rows tagged so far.    *)
(***************************************************************************)
Expire(r) ==
    /\ batch[r].running
    /\ ~batch[r].expired
    /\ batch' = [batch EXCEPT ![r].expired = TRUE]
    /\ UNCHANGED <<items, aiTagMu>>

(* Mutant: aiTagMu unlocked only on the way through a whole batch. *)
EndRunKeepsLock(r) ==
    /\ batch[r].running
    /\ ~GoesOn(r)
    /\ batch' = [batch EXCEPT ![r] = NotRunning]
    /\ aiTagMu' = IF DOMAIN batch[r].left = {} THEN Nobody ELSE aiTagMu
    /\ UNCHANGED items

(* The page is rendered, and the deferred Unlock runs on every way out. *)
EndRun(r) ==
    /\ batch[r].running
    /\ ~GoesOn(r)
    /\ batch' = [batch EXCEPT ![r] = NotRunning]
    /\ aiTagMu' = Nobody
    /\ UNCHANGED items

-----------------------------------------------------------------------------
(* The other requests: items.go, and the imports and deletions of bins *)

TypedKeywords == {k \in SUBSET Words : Cardinality(k) <= MaxKeywords}

HardIds == {id \in DOMAIN items : items[id].hard}

AddItem ==
    /\ HasRoom(items)
    /\ \E k \in TypedKeywords, hard \in BOOLEAN :
           /\ hard => Cardinality(HardIds) < MaxHard
           /\ items' = Insert(items, [keywords |-> k, tagged |-> FALSE, hard |-> hard])
    /\ UNCHANGED <<aiTagMu, batch>>

(* An edit says nothing of ai_tagged. *)
EditItem ==
    /\ \E id \in DOMAIN items, k \in TypedKeywords :
           items' = [items EXCEPT ![id].keywords = k]
    /\ UNCHANGED <<aiTagMu, batch>>

(* One item, the items of a bin, or all of them. *)
DeleteItems ==
    /\ \E gone \in (SUBSET DOMAIN items) \ {{}} : items' = Delete(items, gone)
    /\ UNCHANGED <<aiTagMu, batch>>

-----------------------------------------------------------------------------

RunStep(r) == TagSucceeds(r) \/ TagFails(r) \/ UpdateFails(r) \/ EndRun(r)

Next ==
    \/ \E r \in Requests : Click(r) \/ RunStep(r) \/ Expire(r)
    \/ AddItem \/ EditItem \/ DeleteItems

Tags(r, id) == GoesOn(r) /\ Current(r) = id /\ TagSucceeds(r)

(***************************************************************************)
(* People keep clicking (README: "click the button again"), a run that has *)
(* begun goes on, and a provider that is asked about the same item again   *)
(* and again answers with a tag some time, unless the item is hard.        *)
(***************************************************************************)
Fairness ==
    /\ WF_vars(\E r \in Requests : Click(r))
    /\ \A r \in Requests : WF_vars(RunStep(r))
    /\ \A id \in Rowids : SF_vars(\E r \in Requests : Tags(r, id))

Spec == Init /\ [][Next]_vars /\ Fairness

-----------------------------------------------------------------------------
(* Properties *)

(***************************************************************************)
(* Type correctness.  No run holds more than a batch.  (aiTagBatchSize)    *)
(***************************************************************************)
TypeOK ==
    /\ IsTable(items, Item)
    /\ aiTagMu \in Requests \cup {Nobody}
    /\ DOMAIN batch = Requests
    /\ \A r \in Requests : IsBatch(batch[r])

(***************************************************************************)
(* A run never asks the provider, who is paid by the request, about an     *)
(* item that was tagged since the batch was read: what a batch still       *)
(* holds, if it is still in the table, is untagged.  (aiTagMu.TryLock)     *)
(***************************************************************************)
NothingPaidTwice ==
    \A r \in Requests : \A id \in DOMAIN batch[r].left \cap DOMAIN items :
        ~items[id].tagged

(***************************************************************************)
(* Whichever way a run ends, the button works again: a mutex taken is      *)
(* given back.  (the deferred Unlock)                                      *)
(***************************************************************************)
LockReleased == aiTagMu # Nobody ~> aiTagMu = Nobody

NeverExpires == \A r \in Requests : ~batch[r].expired

(***************************************************************************)
(* If runs are no longer cut short, every untagged item that the provider  *)
(* has a tag for is tagged in the end, or deleted.  (the batch loop, its   *)
(* selection and its failure counter)                                      *)
(***************************************************************************)
EveryItemTagged ==
    <>[]NeverExpires =>
        \A id \in Rowids :
            (id \in UntaggedIds \ HardIds) ~> (id \notin UntaggedIds \ HardIds)

(***************************************************************************)
(* A run only adds keywords to the row it writes.  (README: "It never      *)
(* edits or removes what's already there")                                 *)
(***************************************************************************)
ExistingKeywordsKept ==
    [][\A r \in Requests : TagSucceeds(r) =>
          \A id \in DOMAIN items : items[id].keywords \subseteq items'[id].keywords]_vars
=============================================================================
