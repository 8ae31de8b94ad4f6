--------------------------- MODULE InventorySpec ----------------------------
(***************************************************************************)
(* What the inventory promises its users: bins and items change by whole   *)
(* operations only.  However requests interleave, and whether or not the   *)
(* process dies in the middle of one, somebody who looks sees each of      *)
(* them done completely or not at all.  Module Inventory implements this.  *)
(***************************************************************************)
EXTENDS Database, Sequences

CONSTANT Files   \* the row sequences an uploaded CSV can parse to

VARIABLE store   \* [bins, items]

With(table, id, row) ==
    [i \in DOMAIN table \cup {id} |-> IF i = id THEN row ELSE table[i]]

Without(table, ids) == [i \in DOMAIN table \ ids |-> table[i]]

Init == store = [bins |-> EmptyTable, items |-> EmptyTable]

-----------------------------------------------------------------------------

AddBin ==
    \E id \in Rowids \ DOMAIN store.bins, bin \in Bin :
        /\ ~NameTaken(store, bin.name, 0)
        /\ store' = [store EXCEPT !.bins = With(@, id, bin)]

EditBin ==
    \E id \in DOMAIN store.bins, bin \in Bin :
        /\ ~NameTaken(store, bin.name, id)
        /\ store' = [store EXCEPT !.bins = With(@, id, bin)]

(* A bin goes together with everything that is in it. *)
RemoveBin ==
    \E id \in DOMAIN store.bins :
        store' = [bins  |-> Without(store.bins, {id}),
                  items |-> Without(store.items, ItemsOf(store, id))]

AddItem ==
    \E id \in Rowids \ DOMAIN store.items, item \in Item :
        /\ item.bin \in DOMAIN store.bins
        /\ store' = [store EXCEPT !.items = With(@, id, item)]

EditItem ==
    \E id \in DOMAIN store.items, item \in Item :
        /\ item.bin \in DOMAIN store.bins
        /\ store' = [store EXCEPT !.items = With(@, id, item)]

RemoveItem ==
    \E id \in DOMAIN store.items :
        store' = [store EXCEPT !.items = Without(@, {id})]

(***************************************************************************)
(* Importing a file adds one item per row, in the bin of that very name,   *)
(* and makes one bin for each name nobody had yet, described as its first  *)
(* row says.  What was there stays as it was, unless the import replaces   *)
(* the inventory; it never replaces it with nothing.                       *)
(***************************************************************************)
Load(file, replace) ==
    LET keptBins  == IF replace THEN {} ELSE DOMAIN store.bins
        keptItems == IF replace THEN {} ELSE DOMAIN store.items
        keptNames == {store.bins[b].name : b \in keptBins}
        newBins   == DOMAIN store'.bins \ keptBins
        newItems  == DOMAIN store'.items \ keptItems
        rows      == DOMAIN file
    IN  /\ replace => file # <<>>
        /\ \A b \in keptBins :
               b \in DOMAIN store'.bins /\ store'.bins[b] = store.bins[b]
        /\ \A i \in keptItems :
               i \in DOMAIN store'.items /\ store'.items[i] = store.items[i]
        /\ {store'.bins[b].name : b \in newBins}
               = {file[k].bin : k \in rows} \ keptNames
        /\ \A b \in newBins : \E k \in rows :
               /\ store'.bins[b] = [name |-> file[k].bin, info |-> file[k].info]
               /\ \A earlier \in 1..(k - 1) : file[earlier].bin # file[k].bin
        /\ NamesUnique(store')
        /\ \E slot \in Bijection(rows, newItems) : \A k \in rows :
               /\ store'.items[slot[k]].text = file[k].text
               /\ store'.items[slot[k]].bin \in DOMAIN store'.bins
               /\ store'.bins[store'.items[slot[k]].bin].name = file[k].bin

Import == \E file \in Files, replace \in BOOLEAN : Load(file, replace)

Next ==
    \/ AddBin \/ EditBin \/ RemoveBin
    \/ AddItem \/ EditItem \/ RemoveItem
    \/ Import

Spec == Init /\ [][Next]_store
=============================================================================
