------------------------------ MODULE Database ------------------------------
(***************************************************************************)
(* The inventory as SQLite stores it: the tables bins and items, the       *)
(* full-text index items_fts that triggers keep beside items, the UNIQUE   *)
(* index on bins.name and the foreign key items.bin_id -> bins.id.         *)
(*                                                                         *)
(* Each operator is one SQL statement, triggers included, as a function    *)
(* from a database to a database; each ...Allowed predicate says that no   *)
(* constraint rejects the statement.                                       *)
(*                                                                         *)
(* A bin's category and description are one value, its info; an item's     *)
(* name, description and keywords are one value, its text, which is also   *)
(* what the full-text index holds of it.                                   *)
(***************************************************************************)
EXTENDS Rowids

CONSTANTS
    Names,      \* valid bin names: trimmed, not empty, within 200 characters
    Fold,       \* Fold[n] is n with A-Z folded, as COLLATE NOCASE compares it
    Infos,      \* category and description of a bin
    Texts       \* name, description and keywords of an item

Bin  == [name : Names, info : Infos]
Item == [bin : Rowids, text : Texts]

(* A row of an uploaded CSV file, as its parser hands it to commitImport.   *)
FileRow == [bin : Names, info : Infos, text : Texts]

(* A posting of the external-content index: what it holds under a rowid.   *)
Posting == [row : Rowids, text : Texts]

IsDatabase(d) ==
    /\ d = [bins |-> d.bins, items |-> d.items, fts |-> d.fts]
    /\ IsTable(d.bins, Bin)
    /\ IsTable(d.items, Item)
    /\ d.fts \subseteq Posting

EmptyDatabase == [bins |-> EmptyTable, items |-> EmptyTable, fts |-> {}]

Postings(items, ids) == {[row |-> i, text |-> items[i].text] : i \in ids}

-----------------------------------------------------------------------------
(* Queries *)

(***************************************************************************)
(* existingBinName: some bin other than except has the name, ignoring case *)
(* (except is 0, never an id, for a new bin).                              *)
(***************************************************************************)
HasCaseVariant(d, name, except) ==
    \E b \in DOMAIN d.bins \ {except} : Fold[d.bins[b].name] = Fold[name]

(* idx_bins_name compares exactly. *)
NameTaken(d, name, except) ==
    \E b \in DOMAIN d.bins \ {except} : d.bins[b].name = name

ItemsOf(d, b) == {i \in DOMAIN d.items : d.items[i].bin = b}

-----------------------------------------------------------------------------
(* Statements on bins *)

(* Mutant: a schema without idx_bins_name. *)
InsertBinNoIndex(d, bin) == HasRoom(d.bins)

InsertBinAllowed(d, bin) == HasRoom(d.bins) /\ ~NameTaken(d, bin.name, 0)

InsertBin(d, bin) == [d EXCEPT !.bins = Insert(d.bins, bin)]

UpdateBinAllowed(d, b, bin) ==
    b \in DOMAIN d.bins => ~NameTaken(d, bin.name, b)

UpdateBinRow(d, b, bin) == [d EXCEPT !.bins = Update(d.bins, b, bin)]

DeleteBinsAllowed(d, ids) == \A i \in DOMAIN d.items : d.items[i].bin \notin ids

DeleteBins(d, ids) == [d EXCEPT !.bins = Delete(d.bins, ids)]

-----------------------------------------------------------------------------
(* Statements on items, with the triggers items_ai, items_au and items_ad  *)

(* Mutant: PRAGMA foreign_keys set on another connection than this one. *)
InsertItemNoForeignKey(d, item) == HasRoom(d.items)

InsertItemAllowed(d, item) == HasRoom(d.items) /\ item.bin \in DOMAIN d.bins

InsertItem(d, item) ==
    LET items == Insert(d.items, item)
    IN  [bins  |-> d.bins,
         items |-> items,
         fts   |-> d.fts \cup Postings(items, {NextRowid(d.items)})]

UpdateItemAllowed(d, i, item) ==
    i \in DOMAIN d.items => item.bin \in DOMAIN d.bins

(* Mutant: items_au without its 'delete' half. *)
UpdateItemKeepsPosting(d, i, item) ==
    LET items == Update(d.items, i, item)
    IN  [bins  |-> d.bins,
         items |-> items,
         fts   |-> d.fts \cup Postings(items, {i} \cap DOMAIN d.items)]

UpdateItemRow(d, i, item) ==
    LET touched == {i} \cap DOMAIN d.items
        items   == Update(d.items, i, item)
    IN  [bins  |-> d.bins,
         items |-> items,
         fts   |-> (d.fts \ Postings(d.items, touched)) \cup Postings(items, touched)]

DeleteItems(d, ids) ==
    [bins  |-> d.bins,
     items |-> Delete(d.items, ids),
     fts   |-> d.fts \ Postings(d.items, ids \cap DOMAIN d.items)]

-----------------------------------------------------------------------------
(* What the schema keeps true of every database the program leaves behind  *)

ForeignKeysHold(d) ==
    \A i \in DOMAIN d.items : d.items[i].bin \in DOMAIN d.bins

NamesUnique(d) ==
    \A a, b \in DOMAIN d.bins : d.bins[a].name = d.bins[b].name => a = b

IndexInSync(d) == d.fts = Postings(d.items, DOMAIN d.items)

Consistent(d) == ForeignKeysHold(d) /\ NamesUnique(d) /\ IndexInSync(d)
=============================================================================
