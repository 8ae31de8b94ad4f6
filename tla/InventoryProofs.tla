-------------------------- MODULE InventoryProofs ---------------------------
(***************************************************************************)
(* Safety of module Inventory for any set of requests, names, texts and    *)
(* files.  The schema's guarantees are not inductive by themselves: a      *)
(* commit makes work durable, so work has to be consistent at every step   *)
(* of a transaction, and a rollback or a query by another request relies   *)
(* on work and db being the same outside transactions.  On this rest two   *)
(* more results: that Inventory implements InventorySpec, and that every   *)
(* backup of it restores what it holds (module Restore).                   *)
(***************************************************************************)
EXTENDS Restore, RowidsProofs

TxOps == {"DeleteBin", "Import"}

(* Whoever is inside a transaction or reads rows holds the connection, and *)
(* nobody else; without a transaction everything is committed.             *)
TxHoldsConnection ==
    /\ \A r \in Requests : Holds(req[r]) <=> conn = r
    /\ (\A r \in Requests : req[r].op \notin TxOps) => work = db

IInv ==
    /\ TypeOK
    /\ Consistent(db)
    /\ Consistent(work)
    /\ TxHoldsConnection
    /\ DeleteNeverBlocked

-----------------------------------------------------------------------------
(* SQL statements *)

(* A database fresh from its migrations is typed and consistent.           *)
LEMMA EmptyDatabaseConsistent ==
    IsDatabase(EmptyDatabase) /\ Consistent(EmptyDatabase)
BY DEF IsDatabase, EmptyDatabase, EmptyTable, IsTable, Consistent,
       ForeignKeysHold, NamesUnique, IndexInSync, Postings

(* INSERT INTO bins, when the unique index lets it through, keeps types    *)
(* and schema.                                                             *)
LEMMA InsertBinSafe ==
    ASSUME NEW d, IsDatabase(d), Consistent(d),
           NEW bin \in Bin, InsertBinAllowed(d, bin)
    PROVE  /\ IsDatabase(InsertBin(d, bin))
           /\ Consistent(InsertBin(d, bin))
           /\ InsertBin(d, bin).items = d.items
           /\ \E b \in DOMAIN InsertBin(d, bin).bins : InsertBin(d, bin).bins[b] = bin
<1> DEFINE e == InsertBin(d, bin)
<1>1. /\ e = [bins |-> Insert(d.bins, bin), items |-> d.items, fts |-> d.fts]
      /\ e.bins = Insert(d.bins, bin) /\ e.items = d.items /\ e.fts = d.fts
  BY DEF IsDatabase, InsertBin
<1>2. /\ IsTable(e.bins, Bin)
      /\ DOMAIN e.bins = DOMAIN d.bins \cup {NextRowid(d.bins)}
      /\ e.bins[NextRowid(d.bins)] = bin
      /\ \A b \in DOMAIN d.bins : e.bins[b] = d.bins[b]
  BY <1>1, InsertTable DEF IsDatabase, InsertBinAllowed
<1> HIDE DEF e
<1>3. IsDatabase(e)
  BY <1>1, <1>2 DEF IsDatabase
<1>4. ForeignKeysHold(e)
  BY <1>1, <1>2 DEF Consistent, ForeignKeysHold
<1>5. 0 \notin DOMAIN d.bins
  BY MaxRowidAssumption DEF IsDatabase, IsTable, Rowids
<1>6. NamesUnique(e)
  BY <1>2, <1>5 DEF Consistent, NamesUnique, InsertBinAllowed, NameTaken
<1>7. IndexInSync(e)
  BY <1>1 DEF Consistent, IndexInSync
<1> QED
  BY <1>1, <1>2, <1>3, <1>4, <1>6, <1>7 DEF Consistent, e

(* UPDATE bins, when the unique index lets it through, keeps types and     *)
(* schema; an id that is gone changes nothing.                             *)
LEMMA UpdateBinSafe ==
    ASSUME NEW d, IsDatabase(d), Consistent(d),
           NEW b, NEW bin \in Bin, UpdateBinAllowed(d, b, bin)
    PROVE  IsDatabase(UpdateBinRow(d, b, bin)) /\ Consistent(UpdateBinRow(d, b, bin))
<1> DEFINE e == UpdateBinRow(d, b, bin)
<1>1. /\ e = [bins |-> Update(d.bins, b, bin), items |-> d.items, fts |-> d.fts]
      /\ e.bins = Update(d.bins, b, bin) /\ e.items = d.items /\ e.fts = d.fts
  BY DEF IsDatabase, UpdateBinRow
<1>2. /\ IsTable(e.bins, Bin)
      /\ DOMAIN e.bins = DOMAIN d.bins
      /\ \A i \in DOMAIN d.bins : e.bins[i] = IF i = b THEN bin ELSE d.bins[i]
  BY <1>1, UpdateTable DEF IsDatabase
<1> HIDE DEF e
<1>3. IsDatabase(e)
  BY <1>1, <1>2 DEF IsDatabase
<1>4. ForeignKeysHold(e)
  BY <1>1, <1>2 DEF Consistent, ForeignKeysHold
<1>5. NamesUnique(e)
  BY <1>2 DEF Consistent, NamesUnique, UpdateBinAllowed, NameTaken
<1>6. IndexInSync(e)
  BY <1>1 DEF Consistent, IndexInSync
<1> QED
  BY <1>3, <1>4, <1>5, <1>6 DEF Consistent, e

(* DELETE FROM bins, when no item refers to them, keeps types and schema.  *)
LEMMA DeleteBinsSafe ==
    ASSUME NEW d, IsDatabase(d), Consistent(d), NEW ids, DeleteBinsAllowed(d, ids)
    PROVE  IsDatabase(DeleteBins(d, ids)) /\ Consistent(DeleteBins(d, ids))
<1> DEFINE e == DeleteBins(d, ids)
<1>1. /\ e = [bins |-> Delete(d.bins, ids), items |-> d.items, fts |-> d.fts]
      /\ e.bins = Delete(d.bins, ids) /\ e.items = d.items /\ e.fts = d.fts
  BY DEF IsDatabase, DeleteBins
<1> HIDE DEF e
<1>2. /\ IsTable(e.bins, Bin)
      /\ DOMAIN e.bins = DOMAIN d.bins \ ids
      /\ \A i \in DOMAIN d.bins \ ids : e.bins[i] = d.bins[i]
  <2>1. IsTable(d.bins, Bin)
    BY DEF IsDatabase
  <2> QED
    BY <2>1, <1>1, DeleteTable
<1>3. IsDatabase(e)
  BY <1>1, <1>2 DEF IsDatabase
<1>4. ForeignKeysHold(e)
  BY <1>1, <1>2 DEF Consistent, ForeignKeysHold, DeleteBinsAllowed
<1>5. NamesUnique(e)
  BY <1>2 DEF Consistent, NamesUnique
<1>6. IndexInSync(e)
  BY <1>1 DEF Consistent, IndexInSync
<1> QED
  BY <1>3, <1>4, <1>5, <1>6 DEF Consistent, e

(* INSERT INTO items with its trigger keeps types and schema: the new      *)
(* posting is the new row's.                                               *)
LEMMA InsertItemSafe ==
    ASSUME NEW d, IsDatabase(d), Consistent(d),
           NEW item \in Item, InsertItemAllowed(d, item)
    PROVE  IsDatabase(InsertItem(d, item)) /\ Consistent(InsertItem(d, item))
<1> DEFINE e  == InsertItem(d, item)
           id == NextRowid(d.items)
<1>1. /\ e = [bins |-> d.bins, items |-> Insert(d.items, item),
              fts |-> d.fts \cup Postings(Insert(d.items, item), {id})]
      /\ e.bins = d.bins /\ e.items = Insert(d.items, item)
      /\ e.fts = d.fts \cup Postings(Insert(d.items, item), {id})
  BY DEF InsertItem
<1> HIDE DEF e
<1>2. /\ IsTable(e.items, Item)
      /\ DOMAIN e.items = DOMAIN d.items \cup {id}
      /\ e.items[id] = item
      /\ \A i \in DOMAIN d.items : e.items[i] = d.items[i]
  <2>1. IsTable(d.items, Item) /\ HasRoom(d.items)
    BY DEF IsDatabase, InsertItemAllowed
  <2> QED
    BY <2>1, <1>1, InsertTable
<1>3. e.fts = d.fts \cup Postings(e.items, {id})
  BY <1>1
<1> HIDE DEF id
<1>4. IndexInSync(e)
  BY <1>2, <1>3 DEF Consistent, IndexInSync, Postings
<1>5. e.fts \subseteq Posting
  BY <1>2, <1>4 DEF IndexInSync, Postings, Posting, IsTable, Item
<1>6. IsDatabase(e)
  BY <1>1, <1>2, <1>5 DEF IsDatabase
<1>7. ForeignKeysHold(e)
  BY <1>1, <1>2 DEF Consistent, ForeignKeysHold, InsertItemAllowed
<1>8. NamesUnique(e)
  BY <1>1 DEF Consistent, NamesUnique
<1> QED
  BY <1>4, <1>6, <1>7, <1>8 DEF Consistent, e

(* UPDATE items with both halves of its trigger keeps types and schema.    *)
LEMMA UpdateItemSafe ==
    ASSUME NEW d, IsDatabase(d), Consistent(d),
           NEW i, NEW item \in Item, UpdateItemAllowed(d, i, item)
    PROVE  IsDatabase(UpdateItemRow(d, i, item)) /\ Consistent(UpdateItemRow(d, i, item))
<1> DEFINE e       == UpdateItemRow(d, i, item)
           touched == {i} \cap DOMAIN d.items
<1>1. /\ e = [bins |-> e.bins, items |-> e.items, fts |-> e.fts]
      /\ e.bins = d.bins /\ e.items = Update(d.items, i, item)
      /\ e.fts = (d.fts \ Postings(d.items, touched)) \cup Postings(e.items, touched)
  BY DEF UpdateItemRow
<1> HIDE DEF e
<1>2. /\ IsTable(e.items, Item)
      /\ DOMAIN e.items = DOMAIN d.items
      /\ \A k \in DOMAIN d.items : e.items[k] = IF k = i THEN item ELSE d.items[k]
  <2>1. IsTable(d.items, Item)
    BY DEF IsDatabase
  <2> QED
    BY <2>1, <1>1, UpdateTable
<1>3. IndexInSync(e)
  BY <1>1, <1>2 DEF Consistent, IndexInSync, Postings
<1>4. e.fts \subseteq Posting
  BY <1>2, <1>3 DEF IndexInSync, Postings, Posting, IsTable, Item
<1>5. IsDatabase(e)
  BY <1>1, <1>2, <1>4 DEF IsDatabase
<1>6. ForeignKeysHold(e)
  BY <1>1, <1>2 DEF Consistent, ForeignKeysHold, UpdateItemAllowed
<1>7. NamesUnique(e)
  BY <1>1 DEF Consistent, NamesUnique
<1> QED
  BY <1>3, <1>5, <1>6, <1>7 DEF Consistent, e

(* DELETE FROM items with its trigger keeps types and schema, because no   *)
(* other row owns a posting that is removed.                               *)
LEMMA DeleteItemsSafe ==
    ASSUME NEW d, IsDatabase(d), Consistent(d), NEW ids
    PROVE  /\ IsDatabase(DeleteItems(d, ids))
           /\ Consistent(DeleteItems(d, ids))
           /\ DeleteItems(d, ids).bins = d.bins
           /\ DOMAIN DeleteItems(d, ids).items = DOMAIN d.items \ ids
           /\ \A i \in DOMAIN d.items \ ids : DeleteItems(d, ids).items[i] = d.items[i]
<1> DEFINE e == DeleteItems(d, ids)
<1>1. /\ e = [bins |-> e.bins, items |-> e.items, fts |-> e.fts]
      /\ e.bins = d.bins /\ e.items = Delete(d.items, ids)
      /\ e.fts = d.fts \ Postings(d.items, ids \cap DOMAIN d.items)
  BY DEF DeleteItems
<1> HIDE DEF e
<1>2. /\ IsTable(e.items, Item)
      /\ DOMAIN e.items = DOMAIN d.items \ ids
      /\ \A k \in DOMAIN d.items \ ids : e.items[k] = d.items[k]
  <2>1. IsTable(d.items, Item)
    BY DEF IsDatabase
  <2>2. /\ IsTable(Delete(d.items, ids), Item)
        /\ DOMAIN Delete(d.items, ids) = DOMAIN d.items \ ids
        /\ \A k \in DOMAIN d.items \ ids : Delete(d.items, ids)[k] = d.items[k]
    BY <2>1, DeleteTable
  <2> QED
    BY <2>2, <1>1
<1>3. IndexInSync(e)
  BY <1>1, <1>2 DEF Consistent, IndexInSync, Postings
<1>4. e.fts \subseteq Posting
  BY <1>1 DEF IsDatabase
<1>5. IsDatabase(e)
  BY <1>1, <1>2, <1>4 DEF IsDatabase
<1>6. ForeignKeysHold(e)
  BY <1>1, <1>2 DEF Consistent, ForeignKeysHold
<1>7. NamesUnique(e)
  BY <1>1 DEF Consistent, NamesUnique
<1> QED
  BY <1>1, <1>2, <1>3, <1>5, <1>6, <1>7 DEF Consistent, e

-----------------------------------------------------------------------------
(* The statements of the two transactions *)

(* What a replacing import starts from is a consistent database.           *)
LEMMA EmptiedSafe ==
    ASSUME NEW d, IsDatabase(d), Consistent(d)
    PROVE  IsDatabase(Emptied(d)) /\ Consistent(Emptied(d))
<1> DEFINE e == DeleteItems(d, DOMAIN d.items)
<1>1. IsDatabase(e) /\ Consistent(e) /\ DOMAIN e.items = {}
  BY DeleteItemsSafe
<1>2. DeleteBinsAllowed(e, DOMAIN d.bins)
  BY <1>1 DEF DeleteBinsAllowed
<1> HIDE DEF e
<1>3. IsDatabase(DeleteBins(e, DOMAIN d.bins)) /\ Consistent(DeleteBins(e, DOMAIN d.bins))
  BY <1>1, <1>2, DeleteBinsSafe
<1> QED
  BY <1>3 DEF Emptied, e

(* One row of an import keeps types and schema: the bin it names is the    *)
(* one found or the one just created.                                      *)
LEMMA LoadRowSafe ==
    ASSUME NEW d, IsDatabase(d), Consistent(d),
           NEW row \in FileRow, LoadRowAllowed(d, row)
    PROVE  IsDatabase(LoadRow(d, row)) /\ Consistent(LoadRow(d, row))
<1> DEFINE e    == FindOrCreateBin(d, row)
           bin  == [name |-> row.bin, info |-> row.info]
           item == [bin |-> BinNamed(e, row.bin), text |-> row.text]
<1>1. /\ IsDatabase(e) /\ Consistent(e) /\ e.items = d.items
      /\ \E b \in DOMAIN e.bins : e.bins[b].name = row.bin
  <2>1. CASE NameTaken(d, row.bin, 0)
    BY <2>1 DEF FindOrCreateBin, NameTaken
  <2>2. CASE ~NameTaken(d, row.bin, 0)
    <3>1. bin \in Bin /\ bin.name = row.bin
      BY DEF Bin, FileRow
    <3>2. InsertBinAllowed(d, bin)
      BY <2>2, <3>1 DEF InsertBinAllowed, LoadRowAllowed
    <3>3. e = InsertBin(d, bin)
      BY <2>2 DEF FindOrCreateBin
    <3> HIDE DEF e, bin
    <3> QED
      BY <3>1, <3>2, <3>3, InsertBinSafe
  <2> QED
    BY <2>1, <2>2
<1> HIDE DEF e
<1>2. BinNamed(e, row.bin) \in DOMAIN e.bins
  BY <1>1 DEF BinNamed
<1>3. item \in Item /\ item.bin = BinNamed(e, row.bin)
  BY <1>1, <1>2 DEF Item, FileRow, IsDatabase, IsTable
<1>4. InsertItemAllowed(e, item)
  BY <1>1, <1>2, <1>3 DEF InsertItemAllowed, LoadRowAllowed
<1> HIDE DEF item
<1>5. IsDatabase(InsertItem(e, item)) /\ Consistent(InsertItem(e, item))
  BY <1>1, <1>3, <1>4, InsertItemSafe
<1> QED
  BY <1>5 DEF LoadRow, e, item

-----------------------------------------------------------------------------
(* Requests *)

(* What the fields of a pending request hold, by operation.                *)
LEMMA PendingFields ==
    ASSUME NEW q \in Pending
    PROVE  /\ q.op = "CreateBin"  => q.bin \in Bin
           /\ q.op = "UpdateBin"  => q.id \in Rowids /\ q.bin \in Bin
           /\ q.op = "CreateItem" => q.item \in Item
           /\ q.op = "UpdateItem" => q.id \in Rowids /\ q.item \in Item
           /\ q.op = "DeleteBin"  => q.id \in Rowids
           /\ q.op = "Import"     => q.rows \in Seq(FileRow)
           /\ q.op = "Page"       => q.open \in BOOLEAN /\ q.left \in 0..(MaxQueries - 1)
BY DEF Pending, Idle

(* An idle request is pending nothing and keeps no connection.             *)
LEMMA IdlePending ==
    /\ Idle \in Pending /\ Idle.op = "idle"
    /\ Idle.op \notin TxOps /\ ~Holds(Idle)
BY DEF Pending, Idle, TxOps, Holds

(* While nobody is in a transaction the connection sees what is committed. *)
LEMMA NothingOpen ==
    ASSUME IInv, NEW r \in Requests, conn \in {Free, r}, req[r].op \notin TxOps
    PROVE  work = db
BY FreeAssumption DEF IInv, TxHoldsConnection, Holds, TxOps

(* A step that leaves everything committed, and the connection free or with *)
(* the rows the request reads.                                              *)
LEMMA SettledStep ==
    ASSUME IInv, NEW r \in Requests, conn \in {Free, r},
           NEW q \in Pending, q.op \notin TxOps, req' = [req EXCEPT ![r] = q],
           conn' = IF Holds(q) THEN r ELSE Free,
           work' = db', IsDatabase(db)', Consistent(db)'
    PROVE  IInv'
<1>1. TypeOK'
  BY DEF IInv, TypeOK
<1>2. /\ req'[r] = q
      /\ \A s \in Requests \ {r} : req'[s] = req[s] /\ ~Holds(req[s])
  BY FreeAssumption DEF IInv, TypeOK, TxHoldsConnection
<1>a. \A s \in Requests : req'[s].op \notin TxOps
  BY <1>2 DEF Holds, TxOps
<1>b. \A s \in Requests : Holds(req'[s]) <=> conn' = s
  <2> TAKE s \in Requests
  <2> QED
    BY <1>2, FreeAssumption
<1>3. TxHoldsConnection'
  BY <1>b DEF TxHoldsConnection, Holds
<1>4. DeleteNeverBlocked'
  BY <1>a DEF DeleteNeverBlocked, TxOps
<1>5. Consistent(work)'
  BY DEF Consistent, ForeignKeysHold, NamesUnique, IndexInSync
<1> QED
  BY <1>1, <1>3, <1>4, <1>5 DEF IInv

(* A handler that has looked and will write later. *)
LEMMA QueryStep ==
    ASSUME IInv, NEW r \in Requests, Query,
           NEW q \in Pending, q.op \notin TxOps, ~Holds(q), Await(r, q)
    PROVE  IInv'
<1>1. work = db /\ conn = Free
  BY IdlePending, NothingOpen DEF Query, Await
<1>2. work' = db' /\ IsDatabase(db)' /\ Consistent(db)'
  BY <1>1 DEF Query, IInv, TypeOK, Consistent, ForeignKeysHold, NamesUnique, IndexInSync
<1> QED
  BY <1>1, <1>2, SettledStep DEF Query, Await

(* A page that opens or closes rows. *)
LEMMA PageStep ==
    ASSUME IInv, NEW r \in Requests, conn \in {Free, r}, req[r].op \notin TxOps,
           NEW q \in Pending, q.op \notin TxOps, req' = [req EXCEPT ![r] = q],
           conn' = IF Holds(q) THEN r ELSE Free, UNCHANGED <<db, work>>
    PROVE  IInv'
<1>1. work' = db' /\ IsDatabase(db)' /\ Consistent(db)'
  BY NothingOpen DEF IInv, TypeOK, Consistent, ForeignKeysHold, NamesUnique, IndexInSync
<1> QED
  BY <1>1, SettledStep

(* A step that opens a transaction. *)
LEMMA OpeningStep ==
    ASSUME IInv, NEW r \in Requests, conn = Free, conn' = r,
           NEW q \in Pending, q.op \in TxOps, req' = [req EXCEPT ![r] = q],
           db' = db, IsDatabase(work)', Consistent(work)',
           q.op = "DeleteBin" => ItemsOf(work', q.id) = {}
    PROVE  IInv'
<1>1. TypeOK'
  BY DEF IInv, TypeOK
<1>2. /\ req'[r] = q /\ Holds(q)
      /\ \A s \in Requests \ {r} : req'[s] = req[s] /\ ~Holds(req[s])
  BY FreeAssumption DEF IInv, TypeOK, TxHoldsConnection, Holds, TxOps
<1>3. TxHoldsConnection'
  BY <1>2, FreeAssumption DEF TxHoldsConnection, Holds
<1>4. DeleteNeverBlocked'
  BY <1>2 DEF DeleteNeverBlocked, Holds
<1>5. Consistent(db)'
  BY DEF IInv, Consistent, ForeignKeysHold, NamesUnique, IndexInSync
<1> QED
  BY <1>1, <1>3, <1>4, <1>5 DEF IInv

-----------------------------------------------------------------------------
(* The invariant *)

(* A database fresh from its migrations satisfies the invariant.           *)
LEMMA InitInv == Init => IInv
BY EmptyDatabaseConsistent, IdlePending, FreeAssumption
   DEF Init, IInv, TypeOK, TxHoldsConnection, DeleteNeverBlocked, Idle, TxOps

(* A handler's first statement. *)
LEMMA BeginInv ==
    ASSUME IInv, NEW r \in Requests, Begin(r)
    PROVE  IInv'
<1>1. CASE BeginCreateBin(r)
  <2>1. PICK typed \in Names, info \in Infos :
            /\ Query
            /\ Await(r, [op  |-> "CreateBin",
                         bin |-> [name |-> TitleCase[typed], info |-> info]])
    BY <1>1 DEF BeginCreateBin
  <2> DEFINE q == [op  |-> "CreateBin",
                   bin |-> [name |-> TitleCase[typed], info |-> info]]
  <2>2. q \in Pending /\ q.op \notin TxOps /\ ~Holds(q)
    BY TitleCaseAssumption DEF Pending, Bin, TxOps, Holds
  <2> QED
    BY <2>1, <2>2, QueryStep
<1>2. CASE BeginUpdateBin(r)
  <2>1. PICK id \in Rowids, bin \in Bin :
            Query /\ Await(r, [op |-> "UpdateBin", id |-> id, bin |-> bin])
    BY <1>2 DEF BeginUpdateBin
  <2> DEFINE q == [op |-> "UpdateBin", id |-> id, bin |-> bin]
  <2>2. q \in Pending /\ q.op \notin TxOps /\ ~Holds(q)
    BY DEF Pending, TxOps, Holds
  <2> QED
    BY <2>1, <2>2, QueryStep
<1>3. CASE BeginCreateItem(r)
  <2>1. PICK item \in Item : Query /\ Await(r, [op |-> "CreateItem", item |-> item])
    BY <1>3 DEF BeginCreateItem
  <2> DEFINE q == [op |-> "CreateItem", item |-> item]
  <2>2. q \in Pending /\ q.op \notin TxOps /\ ~Holds(q)
    BY DEF Pending, TxOps, Holds
  <2> QED
    BY <2>1, <2>2, QueryStep
<1>4. CASE BeginUpdateItem(r)
  <2>1. PICK id \in Rowids, item \in Item :
            Query /\ Await(r, [op |-> "UpdateItem", id |-> id, item |-> item])
    BY <1>4 DEF BeginUpdateItem
  <2> DEFINE q == [op |-> "UpdateItem", id |-> id, item |-> item]
  <2>2. q \in Pending /\ q.op \notin TxOps /\ ~Holds(q)
    BY DEF Pending, TxOps, Holds
  <2> QED
    BY <2>1, <2>2, QueryStep
<1>5. CASE BeginDeleteBin(r)
  <2>1. PICK id \in Rowids :
            /\ BeginTx(r, DeleteItems(db, ItemsOf(db, id)))
            /\ Await(r, [op |-> "DeleteBin", id |-> id])
    BY <1>5 DEF BeginDeleteBin
  <2>2. [op |-> "DeleteBin", id |-> id] \in Pending /\ "DeleteBin" \in TxOps
    BY DEF Pending, TxOps
  <2>3. /\ IsDatabase(DeleteItems(db, ItemsOf(db, id)))
        /\ Consistent(DeleteItems(db, ItemsOf(db, id)))
        /\ ItemsOf(DeleteItems(db, ItemsOf(db, id)), id) = {}
    BY DeleteItemsSafe DEF IInv, TypeOK, ItemsOf
  <2>4. IsDatabase(work)' /\ Consistent(work)' /\ ItemsOf(work', id) = {}
    BY <2>1, <2>3 DEF BeginTx
  <2> QED
    BY <2>1, <2>2, <2>4, OpeningStep DEF BeginTx, Await
<1>6. CASE BeginImport(r)
  <2>1. PICK file \in Files, replace \in BOOLEAN :
            /\ BeginTx(r, IF replace THEN Emptied(db) ELSE db)
            /\ Await(r, [op |-> "Import", rows |-> file])
    BY <1>6 DEF BeginImport
  <2>2. [op |-> "Import", rows |-> file] \in Pending /\ "Import" \in TxOps
    BY FilesAssumption DEF Pending, TxOps
  <2>3. IsDatabase(Emptied(db)) /\ Consistent(Emptied(db))
    BY EmptiedSafe DEF IInv, TypeOK
  <2>4. IsDatabase(work)' /\ Consistent(work)'
    <3>1. work' = Emptied(db) \/ work' = db
      BY <2>1 DEF BeginTx
    <3> QED
      BY <3>1, <2>3 DEF IInv, TypeOK
  <2> QED
    BY <2>1, <2>2, <2>4, OpeningStep DEF BeginTx, Await
<1>7. CASE BeginPage(r)
  <2>1. PICK n \in 1..MaxQueries :
            /\ conn = Free /\ conn' = r
            /\ Await(r, [op |-> "Page", open |-> TRUE, left |-> n - 1])
            /\ UNCHANGED <<db, work>>
    BY <1>7 DEF BeginPage
  <2> DEFINE q == [op |-> "Page", open |-> TRUE, left |-> n - 1]
  <2>2. n - 1 \in 0..(MaxQueries - 1)
    BY QueriesAssumption
  <2>3. q \in Pending /\ q.op \notin TxOps /\ Holds(q)
    BY <2>2 DEF Pending, TxOps, Holds
  <2> QED
    BY <2>1, <2>3, IdlePending, PageStep DEF Await
<1> QED
  BY <1>1, <1>2, <1>3, <1>4, <1>5, <1>6, <1>7 DEF Begin

(* A handler's later statements. *)
LEMMA FinishInv ==
    ASSUME IInv, NEW r \in Requests, Finish(r)
    PROVE  IInv'
<1>1. /\ req[r] \in Pending
      /\ IsDatabase(db) /\ Consistent(db)
      /\ IsDatabase(work) /\ Consistent(work)
  BY DEF IInv, TypeOK
<1>2. ASSUME NEW d, IsDatabase(d), Consistent(d), AutoCommit(d), Answer(r)
      PROVE  IInv'
  <2>1. work' = db' /\ IsDatabase(db)' /\ Consistent(db)'
    BY <1>2 DEF AutoCommit
  <2> QED
    BY <1>2, <2>1, IdlePending, SettledStep DEF AutoCommit, Answer
<1>3. CASE FinishCreateBin(r)
  <2>1. req[r].bin \in Bin
    BY <1>1, <1>3, PendingFields DEF FinishCreateBin
  <2> QED
    BY <1>1, <1>2, <1>3, <2>1, InsertBinSafe DEF FinishCreateBin
<1>4. CASE FinishUpdateBin(r)
  <2>1. req[r].bin \in Bin
    BY <1>1, <1>4, PendingFields DEF FinishUpdateBin
  <2> QED
    BY <1>1, <1>2, <1>4, <2>1, UpdateBinSafe DEF FinishUpdateBin
<1>5. CASE FinishCreateItem(r)
  <2>1. req[r].item \in Item
    BY <1>1, <1>5, PendingFields DEF FinishCreateItem
  <2> QED
    BY <1>1, <1>2, <1>5, <2>1, InsertItemSafe DEF FinishCreateItem
<1>6. CASE FinishUpdateItem(r)
  <2>1. req[r].item \in Item
    BY <1>1, <1>6, PendingFields DEF FinishUpdateItem
  <2> QED
    BY <1>1, <1>2, <1>6, <2>1, UpdateItemSafe DEF FinishUpdateItem
<1>7. ASSUME NEW d, IsDatabase(d), Consistent(d), CommitTx(r, d), Answer(r)
      PROVE  IInv'
  <2>1. work' = db' /\ IsDatabase(db)' /\ Consistent(db)'
    BY <1>7 DEF CommitTx
  <2> QED
    BY <1>7, <2>1, IdlePending, SettledStep DEF CommitTx, Answer
<1>8. CASE FinishDeleteBin(r)
  <2>1. CASE /\ DeleteBinsAllowed(work, {req[r].id})
             /\ CommitTx(r, DeleteBins(work, {req[r].id}))
    BY <1>1, <1>7, <1>8, <2>1, DeleteBinsSafe DEF FinishDeleteBin
  <2>2. CASE conn = r /\ Rollback
    <3>1. work' = db' /\ IsDatabase(db)' /\ Consistent(db)'
      BY <1>1, <2>2 DEF Rollback
    <3> QED
      BY <1>8, <2>2, <3>1, IdlePending, SettledStep
         DEF Rollback, Answer, FinishDeleteBin
  <2> QED
    BY <1>8, <2>1, <2>2 DEF FinishDeleteBin
<1>9. CASE ImportRow(r)
  <2> DEFINE row == Head(req[r].rows)
             q   == [req[r] EXCEPT !.rows = Tail(req[r].rows)]
  <2>1. req[r].op = "Import" /\ req[r].rows \in Seq(FileRow) /\ req[r].rows # <<>>
    BY <1>1, <1>9, PendingFields DEF ImportRow
  <2>2. row \in FileRow /\ Tail(req[r].rows) \in Seq(FileRow)
    BY <2>1
  <2>3. IsDatabase(work)' /\ Consistent(work)'
    BY <1>1, <1>9, <2>2, LoadRowSafe DEF ImportRow
  <2>4. req' = [req EXCEPT ![r] = q]
    BY <1>9 DEF ImportRow
  <2>5. q \in Pending /\ q.op = "Import"
    <3>1. req[r] \in [op : {"Import"}, rows : Seq(FileRow)]
      BY <1>1, <2>1 DEF Pending, Idle
    <3> QED
      BY <3>1, <2>2 DEF Pending
  <2> HIDE DEF q
  <2>6. TypeOK'
    BY <1>9, <2>3, <2>4, <2>5 DEF IInv, TypeOK, ImportRow
  <2>7. \A s \in Requests : req'[s].op = req[s].op
    BY <2>1, <2>4, <2>5 DEF IInv, TypeOK
  <2>8. conn = r /\ conn' = r /\ req'[r].op = "Import"
    BY <1>9, <2>1, <2>7 DEF ImportRow
  <2>9. TxHoldsConnection'
    <3>1. \A s \in Requests : Holds(req'[s]) <=> Holds(req[s])
      BY <2>1, <2>4, <2>7, <2>8 DEF IInv, TypeOK, Holds
    <3>2. \A s \in Requests : Holds(req'[s]) <=> conn' = s
      BY <3>1, <2>8 DEF IInv, TxHoldsConnection
    <3> QED
      BY <3>2, <2>8 DEF TxHoldsConnection, Holds, TxOps
  <2>10. DeleteNeverBlocked'
    BY <2>1, <2>7, <2>8 DEF IInv, TxHoldsConnection, DeleteNeverBlocked, Holds
  <2>11. Consistent(db)'
    BY <1>1, <1>9 DEF ImportRow, Consistent, ForeignKeysHold, NamesUnique, IndexInSync
  <2> QED
    BY <2>3, <2>6, <2>9, <2>10, <2>11 DEF IInv
<1>10. CASE FinishImport(r)
  BY <1>1, <1>7, <1>10 DEF FinishImport
<1>11. CASE CloseRows(r)
  <2> DEFINE q == [req[r] EXCEPT !.open = FALSE]
  <2>1. req[r] \in [op : {"Page"}, open : BOOLEAN, left : 0..(MaxQueries - 1)]
    BY <1>1, <1>11 DEF CloseRows, Pending, Idle
  <2>2. q \in Pending /\ q.op = "Page" /\ ~q.open
    BY <2>1 DEF Pending
  <2>3. conn = r /\ req[r].op \notin TxOps
    BY <1>11 DEF CloseRows, IInv, TxHoldsConnection, Holds, TxOps
  <2>4. req' = [req EXCEPT ![r] = q] /\ conn' = Free /\ UNCHANGED <<db, work>>
    BY <1>11 DEF CloseRows
  <2> HIDE DEF q
  <2> QED
    BY <2>2, <2>3, <2>4, PageStep DEF Holds, TxOps
<1>12. CASE NextQuery(r)
  <2> DEFINE q == [op |-> "Page", open |-> TRUE, left |-> req[r].left - 1]
  <2>1. req[r].left \in 0..(MaxQueries - 1) /\ req[r].left > 0
    BY <1>1, <1>12, PendingFields DEF NextQuery
  <2>2. req[r].left - 1 \in 0..(MaxQueries - 1)
    BY <2>1, QueriesAssumption
  <2>3. q \in Pending /\ q.op \notin TxOps /\ Holds(q)
    BY <2>2 DEF Pending, TxOps, Holds
  <2>4. /\ req' = [req EXCEPT ![r] = q] /\ conn = Free /\ conn' = r
        /\ UNCHANGED <<db, work>> /\ req[r].op \notin TxOps
    BY <1>12 DEF NextQuery, TxOps
  <2> QED
    BY <2>3, <2>4, PageStep
<1>13. CASE FinishPage(r)
  <2>1. /\ ~Holds(req[r]) /\ req[r].op \notin TxOps
        /\ req' = [req EXCEPT ![r] = Idle] /\ UNCHANGED <<db, work, conn>>
    BY <1>13 DEF FinishPage, Answer, Holds, TxOps
  <2>2. /\ req'[r] = Idle
        /\ \A s \in Requests \ {r} : req'[s] = req[s]
    BY <2>1 DEF IInv, TypeOK
  <2>3. TypeOK'
    BY <2>1, IdlePending DEF IInv, TypeOK
  <2>4. TxHoldsConnection'
    <3>1. \A s \in Requests : Holds(req'[s]) <=> conn' = s
      BY <2>1, <2>2, IdlePending DEF IInv, TxHoldsConnection
    <3>2. (\A s \in Requests : req'[s].op \notin TxOps) => work' = db'
      BY <2>1, <2>2 DEF IInv, TxHoldsConnection
    <3> QED
      BY <3>1, <3>2 DEF TxHoldsConnection, Holds
  <2>5. DeleteNeverBlocked'
    BY <2>1, <2>2, IdlePending DEF IInv, DeleteNeverBlocked, TxOps
  <2>6. Consistent(db)' /\ Consistent(work)'
    BY <1>1, <2>1 DEF Consistent, ForeignKeysHold, NamesUnique, IndexInSync
  <2> QED
    BY <2>3, <2>4, <2>5, <2>6 DEF IInv
<1> QED
  BY <1>3, <1>4, <1>5, <1>6, <1>8, <1>9, <1>10, <1>11, <1>12, <1>13 DEF Finish

(* DeleteItem, an error, a crash. *)
LEMMA OtherInv ==
    ASSUME IInv,
           (\E r \in Requests : DeleteItem(r) \/ Fail(r)) \/ Crash
    PROVE  IInv'
<1>1. /\ IsDatabase(db) /\ Consistent(db)
      /\ req \in [Requests -> Pending]
  BY DEF IInv, TypeOK
<1>2. ASSUME NEW r \in Requests, DeleteItem(r)
      PROVE  IInv'
  <2>1. PICK id \in DOMAIN db.items :
            /\ req[r] = Idle
            /\ AutoCommit(DeleteItems(db, {id}))
            /\ UNCHANGED req
    BY <1>2 DEF DeleteItem
  <2>2. work' = db' /\ IsDatabase(db)' /\ Consistent(db)'
    BY <1>1, <2>1, DeleteItemsSafe DEF AutoCommit
  <2>3. req' = [req EXCEPT ![r] = Idle]
    BY <1>1, <2>1
  <2> QED
    BY <2>1, <2>2, <2>3, IdlePending, SettledStep DEF AutoCommit
<1>3. ASSUME Rollback
      PROVE  work' = db' /\ IsDatabase(db)' /\ Consistent(db)'
  BY <1>1, <1>3 DEF Rollback
<1>4. ASSUME NEW r \in Requests, Fail(r)
      PROVE  IInv'
  BY <1>3, <1>4, IdlePending, SettledStep DEF Fail, Rollback, Answer
<1>5. CASE Crash
  <2>1. work' = db' /\ IsDatabase(db)' /\ Consistent(db)' /\ conn' = Free
    BY <1>3, <1>5 DEF Crash, Rollback
  <2>2. \A r \in Requests : req'[r] = Idle
    BY <1>5 DEF Crash
  <2>3. TypeOK'
    BY <1>5, <2>1, IdlePending DEF Crash, TypeOK
  <2>4. TxHoldsConnection' /\ DeleteNeverBlocked'
    BY <2>1, <2>2, IdlePending, FreeAssumption
       DEF TxHoldsConnection, DeleteNeverBlocked, TxOps
  <2>5. Consistent(work)'
    BY <2>1 DEF Consistent, ForeignKeysHold, NamesUnique, IndexInSync
  <2> QED
    BY <2>1, <2>3, <2>4, <2>5 DEF IInv
<1> QED
  BY <1>2, <1>4, <1>5

(* Every step of the program preserves the invariant.                      *)
LEMMA StepInv == IInv /\ [Next]_vars => IInv'
<1> SUFFICES ASSUME IInv, [Next]_vars PROVE IInv'
  OBVIOUS
<1>1. CASE Next
  BY <1>1, BeginInv, FinishInv, OtherInv DEF Next
<1>2. CASE UNCHANGED vars
  BY <1>2 DEF vars, IInv, TypeOK, TxHoldsConnection, DeleteNeverBlocked,
              Consistent, ForeignKeysHold, NamesUnique, IndexInSync
<1> QED
  BY <1>1, <1>2

(* Every reachable state satisfies the inductive invariant. *)
THEOREM Invariance == Spec => []IInv
BY InitInv, StepInv, PTL DEF Spec

(* Database, connection and requests keep their types. *)
THEOREM TypeCorrect == Spec => []TypeOK
<1>1. IInv => TypeOK
  BY DEF IInv
<1> QED
  BY <1>1, Invariance, PTL

(* No committed item is filed in a bin that is gone, whatever the requests, *)
(* their interleaving, the statements that fail and the crashes.            *)
THEOREM NoOrphansEver == Spec => []NoOrphans
<1>1. IInv => NoOrphans
  BY DEF IInv, Consistent, NoOrphans
<1> QED
  BY <1>1, Invariance, PTL

(* No two committed bins share a name, although every handler looks for the *)
(* name and writes it in two statements.                                    *)
THEOREM NamesStayUnique == Spec => []UniqueBinNames
<1>1. IInv => UniqueBinNames
  BY DEF IInv, Consistent, UniqueBinNames
<1> QED
  BY <1>1, Invariance, PTL

(* The search index holds exactly what the committed items table holds.    *)
THEOREM SearchStaysInSync == Spec => []SearchInSync
<1>1. IInv => SearchInSync
  BY DEF IInv, Consistent, SearchInSync
<1> QED
  BY <1>1, Invariance, PTL

(***************************************************************************)
(* The foreign key never stops DeleteBin from deleting the bin it emptied. *)
(***************************************************************************)
THEOREM DeleteSucceeds == Spec => []DeleteNeverBlocked
<1>1. IInv => DeleteNeverBlocked
  BY DEF IInv
<1> QED
  BY <1>1, Invariance, PTL

-----------------------------------------------------------------------------
(* Imports in progress *)

(* What an import that began with start has made of it after the first     *)
(* done rows of file.                                                      *)
Loaded(start, file, done, now) ==
    LET newBins  == DOMAIN now.bins \ DOMAIN start.bins
        newItems == DOMAIN now.items \ DOMAIN start.items
    IN  /\ \A b \in DOMAIN start.bins :
               b \in DOMAIN now.bins /\ now.bins[b] = start.bins[b]
        /\ \A i \in DOMAIN start.items :
               i \in DOMAIN now.items /\ now.items[i] = start.items[i]
        /\ \A b \in newBins : \E k \in 1..done :
               /\ now.bins[b] = [name |-> file[k].bin, info |-> file[k].info]
               /\ \A earlier \in 1..(k - 1) : file[earlier].bin # file[k].bin
        /\ \E slot \in Bijection(1..done, newItems) : \A k \in 1..done :
               /\ now.items[slot[k]].text = file[k].text
               /\ now.items[slot[k]].bin \in DOMAIN now.bins
               /\ now.bins[now.items[slot[k]].bin].name = file[k].bin

ImportStart(replace) == IF replace THEN Emptied(db) ELSE db

(* What the connection sees inside a transaction, and nobody else: the     *)
(* database with the bin's items deleted, or with the rows imported so far. *)
TxFollowsRequest ==
    \A r \in Requests :
        /\ req[r].op = "DeleteBin" => work = DeleteItems(db, ItemsOf(db, req[r].id))
        /\ req[r].op = "Import" =>
               \E file \in Files, replace \in BOOLEAN : \E done \in 0..Len(file) :
                   /\ replace => file # <<>>
                   /\ req[r].rows = SubSeq(file, done + 1, Len(file))
                   /\ Loaded(ImportStart(replace), file, done, work)

RInv == IInv /\ TxFollowsRequest

(* One row of an import adds one item, filed in a bin of the name the row  *)
(* gives, and at most the bin of that name.                                *)
LEMMA LoadRowAdds ==
    ASSUME NEW d, IsDatabase(d), Consistent(d),
           NEW row \in FileRow, LoadRowAllowed(d, row)
    PROVE  LET now  == LoadRow(d, row)
               item == NextRowid(d.items)
           IN  /\ \A b \in DOMAIN d.bins : b \in DOMAIN now.bins /\ now.bins[b] = d.bins[b]
               /\ \A b \in DOMAIN now.bins \ DOMAIN d.bins :
                      /\ now.bins[b] = [name |-> row.bin, info |-> row.info]
                      /\ ~NameTaken(d, row.bin, 0)
               /\ item \notin DOMAIN d.items
               /\ DOMAIN now.items = DOMAIN d.items \cup {item}
               /\ \A i \in DOMAIN d.items : now.items[i] = d.items[i]
               /\ now.items[item].text = row.text
               /\ now.items[item].bin \in DOMAIN now.bins
               /\ now.bins[now.items[item].bin].name = row.bin
<1> DEFINE e    == FindOrCreateBin(d, row)
           bin  == [name |-> row.bin, info |-> row.info]
           new  == [bin |-> BinNamed(e, row.bin), text |-> row.text]
           now  == LoadRow(d, row)
           item == NextRowid(d.items)
<1>1. /\ e.items = d.items
      /\ \A b \in DOMAIN d.bins : b \in DOMAIN e.bins /\ e.bins[b] = d.bins[b]
      /\ \A b \in DOMAIN e.bins \ DOMAIN d.bins :
             e.bins[b] = bin /\ ~NameTaken(d, row.bin, 0)
      /\ \E b \in DOMAIN e.bins : e.bins[b].name = row.bin
      /\ DOMAIN e.bins \subseteq Rowids
  <2>1. CASE NameTaken(d, row.bin, 0)
    BY <2>1 DEF FindOrCreateBin, NameTaken, IsDatabase, IsTable
  <2>2. CASE ~NameTaken(d, row.bin, 0)
    <3>1. bin \in Bin /\ bin.name = row.bin
      BY DEF Bin, FileRow
    <3>2. /\ IsTable(d.bins, Bin) /\ HasRoom(d.bins)
          /\ e.bins = Insert(d.bins, bin) /\ e.items = d.items
      BY <2>2 DEF FindOrCreateBin, InsertBin, IsDatabase, LoadRowAllowed
    <3> HIDE DEF e, bin
    <3>3. /\ DOMAIN e.bins = DOMAIN d.bins \cup {NextRowid(d.bins)}
          /\ NextRowid(d.bins) \notin DOMAIN d.bins
          /\ e.bins[NextRowid(d.bins)] = bin
          /\ \A b \in DOMAIN d.bins : e.bins[b] = d.bins[b]
      BY <3>2, NextRowidFresh DEF Insert
    <3>4. DOMAIN e.bins \subseteq Rowids
      BY <3>2, <3>3 DEF IsTable, HasRoom
    <3> QED
      BY <2>2, <3>1, <3>2, <3>3, <3>4
  <2> QED
    BY <2>1, <2>2
<1> HIDE DEF e
<1>2. BinNamed(e, row.bin) \in DOMAIN e.bins /\ e.bins[BinNamed(e, row.bin)].name = row.bin
  BY <1>1 DEF BinNamed
<1>3. new \in Item /\ new.bin = BinNamed(e, row.bin) /\ new.text = row.text
  BY <1>1, <1>2 DEF Item, FileRow
<1>4. now.bins = e.bins /\ now.items = Insert(d.items, new)
  BY <1>1 DEF LoadRow, InsertItem, e
<1>5. IsTable(d.items, Item) /\ HasRoom(d.items)
  BY DEF IsDatabase, LoadRowAllowed
<1> HIDE DEF now, new
<1>6. /\ item \notin DOMAIN d.items
      /\ DOMAIN now.items = DOMAIN d.items \cup {item}
      /\ \A i \in DOMAIN d.items : now.items[i] = d.items[i]
      /\ now.items[item] = new
  BY <1>4, <1>5, NextRowidFresh DEF Insert
<1> HIDE DEF item
<1>8. /\ now.items[item].text = row.text
      /\ now.items[item].bin \in DOMAIN now.bins
      /\ now.bins[now.items[item].bin].name = row.bin
  BY <1>2, <1>3, <1>4, <1>6
<1>9. /\ \A b \in DOMAIN d.bins : b \in DOMAIN now.bins /\ now.bins[b] = d.bins[b]
      /\ \A b \in DOMAIN now.bins \ DOMAIN d.bins :
             now.bins[b] = bin /\ ~NameTaken(d, row.bin, 0)
  BY <1>1, <1>4
<1> QED
  BY <1>6, <1>8, <1>9 DEF now, item

(* Before its first row an import has changed nothing.                     *)
LEMMA NothingLoaded ==
    ASSUME NEW start, NEW file
    PROVE  Loaded(start, file, 0, start)
<1> DEFINE slot == [k \in 1..0 |-> k]
<1>1. slot \in Bijection(1..0, {}) /\ DOMAIN start.items \ DOMAIN start.items = {}
  BY DEF Bijection, Injection, Surjection, IsInjective
<1> QED
  BY <1>1 DEF Loaded

(* Loading the next row makes the loaded prefix one row longer.            *)
LEMMA OneMoreLoaded ==
    ASSUME NEW start, NEW file \in Seq(FileRow), NEW done \in Nat, done + 1 <= Len(file),
           NEW d, IsDatabase(d), Consistent(d), LoadRowAllowed(d, file[done + 1]),
           Loaded(start, file, done, d)
    PROVE  Loaded(start, file, done + 1, LoadRow(d, file[done + 1]))
<1> DEFINE row      == file[done + 1]
           now      == LoadRow(d, row)
           item     == NextRowid(d.items)
           oldItems == DOMAIN d.items \ DOMAIN start.items
           newItems == DOMAIN now.items \ DOMAIN start.items
<1>1. row \in FileRow
  OBVIOUS
<1>2. /\ \A b \in DOMAIN d.bins : b \in DOMAIN now.bins /\ now.bins[b] = d.bins[b]
      /\ \A b \in DOMAIN now.bins \ DOMAIN d.bins :
             /\ now.bins[b] = [name |-> row.bin, info |-> row.info]
             /\ ~NameTaken(d, row.bin, 0)
      /\ item \notin DOMAIN d.items
      /\ DOMAIN now.items = DOMAIN d.items \cup {item}
      /\ \A i \in DOMAIN d.items : now.items[i] = d.items[i]
      /\ now.items[item].text = row.text
      /\ now.items[item].bin \in DOMAIN now.bins
      /\ now.bins[now.items[item].bin].name = row.bin
  BY <1>1, LoadRowAdds
<1> HIDE DEF now, item
<1>3. PICK slot \in Bijection(1..done, oldItems) : \A k \in 1..done :
          /\ d.items[slot[k]].text = file[k].text
          /\ d.items[slot[k]].bin \in DOMAIN d.bins
          /\ d.bins[d.items[slot[k]].bin].name = file[k].bin
  BY DEF Loaded
<1>4. /\ \A b \in DOMAIN start.bins : b \in DOMAIN d.bins /\ d.bins[b] = start.bins[b]
      /\ \A i \in DOMAIN start.items : i \in DOMAIN d.items /\ d.items[i] = start.items[i]
      /\ \A b \in DOMAIN d.bins \ DOMAIN start.bins : \E k \in 1..done :
             /\ d.bins[b] = [name |-> file[k].bin, info |-> file[k].info]
             /\ \A earlier \in 1..(k - 1) : file[earlier].bin # file[k].bin
  BY DEF Loaded
<1>5. /\ slot \in [1..done -> oldItems]
      /\ \A j, k \in 1..done : slot[j] = slot[k] => j = k
      /\ \A i \in oldItems : \E k \in 1..done : slot[k] = i
  BY <1>3 DEF Bijection, Injection, Surjection, IsInjective
<1> DEFINE slot2 == [k \in 1..(done + 1) |-> IF k = done + 1 THEN item ELSE slot[k]]
<1>6. newItems = oldItems \cup {item} /\ item \notin oldItems
  BY <1>2, <1>4
<1>7. slot2 \in Bijection(1..(done + 1), newItems)
  <2>1. 1..(done + 1) = 1..done \cup {done + 1} /\ done + 1 \notin 1..done
    OBVIOUS
  <2>2. slot2 \in [1..(done + 1) -> newItems]
    BY <1>5, <1>6, <2>1
  <2>3. \A j, k \in 1..(done + 1) : slot2[j] = slot2[k] => j = k
    BY <1>5, <1>6, <2>1
  <2>4. \A i \in newItems : \E k \in 1..(done + 1) : slot2[k] = i
    BY <1>5, <1>6, <2>1
  <2> QED
    BY <2>2, <2>3, <2>4 DEF Bijection, Injection, Surjection, IsInjective
<1>8. ASSUME NEW k \in 1..(done + 1)
      PROVE  /\ now.items[slot2[k]].text = file[k].text
             /\ now.items[slot2[k]].bin \in DOMAIN now.bins
             /\ now.bins[now.items[slot2[k]].bin].name = file[k].bin
  <2>1. CASE k = done + 1
    BY <1>2, <2>1
  <2>2. CASE k \in 1..done
    <3>1. slot2[k] = slot[k] /\ slot[k] \in DOMAIN d.items
      BY <1>5, <2>2
    <3> HIDE DEF slot2
    <3> QED
      BY <1>2, <1>3, <2>2, <3>1
  <2> QED
    BY <2>1, <2>2
<1>9. ASSUME NEW b \in DOMAIN now.bins \ DOMAIN start.bins
      PROVE  \E k \in 1..(done + 1) :
                 /\ now.bins[b] = [name |-> file[k].bin, info |-> file[k].info]
                 /\ \A earlier \in 1..(k - 1) : file[earlier].bin # file[k].bin
  <2>1. CASE b \in DOMAIN d.bins
    BY <1>2, <1>4, <2>1
  <2>2. CASE b \notin DOMAIN d.bins
    <3>1. /\ now.bins[b] = [name |-> row.bin, info |-> row.info]
          /\ ~NameTaken(d, row.bin, 0)
      BY <1>2, <2>2
    <3>2. \A earlier \in 1..done : file[earlier].bin # row.bin
      <4> SUFFICES ASSUME NEW earlier \in 1..done PROVE file[earlier].bin # row.bin
        OBVIOUS
      <4>1. /\ d.items[slot[earlier]].bin \in DOMAIN d.bins
            /\ d.bins[d.items[slot[earlier]].bin].name = file[earlier].bin
        BY <1>3
      <4>2. 0 \notin DOMAIN d.bins
        BY MaxRowidAssumption DEF IsDatabase, IsTable, Rowids
      <4> QED
        BY <3>1, <4>1, <4>2 DEF NameTaken
    <3>3. done + 1 \in 1..(done + 1) /\ (done + 1) - 1 = done
      OBVIOUS
    <3> QED
      BY <3>1, <3>2, <3>3
  <2> QED
    BY <2>1, <2>2
<1> HIDE DEF slot2
<1>10. /\ \A b \in DOMAIN start.bins : b \in DOMAIN now.bins /\ now.bins[b] = start.bins[b]
       /\ \A i \in DOMAIN start.items : i \in DOMAIN now.items /\ now.items[i] = start.items[i]
  BY <1>2, <1>4
<1> QED
  BY <1>7, <1>8, <1>9, <1>10 DEF Loaded, now

(* What is left of a file after its first n rows: the next row and the     *)
(* rest, or nothing.                                                       *)
LEMMA RowsLeft ==
    ASSUME NEW S, NEW file \in Seq(S), NEW n \in 0..Len(file)
    PROVE  LET left == SubSeq(file, n + 1, Len(file))
           IN  /\ left = <<>> <=> n = Len(file)
               /\ left # <<>> => /\ n + 1 \in 1..Len(file)
                                 /\ Head(left) = file[n + 1]
                                 /\ Tail(left) = SubSeq(file, n + 2, Len(file))
<1> DEFINE left == SubSeq(file, n + 1, Len(file))
<1>1. /\ Len(file) \in Nat /\ n \in Nat /\ n <= Len(file)
      /\ left \in Seq(S) /\ Len(left) = Len(file) - n
      /\ \A k \in 1..(Len(file) - n) : left[k] = file[n + k]
  OBVIOUS
<1>2. left = <<>> <=> n = Len(file)
  <2> HIDE DEF left
  <2> QED
    BY <1>1
<1>3. ASSUME left # <<>>
      PROVE  /\ n + 1 \in 1..Len(file)
             /\ Head(left) = file[n + 1]
             /\ Tail(left) = SubSeq(file, n + 2, Len(file))
  <2>1. n + 1 \in 1..Len(file) /\ 1 \in 1..(Len(file) - n)
    BY <1>1, <1>2, <1>3
  <2>2. Head(left) = file[n + 1]
    BY <1>1, <1>3, <2>1
  <2>3. Tail(left) = SubSeq(file, n + 2, Len(file))
    <3> DEFINE rest == SubSeq(file, n + 2, Len(file))
    <3>1. /\ rest \in Seq(S) /\ Len(rest) = Len(file) - n - 1
          /\ \A k \in 1..(Len(file) - n - 1) : rest[k] = file[n + 1 + k]
      BY <1>1, <2>1
    <3>2. /\ Tail(left) \in Seq(S) /\ Len(Tail(left)) = Len(file) - n - 1
          /\ \A k \in 1..(Len(file) - n - 1) : Tail(left)[k] = left[k + 1]
      <4> HIDE DEF left
      <4> QED
        BY <1>1, <1>3
    <3>3. \A k \in 1..(Len(file) - n - 1) : left[k + 1] = file[n + 1 + k]
      BY <1>1
    <3> DEFINE tail == Tail(left)
               m    == Len(file) - n - 1
    <3>4. /\ tail \in Seq(S) /\ rest \in Seq(S) /\ m \in Nat
          /\ Len(tail) = m /\ Len(rest) = m
          /\ \A k \in 1..m : tail[k] = rest[k]
      <4>1. m \in Nat
        BY <1>1, <2>1
      <4> HIDE DEF rest, left, tail
      <4>2. \A k \in 1..m : tail[k] = rest[k]
        BY <3>1, <3>2, <3>3 DEF tail
      <4> QED
        BY <3>1, <3>2, <4>1, <4>2 DEF tail
    <3> HIDE DEF rest, tail, m
    <3>5. tail = rest
      BY <3>4
    <3> QED
      BY <3>5 DEF rest, tail
  <2> QED
    BY <2>1, <2>2, <2>3
<1> QED
  BY <1>2, <1>3

(* A step of the holder of the connection, or with the connection free,    *)
(* after which the request is in no transaction.                           *)
LEMMA NoTxLeft ==
    ASSUME IInv, NEW r \in Requests, conn \in {Free, r},
           NEW q, q.op \notin TxOps, req' = [req EXCEPT ![r] = q]
    PROVE  TxFollowsRequest'
<1>1. ASSUME NEW s \in Requests PROVE req'[s].op \notin TxOps
  BY FreeAssumption DEF IInv, TypeOK, TxHoldsConnection, Holds, TxOps
<1> QED
  BY <1>1 DEF TxFollowsRequest, TxOps

(* What a transaction has done so far follows from its request after every *)
(* first statement, ...                                                    *)
LEMMA BeginFollows ==
    ASSUME RInv, NEW r \in Requests, Begin(r)
    PROVE  TxFollowsRequest'
<1> USE DEF RInv
<1>1. ASSUME conn = Free, NEW q, req' = [req EXCEPT ![r] = q]
      PROVE  /\ req'[r] = q
             /\ \A s \in Requests \ {r} : req'[s].op \notin TxOps
  BY <1>1, FreeAssumption DEF IInv, TypeOK, TxHoldsConnection, Holds, TxOps
<1>2. CASE BeginDeleteBin(r)
  <2>1. PICK id \in Rowids :
            /\ BeginTx(r, DeleteItems(db, ItemsOf(db, id)))
            /\ Await(r, [op |-> "DeleteBin", id |-> id])
    BY <1>2 DEF BeginDeleteBin
  <2>2. /\ req'[r] = [op |-> "DeleteBin", id |-> id]
        /\ \A s \in Requests \ {r} : req'[s].op \notin TxOps
    BY <1>1, <2>1 DEF BeginTx, Await
  <2>3. work' = DeleteItems(db', ItemsOf(db', id))
    BY <2>1 DEF BeginTx
  <2> QED
    BY <2>2, <2>3 DEF TxFollowsRequest, TxOps
<1>3. CASE BeginImport(r)
  <2>1. PICK file \in Files, replace \in BOOLEAN :
            /\ replace => file # <<>>
            /\ BeginTx(r, IF replace THEN Emptied(db) ELSE db)
            /\ Await(r, [op |-> "Import", rows |-> file])
    BY <1>3 DEF BeginImport
  <2>2. /\ req'[r] = [op |-> "Import", rows |-> file]
        /\ \A s \in Requests \ {r} : req'[s].op \notin TxOps
    BY <1>1, <2>1 DEF BeginTx, Await
  <2>3. Loaded(ImportStart(replace), file, 0, work)'
    <3>1. work' = ImportStart(replace)'
      BY <2>1 DEF BeginTx, ImportStart
    <3>2. Loaded(ImportStart(replace)', file, 0, ImportStart(replace)')
      BY NothingLoaded
    <3> QED
      BY <3>1, <3>2
  <2>4. 0 \in 0..Len(file) /\ file = SubSeq(file, 0 + 1, Len(file))
    BY FilesAssumption
  <2> QED
    BY <2>1, <2>2, <2>3, <2>4 DEF TxFollowsRequest, TxOps
<1>4. ASSUME conn = Free, NEW q, q.op \notin TxOps, Await(r, q)
      PROVE  TxFollowsRequest'
  BY <1>4, NoTxLeft DEF Await
<1>5. CASE BeginCreateBin(r)
  BY <1>4, <1>5 DEF BeginCreateBin, Query, TxOps
<1>6. CASE BeginUpdateBin(r)
  BY <1>4, <1>6 DEF BeginUpdateBin, Query, TxOps
<1>7. CASE BeginCreateItem(r)
  BY <1>4, <1>7 DEF BeginCreateItem, Query, TxOps
<1>8. CASE BeginUpdateItem(r)
  BY <1>4, <1>8 DEF BeginUpdateItem, Query, TxOps
<1>9. CASE BeginPage(r)
  BY <1>4, <1>9 DEF BeginPage, TxOps
<1> QED
  BY <1>2, <1>3, <1>5, <1>6, <1>7, <1>8, <1>9 DEF Begin

(* ... after every later one, ...                                          *)
LEMMA FinishFollows ==
    ASSUME RInv, NEW r \in Requests, Finish(r)
    PROVE  TxFollowsRequest'
<1> USE DEF RInv
<1>1. Idle.op \notin TxOps
  BY IdlePending
<1>2. CASE FinishCreateBin(r)
  BY <1>1, <1>2, NoTxLeft DEF FinishCreateBin, AutoCommit, Answer
<1>3. CASE FinishUpdateBin(r)
  BY <1>1, <1>3, NoTxLeft DEF FinishUpdateBin, AutoCommit, Answer
<1>4. CASE FinishCreateItem(r)
  BY <1>1, <1>4, NoTxLeft DEF FinishCreateItem, AutoCommit, Answer
<1>5. CASE FinishUpdateItem(r)
  BY <1>1, <1>5, NoTxLeft DEF FinishUpdateItem, AutoCommit, Answer
<1>6. CASE FinishDeleteBin(r)
  BY <1>1, <1>6, NoTxLeft DEF FinishDeleteBin, Answer
<1>7. CASE FinishImport(r)
  BY <1>1, <1>7, NoTxLeft DEF FinishImport, CommitTx, Answer
<1>8. CASE ImportRow(r)
  <2>1. /\ req[r].op = "Import" /\ conn = r /\ req[r].rows # <<>>
        /\ LoadRowAllowed(work, Head(req[r].rows))
        /\ work' = LoadRow(work, Head(req[r].rows))
        /\ req' = [req EXCEPT ![r].rows = Tail(@)]
        /\ db' = db
    BY <1>8 DEF ImportRow
  <2>2. PICK file \in Files, replace \in BOOLEAN : \E done \in 0..Len(file) :
            /\ replace => file # <<>>
            /\ req[r].rows = SubSeq(file, done + 1, Len(file))
            /\ Loaded(ImportStart(replace), file, done, work)
    BY <2>1 DEF TxFollowsRequest
  <2>3. PICK done \in 0..Len(file) :
            /\ req[r].rows = SubSeq(file, done + 1, Len(file))
            /\ Loaded(ImportStart(replace), file, done, work)
    BY <2>2
  <2>4. file \in Seq(FileRow)
    BY FilesAssumption
  <2>5. /\ done + 1 \in 1..Len(file)
        /\ Head(req[r].rows) = file[done + 1]
        /\ Tail(req[r].rows) = SubSeq(file, (done + 1) + 1, Len(file))
    <3>1. (done + 1) + 1 = done + 2
      OBVIOUS
    <3> QED
      BY <2>1, <2>3, <2>4, <3>1, RowsLeft
  <2>6. Loaded(ImportStart(replace), file, done + 1, work)'
    <3>1. IsDatabase(work) /\ Consistent(work) /\ LoadRowAllowed(work, file[done + 1])
      BY <2>1, <2>5 DEF IInv, TypeOK
    <3>2. Loaded(ImportStart(replace), file, done + 1, LoadRow(work, file[done + 1]))
      BY <2>3, <2>4, <2>5, <3>1, OneMoreLoaded
    <3>3. ImportStart(replace)' = ImportStart(replace) /\ work' = LoadRow(work, file[done + 1])
      BY <2>1, <2>5 DEF ImportStart
    <3> QED
      BY <3>2, <3>3
  <2>7. /\ req'[r].rows = Tail(req[r].rows) /\ req'[r].op = "Import"
        /\ \A s \in Requests \ {r} : req'[s] = req[s] /\ req[s].op \notin TxOps
    BY <2>1 DEF IInv, TypeOK, TxHoldsConnection, Holds, TxOps, Pending, Idle
  <2>8. /\ req'[r].rows = SubSeq(file, (done + 1) + 1, Len(file))
        /\ done + 1 \in 0..Len(file)
    BY <2>5, <2>7
  <2>9. \A s \in Requests : req'[s].op = "Import" => s = r
    BY <2>7 DEF TxOps
  <2>10. \A s \in Requests : req'[s].op # "DeleteBin"
    BY <2>7 DEF TxOps
  <2> QED
    BY <2>2, <2>6, <2>8, <2>9, <2>10 DEF TxFollowsRequest
<1>9. CASE CloseRows(r)
  <2>1. req[r].op = "Page" /\ conn = r
    BY <1>9 DEF CloseRows, IInv, TxHoldsConnection, Holds
  <2>2. [req[r] EXCEPT !.open = FALSE].op \notin TxOps
    BY <2>1 DEF TxOps
  <2> QED
    BY <1>9, <2>1, <2>2, NoTxLeft DEF CloseRows
<1>10. CASE NextQuery(r)
  BY <1>10, NoTxLeft DEF NextQuery, TxOps
<1>11. CASE FinishPage(r)
  <2>1. \A s \in Requests : req'[s] = req[s] \/ req'[s].op \notin TxOps
    BY <1>1, <1>11 DEF FinishPage, Answer, IInv, TypeOK
  <2> QED
    BY <1>11, <2>1 DEF FinishPage, TxFollowsRequest, ImportStart, TxOps
<1> QED
  BY <1>2, <1>3, <1>4, <1>5, <1>6, <1>7, <1>8, <1>9, <1>10, <1>11 DEF Finish

(* ... and after every step.                                               *)
LEMMA StepFollows == RInv /\ [Next]_vars => RInv'
<1> SUFFICES ASSUME RInv, [Next]_vars PROVE RInv'
  OBVIOUS
<1>1. IInv'
  BY StepInv DEF RInv
<1>2. ASSUME NEW r \in Requests, DeleteItem(r) \/ Fail(r) PROVE TxFollowsRequest'
  <2>1. CASE DeleteItem(r)
    <3>1. conn = Free /\ req[r] = Idle /\ req' = [req EXCEPT ![r] = Idle]
      BY <2>1 DEF DeleteItem, AutoCommit, RInv, IInv, TypeOK
    <3> QED
      BY <3>1, IdlePending, NoTxLeft DEF RInv
  <2>2. CASE Fail(r)
    BY <2>2, IdlePending, NoTxLeft DEF Fail, Answer, RInv
  <2> QED
    BY <1>2, <2>1, <2>2
<1>3. CASE Crash
  <2>1. \A r \in Requests : req'[r].op \notin TxOps
    BY <1>3, IdlePending DEF Crash
  <2>2. TxFollowsRequest'
    BY <2>1 DEF TxFollowsRequest, TxOps
  <2> QED
    BY <1>1, <2>2 DEF RInv
<1>4. CASE UNCHANGED vars
  <2>1. db' = db /\ work' = work /\ req' = req
    BY <1>4 DEF vars
  <2>2. TxFollowsRequest'
    BY <2>1 DEF RInv, TxFollowsRequest, ImportStart
  <2> QED
    BY <1>1, <2>2 DEF RInv
<1> QED
  BY <1>1, <1>2, <1>3, <1>4, BeginFollows, FinishFollows DEF Next, RInv

(* Every reachable state satisfies the invariant of the refinement.        *)
LEMMA RefinementInvariance == Spec => []RInv
<1>1. Init => RInv
  BY InitInv, IdlePending DEF Init, RInv, TxFollowsRequest, TxOps
<1> QED
  BY <1>1, StepFollows, PTL DEF Spec

-----------------------------------------------------------------------------
(* Statements as operations on what the users see *)

(* The committed bins and items, without the index. *)
Visible == [bins |-> db.bins, items |-> db.items]

(* The promise's notions are those of the tables.                          *)
LEMMA SameNotions ==
    /\ Promise!Rowids = Rowids /\ Promise!Bin = Bin /\ Promise!Item = Item
    /\ Promise!EmptyTable = EmptyTable
    /\ \A d, n, x : Promise!NameTaken(d, n, x) <=> NameTaken(d, n, x)
    /\ \A d, b : Promise!ItemsOf(d, b) = ItemsOf(d, b)
    /\ \A d : Promise!NamesUnique(d) <=> NamesUnique(d)
BY DEF Promise!Rowids, Rowids, Promise!Bin, Bin, Promise!Item, Item,
       Promise!EmptyTable, EmptyTable, Promise!NameTaken, NameTaken,
       Promise!ItemsOf, ItemsOf, Promise!NamesUnique, NamesUnique

(* INSERT puts one row under a new id.                                     *)
LEMMA InsertIsWith ==
    ASSUME NEW table, NEW row, NEW Row, IsTable(table, Row), HasRoom(table)
    PROVE  /\ NextRowid(table) \in Rowids \ DOMAIN table
           /\ Insert(table, row) = Promise!With(table, NextRowid(table), row)
BY NextRowidFresh DEF HasRoom, Insert, Promise!With

(* UPDATE replaces the row, if it is there.                                *)
LEMMA UpdateIsWith ==
    ASSUME NEW table, NEW row, NEW Row, IsTable(table, Row), NEW id
    PROVE  /\ id \in DOMAIN table =>
                  Update(table, id, row) = Promise!With(table, id, row)
           /\ id \notin DOMAIN table => Update(table, id, row) = table
BY DEF Update, Promise!With, IsTable

(* DELETE leaves the other rows.                                           *)
LEMMA DeleteIsWithout ==
    ASSUME NEW table, NEW ids
    PROVE  Delete(table, ids) = Promise!Without(table, ids)
BY DEF Delete, Restrict, Promise!Without

(* A statement on bins that is committed adds or edits a bin, or changes   *)
(* nothing.                                                                *)
LEMMA BinStatement ==
    ASSUME IsDatabase(db), NEW bin \in Bin
    PROVE  /\ InsertBinAllowed(db, bin) /\ db' = InsertBin(db, bin) => Promise!AddBin
           /\ \A b : UpdateBinAllowed(db, b, bin) /\ db' = UpdateBinRow(db, b, bin)
                  => Promise!EditBin \/ UNCHANGED Visible
<1>1. ASSUME InsertBinAllowed(db, bin), db' = InsertBin(db, bin)
      PROVE  Promise!AddBin
  <2> DEFINE id == NextRowid(db.bins)
  <2>1. /\ db'.bins = Insert(db.bins, bin) /\ db'.items = db.items
        /\ IsTable(db.bins, Bin) /\ HasRoom(db.bins) /\ ~NameTaken(db, bin.name, 0)
    BY <1>1 DEF IsDatabase, InsertBin, InsertBinAllowed
  <2>2. id \in Rowids \ DOMAIN db.bins /\ db'.bins = Promise!With(db.bins, id, bin)
    BY <2>1, InsertIsWith
  <2>3. ~NameTaken(Visible, bin.name, 0)
    BY <2>1 DEF NameTaken, Visible
  <2> HIDE DEF id
  <2> QED
    BY <2>1, <2>2, <2>3, SameNotions DEF Promise!AddBin, Visible
<1>2. ASSUME NEW b, UpdateBinAllowed(db, b, bin), db' = UpdateBinRow(db, b, bin)
      PROVE  Promise!EditBin \/ UNCHANGED Visible
  <2>1. /\ db'.bins = Update(db.bins, b, bin) /\ db'.items = db.items
        /\ IsTable(db.bins, Bin)
    BY <1>2 DEF IsDatabase, UpdateBinRow
  <2>2. CASE b \in DOMAIN db.bins
    <3>1. db'.bins = Promise!With(db.bins, b, bin) /\ ~NameTaken(Visible, bin.name, b)
      BY <1>2, <2>1, <2>2, UpdateIsWith DEF UpdateBinAllowed, NameTaken, Visible
    <3> QED
      BY <2>1, <2>2, <3>1, SameNotions DEF Promise!EditBin, Visible
  <2>3. CASE b \notin DOMAIN db.bins
    BY <2>1, <2>3, UpdateIsWith DEF Visible
  <2> QED
    BY <2>2, <2>3
<1> QED
  BY <1>1, <1>2

(* A statement on items that is committed adds, edits or removes an item,  *)
(* or changes nothing.                                                     *)
LEMMA ItemStatement ==
    ASSUME IsDatabase(db)
    PROVE  /\ \A item \in Item :
                  InsertItemAllowed(db, item) /\ db' = InsertItem(db, item)
                      => Promise!AddItem
           /\ \A i : \A item \in Item :
                  UpdateItemAllowed(db, i, item) /\ db' = UpdateItemRow(db, i, item)
                      => Promise!EditItem \/ UNCHANGED Visible
           /\ \A i \in DOMAIN db.items :
                  db' = DeleteItems(db, {i}) => Promise!RemoveItem
<1>1. ASSUME NEW item \in Item, InsertItemAllowed(db, item), db' = InsertItem(db, item)
      PROVE  Promise!AddItem
  <2> DEFINE id == NextRowid(db.items)
  <2>1. /\ db'.items = Insert(db.items, item) /\ db'.bins = db.bins
        /\ IsTable(db.items, Item) /\ HasRoom(db.items) /\ item.bin \in DOMAIN db.bins
    BY <1>1 DEF IsDatabase, InsertItem, InsertItemAllowed
  <2>2. id \in Rowids \ DOMAIN db.items /\ db'.items = Promise!With(db.items, id, item)
    BY <2>1, InsertIsWith
  <2> HIDE DEF id
  <2> QED
    BY <2>1, <2>2, SameNotions DEF Promise!AddItem
<1>2. ASSUME NEW i, NEW item \in Item,
             UpdateItemAllowed(db, i, item), db' = UpdateItemRow(db, i, item)
      PROVE  Promise!EditItem \/ UNCHANGED Visible
  <2>1. /\ db'.items = Update(db.items, i, item) /\ db'.bins = db.bins
        /\ IsTable(db.items, Item)
    BY <1>2 DEF IsDatabase, UpdateItemRow
  <2>2. CASE i \in DOMAIN db.items
    <3>1. db'.items = Promise!With(db.items, i, item) /\ item.bin \in DOMAIN db.bins
      BY <1>2, <2>1, <2>2, UpdateIsWith DEF UpdateItemAllowed
    <3> QED
      BY <2>1, <2>2, <3>1, SameNotions DEF Promise!EditItem
  <2>3. CASE i \notin DOMAIN db.items
    BY <2>1, <2>3, UpdateIsWith DEF Visible
  <2> QED
    BY <2>2, <2>3
<1>3. ASSUME NEW i \in DOMAIN db.items, db' = DeleteItems(db, {i})
      PROVE  Promise!RemoveItem
  <2>1. db'.items = Promise!Without(db.items, {i}) /\ db'.bins = db.bins
    BY <1>3, DeleteIsWithout DEF DeleteItems
  <2>2. Visible' = [Visible EXCEPT !.items = Promise!Without(db.items, {i})]
    BY <2>1 DEF Visible
  <2>3. i \in DOMAIN Visible.items /\ Visible.items = db.items
    BY DEF Visible
  <2> QED
    BY <2>2, <2>3 DEF Promise!RemoveItem, Visible
<1> QED
  BY <1>1, <1>2, <1>3

(* Committing what DeleteBin did removes the bin with all that is in it.   *)
LEMMA DeleteBinCommits ==
    ASSUME NEW id \in DOMAIN db.bins, IsDatabase(db),
           db' = DeleteBins(DeleteItems(db, ItemsOf(db, id)), {id})
    PROVE  Promise!RemoveBin
<1> DEFINE e == DeleteItems(db, ItemsOf(db, id))
<1>1. /\ e = [bins |-> e.bins, items |-> e.items, fts |-> e.fts]
      /\ e.bins = db.bins /\ e.items = Delete(db.items, ItemsOf(db, id))
  BY DEF DeleteItems
<1> HIDE DEF e
<1>2. db'.bins = Delete(db.bins, {id}) /\ db'.items = Delete(db.items, ItemsOf(db, id))
  BY <1>1 DEF DeleteBins, e
<1>3. /\ db'.bins = Promise!Without(db.bins, {id})
      /\ db'.items = Promise!Without(db.items, ItemsOf(db, id))
  BY <1>2, DeleteIsWithout
<1>4. Promise!ItemsOf(Visible, id) = ItemsOf(db, id)
  BY SameNotions DEF ItemsOf, Visible
<1> QED
  BY <1>3, <1>4 DEF Promise!RemoveBin, Visible

(* Committing an import after its last row is one whole import.            *)
LEMMA ImportCommits ==
    ASSUME RInv, NEW file \in Files, NEW replace \in BOOLEAN, replace => file # <<>>,
           Loaded(ImportStart(replace), file, Len(file), work), db' = work
    PROVE  Promise!Import
<1> DEFINE start     == ImportStart(replace)
           keptBins  == IF replace THEN {} ELSE DOMAIN db.bins
           keptItems == IF replace THEN {} ELSE DOMAIN db.items
<1>1. /\ DOMAIN start.bins = keptBins /\ DOMAIN start.items = keptItems
      /\ \A b \in keptBins : start.bins[b] = db.bins[b]
      /\ \A i \in keptItems : start.items[i] = db.items[i]
  BY DEF ImportStart, Emptied, DeleteBins, DeleteItems, Delete, Restrict
<1> HIDE DEF start
<1>2. file \in Seq(FileRow) /\ DOMAIN file = 1..Len(file)
  BY FilesAssumption
<1>3. NamesUnique(work)
  BY DEF RInv, IInv, Consistent
<1>4. /\ \A b \in keptBins : b \in DOMAIN work.bins /\ work.bins[b] = db.bins[b]
      /\ \A i \in keptItems : i \in DOMAIN work.items /\ work.items[i] = db.items[i]
      /\ \A b \in DOMAIN work.bins \ keptBins : \E k \in DOMAIN file :
             /\ work.bins[b] = [name |-> file[k].bin, info |-> file[k].info]
             /\ \A earlier \in 1..(k - 1) : file[earlier].bin # file[k].bin
  BY <1>1, <1>2 DEF Loaded, start
<1>5. PICK slot \in Bijection(DOMAIN file, DOMAIN work.items \ keptItems) :
          \A k \in DOMAIN file :
              /\ work.items[slot[k]].text = file[k].text
              /\ work.items[slot[k]].bin \in DOMAIN work.bins
              /\ work.bins[work.items[slot[k]].bin].name = file[k].bin
  BY <1>1, <1>2 DEF Loaded, start
<1> HIDE DEF keptBins, keptItems
<1>6. {work.bins[b].name : b \in DOMAIN work.bins \ keptBins}
          = {file[k].bin : k \in DOMAIN file} \ {db.bins[b].name : b \in keptBins}
  <2>1. ASSUME NEW b \in DOMAIN work.bins \ keptBins
        PROVE  /\ \E k \in DOMAIN file : work.bins[b].name = file[k].bin
               /\ \A c \in keptBins : work.bins[b].name # db.bins[c].name
    <3>1. \E k \in DOMAIN file : work.bins[b].name = file[k].bin
      <4>1. PICK k \in DOMAIN file :
                work.bins[b] = [name |-> file[k].bin, info |-> file[k].info]
        BY <1>4
      <4>2. work.bins[b].name = file[k].bin
        BY <4>1
      <4> QED
        BY <4>2
    <3>2. ASSUME NEW c \in keptBins PROVE work.bins[b].name # db.bins[c].name
      BY <1>3, <1>4 DEF NamesUnique
    <3> QED
      BY <3>1, <3>2
  <2>2. ASSUME NEW k \in DOMAIN file, \A c \in keptBins : db.bins[c].name # file[k].bin
        PROVE  \E b \in DOMAIN work.bins \ keptBins : work.bins[b].name = file[k].bin
    BY <1>4, <1>5, <2>2
  <2> QED
    BY <2>1, <2>2
<1>7. Promise!Load(file, replace)
  <2>1. Promise!NamesUnique([bins |-> work.bins, items |-> work.items])
    BY <1>3, SameNotions DEF NamesUnique
  <2>2. Promise!Bijection(DOMAIN file, DOMAIN work.items \ keptItems)
            = Bijection(DOMAIN file, DOMAIN work.items \ keptItems)
    BY DEF Promise!Bijection, Bijection, Promise!Injection, Injection,
           Promise!Surjection, Surjection, Promise!IsInjective, IsInjective
  <2> DEFINE now  == [bins |-> db'.bins, items |-> db'.items]
             seen == [bins |-> db.bins, items |-> db.items]
             bins == IF replace THEN {} ELSE DOMAIN seen.bins
             items == IF replace THEN {} ELSE DOMAIN seen.items
  <2>3. /\ now.bins = work.bins /\ now.items = work.items
        /\ seen.bins = db.bins /\ seen.items = db.items
        /\ bins = keptBins /\ items = keptItems
    BY DEF keptBins, keptItems
  <2>4. now = [bins |-> work.bins, items |-> work.items]
    OBVIOUS
  <2> HIDE DEF now, seen, bins, items
  <2>5. /\ \A b \in bins : b \in DOMAIN now.bins /\ now.bins[b] = seen.bins[b]
        /\ \A i \in items : i \in DOMAIN now.items /\ now.items[i] = seen.items[i]
    BY <1>4, <2>3
  <2>6. {now.bins[b].name : b \in DOMAIN now.bins \ bins}
            = {file[k].bin : k \in DOMAIN file} \ {seen.bins[b].name : b \in bins}
    BY <1>6, <2>3
  <2>7. \A b \in DOMAIN now.bins \ bins : \E k \in DOMAIN file :
            /\ now.bins[b] = [name |-> file[k].bin, info |-> file[k].info]
            /\ \A earlier \in 1..(k - 1) : file[earlier].bin # file[k].bin
    BY <1>4, <2>3
  <2>8. \E s \in Promise!Bijection(DOMAIN file, DOMAIN now.items \ items) :
            \A k \in DOMAIN file :
                /\ now.items[s[k]].text = file[k].text
                /\ now.items[s[k]].bin \in DOMAIN now.bins
                /\ now.bins[now.items[s[k]].bin].name = file[k].bin
    BY <1>5, <2>2, <2>3
  <2>9. Promise!NamesUnique(now)
    BY <2>1, <2>4
  <2> QED
    BY <2>5, <2>6, <2>7, <2>8, <2>9, Zenon DEF Promise!Load, now, seen, bins, items
<1> QED
  BY <1>7 DEF Promise!Import

(* What a handler's later statement commits is a whole operation.          *)
LEMMA FinishImplements ==
    ASSUME RInv, NEW r \in Requests, Finish(r)
    PROVE  Promise!Next \/ UNCHANGED Visible
<1>1. req[r] \in Pending /\ IsDatabase(db)
  BY DEF RInv, IInv, TypeOK
<1>2. CASE FinishCreateBin(r)
  <2>1. req[r].bin \in Bin
    BY <1>1, <1>2, PendingFields DEF FinishCreateBin
  <2> QED
    BY <1>1, <1>2, <2>1, BinStatement DEF FinishCreateBin, AutoCommit, Promise!Next
<1>3. CASE FinishUpdateBin(r)
  <2>1. req[r].bin \in Bin
    BY <1>1, <1>3, PendingFields DEF FinishUpdateBin
  <2> QED
    BY <1>1, <1>3, <2>1, BinStatement DEF FinishUpdateBin, AutoCommit, Promise!Next
<1>4. CASE FinishCreateItem(r)
  <2>1. req[r].item \in Item
    BY <1>1, <1>4, PendingFields DEF FinishCreateItem
  <2> QED
    BY <1>1, <1>4, <2>1, ItemStatement DEF FinishCreateItem, AutoCommit, Promise!Next
<1>5. CASE FinishUpdateItem(r)
  <2>1. req[r].item \in Item
    BY <1>1, <1>5, PendingFields DEF FinishUpdateItem
  <2> QED
    BY <1>1, <1>5, <2>1, ItemStatement DEF FinishUpdateItem, AutoCommit, Promise!Next
<1>6. CASE FinishDeleteBin(r)
  <2>1. work = DeleteItems(db, ItemsOf(db, req[r].id)) /\ work.bins = db.bins
    <3>1. work = DeleteItems(db, ItemsOf(db, req[r].id))
      BY <1>6 DEF FinishDeleteBin, RInv, TxFollowsRequest
    <3>2. DeleteItems(db, ItemsOf(db, req[r].id)).bins = db.bins
      BY DEF DeleteItems
    <3> QED
      BY <3>1, <3>2
  <2>2. CASE req[r].id \in DOMAIN work.bins /\ CommitTx(r, DeleteBins(work, {req[r].id}))
    BY <1>1, <2>1, <2>2, DeleteBinCommits DEF CommitTx, Promise!Next
  <2>3. CASE Rollback
    BY <2>3 DEF Rollback, Visible
  <2> QED
    BY <1>6, <2>2, <2>3 DEF FinishDeleteBin
<1>7. CASE FinishImport(r)
  <2>1. PICK file \in Files, replace \in BOOLEAN : \E done \in 0..Len(file) :
            /\ replace => file # <<>>
            /\ req[r].rows = SubSeq(file, done + 1, Len(file))
            /\ Loaded(ImportStart(replace), file, done, work)
    BY <1>7 DEF FinishImport, RInv, TxFollowsRequest
  <2>2. Loaded(ImportStart(replace), file, Len(file), work)
    BY <1>7, <2>1, FilesAssumption, RowsLeft DEF FinishImport
  <2> QED
    BY <1>7, <2>1, <2>2, ImportCommits DEF FinishImport, CommitTx, Promise!Next
<1>8. CASE ImportRow(r) \/ CloseRows(r) \/ NextQuery(r) \/ FinishPage(r)
  BY <1>8 DEF ImportRow, CloseRows, NextQuery, FinishPage, Visible
<1> QED
  BY <1>2, <1>3, <1>4, <1>5, <1>6, <1>7, <1>8 DEF Finish

(* Every step is a whole operation to the users, or nothing at all.        *)
LEMMA StepImplements == RInv /\ [Next]_vars => [Promise!Next]_Visible
<1> SUFFICES ASSUME RInv, [Next]_vars PROVE Promise!Next \/ UNCHANGED Visible
  OBVIOUS
<1>1. ASSUME NEW r \in Requests, Begin(r) PROVE UNCHANGED Visible
  BY <1>1 DEF Begin, BeginCreateBin, BeginUpdateBin, BeginDeleteBin, BeginCreateItem,
              BeginUpdateItem, BeginImport, BeginPage, Query, BeginTx, Visible
<1>2. ASSUME NEW r \in Requests, DeleteItem(r) PROVE Promise!Next
  BY <1>2, ItemStatement DEF DeleteItem, AutoCommit, RInv, IInv, TypeOK, Promise!Next
<1>3. CASE (\E r \in Requests : Fail(r)) \/ Crash
  BY <1>3 DEF Fail, Crash, Rollback, Visible
<1>4. CASE UNCHANGED vars
  BY <1>4 DEF vars, Visible
<1> QED
  BY <1>1, <1>2, <1>3, <1>4, FinishImplements DEF Next

(***************************************************************************)
(* However requests interleave and fail, and wherever the process dies,    *)
(* bins and items change by whole operations: module Inventory implements  *)
(* module InventorySpec.  Until an import or DeleteBin commits nobody sees *)
(* any of it, and its commit is one step of the promise.                   *)
(***************************************************************************)
THEOREM OperationsAreWhole == Spec => WholeOperationsOnly
<1>1. Init => Promise!Init
  BY SameNotions DEF Init, Promise!Init, EmptyDatabase
<1> QED
  BY <1>1, StepImplements, RefinementInvariance, PTL
     DEF Spec, WholeOperationsOnly, Promise!Spec, Visible

-----------------------------------------------------------------------------
(* Fields of a backup *)

(* Strings; the provers do not know that these two are among them.         *)
Characters == STRING \cup {"LF", "quote"}

Field == Seq(Characters)

(* Sequences with the same elements in the same places are the same.       *)
LEMMA SameSequence ==
    ASSUME NEW S, NEW a \in Seq(S), NEW b \in Seq(S), Len(a) = Len(b),
           \A k \in 1..Len(a) : a[k] = b[k]
    PROVE  a = b
OBVIOUS

(* Trimming cuts a field at its outermost characters that are not spaces.  *)
LEMMA TrimIs ==
    ASSUME NEW field \in Field, NEW i \in DOMAIN field, NEW j \in DOMAIN field,
           field[i] \notin Spaces, field[j] \notin Spaces,
           \A k \in DOMAIN field : field[k] \notin Spaces => i <= k /\ k <= j
    PROVE  TrimSpace(field) = SubSeq(field, i, j)
<1> DEFINE solid == {k \in DOMAIN field : field[k] \notin Spaces}
           First == CHOOSE k \in solid : \A l \in solid : k <= l
           EndAt  == CHOOSE k \in solid : \A l \in solid : l <= k
<1>1. i \in solid /\ j \in solid /\ solid \subseteq Nat
  BY DEF Field
<1>2. \A k \in solid : i <= k /\ k <= j
  OBVIOUS
<1>3. TrimSpace(field) = SubSeq(field, First, EndAt)
  BY <1>1 DEF TrimSpace
<1> HIDE DEF solid
<1>4. First = i
  <2>1. First \in solid /\ \A l \in solid : First <= l
    BY <1>1, <1>2
  <2> HIDE DEF First
  <2>2. First <= i /\ i <= First /\ First \in Nat /\ i \in Nat
    BY <1>1, <1>2, <2>1
  <2> QED
    BY <2>2
<1>5. EndAt = j
  <2>1. EndAt \in solid /\ \A l \in solid : l <= EndAt
    BY <1>1, <1>2
  <2> HIDE DEF EndAt
  <2>2. EndAt <= j /\ j <= EndAt /\ EndAt \in Nat /\ j \in Nat
    BY <1>1, <1>2, <2>1
  <2> QED
    BY <2>2
<1> HIDE DEF First, EndAt
<1> QED
  BY <1>3, <1>4, <1>5

(* A field is all spaces, or has such characters.                          *)
LEMMA TrimShape ==
    ASSUME NEW field \in Field
    PROVE  \/ /\ \A k \in DOMAIN field : field[k] \in Spaces
              /\ TrimSpace(field) = <<>>
           \/ \E i, j \in DOMAIN field :
                  /\ i <= j /\ field[i] \notin Spaces /\ field[j] \notin Spaces
                  /\ \A k \in DOMAIN field : field[k] \notin Spaces => i <= k /\ k <= j
                  /\ TrimSpace(field) = SubSeq(field, i, j)
<1> DEFINE solid == {k \in DOMAIN field : field[k] \notin Spaces}
<1>1. DOMAIN field = 1..Len(field) /\ Len(field) \in Nat
  BY DEF Field
<1>2. CASE solid = {}
  <2>1. \A k \in DOMAIN field : field[k] \in Spaces
    BY <1>2
  <2>2. TrimSpace(field) = <<>>
    BY <1>2 DEF TrimSpace
  <2> QED
    BY <2>1, <2>2
<1>3. CASE solid # {}
  <2>1. solid \in SUBSET Nat /\ \A k \in solid : k \in Nat /\ k <= Len(field)
    BY <1>1
  <2>2. \A k \in DOMAIN field : field[k] \notin Spaces <=> k \in solid
    OBVIOUS
  <2>3. solid \subseteq DOMAIN field
    OBVIOUS
  <2> HIDE DEF solid
  <2>4. PICK i \in solid : \A k \in solid : i <= k
    BY <1>3, <2>1, LeastNatural
  <2>5. PICK j \in solid : \A k \in solid : k <= j
    BY <1>1, <1>3, <2>1, LargestNatural
  <2>6. /\ i \in DOMAIN field /\ j \in DOMAIN field /\ i <= j
        /\ field[i] \notin Spaces /\ field[j] \notin Spaces
        /\ \A k \in DOMAIN field : field[k] \notin Spaces => i <= k /\ k <= j
    BY <2>2, <2>3, <2>4, <2>5
  <2>7. TrimSpace(field) = SubSeq(field, i, j)
    BY <2>6, TrimIs
  <2> QED
    BY <2>6, <2>7
<1> QED
  BY <1>2, <1>3

(* A field that begins with anything but a space is cut at its end only.   *)
LEMMA TrimEnd ==
    ASSUME NEW field \in Field, field # <<>>, field[1] \notin Spaces
    PROVE  \E j \in DOMAIN field :
               /\ field[j] \notin Spaces
               /\ \A k \in DOMAIN field : field[k] \notin Spaces => k <= j
               /\ TrimSpace(field) = SubSeq(field, 1, j)
<1>1. 1 \in DOMAIN field /\ DOMAIN field \subseteq Nat \ {0}
  BY DEF Field
<1>2. PICK i, j \in DOMAIN field :
          /\ i <= j /\ field[i] \notin Spaces /\ field[j] \notin Spaces
          /\ \A k \in DOMAIN field : field[k] \notin Spaces => i <= k /\ k <= j
          /\ TrimSpace(field) = SubSeq(field, i, j)
  BY <1>1, TrimShape
<1>3. i = 1
  BY <1>1, <1>2
<1> QED
  BY <1>2, <1>3

(* Reading lines makes no space anything else, and no quote and no formula *)
(* character either.                                                       *)
LEMMA NormalizedField ==
    ASSUME NEW field \in Field
    PROVE  /\ NormalizeLines(field) \in Field
           /\ Len(NormalizeLines(field)) = Len(field)
           /\ \A k \in 1..Len(field) :
                  /\ NormalizeLines(field)[k] = IF field[k] = "CRLF" THEN "LF" ELSE field[k]
                  /\ NormalizeLines(field)[k] \in Spaces <=> field[k] \in Spaces
                  /\ NormalizeLines(field)[k] = "quote" <=> field[k] = "quote"
                  /\ NormalizeLines(field)[k] \in csvFormulaPrefixes
                         <=> field[k] \in csvFormulaPrefixes
<1> DEFINE read == NormalizeLines(field)
<1>1. DOMAIN field = 1..Len(field) /\ Len(field) \in Nat
  BY DEF Field
<1>2. read = [k \in 1..Len(field) |-> IF field[k] = "CRLF" THEN "LF" ELSE field[k]]
  BY <1>1 DEF NormalizeLines
<1>3. \A k \in 1..Len(field) : field[k] \in Characters
  BY DEF Field
<1>4. read \in Field /\ Len(read) = Len(field)
  <2>1. read \in [1..Len(field) -> Characters]
    BY <1>2, <1>3 DEF Characters
  <2> HIDE DEF read
  <2>2. read \in Seq(Characters) /\ Len(read) = Len(field)
    BY <1>1, <2>1
  <2> QED
    BY <2>2 DEF Field
<1> QED
  BY <1>2, <1>4 DEF csvFormulaPrefixes, Spaces

(* The quote before a formula character, whoever put it there, is taken    *)
(* away when the field is read.                                            *)
LEMMA QuoteIsTaken ==
    ASSUME NEW field \in Field, Len(field) >= 2,
           field[1] = "quote", field[2] \in csvFormulaPrefixes
    PROVE  ReadField(field) = TrimSpace(NormalizeLines(Tail(field)))
<1> DEFINE read == NormalizeLines(field)
           rest == NormalizeLines(Tail(field))
<1>1. /\ Tail(field) \in Field /\ Len(Tail(field)) = Len(field) - 1
      /\ Len(field) \in Nat
      /\ \A k \in 1..(Len(field) - 1) : Tail(field)[k] = field[k + 1]
  BY DEF Field
<1>2. /\ read \in Field /\ Len(read) = Len(field)
      /\ rest \in Field /\ Len(rest) = Len(field) - 1
      /\ \A k \in 1..(Len(field) - 1) : rest[k] = read[k + 1]
      /\ read[1] = "quote" /\ read[2] \in csvFormulaPrefixes
  <2> DEFINE tail == Tail(field)
  <2>a. tail \in Field /\ Len(tail) = Len(field) - 1
    BY <1>1
  <2> HIDE DEF tail
  <2>b. /\ NormalizeLines(tail) \in Field /\ Len(NormalizeLines(tail)) = Len(tail)
        /\ \A k \in 1..Len(tail) :
               NormalizeLines(tail)[k] = IF tail[k] = "CRLF" THEN "LF" ELSE tail[k]
    BY <2>a, NormalizedField
  <2>1. /\ read \in Field /\ Len(read) = Len(field)
        /\ rest \in Field /\ Len(rest) = Len(field) - 1
        /\ read[1] = "quote" /\ read[2] \in csvFormulaPrefixes
    BY <1>1, <2>a, <2>b, NormalizedField DEF tail
  <2>2. ASSUME NEW k \in 1..(Len(field) - 1) PROVE rest[k] = read[k + 1]
    <3>1. k \in 1..Len(Tail(field)) /\ k + 1 \in 1..Len(field)
      BY <1>1
    <3>2. rest[k] = IF Tail(field)[k] = "CRLF" THEN "LF" ELSE Tail(field)[k]
      BY <2>a, <2>b, <3>1 DEF tail
    <3>3. read[k + 1] = IF field[k + 1] = "CRLF" THEN "LF" ELSE field[k + 1]
      BY <3>1, NormalizedField
    <3> QED
      BY <1>1, <3>2, <3>3
  <2> QED
    BY <2>1, <2>2
<1> HIDE DEF read, rest
<1>3. rest # <<>> /\ rest[1] \notin Spaces /\ rest[1] \in csvFormulaPrefixes
  BY <1>2 DEF csvFormulaPrefixes, Spaces, Field
<1>4. PICK j \in DOMAIN rest :
          /\ rest[j] \notin Spaces
          /\ \A k \in DOMAIN rest : rest[k] \notin Spaces => k <= j
          /\ TrimSpace(rest) = SubSeq(rest, 1, j)
  BY <1>2, <1>3, TrimEnd
<1>5. j \in 1..(Len(field) - 1) /\ DOMAIN rest = 1..(Len(field) - 1)
      /\ DOMAIN read = 1..Len(field)
  BY <1>1, <1>2 DEF Field
<1>6. TrimSpace(read) = SubSeq(read, 1, j + 1)
  <2>1. 1 \in DOMAIN read /\ j + 1 \in DOMAIN read
    BY <1>1, <1>5
  <2>2. read[1] \notin Spaces /\ read[j + 1] \notin Spaces
    BY <1>2, <1>4, <1>5 DEF Spaces
  <2>3. ASSUME NEW k \in DOMAIN read, read[k] \notin Spaces PROVE 1 <= k /\ k <= j + 1
    <3>1. CASE k = 1
      BY <1>5, <3>1
    <3>2. CASE k # 1
      <4>1. k - 1 \in DOMAIN rest /\ rest[k - 1] = read[k]
        BY <1>1, <1>2, <1>5, <3>2
      <4> QED
        BY <1>4, <1>5, <2>3, <4>1
    <3> QED
      BY <3>1, <3>2
  <2> QED
    BY <1>2, <2>1, <2>2, <2>3, TrimIs
<1> DEFINE cut == SubSeq(read, 1, j + 1)
<1>7. /\ cut \in Field /\ Len(cut) = j + 1
      /\ \A k \in 1..(j + 1) : cut[k] = read[k]
  BY <1>1, <1>2, <1>5 DEF Field
<1>8. DesanitizeCSVField(cut) = Tail(cut)
  <2> HIDE DEF cut
  <2>1. Len(cut) >= 2 /\ cut[1] = "quote" /\ cut[2] \in csvFormulaPrefixes
    BY <1>1, <1>2, <1>5, <1>7
  <2> QED
    BY <2>1 DEF DesanitizeCSVField
<1>9. Tail(cut) = SubSeq(rest, 1, j)
  <2> DEFINE a == Tail(cut)
             b == SubSeq(rest, 1, j)
  <2>1. a \in Field /\ Len(a) = j /\ \A k \in 1..j : a[k] = cut[k + 1]
    <3> HIDE DEF cut
    <3> QED
      BY <1>5, <1>7 DEF Field
  <2>2. b \in Field /\ Len(b) = j /\ \A k \in 1..j : b[k] = rest[k]
    BY <1>1, <1>2, <1>5 DEF Field
  <2>3. \A k \in 1..j : cut[k + 1] = rest[k]
    <3> HIDE DEF cut
    <3> QED
      BY <1>1, <1>2, <1>5, <1>7
  <2> HIDE DEF a, b, cut
  <2>4. a = b
    BY <2>1, <2>2, <2>3, SameSequence DEF Field
  <2> QED
    BY <2>4 DEF a, b
<1> QED
  BY <1>4, <1>6, <1>8, <1>9 DEF ReadField, read, rest

(* A field that a user may see in a form: nothing, or no space in front.   *)
Presentable(field) == field # <<>> => field[1] \notin Spaces

(* Reading a field leaves no space in front.                               *)
LEMMA ReadPresentable ==
    ASSUME NEW field \in Field
    PROVE  Presentable(ReadField(field))
<1> DEFINE read == NormalizeLines(field)
           cut  == TrimSpace(read)
<1>1. read \in Field
  BY NormalizedField
<1> HIDE DEF read
<1>2. cut \in Field /\ (cut # <<>> => cut[1] \notin Spaces)
  <2>1. CASE cut = <<>>
    BY <2>1 DEF Field
  <2>2. CASE cut # <<>>
    <3>1. PICK i, j \in DOMAIN read :
              i <= j /\ read[i] \notin Spaces /\ cut = SubSeq(read, i, j)
      BY <1>1, <2>2, TrimShape
    <3>2. DOMAIN read = 1..Len(read) /\ Len(read) \in Nat
      BY <1>1 DEF Field
    <3>3. SubSeq(read, i, j) \in Field /\ SubSeq(read, i, j)[1] = read[i]
      BY <1>1, <3>1, <3>2 DEF Field
    <3> QED
      BY <3>1, <3>3
  <2> QED
    BY <2>1, <2>2
<1> HIDE DEF cut
<1>3. CASE Len(cut) >= 2 /\ cut[1] = "quote" /\ cut[2] \in csvFormulaPrefixes
  <2>1. DesanitizeCSVField(cut) = Tail(cut)
    BY <1>3 DEF DesanitizeCSVField
  <2>2. Tail(cut)[1] = cut[2] /\ cut[2] \notin Spaces
    BY <1>2, <1>3 DEF csvFormulaPrefixes, Spaces, Field
  <2> QED
    BY <2>1, <2>2 DEF Presentable, ReadField, cut, read
<1>4. CASE ~(Len(cut) >= 2 /\ cut[1] = "quote" /\ cut[2] \in csvFormulaPrefixes)
  <2>1. DesanitizeCSVField(cut) = cut
    BY <1>4 DEF DesanitizeCSVField
  <2> QED
    BY <1>2, <2>1 DEF Presentable, ReadField, cut, read
<1> QED
  BY <1>3, <1>4

(* What is kept of a field on its way out and back, before it is trimmed.  *)
Kept(field) == IF BeginsQuoted(field) THEN Tail(field) ELSE field

(* The lines of what is kept are read, and it is trimmed.                  *)
LEMMA ComesBackTrimmed ==
    ASSUME NEW field
    PROVE  ComesBackAs(field) = TrimSpace(NormalizeLines(Kept(field)))
BY DEF ComesBackAs, Kept

(* A field is written and read back with nothing lost but spaces at its    *)
(* end, line breaks, and a quote typed before a formula character.         *)
LEMMA FieldRestored ==
    ASSUME NEW field \in Field, Presentable(field)
    PROVE  ReadField(SanitizeCSVField(field)) = ComesBackAs(field)
<1>1. CASE field # <<>> /\ field[1] \in csvFormulaPrefixes
  <2> DEFINE written == <<"quote">> \o field
  <2>1. Len(field) \in Nat \ {0} /\ field[1] # "quote" /\ "quote" \in Characters
    BY <1>1 DEF csvFormulaPrefixes, Field, Characters
  <2>2. Head(field) = field[1]
    BY <1>1 DEF Field
  <2>3. SanitizeCSVField(field) = written
    BY <1>1, <2>2 DEF SanitizeCSVField
  <2>4. /\ written \in Field /\ Len(written) = Len(field) + 1
        /\ written[1] = "quote" /\ written[2] = field[1]
        /\ Tail(written) = field
    <3>1. written \in Field /\ Len(written) = Len(field) + 1
      BY <2>1 DEF Field
    <3>2. written[1] = "quote"
      BY <2>1 DEF Field
    <3>3. written[2] = field[1]
      BY <2>1 DEF Field
    <3>4. Tail(written) = field
      BY <2>1 DEF Field
    <3> QED
      BY <3>1, <3>2, <3>3, <3>4
  <2> HIDE DEF written
  <2>5. ReadField(written) = TrimSpace(NormalizeLines(field))
    <3>1. Len(written) >= 2 /\ written[2] \in csvFormulaPrefixes
      BY <1>1, <2>1, <2>4
    <3>2. ReadField(written) = TrimSpace(NormalizeLines(Tail(written)))
      BY <2>4, <3>1, QuoteIsTaken
    <3> QED
      BY <2>4, <3>2
  <2>6. Kept(field) = field
    BY <2>1 DEF Kept, BeginsQuoted
  <2> QED
    BY <2>3, <2>5, <2>6, ComesBackTrimmed
<1>2. CASE ~(field # <<>> /\ field[1] \in csvFormulaPrefixes) /\ BeginsQuoted(field)
  <2>1. SanitizeCSVField(field) = field
    BY <1>2 DEF SanitizeCSVField, Field
  <2>2. Len(field) >= 2 /\ field[1] = "quote" /\ field[2] \in csvFormulaPrefixes
    BY <1>2 DEF BeginsQuoted, csvFormulaPrefixes, Field
  <2>3. Kept(field) = Tail(field)
    BY <1>2 DEF Kept
  <2> QED
    BY <2>1, <2>2, <2>3, QuoteIsTaken, ComesBackTrimmed
<1>3. CASE ~(field # <<>> /\ field[1] \in csvFormulaPrefixes) /\ ~BeginsQuoted(field)
  <2>1. SanitizeCSVField(field) = field
    BY <1>3 DEF SanitizeCSVField, Field
  <2> DEFINE read == NormalizeLines(field)
             cut  == TrimSpace(read)
  <2>2. /\ read \in Field /\ Len(read) = Len(field) /\ Len(field) \in Nat
        /\ field # <<>> => read # <<>> /\ read[1] \notin Spaces
    BY NormalizedField DEF Presentable, Field
  <2>3. ASSUME NEW k \in 1..Len(field)
        PROVE  /\ read[k] = "quote" <=> field[k] = "quote"
               /\ read[k] \in csvFormulaPrefixes <=> field[k] \in csvFormulaPrefixes
    BY NormalizedField
  <2> HIDE DEF read
  <2>4. ~(Len(cut) >= 2 /\ cut[1] = "quote" /\ cut[2] \in csvFormulaPrefixes)
    <3> SUFFICES ASSUME Len(cut) >= 2, cut[1] = "quote", cut[2] \in csvFormulaPrefixes
                 PROVE  FALSE
      OBVIOUS
    <3>1. PICK i, j \in DOMAIN read : i <= j /\ read[i] \notin Spaces
              /\ (\A k \in DOMAIN read : read[k] \notin Spaces => i <= k)
              /\ cut = SubSeq(read, i, j)
      <4>1. cut # <<>>
        <5> HIDE DEF cut
        <5> QED
          OBVIOUS
      <4> QED
        BY <2>2, <4>1, TrimShape
    <3>2. DOMAIN read = 1..Len(field)
      BY <2>2 DEF Field
    <3>3. field # <<>> /\ i = 1
      BY <2>2, <3>1, <3>2 DEF Field
    <3>4. Len(cut) = j /\ cut[1] = read[1] /\ cut[2] = read[2] /\ Len(field) >= 2
      <4>1. cut = SubSeq(read, 1, j) /\ j \in 1..Len(field)
        BY <3>1, <3>2, <3>3
      <4> HIDE DEF cut
      <4> QED
        BY <2>2, <4>1 DEF Field
    <3>5. field[1] = "quote" /\ field[2] \in csvFormulaPrefixes
      BY <2>2, <2>3, <3>4
    <3> QED
      BY <1>3, <2>2, <3>4, <3>5 DEF BeginsQuoted, csvFormulaPrefixes
  <2>5. DesanitizeCSVField(cut) = cut
    BY <2>4 DEF DesanitizeCSVField
  <2>6. Kept(field) = field
    BY <1>3 DEF Kept
  <2> QED
    BY <2>1, <2>5, <2>6, ComesBackTrimmed DEF ReadField, read
<1> QED
  BY <1>1, <1>2, <1>3

(* A trimmed field shows no space in front.                                *)
LEMMA TrimmedPresentable ==
    ASSUME NEW field \in Field, Trimmed(field)
    PROVE  Presentable(field)
<1> SUFFICES ASSUME field # <<>> PROVE field[1] \notin Spaces
  BY DEF Presentable
<1>1. PICK i, j \in DOMAIN field :
          i <= j /\ field[i] \notin Spaces /\ field = SubSeq(field, i, j)
  BY TrimShape DEF Trimmed
<1>2. i \in 1..Len(field) /\ j \in 1..Len(field) /\ Len(field) \in Nat
  BY DEF Field
<1>3. SubSeq(field, i, j)[1] = field[i]
  BY <1>1, <1>2 DEF Field
<1> QED
  BY <1>1, <1>3

(* A field with a character of its own at each end is trimmed.             *)
LEMMA SolidTrimmed ==
    ASSUME NEW field \in Field,
           field # <<>> => field[1] \notin Spaces /\ field[Len(field)] \notin Spaces
    PROVE  Trimmed(field)
<1> DEFINE n == Len(field)
<1>1. n \in Nat /\ DOMAIN field = 1..n
  BY DEF Field
<1>2. CASE field = <<>>
  BY <1>2 DEF Trimmed, TrimSpace
<1>3. CASE field # <<>>
  <2>1. 1 \in DOMAIN field /\ n \in DOMAIN field
    BY <1>1, <1>3 DEF Field
  <2>2. /\ field[1] \notin Spaces /\ field[n] \notin Spaces
        /\ \A k \in DOMAIN field : 1 <= k /\ k <= n
    BY <1>1, <1>3
  <2>3. TrimSpace(field) = SubSeq(field, 1, n)
    <3> HIDE DEF n
    <3> QED
      BY <2>1, <2>2, TrimIs
  <2>4. SubSeq(field, 1, n) = field
    BY DEF Field
  <2> QED
    BY <2>3, <2>4 DEF Trimmed
<1> QED
  BY <1>2, <1>3

(* Nothing of a plain field changes on its way out and back.               *)
LEMMA PlainComesBack ==
    ASSUME NEW field \in Field, Plain(field)
    PROVE  ComesBackAs(field) = field
<1> DEFINE n    == Len(field)
           read == NormalizeLines(field)
<1>1. n \in Nat /\ DOMAIN field = 1..n
  BY DEF Field
<1>2. read = field
  <2>1. read \in Field /\ Len(read) = n /\ \A k \in 1..n : read[k] = field[k]
    BY <1>1, NormalizedField DEF Plain
  <2> HIDE DEF read
  <2> QED
    BY <2>1, SameSequence DEF Field
<1>3. Kept(field) = field
  BY DEF Kept, Plain
<1> QED
  BY <1>2, <1>3, ComesBackTrimmed DEF Plain, Trimmed

(* A plain field of any length is read back as it was: one that is trimmed, *)
(* has no line break CRLF in it and does not begin with a quote typed      *)
(* before a formula character.                                             *)
THEOREM FieldComesBack ==
    ASSUME NEW field \in Field, Plain(field)
    PROVE  ReadField(SanitizeCSVField(field)) = field
<1>1. Presentable(field)
  BY TrimmedPresentable DEF Plain
<1> QED
  BY <1>1, FieldRestored, PlainComesBack

(* What is kept of a field shows no space in front, and does not begin with *)
(* a quote that would be taken the next time.                              *)
LEMMA KeptShape ==
    ASSUME NEW field \in Field, Presentable(field)
    PROVE  /\ Kept(field) \in Field /\ Len(Kept(field)) <= Len(field)
           /\ Presentable(Kept(field))
           /\ field # <<>> => Kept(field) # <<>>
           /\ Len(Kept(field)) \in Nat
           /\ ~BeginsQuoted(Kept(field))
<1> DEFINE kept == Kept(field)
<1>1. CASE BeginsQuoted(field)
  <2>1. kept = Tail(field) /\ Len(field) > 1 /\ Len(field) \in Nat
    BY <1>1 DEF Kept, BeginsQuoted, Field
  <2>2. /\ Tail(field) \in Field /\ Len(Tail(field)) = Len(field) - 1
        /\ Tail(field) # <<>> /\ Tail(field)[1] = field[2]
    <3> DEFINE tail == Tail(field)
    <3>1. tail \in Field /\ Len(tail) = Len(field) - 1
      BY <2>1 DEF Field
    <3>2. tail[1] = field[2]
      BY <2>1 DEF Field
    <3> HIDE DEF tail
    <3>3. tail # <<>>
      BY <2>1, <3>1 DEF Field
    <3> QED
      BY <3>1, <3>2, <3>3 DEF tail
  <2>3. field[2] \notin Spaces
    BY <1>1 DEF BeginsQuoted, csvFormulaPrefixes, Spaces
  <2> HIDE DEF kept
  <2>4. kept \in Field /\ Len(kept) = Len(field) - 1 /\ kept # <<>>
    BY <2>1, <2>2
  <2>5. Presentable(kept)
    BY <2>1, <2>2, <2>3 DEF Presentable
  <2>6. ~BeginsQuoted(kept)
    BY <1>1, <2>1, <2>2 DEF BeginsQuoted, csvFormulaPrefixes
  <2> QED
    BY <2>1, <2>4, <2>5, <2>6 DEF kept
<1>2. CASE ~BeginsQuoted(field)
  BY <1>2 DEF Kept, Field, Presentable
<1> QED
  BY <1>1, <1>2

(* What comes back is no longer than what went out, and is something if    *)
(* that was.                                                               *)
LEMMA ComesBackWithinLimits ==
    ASSUME NEW field \in Field, Presentable(field)
    PROVE  /\ field # <<>> => ComesBackAs(field) # <<>>
           /\ ComesBackAs(field) \in Field
           /\ Len(ComesBackAs(field)) <= Len(field)
<1> DEFINE kept == Kept(field)
           read == NormalizeLines(kept)
<1>1. /\ kept \in Field /\ Len(kept) <= Len(field) /\ Presentable(kept)
      /\ field # <<>> => kept # <<>>
      /\ Len(kept) \in Nat
  BY KeptShape
<1> HIDE DEF kept
<1>2. /\ read \in Field /\ Len(read) = Len(kept)
      /\ kept # <<>> => read # <<>> /\ read[1] \notin Spaces
  BY <1>1, NormalizedField DEF Presentable, Field
<1> HIDE DEF read
<1>3. ComesBackAs(field) = TrimSpace(read)
  BY ComesBackTrimmed DEF read, kept
<1>4. CASE kept = <<>>
  <2>1. \A k \in DOMAIN read : FALSE
    BY <1>1, <1>2, <1>4 DEF Field
  <2>2. TrimSpace(read) = <<>>
    BY <1>2, <2>1, TrimShape
  <2> QED
    BY <1>1, <1>3, <1>4, <2>2 DEF Field
<1>5. CASE kept # <<>>
  <2>1. PICK j \in DOMAIN read : TrimSpace(read) = SubSeq(read, 1, j)
    BY <1>2, <1>5, TrimEnd
  <2>2. j \in 1..Len(kept)
    BY <1>2, <2>1 DEF Field
  <2>3. /\ SubSeq(read, 1, j) \in Field /\ Len(SubSeq(read, 1, j)) = j
        /\ SubSeq(read, 1, j) # <<>>
    BY <1>1, <1>2, <2>2 DEF Field
  <2>4. Len(field) \in Nat
    BY DEF Field
  <2> QED
    BY <1>1, <1>3, <2>1, <2>2, <2>3, <2>4
<1> QED
  BY <1>4, <1>5

(* What an import of a backup left of a field, the next backup and import  *)
(* leave as it is: no number of round trips takes more from a stored text. *)
(* (sanitizeCSVField, desanitizeCSVField and the strict parser's trimming)  *)
THEOREM RoundTripsSettle ==
    ASSUME NEW field \in Field, Presentable(field)
    PROVE  ReadField(SanitizeCSVField(ComesBackAs(field))) = ComesBackAs(field)
<1> DEFINE kept == Kept(field)
           read == NormalizeLines(kept)
           once == ComesBackAs(field)
<1>1. kept \in Field /\ Presentable(kept) /\ Len(kept) \in Nat /\ ~BeginsQuoted(kept)
  BY KeptShape
<1> HIDE DEF kept
<1>2. /\ read \in Field /\ Len(read) = Len(kept)
      /\ kept # <<>> => read # <<>> /\ read[1] \notin Spaces
  BY <1>1, NormalizedField DEF Presentable, Field
<1>3. ASSUME NEW k \in 1..Len(kept)
      PROVE  /\ read[k] # "CRLF"
             /\ read[k] = "quote" <=> kept[k] = "quote"
             /\ read[k] \in csvFormulaPrefixes <=> kept[k] \in csvFormulaPrefixes
  BY <1>1, NormalizedField
<1> HIDE DEF read
<1>4. once = TrimSpace(read)
  BY ComesBackTrimmed DEF read, kept
<1> HIDE DEF once
<1>5. /\ once \in Field
      /\ once # <<>> => once[1] \notin Spaces /\ once[Len(once)] \notin Spaces
      /\ \A k \in DOMAIN once : once[k] # "CRLF"
      /\ ~BeginsQuoted(once)
  <2>1. CASE kept = <<>>
    <3>1. \A k \in DOMAIN read : FALSE
      BY <1>1, <1>2, <2>1 DEF Field
    <3>2. once = <<>>
      BY <1>2, <1>4, <3>1, TrimShape
    <3> QED
      BY <3>2 DEF Field, BeginsQuoted
  <2>2. CASE kept # <<>>
    <3>1. PICK j \in DOMAIN read : read[j] \notin Spaces /\ once = SubSeq(read, 1, j)
      BY <1>2, <1>4, <2>2, TrimEnd
    <3>2. j \in 1..Len(kept)
      BY <1>2, <3>1 DEF Field
    <3>3. once \in Field /\ Len(once) = j /\ \A k \in 1..j : once[k] = read[k]
      BY <1>1, <1>2, <3>1, <3>2 DEF Field
    <3>4. DOMAIN once = 1..j
      BY <3>3 DEF Field
    <3>5. once[1] \notin Spaces /\ once[j] \notin Spaces
      BY <1>1, <1>2, <2>2, <3>1, <3>2, <3>3
    <3>6. \A k \in DOMAIN once : once[k] # "CRLF"
      BY <1>1, <1>3, <3>2, <3>3, <3>4
    <3>7. ~BeginsQuoted(once)
      <4> SUFFICES ASSUME BeginsQuoted(once) PROVE FALSE
        OBVIOUS
      <4>1. j > 1 /\ once[1] = "quote" /\ once[2] \in csvFormulaPrefixes
        BY <3>3 DEF BeginsQuoted, csvFormulaPrefixes
      <4>2. kept[1] = "quote" /\ kept[2] \in csvFormulaPrefixes /\ Len(kept) > 1
        BY <1>1, <1>3, <3>2, <3>3, <4>1
      <4> QED
        BY <1>1, <4>2 DEF BeginsQuoted, csvFormulaPrefixes
    <3> QED
      BY <3>3, <3>5, <3>6, <3>7
  <2> QED
    BY <2>1, <2>2
<1> QED
  <2>1. Plain(once)
    BY <1>5, SolidTrimmed DEF Plain
  <2> QED
    BY <1>5, <2>1, FieldComesBack DEF once

(* Stored and pending rows pass validation, and show no space in front.    *)
GoodBin(bin) ==
    ValidBin(bin) /\ Presentable(bin.name) /\ Presentable(bin.info)

GoodText(text) == ValidItem(text) /\ Presentable(text)

GoodRow(row) == GoodBin([name |-> row.bin, info |-> row.info]) /\ GoodText(row.text)

GoodTables(d) ==
    /\ \A b \in DOMAIN d.bins : GoodBin(d.bins[b])
    /\ \A i \in DOMAIN d.items : GoodText(d.items[i].text)

GoodRequest(q) ==
    /\ q.op \in {"CreateBin", "UpdateBin"}   => GoodBin(q.bin)
    /\ q.op \in {"CreateItem", "UpdateItem"} => GoodText(q.item.text)
    /\ q.op = "Import" => \A k \in DOMAIN q.rows : GoodRow(q.rows[k])

FieldsGood ==
    /\ GoodTables(db)
    /\ GoodTables(work)
    /\ \A r \in Requests : GoodRequest(req[r])

(* Cutting a trimmed text to the limit makes it good.                      *)
LEMMA TruncatedGood ==
    ASSUME NEW field \in Field, Trimmed(field), field # <<>>
    PROVE  GoodText(TruncateRunes(field))
<1>1. Len(field) \in Nat \ {0} /\ field[1] \notin Spaces
  BY TrimmedPresentable DEF Presentable, Field
<1>2. CASE TooLong(field)
  <2> DEFINE cut == SubSeq(field, 1, MaxFieldLen)
  <2>1. MaxFieldLen \in 1..Len(field)
    BY <1>1, <1>2, CsvAssumption DEF TooLong
  <2>2. Len(cut) = MaxFieldLen /\ cut[1] = field[1] /\ cut \in Field
    BY <2>1 DEF Field
  <2>3. TruncateRunes(field) = cut
    BY <1>2 DEF TruncateRunes
  <2> HIDE DEF cut
  <2>4. cut # <<>> /\ ~TooLong(cut)
    BY <2>1, <2>2 DEF TooLong, Field
  <2> QED
    BY <1>1, <2>2, <2>3, <2>4 DEF GoodText, ValidItem, Presentable
<1>3. CASE ~TooLong(field)
  BY <1>1, <1>3 DEF TruncateRunes, GoodText, ValidItem, Presentable
<1> QED
  BY <1>2, <1>3

(* A Homebox record that is placed makes a good row.                       *)
LEMMA HomeboxRowGood ==
    ASSUME NEW record \in HomeboxRecord, Placed(record)
    PROVE  GoodRow(HomeboxRow(record))
<1> DEFINE name == DeriveBinName(record.location)
<1>1. record.name \in Field /\ Trimmed(record.name) /\ record.name # <<>>
  BY DEF HomeboxRecord, Placed, Field, Characters
<1>2. name \in Field /\ Trimmed(name) /\ name # <<>>
  <2> DEFINE Cell == {field \in Seq(STRING) : Trimmed(field)}
             bins == {k \in DOMAIN record.location : NamesBin(record.location[k])}
  <2>1. record.location \in Seq(Cell) /\ name # <<>>
    BY DEF HomeboxRecord, Placed
  <2>2. bins # {} /\ name = record.location[CHOOSE k \in bins : \A j \in bins : j <= k]
    BY <2>1 DEF DeriveBinName
  <2>3. bins \subseteq DOMAIN record.location
    OBVIOUS
  <2>4. DOMAIN record.location = 1..Len(record.location) /\ Len(record.location) \in Nat
    BY <2>1
  <2> HIDE DEF bins
  <2>5. \E k \in bins : \A j \in bins : j <= k
    <3>1. \A k \in bins : k \in Nat /\ k <= Len(record.location)
      BY <2>3, <2>4
    <3> QED
      BY <2>2, <2>4, <3>1, LargestNatural
  <2>6. PICK k \in DOMAIN record.location : name = record.location[k]
    BY <2>2, <2>3, <2>5
  <2>7. name \in Cell
    BY <2>1, <2>6
  <2> QED
    BY <2>1, <2>7 DEF Field, Characters
<1> HIDE DEF name
<1>3. GoodText(TruncateRunes(record.name)) /\ GoodText(TruncateRunes(name))
  BY <1>1, <1>2, TruncatedGood
<1>4. Presentable(<<>>) /\ ~TooLong(<<>>)
  BY CsvAssumption DEF Presentable, TooLong
<1>5. HomeboxRow(record) = [bin |-> TruncateRunes(name), info |-> <<>>,
                            text |-> TruncateRunes(record.name)]
  BY DEF HomeboxRow, name
<1> QED
  BY <1>3, <1>4, <1>5 DEF GoodRow, GoodBin, GoodText, ValidBin, ValidItem

(* Every row the lenient parser makes is that of a record it could place.  *)
LEMMA ParsedRows ==
    ASSUME NEW records \in Seq(HomeboxRecord)
    PROVE  ParseHomeboxCSV(records)
               \in Seq({HomeboxRow(record) : record \in {x \in HomeboxRecord : Placed(x)}})
<1> DEFINE Rows == {HomeboxRow(record) : record \in {x \in HomeboxRecord : Placed(x)}}
           n == Len(records)
           More(rows, k) == IF Placed(records[k]) THEN Append(rows, HomeboxRow(records[k]))
                            ELSE rows
           IsParsed(f, m) == f = [k \in 0..m |-> IF k = 0 THEN <<>> ELSE More(f[k - 1], k)]
           parsed == CHOOSE f : IsParsed(f, n)
<1>1. n \in Nat /\ \A k \in 1..n : records[k] \in HomeboxRecord
  OBVIOUS
<1>2. ParseHomeboxCSV(records) = parsed[n]
  BY DEF ParseHomeboxCSV
<1>3. \A rows \in Seq(Rows), k \in 1..n : More(rows, k) \in Seq(Rows)
  BY <1>1
<1> HIDE DEF Rows, n, More
<1>4. \A m \in 0..n : \E f : IsParsed(f, m)
  <2> DEFINE Stuck == {m \in 0..n : ~\E f : IsParsed(f, m)}
  <2> SUFFICES ASSUME Stuck # {} PROVE FALSE
    OBVIOUS
  <2>a. Stuck \in SUBSET Nat /\ \A k : k \in Stuck <=> k \in 0..n /\ ~\E f : IsParsed(f, k)
    OBVIOUS
  <2>1. PICK m \in Stuck : \A k \in Stuck : m <= k
    <3> HIDE DEF Stuck
    <3> QED
      BY <2>a, LeastNatural
  <2> HIDE DEF Stuck
  <2>2. CASE m = 0
    <3>1. IsParsed([k \in 0..0 |-> <<>>], 0)
      OBVIOUS
    <3> QED
      BY <2>a, <2>1, <2>2, <3>1
  <2>3. CASE m # 0
    <3>1. m \in 1..n /\ m - 1 \in 0..n /\ m - 1 \notin Stuck
      BY <1>1, <2>a, <2>1, <2>3
    <3>2. PICK g : IsParsed(g, m - 1)
      BY <2>a, <3>1
    <3> DEFINE f == [k \in 0..m |-> IF k = m THEN More(g[m - 1], m) ELSE g[k]]
    <3>3. \A k \in 0..m : f[k] = IF k = 0 THEN <<>> ELSE More(f[k - 1], k)
      <4> TAKE k \in 0..m
      <4>1. CASE k = m
        BY <1>1, <3>1, <4>1
      <4>2. CASE k # m
        <5>1. k \in 0..(m - 1)
          BY <1>1, <3>1, <4>2
        <5>2. g[k] = IF k = 0 THEN <<>> ELSE More(g[k - 1], k)
          BY <3>2, <5>1
        <5>3. f[k] = g[k] /\ (k # 0 => f[k - 1] = g[k - 1])
          BY <1>1, <3>1, <5>1
        <5> QED
          BY <5>2, <5>3
      <4> QED
        BY <4>1, <4>2
    <3>4. f = [k \in 0..m |-> f[k]]
      OBVIOUS
    <3>5. IsParsed(f, m)
      <4> HIDE DEF f
      <4> QED
        BY <3>3, <3>4
    <3> QED
      BY <2>a, <2>1, <3>5
  <2> QED
    BY <2>2, <2>3
<1>5. IsParsed(parsed, n)
  <2>1. \E f : IsParsed(f, n)
    BY <1>1, <1>4
  <2> HIDE DEF IsParsed
  <2> QED
    BY <2>1
<1> HIDE DEF parsed
<1>6. /\ parsed[0] = <<>>
      /\ \A k \in 1..n : parsed[k] = More(parsed[k - 1], k)
  BY <1>1, <1>5
<1>7. \A m \in 0..n : parsed[m] \in Seq(Rows)
  <2> DEFINE Bad == {m \in 0..n : parsed[m] \notin Seq(Rows)}
  <2> SUFFICES ASSUME Bad # {} PROVE FALSE
    OBVIOUS
  <2>a. Bad \in SUBSET Nat /\ \A k : k \in Bad <=> k \in 0..n /\ parsed[k] \notin Seq(Rows)
    OBVIOUS
  <2> HIDE DEF Bad
  <2>1. PICK m \in Bad : \A k \in Bad : m <= k
    BY <2>a, LeastNatural
  <2>b. <<>> \in Seq(Rows)
    OBVIOUS
  <2>2. m # 0
    BY <1>6, <2>a, <2>b, <2>1
  <2>3. m \in 1..n /\ m - 1 \in 0..n /\ m - 1 \notin Bad
    BY <1>1, <2>a, <2>1, <2>2
  <2> QED
    BY <1>3, <1>6, <2>a, <2>1, <2>3
<1> QED
  BY <1>1, <1>2, <1>7 DEF Rows

(* Whatever parser takes a file, its rows pass validation and show no      *)
(* space in front: the strict one refuses the others, the lenient one skips *)
(* or cuts them.                                                           *)
LEMMA FileRowsGood ==
    ASSUME NEW file \in Files, NEW k \in DOMAIN file
    PROVE  GoodRow(file[k])
<1>1. PICK u \in Uploads : Accepted(u) /\ file = ParseUpload(u)
  BY DEF Files
<1>2. u \in Upload
  BY UploadsAssumption
<1>3. CASE u.header = "binbash"
  <2>1. u.records \in Seq(BackupRecord)
    BY <1>2, <1>3 DEF Upload
  <2>2. file = [j \in DOMAIN u.records |-> DesanitizeRow(u.records[j])]
    BY <1>1, <1>3 DEF ParseUpload, ParseBinbashCSV
  <2>3. k \in DOMAIN u.records /\ u.records[k] \in BackupRecord
    BY <2>1, <2>2
  <2>4. ValidImportRow(file[k])
    BY <1>1, <1>3, <2>3 DEF Accepted
  <2>5. file[k] = DesanitizeRow(u.records[k])
    BY <2>2
  <2>6. /\ u.records[k].bin \in Field /\ u.records[k].info \in Field
        /\ u.records[k].text \in Field
    BY <2>3 DEF BackupRecord, Field, Characters
  <2>7. /\ Presentable(file[k].bin) /\ Presentable(file[k].info)
        /\ Presentable(file[k].text)
    BY <2>5, <2>6, ReadPresentable DEF DesanitizeRow
  <2> QED
    BY <2>4, <2>7 DEF GoodRow, GoodBin, GoodText, ValidImportRow
<1>4. CASE u.header # "binbash"
  <2>1. u.header = "homebox" /\ u.records \in Seq(HomeboxRecord)
    BY <1>1, <1>2, <1>4 DEF Upload, Accepted
  <2> DEFINE Rows == {HomeboxRow(record) : record \in {x \in HomeboxRecord : Placed(x)}}
  <2>2. file \in Seq(Rows)
    BY <1>1, <2>1, ParsedRows DEF ParseUpload
  <2>3. file[k] \in Rows
    <3> HIDE DEF Rows
    <3> QED
      BY <2>2
  <2> QED
    BY <2>3, HomeboxRowGood
<1> QED
  BY <1>3, <1>4

-----------------------------------------------------------------------------
(* Good fields, wherever a row is stored or pending *)

(* Statements store good rows of good rows.                                *)
LEMMA StatementsGood ==
    ASSUME NEW d, IsDatabase(d), GoodTables(d)
    PROVE  /\ \A bin : GoodBin(bin) => GoodTables(InsertBin(d, bin))
           /\ \A b, bin : GoodBin(bin) => GoodTables(UpdateBinRow(d, b, bin))
           /\ \A ids : GoodTables(DeleteBins(d, ids))
           /\ \A item : GoodText(item.text) => GoodTables(InsertItem(d, item))
           /\ \A i, item : GoodText(item.text) => GoodTables(UpdateItemRow(d, i, item))
           /\ \A ids : GoodTables(DeleteItems(d, ids))
<1>1. d = [bins |-> d.bins, items |-> d.items, fts |-> d.fts]
  BY DEF IsDatabase
<1>2. ASSUME NEW bin, GoodBin(bin) PROVE GoodTables(InsertBin(d, bin))
  <2> DEFINE e == InsertBin(d, bin)
  <2>1. e.bins = Insert(d.bins, bin) /\ e.items = d.items
    BY <1>1 DEF InsertBin
  <2> HIDE DEF e
  <2> QED
    BY <1>2, <2>1 DEF GoodTables, Insert, e
<1>3. ASSUME NEW b, NEW bin, GoodBin(bin) PROVE GoodTables(UpdateBinRow(d, b, bin))
  <2> DEFINE e == UpdateBinRow(d, b, bin)
  <2>1. e.bins = Update(d.bins, b, bin) /\ e.items = d.items
    BY <1>1 DEF UpdateBinRow
  <2> HIDE DEF e
  <2> QED
    BY <1>3, <2>1 DEF GoodTables, Update, e
<1>4. ASSUME NEW ids PROVE GoodTables(DeleteBins(d, ids))
  <2> DEFINE e == DeleteBins(d, ids)
  <2>1. e.bins = Delete(d.bins, ids) /\ e.items = d.items
    BY <1>1 DEF DeleteBins
  <2> HIDE DEF e
  <2> QED
    BY <2>1 DEF GoodTables, Delete, Restrict, e
<1>5. ASSUME NEW item, GoodText(item.text) PROVE GoodTables(InsertItem(d, item))
  <2> DEFINE e == InsertItem(d, item)
  <2>1. e.bins = d.bins /\ e.items = Insert(d.items, item)
    BY DEF InsertItem
  <2> HIDE DEF e
  <2> QED
    BY <1>5, <2>1 DEF GoodTables, Insert, e
<1>6. ASSUME NEW i, NEW item, GoodText(item.text)
      PROVE  GoodTables(UpdateItemRow(d, i, item))
  <2> DEFINE e == UpdateItemRow(d, i, item)
  <2>1. e.bins = d.bins /\ e.items = Update(d.items, i, item)
    BY DEF UpdateItemRow
  <2> HIDE DEF e
  <2> QED
    BY <1>6, <2>1 DEF GoodTables, Update, e
<1>7. ASSUME NEW ids PROVE GoodTables(DeleteItems(d, ids))
  <2> DEFINE e == DeleteItems(d, ids)
  <2>1. e.bins = d.bins /\ e.items = Delete(d.items, ids)
    BY DEF DeleteItems
  <2> HIDE DEF e
  <2> QED
    BY <2>1 DEF GoodTables, Delete, Restrict, e
<1> QED
  BY <1>2, <1>3, <1>4, <1>5, <1>6, <1>7

(* So does an import's DELETE of everything.                               *)
LEMMA EmptiedGood ==
    ASSUME NEW d, IsDatabase(d), GoodTables(d)
    PROVE  GoodTables(Emptied(d))
BY DEF Emptied, DeleteBins, DeleteItems, GoodTables, Delete, Restrict

(* And so does a row of an import.                                         *)
LEMMA LoadRowGood ==
    ASSUME NEW d, IsDatabase(d), Consistent(d), GoodTables(d),
           NEW row \in FileRow, GoodRow(row), LoadRowAllowed(d, row)
    PROVE  GoodTables(LoadRow(d, row))
<1> DEFINE e    == FindOrCreateBin(d, row)
           bin  == [name |-> row.bin, info |-> row.info]
           item == [bin |-> BinNamed(e, row.bin), text |-> row.text]
<1>1. GoodBin(bin) /\ GoodText(item.text) /\ bin \in Bin
  BY DEF GoodRow, Bin, FileRow
<1>2. e = d \/ e = InsertBin(d, bin)
  BY DEF FindOrCreateBin
<1>3. IsDatabase(e) /\ GoodTables(e)
  <2>1. CASE NameTaken(d, row.bin, 0)
    BY <2>1 DEF FindOrCreateBin
  <2>2. CASE ~NameTaken(d, row.bin, 0)
    <3>1. InsertBinAllowed(d, bin)
      BY <2>2 DEF InsertBinAllowed, LoadRowAllowed
    <3>2. e = InsertBin(d, bin)
      BY <2>2 DEF FindOrCreateBin
    <3> HIDE DEF e, bin
    <3> QED
      BY <1>1, <3>1, <3>2, InsertBinSafe, StatementsGood
  <2> QED
    BY <2>1, <2>2
<1>4. LoadRow(d, row) = InsertItem(e, item)
  BY DEF LoadRow
<1> HIDE DEF e, item
<1> QED
  BY <1>1, <1>3, <1>4, StatementsGood

-----------------------------------------------------------------------------

(* The invariant behind BackupRestores.                                    *)
FInv == IInv /\ FieldsGood

(* A step that changes one request and one image or both.                  *)
LEMMA FieldsStep ==
    ASSUME FInv, NEW r \in Requests, NEW q, GoodRequest(q),
           req' = [req EXCEPT ![r] = q], GoodTables(db'), GoodTables(work')
    PROVE  FieldsGood'
<1>1. req'[r] = q /\ \A s \in Requests \ {r} : req'[s] = req[s]
  BY DEF FInv, IInv, TypeOK
<1>2. \A s \in Requests : GoodRequest(req'[s])
  BY <1>1 DEF FInv, FieldsGood
<1> QED
  BY <1>2 DEF FieldsGood

(* The forms let good rows through only.                                   *)
LEMMA FormsGood ==
    /\ \A bin \in Bin : BinForm(bin) => GoodBin(bin)
    /\ \A text \in Texts : ItemForm(text) => GoodText(text)
<1>1. Names \subseteq Field /\ Infos \subseteq Field /\ Texts \subseteq Field
  BY FieldsAssumption DEF Field, Characters
<1>2. ASSUME NEW bin \in Bin, BinForm(bin) PROVE GoodBin(bin)
  BY <1>1, <1>2, TrimmedPresentable DEF Bin, BinForm, GoodBin
<1>3. ASSUME NEW text \in Texts, ItemForm(text) PROVE GoodText(text)
  BY <1>1, <1>3, TrimmedPresentable DEF ItemForm, GoodText
<1> QED
  BY <1>2, <1>3

(* What a handler's first statement stores and what it will write is good. *)
LEMMA BeginGood ==
    ASSUME FInv, NEW r \in Requests, Begin(r)
    PROVE  FieldsGood'
<1>1. GoodTables(db) /\ GoodTables(work) /\ IsDatabase(db) /\ IsDatabase(work)
  BY DEF FInv, FieldsGood, IInv, TypeOK
<1>2. ASSUME NEW q, GoodRequest(q), Query, Await(r, q) PROVE FieldsGood'
  BY <1>1, <1>2, FieldsStep DEF Query, Await
<1>3. CASE BeginCreateBin(r)
  <2>1. PICK typed \in Names, info \in Infos :
            /\ Query
            /\ BinForm([name |-> TitleCase[typed], info |-> info])
            /\ Await(r, [op  |-> "CreateBin",
                         bin |-> [name |-> TitleCase[typed], info |-> info]])
    BY <1>3 DEF BeginCreateBin
  <2> DEFINE bin == [name |-> TitleCase[typed], info |-> info]
             q   == [op |-> "CreateBin", bin |-> bin]
  <2>2. bin \in Bin
    BY TitleCaseAssumption DEF Bin
  <2>3. GoodBin(bin)
    <3> HIDE DEF bin
    <3> QED
      BY <2>1, <2>2, FormsGood DEF bin
  <2>4. GoodRequest(q)
    <3> HIDE DEF bin
    <3> QED
      BY <2>3 DEF GoodRequest
  <2> QED
    BY <1>2, <2>1, <2>4
<1>4. CASE BeginUpdateBin(r)
  <2>1. PICK id \in Rowids, bin \in Bin :
            /\ Query /\ BinForm(bin)
            /\ Await(r, [op |-> "UpdateBin", id |-> id, bin |-> bin])
    BY <1>4 DEF BeginUpdateBin
  <2>2. GoodRequest([op |-> "UpdateBin", id |-> id, bin |-> bin])
    BY <2>1, FormsGood DEF GoodRequest
  <2> QED
    BY <1>2, <2>1, <2>2
<1>5. CASE BeginDeleteBin(r)
  <2>1. PICK id \in Rowids :
            /\ BeginTx(r, DeleteItems(db, ItemsOf(db, id)))
            /\ Await(r, [op |-> "DeleteBin", id |-> id])
    BY <1>5 DEF BeginDeleteBin
  <2>2. GoodTables(work') /\ GoodTables(db')
    BY <1>1, <2>1, StatementsGood DEF BeginTx
  <2>3. GoodRequest([op |-> "DeleteBin", id |-> id])
    BY DEF GoodRequest
  <2> QED
    BY <2>1, <2>2, <2>3, FieldsStep DEF Await
<1>6. CASE BeginCreateItem(r)
  <2>1. PICK bin \in Rowids, text \in Texts :
            /\ Query /\ ItemForm(text)
            /\ Await(r, [op |-> "CreateItem", item |-> [bin |-> bin, text |-> text]])
    <3>1. PICK item \in Item :
              Query /\ ItemForm(item.text) /\ Await(r, [op |-> "CreateItem", item |-> item])
      BY <1>6 DEF BeginCreateItem
    <3>2. item = [bin |-> item.bin, text |-> item.text]
          /\ item.bin \in Rowids /\ item.text \in Texts
      BY DEF Item
    <3> QED
      BY <3>1, <3>2
  <2>2. GoodRequest([op |-> "CreateItem", item |-> [bin |-> bin, text |-> text]])
    BY <2>1, FormsGood DEF GoodRequest
  <2> QED
    BY <1>2, <2>1, <2>2
<1>7. CASE BeginUpdateItem(r)
  <2>1. PICK id \in Rowids :
            \E item \in Item :
               Query /\ ItemForm(item.text)
               /\ Await(r, [op |-> "UpdateItem", id |-> id, item |-> item])
    BY <1>7 DEF BeginUpdateItem
  <2>2. PICK item \in Item :
            /\ Query /\ ItemForm(item.text)
            /\ Await(r, [op |-> "UpdateItem", id |-> id, item |-> item])
    BY <2>1
  <2>3. item.text \in Texts
    BY DEF Item
  <2>4. GoodRequest([op |-> "UpdateItem", id |-> id, item |-> item])
    BY <2>2, <2>3, FormsGood DEF GoodRequest
  <2> QED
    BY <1>2, <2>2, <2>4
<1>8. CASE BeginImport(r)
  <2>1. PICK file \in Files, replace \in BOOLEAN :
            /\ BeginTx(r, IF replace THEN Emptied(db) ELSE db)
            /\ Await(r, [op |-> "Import", rows |-> file])
    BY <1>8 DEF BeginImport
  <2>2. GoodTables(work') /\ GoodTables(db')
    BY <1>1, <2>1, EmptiedGood DEF BeginTx
  <2>3. GoodRequest([op |-> "Import", rows |-> file])
    BY FileRowsGood DEF GoodRequest
  <2> QED
    BY <2>1, <2>2, <2>3, FieldsStep DEF Await
<1>9. CASE BeginPage(r)
  <2>1. PICK n \in 1..MaxQueries :
            /\ Await(r, [op |-> "Page", open |-> TRUE, left |-> n - 1])
            /\ UNCHANGED <<db, work>>
    BY <1>9 DEF BeginPage
  <2>2. GoodRequest([op |-> "Page", open |-> TRUE, left |-> n - 1])
    BY DEF GoodRequest
  <2> QED
    BY <1>1, <2>1, <2>2, FieldsStep DEF Await
<1> QED
  BY <1>3, <1>4, <1>5, <1>6, <1>7, <1>8, <1>9 DEF Begin

(* What a handler's later statements store is what was good before.        *)
LEMMA FinishGood ==
    ASSUME FInv, NEW r \in Requests, Finish(r)
    PROVE  FieldsGood'
<1>1. /\ GoodTables(db) /\ GoodTables(work) /\ GoodRequest(req[r])
      /\ IsDatabase(db) /\ IsDatabase(work) /\ Consistent(work)
      /\ req[r] \in Pending
  BY DEF FInv, FieldsGood, IInv, TypeOK
<1>2. GoodRequest(Idle)
  BY DEF GoodRequest, Idle
<1>3. ASSUME NEW d, GoodTables(d), AutoCommit(d), Answer(r) PROVE FieldsGood'
  BY <1>2, <1>3, FieldsStep DEF AutoCommit, Answer
<1>4. CASE FinishCreateBin(r)
  <2>1. GoodBin(req[r].bin)
    BY <1>1, <1>4 DEF FinishCreateBin, GoodRequest
  <2> QED
    BY <1>1, <1>3, <1>4, <2>1, StatementsGood DEF FinishCreateBin
<1>5. CASE FinishUpdateBin(r)
  <2>1. GoodBin(req[r].bin)
    BY <1>1, <1>5 DEF FinishUpdateBin, GoodRequest
  <2> QED
    BY <1>1, <1>3, <1>5, <2>1, StatementsGood DEF FinishUpdateBin
<1>6. CASE FinishDeleteBin(r)
  <2>1. GoodTables(work') /\ GoodTables(db')
    BY <1>1, <1>6, StatementsGood DEF FinishDeleteBin, CommitTx, Rollback
  <2> QED
    BY <1>2, <1>6, <2>1, FieldsStep DEF FinishDeleteBin, Answer
<1>7. CASE FinishCreateItem(r)
  <2>1. GoodText(req[r].item.text)
    BY <1>1, <1>7 DEF FinishCreateItem, GoodRequest
  <2> QED
    BY <1>1, <1>3, <1>7, <2>1, StatementsGood DEF FinishCreateItem
<1>8. CASE FinishUpdateItem(r)
  <2>1. GoodText(req[r].item.text)
    BY <1>1, <1>8 DEF FinishUpdateItem, GoodRequest
  <2> QED
    BY <1>1, <1>3, <1>8, <2>1, StatementsGood DEF FinishUpdateItem
<1>9. CASE ImportRow(r)
  <2> DEFINE rows == req[r].rows
             q    == [req[r] EXCEPT !.rows = Tail(rows)]
  <2>1. /\ req[r].op = "Import" /\ rows \in Seq(FileRow) /\ rows # <<>>
        /\ LoadRowAllowed(work, Head(rows))
        /\ work' = LoadRow(work, Head(rows)) /\ db' = db
        /\ req' = [req EXCEPT ![r] = q]
    BY <1>1, <1>9, PendingFields DEF ImportRow
  <2>2. \A k \in DOMAIN rows : GoodRow(rows[k])
    BY <1>1, <2>1 DEF GoodRequest
  <2>3. req[r] \in [op : {"Import"}, rows : Seq(FileRow)]
    BY <1>1, <2>1 DEF Pending, Idle
  <2>4. q.op = "Import" /\ q.rows = Tail(rows)
    BY <2>3
  <2> HIDE DEF rows, q
  <2>5. Head(rows) \in FileRow /\ GoodRow(Head(rows))
    BY <2>1, <2>2
  <2>6. GoodTables(work')
    BY <1>1, <2>1, <2>5, LoadRowGood
  <2>7. \A k \in DOMAIN Tail(rows) : GoodRow(Tail(rows)[k])
    <3> TAKE k \in DOMAIN Tail(rows)
    <3>1. k + 1 \in DOMAIN rows /\ Tail(rows)[k] = rows[k + 1]
      BY <2>1
    <3> QED
      BY <2>2, <3>1
  <2>8. GoodRequest(q)
    BY <2>4, <2>7 DEF GoodRequest
  <2> QED
    BY <1>1, <2>1, <2>6, <2>8, FieldsStep
<1>10. CASE FinishImport(r)
  <2>1. GoodTables(work') /\ GoodTables(db')
    BY <1>1, <1>10 DEF FinishImport, CommitTx
  <2> QED
    BY <1>2, <1>10, <2>1, FieldsStep DEF FinishImport, Answer
<1>11. CASE CloseRows(r) \/ NextQuery(r)
  <2>1. PICK q : /\ req' = [req EXCEPT ![r] = q] /\ q.op = "Page"
                 /\ UNCHANGED <<db, work>>
    <3>1. CASE CloseRows(r)
      <4> DEFINE q == [req[r] EXCEPT !.open = FALSE]
      <4>1. req[r].op = "Page"
        BY <3>1 DEF CloseRows
      <4>2. req[r] \in [op : {"Page"}, open : BOOLEAN, left : 0..(MaxQueries - 1)]
        BY <1>1, <4>1 DEF Pending, Idle
      <4>3. q.op = "Page"
        BY <4>2
      <4>4. req' = [req EXCEPT ![r] = q] /\ UNCHANGED <<db, work>>
        BY <3>1 DEF CloseRows
      <4> QED
        BY <4>3, <4>4
    <3>2. CASE NextQuery(r)
      BY <3>2 DEF NextQuery
    <3> QED
      BY <1>11, <3>1, <3>2
  <2>2. GoodRequest(q)
    BY <2>1 DEF GoodRequest
  <2> QED
    BY <1>1, <2>1, <2>2, FieldsStep
<1>12. CASE FinishPage(r)
  BY <1>1, <1>2, <1>12, FieldsStep DEF FinishPage, Answer
<1> QED
  BY <1>4, <1>5, <1>6, <1>7, <1>8, <1>9, <1>10, <1>11, <1>12 DEF Finish

(* A fresh database has no bad row.                                        *)
LEMMA FInvInit == Init => FInv
<1> SUFFICES ASSUME Init PROVE FInv
  OBVIOUS
<1>1. GoodTables(EmptyDatabase) /\ GoodRequest(Idle)
  BY DEF GoodTables, EmptyDatabase, EmptyTable, GoodRequest, Idle
<1> QED
  BY <1>1, InitInv DEF Init, FInv, FieldsGood

(* Every step keeps the stored and the pending fields good.                *)
LEMMA FInvStep == FInv /\ [Next]_vars => FInv'
<1> SUFFICES ASSUME FInv, [Next]_vars PROVE FInv'
  OBVIOUS
<1>1. IInv'
  BY StepInv DEF FInv
<1>2. /\ GoodTables(db) /\ GoodTables(work) /\ GoodRequest(Idle)
      /\ IsDatabase(db) /\ IsDatabase(work)
  BY DEF FInv, FieldsGood, IInv, TypeOK, GoodRequest, Idle
<1>3. ASSUME NEW r \in Requests, Begin(r) PROVE FieldsGood'
  BY <1>3, BeginGood
<1>4. ASSUME NEW r \in Requests, Finish(r) PROVE FieldsGood'
  BY <1>4, FinishGood
<1>5. ASSUME NEW r \in Requests, DeleteItem(r) PROVE FieldsGood'
  <2>1. GoodTables(db') /\ GoodTables(work') /\ req' = req
    BY <1>2, <1>5, StatementsGood DEF DeleteItem, AutoCommit
  <2> QED
    BY <2>1 DEF FInv, FieldsGood
<1>6. ASSUME NEW r \in Requests, Fail(r) PROVE FieldsGood'
  BY <1>2, <1>6, FieldsStep DEF Fail, Rollback, Answer
<1>7. ASSUME Crash PROVE FieldsGood'
  BY <1>2, <1>7 DEF Crash, Rollback, FieldsGood
<1>8. ASSUME UNCHANGED vars PROVE FieldsGood'
  BY <1>8 DEF vars, FInv, FieldsGood
<1>9. FieldsGood'
  BY <1>3, <1>4, <1>5, <1>6, <1>7, <1>8 DEF Next
<1> QED
  BY <1>1, <1>9 DEF FInv

(* In every reachable state all stored and pending fields are good.        *)
THEOREM FieldsStayGood == Spec => []FInv
BY FInvInit, FInvStep, PTL DEF Spec

-----------------------------------------------------------------------------
(* What the import reads of a backup *)

(* The row that a listing has for an item.                                 *)
RowOf(d, i) ==
    [bin  |-> d.bins[d.items[i].bin].name,
     info |-> d.bins[d.items[i].bin].info,
     text |-> d.items[i].text]

(* A finite set is listed without repetition and without omission.         *)
LEMMA ListedOnce ==
    ASSUME NEW S, IsFiniteSet(S)
    PROVE  SetToSeq(S) \in Bijection(1..Cardinality(S), S)
<1> DEFINE n == Cardinality(S)
           f == SetToSeq(S)
<1>1. n \in Nat /\ \E g : g \in Bijection(1..n, S)
  BY FS_CardinalityType DEF ExistsBijection
<1>2. \E g \in [1..n -> S] : IsInjective(g)
  BY <1>1 DEF Bijection, Injection
<1>3. f \in [1..n -> S] /\ IsInjective(f)
  <2>1. f = CHOOSE g \in [1..n -> S] : IsInjective(g)
    BY DEF SetToSeq
  <2> HIDE DEF n, f
  <2> QED
    BY <1>2, <2>1
<1> HIDE DEF f
<1>4. f \in Injection(1..n, S)
  BY <1>3 DEF Injection
<1>5. IsFiniteSet(1..n) /\ Cardinality(1..n) = n
  <2> HIDE DEF n
  <2>1. 1 \in Int /\ n \in Int
    BY <1>1
  <2>2. IsFiniteSet(1..n) /\ Cardinality(1..n) = IF 1 > n THEN 0 ELSE n - 1 + 1
    BY <2>1, FS_Interval
  <2> QED
    BY <1>1, <2>2
<1>6. f \in Surjection(1..n, S)
  BY <1>4, <1>5, FS_Injection
<1> QED
  BY <1>4, <1>6 DEF Bijection, f

(* A listing has one row for each item.                                    *)
LEMMA ListingShape ==
    ASSUME NEW d, NEW n \in 0..MaxRowid, IsFiniteSet(DOMAIN d.items),
           Cardinality(DOMAIN d.items) = n
    PROVE  /\ SetToSeq(DOMAIN d.items) \in Bijection(1..n, DOMAIN d.items)
           /\ Listing(d) = [k \in 1..n |-> RowOf(d, SetToSeq(DOMAIN d.items)[k])]
<1> DEFINE ids == SetToSeq(DOMAIN d.items)
<1>1. ids \in Bijection(1..n, DOMAIN d.items)
  BY ListedOnce
<1>2. DOMAIN ids = 1..n
  BY <1>1 DEF Bijection, Injection
<1>3. Listing(d) = [k \in DOMAIN ids |-> RowOf(d, ids[k])]
  BY DEF Listing, RowOf
<1> QED
  BY <1>1, <1>2, <1>3

(* A table is finite and within the model's bound.                         *)
LEMMA TableSize ==
    ASSUME NEW d, IsDatabase(d)
    PROVE  /\ IsFiniteSet(DOMAIN d.items)
           /\ Cardinality(DOMAIN d.items) \in 0..MaxRowid
<1>1. MaxRowid \in Nat /\ 1 \in Int /\ MaxRowid \in Int /\ MaxRowid >= 1
  BY MaxRowidAssumption
<1>2. IsFiniteSet(1..MaxRowid) /\ Cardinality(1..MaxRowid) = MaxRowid
  <2>1. /\ IsFiniteSet(1..MaxRowid)
        /\ Cardinality(1..MaxRowid) = IF 1 > MaxRowid THEN 0 ELSE MaxRowid - 1 + 1
    BY <1>1, FS_Interval
  <2> QED
    BY <1>1, <2>1
<1>3. DOMAIN d.items \in SUBSET (1..MaxRowid)
  BY DEF IsDatabase, IsTable, Rowids
<1>4. /\ IsFiniteSet(DOMAIN d.items)
      /\ Cardinality(DOMAIN d.items) <= Cardinality(1..MaxRowid)
  BY <1>2, <1>3, FS_Subset
<1>5. Cardinality(DOMAIN d.items) \in Nat
  BY <1>4, FS_CardinalityType
<1> QED
  BY <1>1, <1>2, <1>4, <1>5

(* The rows of a listing are fields, and good.                             *)
LEMMA ListedRow ==
    ASSUME NEW d, IsDatabase(d), Consistent(d), GoodTables(d), NEW i \in DOMAIN d.items
    PROVE  /\ RowOf(d, i).bin \in Field /\ RowOf(d, i).info \in Field
           /\ RowOf(d, i).text \in Field
           /\ GoodRow(RowOf(d, i))
<1>1. Names \subseteq Field /\ Infos \subseteq Field /\ Texts \subseteq Field
  BY FieldsAssumption DEF Field, Characters
<1>2. d.items[i] \in Item /\ d.items[i].bin \in DOMAIN d.bins
  BY DEF IsDatabase, IsTable, Consistent, ForeignKeysHold
<1>3. d.bins[d.items[i].bin] \in Bin
  BY <1>2 DEF IsDatabase, IsTable
<1>4. GoodBin(d.bins[d.items[i].bin]) /\ GoodText(d.items[i].text)
  BY <1>2 DEF GoodTables
<1> QED
  BY <1>1, <1>2, <1>3, <1>4 DEF RowOf, Bin, Item, GoodRow, GoodBin, ValidBin

(* So is every line of a listing.                                          *)
LEMMA ListedFields ==
    ASSUME NEW d, IsDatabase(d), Consistent(d), GoodTables(d),
           NEW k \in DOMAIN Listing(d)
    PROVE  \E i \in DOMAIN d.items : Listing(d)[k] = RowOf(d, i)
<1> DEFINE n   == Cardinality(DOMAIN d.items)
           ids == SetToSeq(DOMAIN d.items)
<1>1. n \in 0..MaxRowid /\ IsFiniteSet(DOMAIN d.items)
  BY TableSize
<1>2. /\ ids \in Bijection(1..n, DOMAIN d.items)
      /\ Listing(d) = [j \in 1..n |-> RowOf(d, ids[j])]
  BY <1>1, ListingShape
<1> HIDE DEF n, ids
<1> QED
  BY <1>2 DEF Bijection, Injection

(* Where nothing can change on the way out and back, nothing does.         *)
LEMMA PlainRowsComeBack ==
    ASSUME NEW d, IsDatabase(d), Consistent(d), GoodTables(d),
           \A k \in DOMAIN Listing(d) : PlainRow(Listing(d)[k])
    PROVE  [k \in DOMAIN Listing(d) |-> RowComesBackAs(Listing(d)[k])] = Listing(d)
<1>1. ASSUME NEW k \in DOMAIN Listing(d)
      PROVE  RowComesBackAs(Listing(d)[k]) = Listing(d)[k]
  <2>1. PICK i \in DOMAIN d.items : Listing(d)[k] = RowOf(d, i)
    BY ListedFields
  <2> DEFINE row == RowOf(d, i)
  <2>2. row.bin \in Field /\ row.info \in Field /\ row.text \in Field
    BY ListedRow
  <2>3. PlainRow(row)
    BY <2>1
  <2>4. row = [bin |-> row.bin, info |-> row.info, text |-> row.text]
    BY DEF RowOf
  <2> HIDE DEF row
  <2>5. /\ ComesBackAs(row.bin) = row.bin
        /\ ComesBackAs(row.info) = row.info
        /\ ComesBackAs(row.text) = row.text
    BY <2>2, <2>3, PlainComesBack DEF PlainRow
  <2>6. RowComesBackAs(row) = row
    BY <2>4, <2>5 DEF RowComesBackAs
  <2> QED
    BY <2>1, <2>6 DEF row
<1> DEFINE listed == Listing(d)
<1>2. listed = [k \in DOMAIN listed |-> listed[k]]
  BY DEF Listing
<1> QED
  BY <1>1, <1>2

(* The import reads of a backup what the rows come back as.                *)
LEMMA BackupRead ==
    ASSUME NEW d, IsDatabase(d), Consistent(d), GoodTables(d)
    PROVE  /\ ParseUpload(WriteCSV(d)) =
                  [k \in DOMAIN Listing(d) |-> RowComesBackAs(Listing(d)[k])]
           /\ \A k \in DOMAIN Listing(d) : ValidImportRow(RowComesBackAs(Listing(d)[k]))
<1> DEFINE n      == Cardinality(DOMAIN d.items)
           ids    == SetToSeq(DOMAIN d.items)
           listed == Listing(d)
           rows   == [k \in DOMAIN listed |-> SanitizeRow(listed[k])]
<1>1. n \in 0..MaxRowid /\ IsFiniteSet(DOMAIN d.items)
  BY TableSize
<1>2. /\ ids \in Bijection(1..n, DOMAIN d.items)
      /\ listed = [k \in 1..n |-> RowOf(d, ids[k])]
  BY <1>1, ListingShape
<1>3. ParseUpload(WriteCSV(d)) = [k \in DOMAIN listed |-> DesanitizeRow(rows[k])]
  BY DEF ParseUpload, WriteCSV, ParseBinbashCSV
<1> HIDE DEF n, ids, listed
<1>4. ASSUME NEW k \in DOMAIN listed
      PROVE  /\ listed[k].bin \in Field /\ listed[k].info \in Field
             /\ listed[k].text \in Field /\ GoodRow(listed[k])
  <2>1. k \in 1..n /\ ids[k] \in DOMAIN d.items /\ listed[k] = RowOf(d, ids[k])
    BY <1>2 DEF Bijection, Injection
  <2> QED
    BY <2>1, ListedRow
<1>5. ASSUME NEW k \in DOMAIN listed
      PROVE  DesanitizeRow(rows[k]) = RowComesBackAs(listed[k])
  <2> DEFINE row == listed[k]
  <2>1. rows[k] = SanitizeRow(row)
    OBVIOUS
  <2>2. Presentable(row.bin) /\ Presentable(row.info) /\ Presentable(row.text)
    BY <1>4 DEF GoodRow, GoodBin, GoodText
  <2>3. row.bin \in Field /\ row.info \in Field /\ row.text \in Field
    BY <1>4
  <2> HIDE DEF row
  <2>4. /\ ReadField(SanitizeCSVField(row.bin)) = ComesBackAs(row.bin)
        /\ ReadField(SanitizeCSVField(row.info)) = ComesBackAs(row.info)
        /\ ReadField(SanitizeCSVField(row.text)) = ComesBackAs(row.text)
    BY <2>2, <2>3, FieldRestored
  <2>5. DesanitizeRow(SanitizeRow(row)) = RowComesBackAs(row)
    BY <2>4 DEF DesanitizeRow, SanitizeRow, RowComesBackAs
  <2> QED
    BY <2>1, <2>5 DEF row
<1>6. ASSUME NEW k \in DOMAIN listed
      PROVE  ValidImportRow(RowComesBackAs(listed[k]))
  <2> DEFINE row == listed[k]
  <2>1. /\ row.bin \in Field /\ row.info \in Field /\ row.text \in Field
        /\ Presentable(row.bin) /\ Presentable(row.info) /\ Presentable(row.text)
        /\ row.bin # <<>> /\ row.text # <<>>
        /\ ~TooLong(row.bin) /\ ~TooLong(row.info) /\ ~TooLong(row.text)
    BY <1>4 DEF GoodRow, GoodBin, GoodText, ValidBin, ValidItem
  <2> HIDE DEF row
  <2>2. ASSUME NEW field \in Field, Presentable(field), ~TooLong(field)
        PROVE  ~TooLong(ComesBackAs(field)) /\ (field # <<>> => ComesBackAs(field) # <<>>)
    <3>1. /\ field # <<>> => ComesBackAs(field) # <<>>
          /\ ComesBackAs(field) \in Field /\ Len(ComesBackAs(field)) <= Len(field)
      BY <2>2, ComesBackWithinLimits
    <3>2. Len(ComesBackAs(field)) \in Nat /\ Len(field) \in Nat /\ MaxFieldLen \in Nat
      BY <3>1, CsvAssumption DEF Field
    <3> QED
      BY <2>2, <3>1, <3>2 DEF TooLong
  <2>3. ValidImportRow(RowComesBackAs(row))
    BY <2>1, <2>2 DEF ValidImportRow, RowComesBackAs, ValidBin, ValidItem
  <2> QED
    BY <2>3 DEF row
<1> QED
  BY <1>3, <1>5, <1>6 DEF listed

-----------------------------------------------------------------------------
(* Loading a file into an empty database *)

(* In a table that uses its first ids, the next row gets the next id.      *)
LEMMA NextRowidDense ==
    ASSUME NEW m \in 0..MaxRowid, NEW table, DOMAIN table = 1..m
    PROVE  NextRowid(table) = m + 1
<1> DEFINE Fits(id) == /\ \A used \in DOMAIN table : used < id
                       /\ id = 1 \/ id - 1 \in DOMAIN table
<1>1. MaxRowid \in Nat
  BY MaxRowidAssumption
<1>2. m + 1 \in 1..(MaxRowid + 1) /\ Fits(m + 1)
  BY <1>1
<1>3. \A id \in 1..(MaxRowid + 1) : Fits(id) => id = m + 1
  <2> TAKE id \in 1..(MaxRowid + 1)
  <2> HAVE Fits(id)
  <2>1. CASE m = 0
    BY <1>1, <2>1
  <2>2. CASE m # 0
    <3>1. m \in DOMAIN table
      BY <1>1, <2>2
    <3>2. m < id
      BY <1>1, <3>1
    <3>3. id = 1 \/ id - 1 \in 1..m
      OBVIOUS
    <3>4. id <= m + 1
      BY <1>1, <2>2, <3>3
    <3> QED
      BY <1>1, <3>2, <3>4
  <2> QED
    BY <2>1, <2>2
<1>4. NextRowid(table) = CHOOSE id \in 1..(MaxRowid + 1) : Fits(id)
  BY DEF NextRowid
<1> HIDE DEF Fits
<1> QED
  BY <1>2, <1>3, <1>4

(* What an import into an empty database has made after k rows: the items  *)
(* 1 to k in the order of the file, in bins of the names their rows give.  *)
Restoring(d, file, k) ==
    /\ d = [bins |-> d.bins, items |-> d.items, fts |-> d.fts]
    /\ DOMAIN d.items = 1..k
    /\ \E m \in 0..k : DOMAIN d.bins = 1..m
    /\ \A b \in DOMAIN d.bins : \E j \in 1..k :
           d.bins[b] = [name |-> file[j].bin, info |-> file[j].info]
    /\ \A i \in 1..k :
           /\ d.items[i].text = file[i].text
           /\ d.items[i].bin \in DOMAIN d.bins
           /\ d.bins[d.items[i].bin].name = file[i].bin

(* One more row makes one more item, and a bin if the name is new.         *)
LEMMA RestoreRow ==
    ASSUME NEW d, NEW file, NEW k \in 1..MaxRowid, Restoring(d, file, k - 1)
    PROVE  Restoring(LoadRow(d, file[k]), file, k)
<1> DEFINE row  == file[k]
           e    == FindOrCreateBin(d, row)
           item == [bin |-> BinNamed(e, row.bin), text |-> row.text]
           now  == LoadRow(d, row)
<1>0. k \in Nat /\ k >= 1 /\ k <= MaxRowid /\ MaxRowid \in Nat
  BY MaxRowidAssumption
<1>1. PICK m \in 0..(k - 1) : DOMAIN d.bins = 1..m
  BY DEF Restoring
<1>2. /\ e.items = d.items
      /\ \E m2 \in 0..k : DOMAIN e.bins = 1..m2
      /\ \A b \in DOMAIN d.bins : b \in DOMAIN e.bins /\ e.bins[b] = d.bins[b]
      /\ \A b \in DOMAIN e.bins : \E j \in 1..k :
             e.bins[b] = [name |-> file[j].bin, info |-> file[j].info]
      /\ \E b \in DOMAIN e.bins : e.bins[b].name = row.bin
  <2>1. CASE NameTaken(d, row.bin, 0)
    <3>1. e = d
      BY <2>1 DEF FindOrCreateBin
    <3> HIDE DEF e
    <3>2. \E b \in DOMAIN d.bins : d.bins[b].name = row.bin
      BY <2>1 DEF NameTaken
    <3>3. m \in 0..k /\ 1..(k - 1) \subseteq 1..k
      BY <1>0
    <3> QED
      BY <1>1, <3>1, <3>2, <3>3 DEF Restoring
  <2>2. CASE ~NameTaken(d, row.bin, 0)
    <3> DEFINE bin == [name |-> row.bin, info |-> row.info]
    <3>1. e = [bins |-> Insert(d.bins, bin), items |-> d.items, fts |-> d.fts]
      BY <2>2 DEF FindOrCreateBin, InsertBin, Restoring
    <3>2. e.bins = Insert(d.bins, bin) /\ e.items = d.items
      BY <3>1
    <3>3. m \in 0..MaxRowid /\ m + 1 \in 0..k
      BY <1>0
    <3>4. NextRowid(d.bins) = m + 1
      BY <1>1, <3>3, NextRowidDense
    <3> HIDE DEF e, bin
    <3>5. /\ DOMAIN e.bins = 1..m \cup {m + 1}
          /\ e.bins[m + 1] = bin
          /\ \A b \in 1..m : e.bins[b] = d.bins[b]
      BY <1>0, <1>1, <3>2, <3>4 DEF Insert
    <3>6. 1..m \cup {m + 1} = 1..(m + 1) /\ k \in 1..k /\ 1..(k - 1) \subseteq 1..k
      BY <1>0
    <3>7. \A b \in DOMAIN e.bins : \E j \in 1..k :
              e.bins[b] = [name |-> file[j].bin, info |-> file[j].info]
      <4> TAKE b \in DOMAIN e.bins
      <4>1. CASE b \in 1..m
        BY <1>1, <3>5, <3>6, <4>1 DEF Restoring
      <4>2. CASE b = m + 1
        BY <3>5, <3>6, <4>2 DEF bin
      <4> QED
        BY <3>5, <4>1, <4>2
    <3>8. bin.name = row.bin /\ m + 1 \in DOMAIN e.bins
      BY <3>5 DEF bin
    <3> QED
      BY <1>1, <3>2, <3>3, <3>5, <3>6, <3>7, <3>8
  <2> QED
    BY <2>1, <2>2
<1> HIDE DEF e
<1>3. /\ item.bin \in DOMAIN e.bins /\ e.bins[item.bin].name = row.bin
      /\ item.text = row.text
  BY <1>2 DEF BinNamed
<1>4. /\ now = [bins |-> now.bins, items |-> now.items, fts |-> now.fts]
      /\ now.bins = e.bins /\ now.items = Insert(d.items, item)
  BY <1>2 DEF LoadRow, InsertItem, e
<1> HIDE DEF now, item
<1>5. NextRowid(d.items) = k
  <2>1. k - 1 \in 0..MaxRowid /\ DOMAIN d.items = 1..(k - 1) /\ (k - 1) + 1 = k
    BY <1>0 DEF Restoring
  <2> QED
    BY <2>1, NextRowidDense
<1>6. /\ DOMAIN now.items = 1..k
      /\ now.items[k] = item
      /\ \A i \in 1..(k - 1) : now.items[i] = d.items[i]
  <2>1. DOMAIN d.items = 1..(k - 1)
    BY DEF Restoring
  <2>2. 1..(k - 1) \cup {k} = 1..k /\ k \notin 1..(k - 1)
    BY <1>0
  <2> QED
    BY <1>4, <1>5, <2>1, <2>2 DEF Insert
<1>7. ASSUME NEW i \in 1..k
      PROVE  /\ now.items[i].text = file[i].text
             /\ now.items[i].bin \in DOMAIN now.bins
             /\ now.bins[now.items[i].bin].name = file[i].bin
  <2>1. CASE i = k
    BY <1>3, <1>4, <1>6, <2>1
  <2>2. CASE i # k
    <3>1. i \in 1..(k - 1)
      BY <1>0, <2>2
    <3> QED
      BY <1>2, <1>4, <1>6, <3>1 DEF Restoring
  <2> QED
    BY <2>1, <2>2
<1>8. Restoring(now, file, k)
  <2>1. \E m2 \in 0..k : DOMAIN now.bins = 1..m2
    BY <1>2, <1>4
  <2>2. \A b \in DOMAIN now.bins : \E j \in 1..k :
            now.bins[b] = [name |-> file[j].bin, info |-> file[j].info]
    BY <1>2, <1>4
  <2> QED
    BY <1>4, <1>6, <1>7, <2>1, <2>2 DEF Restoring
<1> QED
  BY <1>8 DEF now

(* The whole file loaded, row by row from its first.                       *)
LEMMA RestoredIsLoaded ==
    ASSUME NEW d, NEW n \in 0..MaxRowid, NEW Row,
           ParseUpload(WriteCSV(d)) \in [1..n -> Row],
           Restoring(Emptied(d), ParseUpload(WriteCSV(d)), 0)
    PROVE  Restoring(Restored(d), ParseUpload(WriteCSV(d)), n)
<1> DEFINE file == ParseUpload(WriteCSV(d))
           IsLoaded(f, m) == f = [k \in 0..m |-> IF k = 0 THEN Emptied(d)
                                                 ELSE LoadRow(f[k - 1], file[k])]
           loaded == CHOOSE f : IsLoaded(f, n)
<1>1. n \in Nat /\ n <= MaxRowid /\ MaxRowid \in Nat
  BY MaxRowidAssumption
<1>2. Len(file) = n
  <2> HIDE DEF file
  <2>1. file \in [1..n -> Row]
    BY DEF file
  <2>2. file \in Seq(Row) /\ Len(file) = n
    BY <1>1, <2>1
  <2> QED
    BY <2>2
<1>3. Restored(d) = loaded[n]
  <2>1. Restored(d) = (CHOOSE f : IsLoaded(f, Len(file)))[Len(file)]
    BY DEF Restored
  <2> HIDE DEF file, IsLoaded
  <2> QED
    BY <1>2, <2>1
<1> HIDE DEF file
<1>4. \A m \in 0..n : \E f : IsLoaded(f, m)
  <2> DEFINE Stuck == {m \in 0..n : ~\E f : IsLoaded(f, m)}
  <2> SUFFICES ASSUME Stuck # {} PROVE FALSE
    OBVIOUS
  <2>1. /\ Stuck \in SUBSET Nat
        /\ \A k : k \in Stuck <=> k \in 0..n /\ ~\E f : IsLoaded(f, k)
    OBVIOUS
  <2>2. PICK m \in Stuck : \A k \in Stuck : m <= k
    <3> HIDE DEF Stuck
    <3> QED
      BY <2>1, LeastNatural
  <2> HIDE DEF Stuck
  <2>3. CASE m = 0
    <3>1. IsLoaded([k \in 0..0 |-> Emptied(d)], 0)
      OBVIOUS
    <3> QED
      BY <2>1, <2>2, <2>3, <3>1
  <2>4. CASE m # 0
    <3>1. m \in 1..n /\ m - 1 \in 0..n /\ m - 1 \notin Stuck
      BY <1>1, <2>1, <2>2, <2>4
    <3>2. PICK g : IsLoaded(g, m - 1)
      BY <2>1, <3>1
    <3> DEFINE f == [k \in 0..m |-> IF k = m THEN LoadRow(g[m - 1], file[m]) ELSE g[k]]
    <3>3. \A k \in 0..m : f[k] = IF k = 0 THEN Emptied(d) ELSE LoadRow(f[k - 1], file[k])
      <4> TAKE k \in 0..m
      <4>1. CASE k = m
        BY <1>1, <3>1, <4>1
      <4>2. CASE k # m
        <5>1. k \in 0..(m - 1)
          BY <1>1, <3>1, <4>2
        <5>2. g[k] = IF k = 0 THEN Emptied(d) ELSE LoadRow(g[k - 1], file[k])
          BY <3>2, <5>1
        <5>3. f[k] = g[k] /\ (k # 0 => f[k - 1] = g[k - 1])
          BY <1>1, <3>1, <5>1
        <5> QED
          BY <5>2, <5>3
      <4> QED
        BY <4>1, <4>2
    <3>4. f = [k \in 0..m |-> f[k]]
      OBVIOUS
    <3>5. IsLoaded(f, m)
      <4> HIDE DEF f
      <4> QED
        BY <3>3, <3>4
    <3> QED
      BY <2>1, <2>2, <3>5
  <2> QED
    BY <2>3, <2>4
<1>5. IsLoaded(loaded, n)
  <2>1. \E f : IsLoaded(f, n)
    BY <1>1, <1>4
  <2> HIDE DEF IsLoaded
  <2> QED
    BY <2>1
<1> HIDE DEF loaded
<1>6. /\ loaded[0] = Emptied(d)
      /\ \A k \in 1..n : loaded[k] = LoadRow(loaded[k - 1], file[k])
  BY <1>1, <1>5
<1>7. \A m \in 0..n : Restoring(loaded[m], file, m)
  <2> DEFINE Bad == {m \in 0..n : ~Restoring(loaded[m], file, m)}
  <2> SUFFICES ASSUME Bad # {} PROVE FALSE
    OBVIOUS
  <2>1. /\ Bad \in SUBSET Nat
        /\ \A k : k \in Bad <=> k \in 0..n /\ ~Restoring(loaded[k], file, k)
    OBVIOUS
  <2> HIDE DEF Bad
  <2>2. PICK m \in Bad : \A k \in Bad : m <= k
    BY <2>1, LeastNatural
  <2>3. m # 0
    BY <1>6, <2>1, <2>2 DEF file
  <2>4. m \in 1..n /\ m - 1 \in 0..n /\ m - 1 \notin Bad
    BY <1>1, <2>1, <2>2, <2>3
  <2>5. Restoring(loaded[m - 1], file, m - 1) /\ m \in 1..MaxRowid
    BY <1>1, <2>1, <2>4
  <2>6. Restoring(LoadRow(loaded[m - 1], file[m]), file, m)
    BY <2>5, RestoreRow
  <2> QED
    BY <1>6, <2>1, <2>2, <2>4, <2>6
<1> QED
  BY <1>1, <1>3, <1>7 DEF file

(* Nothing is loaded yet when both tables have been emptied.               *)
LEMMA RestoreStarts ==
    ASSUME NEW d, NEW file
    PROVE  Restoring(Emptied(d), file, 0)
<1> DEFINE e == Emptied(d)
<1>1. /\ e = [bins |-> e.bins, items |-> e.items, fts |-> e.fts]
      /\ DOMAIN e.bins = {} /\ DOMAIN e.items = {}
  <2> DEFINE x == DeleteItems(d, DOMAIN d.items)
  <2>1. /\ x = [bins |-> x.bins, items |-> x.items, fts |-> x.fts]
        /\ x.bins = d.bins /\ x.items = Delete(d.items, DOMAIN d.items)
    BY DEF DeleteItems
  <2>2. e = [x EXCEPT !.bins = Delete(x.bins, DOMAIN d.bins)]
    BY DEF Emptied, DeleteBins
  <2> HIDE DEF x, e
  <2>3. /\ e = [bins |-> e.bins, items |-> e.items, fts |-> e.fts]
        /\ e.bins = Delete(d.bins, DOMAIN d.bins)
        /\ e.items = Delete(d.items, DOMAIN d.items)
    BY <2>1, <2>2
  <2> QED
    BY <2>3 DEF Delete, Restrict
<1> HIDE DEF e
<1>2. 1..0 = {} /\ 0 \in 0..0
  OBVIOUS
<1>3. Restoring(e, file, 0)
  <2>1. \E m \in 0..0 : DOMAIN e.bins = 1..m
    BY <1>1, <1>2
  <2>2. DOMAIN e.items = 1..0
    BY <1>1, <1>2
  <2>3. \A i \in 1..0 : FALSE
    BY <1>2
  <2> QED
    BY <1>1, <2>1, <2>2, <2>3 DEF Restoring
<1> QED
  BY <1>3 DEF e

(* Rows are counted alike in whatever order they are listed.               *)
LEMMA OrderDoesNotCount ==
    ASSUME NEW n \in Nat, NEW a, DOMAIN a = 1..n, NEW b, DOMAIN b = 1..n,
           NEW p \in Bijection(1..n, 1..n), \A k \in 1..n : a[k] = b[p[k]]
    PROVE  Counted(a) = Counted(b)
<1>1. /\ p \in [1..n -> 1..n]
      /\ \A j, k \in 1..n : p[j] = p[k] => j = k
      /\ \A k \in 1..n : \E j \in 1..n : p[j] = k
  BY DEF Bijection, Injection, Surjection, IsInjective
<1>2. Range(a) = Range(b)
  BY <1>1 DEF Range
<1>3. ASSUME NEW row
      PROVE  Cardinality({k \in DOMAIN a : a[k] = row})
                 = Cardinality({k \in DOMAIN b : b[k] = row})
  <2> DEFINE A == {k \in DOMAIN a : a[k] = row}
             B == {k \in DOMAIN b : b[k] = row}
             g == [k \in A |-> p[k]]
  <2>1. g \in Bijection(A, B)
    <3>1. g \in [A -> B]
      BY <1>1
    <3>2. IsInjective(g)
      BY <1>1 DEF IsInjective
    <3>3. \A t \in B : \E s \in A : g[s] = t
      BY <1>1
    <3> HIDE DEF A, B, g
    <3> QED
      BY <3>1, <3>2, <3>3 DEF Bijection, Injection, Surjection
  <2>2. A \in SUBSET (1..n) /\ IsFiniteSet(1..n)
    BY FS_Interval
  <2> HIDE DEF A, B, g
  <2>3. IsFiniteSet(A)
    BY <2>2, FS_Subset
  <2>4. Cardinality(A) = Cardinality(B)
    BY <2>1, <2>3, FS_Bijection DEF ExistsBijection
  <2> QED
    BY <2>4 DEF A, B
<1> QED
  BY <1>2, <1>3 DEF Counted

(* The import of a backup makes the rows of the file again, unless two bin *)
(* names have become one.                                                  *)
LEMMA RestoresRows ==
    ASSUME NEW d, IsDatabase(d), Consistent(d), GoodTables(d),
           NEW back, back = [k \in DOMAIN Listing(d) |-> RowComesBackAs(Listing(d)[k])],
           \A j, k \in DOMAIN Listing(d) :
               Listing(d)[j].bin # Listing(d)[k].bin => back[j].bin # back[k].bin
    PROVE  Counted(Listing(Restored(d))) = Counted(back)
<1> DEFINE n      == Cardinality(DOMAIN d.items)
           ids    == SetToSeq(DOMAIN d.items)
           listed == Listing(d)
           e      == Restored(d)
           order  == SetToSeq(DOMAIN e.items)
<1>1. n \in 0..MaxRowid /\ IsFiniteSet(DOMAIN d.items) /\ n \in Nat
  BY TableSize
<1>2. /\ ids \in [1..n -> DOMAIN d.items]
      /\ listed = [k \in 1..n |-> RowOf(d, ids[k])]
  BY <1>1, ListingShape DEF Bijection, Injection
<1>3. ParseUpload(WriteCSV(d)) = back
  BY BackupRead
<1>4. /\ DOMAIN listed = 1..n /\ DOMAIN back = 1..n
      /\ \A k \in 1..n : listed[k] = RowOf(d, ids[k])
      /\ \A k \in 1..n : back[k] = RowComesBackAs(listed[k])
  BY <1>2
<1>5. \A j, k \in 1..n : listed[j].bin # listed[k].bin => back[j].bin # back[k].bin
  BY <1>4
<1> HIDE DEF n, ids, listed
<1>6. Restoring(e, back, n)
  <2> DEFINE Row == {back[k] : k \in 1..n}
  <2>1. back \in [1..n -> Row]
    <3>1. back = [k \in 1..n |-> back[k]]
      BY <1>4 DEF listed
    <3> QED
      BY <3>1
  <2> HIDE DEF Row
  <2>2. Restoring(Emptied(d), back, 0)
    BY RestoreStarts
  <2> QED
    BY <1>1, <1>3, <2>1, <2>2, RestoredIsLoaded
(* Equal names mean one bin, so one category and description. *)
<1>7. \A j, k \in 1..n : back[j].bin = back[k].bin => back[j].info = back[k].info
  <2> TAKE j, k \in 1..n
  <2> HAVE back[j].bin = back[k].bin
  <2>1. listed[j].bin = listed[k].bin
    BY <1>5
  <2>2. ids[j] \in DOMAIN d.items /\ ids[k] \in DOMAIN d.items
    BY <1>2
  <2>3. d.items[ids[j]].bin \in DOMAIN d.bins /\ d.items[ids[k]].bin \in DOMAIN d.bins
    BY <2>2 DEF Consistent, ForeignKeysHold
  <2>4. d.bins[d.items[ids[j]].bin].name = d.bins[d.items[ids[k]].bin].name
    BY <1>4, <2>1 DEF RowOf
  <2>5. d.items[ids[j]].bin = d.items[ids[k]].bin
    BY <2>3, <2>4 DEF Consistent, NamesUnique
  <2>6. listed[j].info = listed[k].info
    BY <1>4, <2>5 DEF RowOf
  <2>7. back[j].info = ComesBackAs(listed[j].info) /\ back[k].info = ComesBackAs(listed[k].info)
    BY <1>4 DEF RowComesBackAs
  <2> QED
    BY <2>6, <2>7
<1> HIDE DEF e
<1>8. \A i \in 1..n : RowOf(e, i) = back[i]
  <2> TAKE i \in 1..n
  <2> DEFINE b == e.items[i].bin
  <2>1. /\ e.items[i].text = back[i].text /\ b \in DOMAIN e.bins
        /\ e.bins[b].name = back[i].bin
    BY <1>6 DEF Restoring
  <2>2. PICK j \in 1..n : e.bins[b] = [name |-> back[j].bin, info |-> back[j].info]
    BY <1>6, <2>1 DEF Restoring
  <2>3. e.bins[b].info = back[i].info
    BY <1>7, <2>1, <2>2
  <2>4. RowOf(e, i) = [bin |-> back[i].bin, info |-> back[i].info, text |-> back[i].text]
    BY <2>1, <2>3 DEF RowOf
  <2>5. back[i] = [bin |-> back[i].bin, info |-> back[i].info, text |-> back[i].text]
    BY <1>4 DEF RowComesBackAs
  <2> QED
    BY <2>4, <2>5
<1>9. DOMAIN e.items = 1..n /\ IsFiniteSet(1..n) /\ Cardinality(1..n) = n
  <2>1. 1 \in Int /\ n \in Int
    BY <1>1
  <2>2. IsFiniteSet(1..n) /\ Cardinality(1..n) = IF 1 > n THEN 0 ELSE n - 1 + 1
    BY <2>1, FS_Interval
  <2> QED
    BY <1>1, <1>6, <2>2 DEF Restoring
<1>10. /\ order \in Bijection(1..n, 1..n)
       /\ Listing(e) = [k \in 1..n |-> RowOf(e, order[k])]
  BY <1>1, <1>9, ListingShape
<1> HIDE DEF order
<1>11. /\ DOMAIN Listing(e) = 1..n
       /\ \A k \in 1..n : Listing(e)[k] = back[order[k]]
  BY <1>8, <1>10 DEF Bijection, Injection
<1>12. DOMAIN back = 1..n
  BY <1>4
<1>13. Counted(Listing(e)) = Counted(back)
  <2> DEFINE now == Listing(e)
  <2>1. DOMAIN now = 1..n /\ \A k \in 1..n : now[k] = back[order[k]]
    BY <1>11
  <2> HIDE DEF now
  <2>2. n \in Nat /\ order \in Bijection(1..n, 1..n)
    BY <1>1, <1>10
  <2>3. \A k \in 1..n : now[k] = back[order[k]]
    BY <2>1
  <2>4. Counted(now) = Counted(back)
    BY ONLY <1>12, <2>1, <2>2, <2>3, OrderDoesNotCount
  <2> QED
    BY <2>4 DEF now
<1> QED
  BY <1>13 DEF e

(* Every backup of a reachable inventory, of any size and with fields of    *)
(* any length, is accepted by the import as a whole.  If every field in it *)
(* is plain, the import restores exactly the rows that were there, each as *)
(* often as it was; if some are not, these lose a quote typed before a     *)
(* formula character, the difference between line breaks and the spaces at *)
(* their end, and the rows are the same but for that, unless it makes two  *)
(* bin names one.                                                          *)
(* (writeCSVTo, parseBinbashCSV and the replacing branch of commitImport)   *)
THEOREM EveryBackupRestores == Spec => []BackupRestores
<1>1. FInv => BackupRestores
  <2> SUFFICES ASSUME FInv PROVE BackupRestores
    OBVIOUS
  <2>1. IsDatabase(db) /\ Consistent(db) /\ GoodTables(db)
    BY DEF FInv, FieldsGood, IInv, TypeOK
  <2> DEFINE listed == Listing(db)
             back   == [k \in DOMAIN listed |-> RowComesBackAs(listed[k])]
  <2>2. Accepted(WriteCSV(db))
    <3>1. /\ ParseUpload(WriteCSV(db)) = back
          /\ \A k \in DOMAIN listed : ValidImportRow(RowComesBackAs(listed[k]))
      BY <2>1, BackupRead
    <3>2. /\ WriteCSV(db).header = "binbash"
          /\ DOMAIN WriteCSV(db).records = DOMAIN listed
      BY DEF WriteCSV
    <3>3. \A k \in DOMAIN listed : ValidImportRow(back[k])
      BY <3>1
    <3> HIDE DEF listed, back
    <3> QED
      BY <3>1, <3>2, <3>3 DEF Accepted
  <2>3. ASSUME \A j, k \in DOMAIN listed :
                   listed[j].bin # listed[k].bin => back[j].bin # back[k].bin
        PROVE  Counted(Listing(Restored(db))) = Counted(back)
    <3>1. back = [k \in DOMAIN Listing(db) |-> RowComesBackAs(Listing(db)[k])]
      OBVIOUS
    <3>2. \A j, k \in DOMAIN Listing(db) :
              Listing(db)[j].bin # Listing(db)[k].bin => back[j].bin # back[k].bin
      BY <2>3
    <3> HIDE DEF back, listed
    <3> QED
      BY <2>1, <3>1, <3>2, RestoresRows
  <2>4. ASSUME \A k \in DOMAIN listed : PlainRow(listed[k])
        PROVE  Counted(Listing(Restored(db))) = Counted(listed)
    <3>1. back = listed
      BY <2>1, <2>4, PlainRowsComeBack
    <3>2. \A j, k \in DOMAIN listed : listed[j].bin # listed[k].bin => back[j].bin # back[k].bin
      <4> HIDE DEF back, listed
      <4> QED
        BY <3>1
    <3>3. Counted(Listing(Restored(db))) = Counted(back)
      BY <2>3, <3>2
    <3> HIDE DEF back, listed
    <3> QED
      BY <3>1, <3>3
  <2>5. BackupRestores <=>
            /\ Accepted(WriteCSV(db))
            /\ (\A k \in DOMAIN listed : PlainRow(listed[k]))
               => Counted(Listing(Restored(db))) = Counted(listed)
            /\ (\A j, k \in DOMAIN listed :
                    listed[j].bin # listed[k].bin => back[j].bin # back[k].bin)
               => Counted(Listing(Restored(db))) = Counted(back)
    BY Zenon DEF BackupRestores
  <2> QED
    BY <2>2, <2>3, <2>4, <2>5
<1> QED
  BY <1>1, FieldsStayGood, PTL
=============================================================================
