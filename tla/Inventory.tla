----------------------------- MODULE Inventory ------------------------------
(***************************************************************************)
(* The requests that change bins and items, as they interleave on the one  *)
(* database connection (db.Open, SetMaxOpenConns(1)).                      *)
(*                                                                         *)
(* A request is a sequence of SQL statements.  A statement by itself needs *)
(* the connection only while it runs, so another request can come between  *)
(* two of them; a transaction keeps the connection from BEGIN to COMMIT or *)
(* ROLLBACK.  Two images of the database show which statements are         *)
(* durable: db is what is committed and what a restart finds, work is what *)
(* the connection sees, uncommitted statements included.                   *)
(*                                                                         *)
(* A page that only reads is a sequence of queries, and a query keeps the  *)
(* connection until its rows are closed.                                   *)
(*                                                                         *)
(* A request refused before its first write (a form that does not          *)
(* validate, a name already in use, a bin that no longer exists, a file    *)
(* that is refused) is a page, if any.                                     *)
(***************************************************************************)
EXTENDS Database, Csv

CONSTANTS
    Uploads,     \* the CSV files that can be uploaded
    Requests,    \* the requests that can be in progress at once
    Free,        \* the connection while nobody holds it
    MaxQueries,  \* the most queries that a page asks
    TitleCase    \* TitleCase[n] is what titleCase makes of a typed name

(* The row sequences that ImportBackup hands to commitImport. *)
Files == {ParseUpload(u) : u \in {v \in Uploads : Accepted(v)}}

ASSUME FieldsAssumption == Names \cup Infos \cup Texts \subseteq Seq(STRING)
ASSUME UploadsAssumption == Uploads \subseteq Upload
ASSUME FilesAssumption == Files \subseteq Seq(FileRow)
ASSUME QueriesAssumption == MaxQueries \in Nat \ {0}
ASSUME FreeAssumption == Free \notin Requests
ASSUME TitleCaseAssumption == TitleCase \in [Names -> Names]

VARIABLES
    db,      \* the committed database
    work,    \* the database as the connection sees it
    conn,    \* the request whose transaction holds the connection, or Free
    req      \* what each request still has to do

vars == <<db, work, conn, req>>

Idle == [op |-> "idle"]

Pending ==
    {Idle}
    \cup [op : {"CreateBin"}, bin : Bin]
    \cup [op : {"UpdateBin"}, id : Rowids, bin : Bin]
    \cup [op : {"CreateItem"}, item : Item]
    \cup [op : {"UpdateItem"}, id : Rowids, item : Item]
    \cup [op : {"DeleteBin"}, id : Rowids]
    \cup [op : {"Import"}, rows : Seq(FileRow)]
    \cup [op : {"Page"}, open : BOOLEAN, left : 0..(MaxQueries - 1)]

(* A request keeps the connection in a transaction and while rows are open. *)
Holds(q) == q.op \in {"DeleteBin", "Import"} \/ (q.op = "Page" /\ q.open)

Init ==
    /\ db = EmptyDatabase
    /\ work = EmptyDatabase
    /\ conn = Free
    /\ req = [r \in Requests |-> Idle]

-----------------------------------------------------------------------------
(* The connection *)

(***************************************************************************)
(* A statement outside a transaction waits for the connection and is       *)
(* committed as it runs.                                                   *)
(***************************************************************************)
AutoCommit(d) ==
    /\ conn = Free
    /\ work' = d
    /\ db' = d
    /\ UNCHANGED conn

BeginTx(r, firstStatement) ==
    /\ conn = Free
    /\ conn' = r
    /\ work' = firstStatement
    /\ UNCHANGED db

CommitTx(r, lastStatement) ==
    /\ conn = r
    /\ conn' = Free
    /\ work' = lastStatement
    /\ db' = lastStatement

(* Forget what is not committed and give the connection back. *)
Rollback ==
    /\ conn' = Free
    /\ work' = db
    /\ UNCHANGED db

Query == conn = Free /\ UNCHANGED <<db, work, conn>>

Await(r, what) == req[r] = Idle /\ req' = [req EXCEPT ![r] = what]

Answer(r) == req' = [req EXCEPT ![r] = Idle]

-----------------------------------------------------------------------------
(* Bins *)

(***************************************************************************)
(* CreateBin title-cases the name, looks for a bin of that name in any     *)
(* case, and inserts: two statements.                                      *)
(***************************************************************************)
BeginCreateBin(r) ==
    \E typed \in Names, info \in Infos :
        /\ Query
        /\ BinForm([name |-> TitleCase[typed], info |-> info])
        /\ ~HasCaseVariant(db, TitleCase[typed], 0)
        /\ Await(r, [op  |-> "CreateBin",
                     bin |-> [name |-> TitleCase[typed], info |-> info]])

FinishCreateBin(r) ==
    /\ req[r].op = "CreateBin"
    /\ InsertBinAllowed(db, req[r].bin)
    /\ AutoCommit(InsertBin(db, req[r].bin))
    /\ Answer(r)

(* UpdateBin keeps the name as typed, and answers 404 if the bin is gone.  *)
BeginUpdateBin(r) ==
    \E id \in Rowids, bin \in Bin :
        /\ Query
        /\ BinForm(bin)
        /\ ~HasCaseVariant(db, bin.name, id)
        /\ Await(r, [op |-> "UpdateBin", id |-> id, bin |-> bin])

FinishUpdateBin(r) ==
    /\ req[r].op = "UpdateBin"
    /\ UpdateBinAllowed(db, req[r].id, req[r].bin)
    /\ AutoCommit(UpdateBinRow(db, req[r].id, req[r].bin))
    /\ Answer(r)

(* Mutant: the two deletes without a transaction around them. *)
BeginDeleteBinNoTx(r) ==
    \E id \in Rowids :
        /\ AutoCommit(DeleteItems(db, ItemsOf(db, id)))
        /\ Await(r, [op |-> "DeleteBin", id |-> id])

(***************************************************************************)
(* DeleteBin deletes the bin's items, then the bin, in one transaction; it *)
(* rolls back and answers 404 if there was no such bin.                    *)
(***************************************************************************)
BeginDeleteBin(r) ==
    \E id \in Rowids :
        /\ BeginTx(r, DeleteItems(db, ItemsOf(db, id)))
        /\ Await(r, [op |-> "DeleteBin", id |-> id])

FinishDeleteBin(r) ==
    /\ req[r].op = "DeleteBin"
    /\ conn = r
    /\ \/ /\ req[r].id \in DOMAIN work.bins
          /\ DeleteBinsAllowed(work, {req[r].id})
          /\ CommitTx(r, DeleteBins(work, {req[r].id}))
       \/ /\ req[r].id \notin DOMAIN work.bins
          /\ Rollback
    /\ Answer(r)

-----------------------------------------------------------------------------
(* Items *)

(* Mutant: a form without a bin reaches the insert with id 0. *)
BeginCreateItemNoBin(r) ==
    \E text \in Texts :
        /\ Query
        /\ Await(r, [op |-> "CreateItem", item |-> [bin |-> 0, text |-> text]])

(* CreateItem and UpdateItem look whether the chosen bin exists, then write. *)
BeginCreateItem(r) ==
    \E item \in Item :
        /\ Query
        /\ ItemForm(item.text)
        /\ item.bin \in DOMAIN db.bins
        /\ Await(r, [op |-> "CreateItem", item |-> item])

FinishCreateItem(r) ==
    /\ req[r].op = "CreateItem"
    /\ InsertItemAllowed(db, req[r].item)
    /\ AutoCommit(InsertItem(db, req[r].item))
    /\ Answer(r)

BeginUpdateItem(r) ==
    \E id \in Rowids, item \in Item :
        /\ Query
        /\ ItemForm(item.text)
        /\ item.bin \in DOMAIN db.bins
        /\ Await(r, [op |-> "UpdateItem", id |-> id, item |-> item])

FinishUpdateItem(r) ==
    /\ req[r].op = "UpdateItem"
    /\ UpdateItemAllowed(db, req[r].id, req[r].item)
    /\ AutoCommit(UpdateItemRow(db, req[r].id, req[r].item))
    /\ Answer(r)

(* DeleteItem is a single statement. *)
DeleteItem(r) ==
    \E id \in DOMAIN db.items :
        /\ req[r] = Idle
        /\ AutoCommit(DeleteItems(db, {id}))
        /\ UNCHANGED req

-----------------------------------------------------------------------------
(* CSV import: commitImport, one transaction *)

Emptied(d) == DeleteBins(DeleteItems(d, DOMAIN d.items), DOMAIN d.bins)

(***************************************************************************)
(* One row: find the bin of exactly that name or create it, then insert    *)
(* the item.  A bin found keeps its category and description.              *)
(***************************************************************************)
BinNamed(d, name) == CHOOSE b \in DOMAIN d.bins : d.bins[b].name = name

FindOrCreateBin(d, row) ==
    IF NameTaken(d, row.bin, 0) THEN d
    ELSE InsertBin(d, [name |-> row.bin, info |-> row.info])

LoadRowAllowed(d, row) ==
    /\ NameTaken(d, row.bin, 0) \/ HasRoom(d.bins)
    /\ HasRoom(d.items)

LoadRow(d, row) ==
    LET e == FindOrCreateBin(d, row)
    IN  InsertItem(e, [bin |-> BinNamed(e, row.bin), text |-> row.text])

(***************************************************************************)
(* A replacing import empties both tables first.  ImportBackup refuses to  *)
(* replace the inventory with a file of no rows.                           *)
(***************************************************************************)
BeginImport(r) ==
    \E file \in Files, replace \in BOOLEAN :
        /\ replace => file # <<>>
        /\ BeginTx(r, IF replace THEN Emptied(db) ELSE db)
        /\ Await(r, [op |-> "Import", rows |-> file])

(* Mutant: rows written outside the transaction. *)
ImportRowCommits(r) ==
    /\ req[r].op = "Import"
    /\ conn = r
    /\ req[r].rows # <<>>
    /\ LoadRowAllowed(work, Head(req[r].rows))
    /\ work' = LoadRow(work, Head(req[r].rows))
    /\ db' = work'
    /\ req' = [req EXCEPT ![r].rows = Tail(@)]
    /\ UNCHANGED conn

ImportRow(r) ==
    /\ req[r].op = "Import"
    /\ conn = r
    /\ req[r].rows # <<>>
    /\ LoadRowAllowed(work, Head(req[r].rows))
    /\ work' = LoadRow(work, Head(req[r].rows))
    /\ req' = [req EXCEPT ![r].rows = Tail(@)]
    /\ UNCHANGED <<db, conn>>

FinishImport(r) ==
    /\ req[r].op = "Import"
    /\ req[r].rows = <<>>
    /\ CommitTx(r, work)
    /\ Answer(r)

-----------------------------------------------------------------------------
(* Pages that only read, and the page that answers a refused form *)

(* The first query; a page asks one to MaxQueries of them. *)
BeginPage(r) ==
    \E n \in 1..MaxQueries :
        /\ conn = Free
        /\ conn' = r
        /\ Await(r, [op |-> "Page", open |-> TRUE, left |-> n - 1])
        /\ UNCHANGED <<db, work>>

(* The last row is read, which closes the rows before their deferred Close. *)
CloseRows(r) ==
    /\ req[r].op = "Page" /\ req[r].open
    /\ conn' = Free
    /\ req' = [req EXCEPT ![r].open = FALSE]
    /\ UNCHANGED <<db, work>>

NextQuery(r) ==
    /\ req[r].op = "Page" /\ ~req[r].open /\ req[r].left > 0
    /\ conn = Free
    /\ conn' = r
    /\ req' = [req EXCEPT ![r] = [op |-> "Page", open |-> TRUE, left |-> @.left - 1]]
    /\ UNCHANGED <<db, work>>

FinishPage(r) ==
    /\ req[r].op = "Page" /\ ~req[r].open /\ req[r].left = 0
    /\ Answer(r)
    /\ UNCHANGED <<db, work, conn>>

-----------------------------------------------------------------------------
(* Failures *)

(* Mutant: an error path without the deferred Rollback. *)
FailKeepsTx(r) ==
    /\ req[r] # Idle
    /\ conn = IF Holds(req[r]) THEN r ELSE Free
    /\ Answer(r)
    /\ UNCHANGED <<db, work, conn>>

(***************************************************************************)
(* Any statement can fail: a constraint rejects it, the disk is full, the  *)
(* file cannot be read.  The handler answers with an error page, and its   *)
(* deferred Rollback or Close gives the connection back.  Waiting for the  *)
(* connection cannot fail: it has no deadline.                             *)
(***************************************************************************)
Fail(r) ==
    /\ req[r] # Idle
    /\ conn = IF Holds(req[r]) THEN r ELSE Free
    /\ Rollback
    /\ Answer(r)

(* The process dies and is started again: SQLite rolls back what was open. *)
Crash ==
    /\ Rollback
    /\ req' = [r \in Requests |-> Idle]

-----------------------------------------------------------------------------

Begin(r) ==
    \/ BeginCreateBin(r) \/ BeginUpdateBin(r) \/ BeginDeleteBin(r)
    \/ BeginCreateItem(r) \/ BeginUpdateItem(r) \/ BeginImport(r)
    \/ BeginPage(r)

Finish(r) ==
    \/ FinishCreateBin(r) \/ FinishUpdateBin(r) \/ FinishDeleteBin(r)
    \/ FinishCreateItem(r) \/ FinishUpdateItem(r)
    \/ ImportRow(r) \/ FinishImport(r)
    \/ CloseRows(r) \/ NextQuery(r) \/ FinishPage(r)

Next ==
    \/ \E r \in Requests : Begin(r) \/ Finish(r) \/ DeleteItem(r) \/ Fail(r)
    \/ Crash

(***************************************************************************)
(* A handler that has begun goes on: its goroutine is scheduled, and       *)
(* database/sql hands a freed connection to a waiting caller picked at     *)
(* random, so a request that waits again and again is served some time.    *)
(* A write that a constraint refuses goes on to its error page; a page is  *)
(* not helped by a failure, it has to get through by itself.               *)
(***************************************************************************)
Fairness ==
    \A r \in Requests : SF_vars(Finish(r) \/ (req[r].op # "Page" /\ Fail(r)))

Spec == Init /\ [][Next]_vars /\ Fairness

-----------------------------------------------------------------------------
(* Properties *)

(***************************************************************************)
(* Type correctness, of the committed and of the connection's database: no *)
(* request brings a row the tables do not take.                            *)
(***************************************************************************)
TypeOK ==
    /\ IsDatabase(db)
    /\ IsDatabase(work)
    /\ conn \in Requests \cup {Free}
    /\ req \in [Requests -> Pending]

(***************************************************************************)
(* No committed item is filed in a bin that is gone.  A rowid comes back   *)
(* after a deletion, so an orphan would turn up in whatever bin gets the   *)
(* id next.  (items.bin_id REFERENCES bins, and DeleteBin's transaction)   *)
(***************************************************************************)
NoOrphans == ForeignKeysHold(db)

(***************************************************************************)
(* Two bins never have the same name, although every handler's check and   *)
(* write are separate statements: CSV import files an item by bin name and *)
(* needs the name to mean one bin.  (idx_bins_name)                        *)
(***************************************************************************)
UniqueBinNames == NamesUnique(db)

(***************************************************************************)
(* Search finds exactly what the items table holds: no ghost of a deleted  *)
(* or edited text, and nothing missing.  (the triggers of 0002_search.sql) *)
(***************************************************************************)
SearchInSync == IndexInSync(db)

(***************************************************************************)
(* Once DeleteBin has emptied a bin the foreign key cannot stop it from    *)
(* deleting the bin: nobody files an item there in between.                *)
(***************************************************************************)
DeleteNeverBlocked ==
    \A r \in Requests : req[r].op = "DeleteBin" => ItemsOf(work, req[r].id) = {}

(***************************************************************************)
(* However requests interleave and fail, and wherever the process dies,    *)
(* bins and items change by whole operations: the promise of InventorySpec.*)
(***************************************************************************)
Promise == INSTANCE InventorySpec WITH
    store <- [bins |-> db.bins, items |-> db.items]

WholeOperationsOnly == Promise!Spec

(***************************************************************************)
(* Every request is answered: no error path keeps the only connection, and *)
(* no page waits for it while its own rows are open.                       *)
(***************************************************************************)
EveryRequestAnswered ==
    \A r \in Requests : req[r] # Idle ~> req[r] = Idle
=============================================================================
