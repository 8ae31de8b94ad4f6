# A verification development for binbash

binbash is a self-hosted web application for finding things in storage bins: one Go process, one
SQLite file, server-rendered pages. This directory holds TLA+ models of the parts of it whose
correctness depends on what runs between two steps (other requests, failures, a crash, an
administrator at the command line), the TLC configurations that check them on small instances,
and proofs, checked by TLAPS, about the core of them. `PROJECT.json` lists, per module, which lines of
the source each definition stands for, and every hazard of the code with the properties that
watch it.

Run `tlc -config X.cfg MCx` for a run of the table below, and `tlapm XProofs.tla` for the proofs.

## 1. The system: an inventory

| Component | State it keeps | Operations that change it | What makes it correct |
|---|---|---|---|
| Schema and connection (`internal/db`) | the SQLite file; a pool of exactly one connection | statements, transactions, the full-text triggers | index in step with the items, foreign key, unique bin names |
| Bins and items (`handlers/bins.go`, `items.go`) | tables `bins`, `items`, index `items_fts` | create, edit and delete of each | operations happen whole or not at all, whatever interleaves |
| CSV export and import (`backup.go: writeCSVTo, parseBinbashCSV, commitImport`, `import_homebox.go`) | the same tables | find-or-create a bin per row, insert the item; optionally replace everything | all or nothing; a bin name means one bin; a backup restores what it was made of |
| Backups (`backup.go`) | watermark in `backup_state`, mutex `backupMu`, files in `AutoBackupDir` | automatic backup on page load, download, prune; a replacing import resets the watermark | files whole, the newest kept, items that no backup holds are counted |
| AI tagging (`ai_tag.go`, `internal/ai`) | `items.keywords`, `items.ai_tagged`, mutex `aiTagMu` | a batch per click, one update per item | nothing paid for twice, typed keywords survive, the backlog is worked off |
| Password and sessions (`internal/auth`, `login.go`, `reset_password.go`) | row `auth_settings`, its copy in memory under a lock, cookies in browsers | first start, login, logout, `Rotate`, `-reset-password`, restart | memory agrees with disk, replaced keys stay dead |
| Login throttle (`auth.go`) | map address -> attempt record, under `throttleMu` | `Throttled`, `RecordFailure`, `RecordSuccess`, sweep | a bounded number of guesses per lockout, reported once |
| In-app update (`internal/update`, `settings.go`, `main.go`, `restart_unix.go`) | files in the install directory, pre-update snapshots, flag `busy`, restart channel | check, snapshot, download, verify, swap, restart | a working binary always left, a snapshot before a migration, the new version runs |
| Reverse proxies (`auth/proxy.go`) | none; the configured trusted addresses | attribute a request to an address | no header buys a client another address |
| Startup (`main.go`, `ownership.go`, `internal/db/db.go`, `permissions.go`, `reset_password.go`, the service unit) | owners and modes of the data directory, database, sidecars and backup directory; `schema_migrations`; the account; the port | ownership check, make and restrict, migrate, create the account, listen, stop | nothing readable by others, no migration by halves, the service comes up |
| Validation, search page | none | - | the limits of the forms are those of the import |
| Title-casing, provider client, CSRF, configuration, templates, fail2ban filter | none of their own | - | pure functions or output; see section 7 |

How they interact. In a running server every component but the throttle and the tagging mutex goes through the single
database connection (`SetMaxOpenConns(1)`): a statement holds it while it runs, a transaction from
BEGIN to COMMIT, a query until its rows are closed. The export takes the connection first and
`backupMu` later, the automatic backup the other way round, which is where a deadlock could hide.
Item ids come back after a deletion (no AUTOINCREMENT), so everything that remembers an id across
two statements (the watermark, a tagging batch, an edit form) can meet another item under it. The
updater replaces the binary of the running process and ends the process; every other component
must survive that at any point. Processes share the files of the data directory: the service, and what somebody types at a
terminal, perhaps with sudo. The throttle counts per address, and which address that is, the proxies decide.

What is hard here: check-then-write in separate statements (bin names, chosen bins), two-statement
deletes, multi-row imports that fail halfway, triggers that must mirror every write, a provider call
of seconds between a read and its write-back, a watermark that races arriving items, rename-based
file replacement that can be cut off between two renames, throttle records that concurrent
requests add to after having been let through, an export that an import must undo character by
character, and starts of several users' processes that check owners first and use the files
later. The `hazards` of `PROJECT.json` have each of them at
its line.

## 2. The modules

```
Csv ----.
Rowids -+-- Database --- Inventory ----(implements)---- InventorySpec
   |                        '-- Restore -- InventoryProofs
   |                                             |
   |-- RowidsProofs -----------------------------+-- TaggingProofs, BackupProofs
   |-- Tagging
   '-- Backup
Proxy -- Throttle -- ThrottleProofs     Sessions -- SessionsProofs
Update -- UpdateProofs                  Startup -- StartupProofs
```

They were written in this order: the schema and the requests on it first (everything a user stores
depends on them), then the two features that keep ids for a long time (tagging, backups), then
authentication, then the updater, then the text of a backup, the proxies and the start of a process. `MC<X>` instantiates module `<X>`.

**Rowids** is SQLite's `INTEGER PRIMARY KEY`: a table is a function from ids to rows and a new row
gets one more than the largest id in use. **Database** has one operator per SQL statement of the
handlers, triggers included, and one `...Allowed` predicate per statement for its constraints.

**Inventory** has two images of the database: `db` is committed, `work` is what the connection sees.
`conn` is the request whose transaction holds the connection, `req[r]` what request `r` still has
to write. `Begin...` is the handler up to its last read (`CreateBin`'s title-casing and its lookup of
the name in any case, `CreateItem`'s check that the bin exists) or, for the transactional handlers,
BEGIN and the first statement; `Finish...` is the write that follows. `ImportRow` is one turn of
`commitImport`'s loop. A page that reads is `BeginPage`, then `CloseRows` and `NextQuery` per query, then `FinishPage`: its
rows keep the connection until they are read to the end, and a page that asked again before that would wait for itself.
`Fail` is any error path with its deferred Rollback or Close; `Crash` ends the process.
**InventorySpec** is the promise: bins and items change by whole operations, an import included.

**Csv** is the text of fields: the limits and the trimming of the forms (`BinForm`, `ItemForm`; `Spaces` is what trimming takes), the quote that an export puts
before a formula character (`SanitizeCSVField`) and an import takes away, the strict parser and the Homebox parser, each
condition where the code has it. A field is a sequence of characters, of which the model has those that the code treats
specially. `Inventory` gets its texts from the forms and its files from `ParseUpload`. **Restore** has the file that
`writeCSVTo` makes of a database (`WriteCSV`) and the database that a replacing import makes of that file (`Restored`), with the
import's own operators.

**Tagging** is `TagItems`: `Click` (TryLock and the batch query), one of `TagSucceeds`, `TagFails`,
`UpdateFails` per item, `Expire` (the batch timeout or a closed browser), `EndRun` (the deferred
Unlock), beside item requests. `batch[r].left` is what is left of the rows the query returned, with the
keywords it saw, taken in the order of their ids.

**Backup** is `checkAndRunAutoBackup` in eight steps (`LoadPage` to `Prune`), `ExportBackup` in four
(`OpenExport` to `MarkExport`), `GiveUp` for every error return and `Crash`. `files` and `tmps` say
for each name in the directory whether the file under it is whole. `saved` and `copied` are history
variables: nothing in the program has them, the reminder properties need them.

**Sessions** has the row (`stored`), its copy in memory (`cached`), the lock (`mu`), and the cookie of
each device. `CheckCurrent` to `FinishChange` are the steps of `ChangePassword` and `Rotate`, with the
database write between taking the lock and changing memory; `Start` is `auth.New`, `ResetPassword` the
command line. `retired` and `resetBehind` are history.

**Proxy** is `ClientIP`: the walk through X-Forwarded-For from the right. `Arrival` is what reaches the server from a client
that sends a header of its own (`Claims`) through some proxies (`Routes`); `Attributed` are all addresses the client's
requests can be counted under.

**Throttle** extends it and has the map `attempts` with the fields of the Go struct and the requests that have passed
`Throttled` and not yet recorded an outcome (`checking`). The sweep runs inside `RecordFailure`, as in
the code.

**Update** follows one click through `CheckRelease`, `Snapshot`, `Prepare` (lock and preflight),
download, verification, extraction, test run and the two renames of `swapBinary`, with the failure of
each, then `Finish`, `Restart`, `Start`. `binary[p]` is the file at `binbash` followed by `p` times
`.old`, `fresh[p]` the one at that path with `.new`; `executable` is what `os.Executable` reports, which
on Linux follows a renamed file.

**Startup** follows processes from `main` to the open port: `Start` (the ownership check), `MakeDataDir`, `Connect`, `LookAt`,
`Apply` and `Record` per migration, `Restrict`, `MakeBackups`, `LoadAccount`, `CreateAccount`, `Listen`; or `ResetPassword` after
`Restrict`. The service is one process, commands that people type are others, and every one is run by a user. `owner` and
`exposed` are the owners of the data directory, the database, its sidecars and the backup directory, and which of them others
may read. `Die` is a `log.Fatal`: a file operation that the system refuses (`Blocked`), or another process that was faster
(`Overtaken`). `HandBack` is the `sudo chown` that the error message asks for, done for everything or for less. `disturbed` is
a history variable: the processes since whose check another user made a file or files were handed over.

## 3. The runs

"Two requests" means two handlers interleaved in any order; more of them add no new kind of
interleaving here, since each lock and the connection has one holder and one waiter at a time, and each
property is about one victim and one intruder.

| Run | Instance | What it shows |
|---|---|---|
| `inventory` | 2 requests, 2 ids per table, 2 names that differ in case, 4 texts of which one is over the limit, fields of 4 characters, pages of 1 or 2 queries, bins without a description, uploads of 0 to 3 rows in both formats | both database images keep their types; no orphan, no two bins of one name, index in step (`NoOrphans`, `UniqueBinNames`, `SearchInSync`); nobody can put an item into a bin that is being deleted (`DeleteNeverBlocked`); a backup of any committed state is accepted and restores it, exactly if its fields are plain and otherwise with the changes that `ComesBackAs` lists (`BackupRestores`); the interleaved statements implement `InventorySpec` (`WholeOperationsOnly`); every request and page is answered |
| `tagging` | 2 clicks, 3 ids, batches of 2, limit 2, at most 1 hard item | never an item asked about that is already tagged; the mutex is always given back; every item with a usable answer is tagged in the end |
| `tagging_edit`, `tagging_backlog` | 1 click | violations: findings 1 and 2 |
| `backup` | 2 requests, 3 ids, threshold 2, 1 file kept, 2 seconds | files whole through crashes; no second automatic backup of the same items; an item in a recorded backup is never counted as new; prune removes only surplus; no deadlock between connection and mutex |
| `backup_reminder` | 1 request | violation: finding 3 |
| `sessions` | 2 devices, 2 passwords, 4 keys | memory agrees with disk when nobody is changing the password; retired keys never return; a restart signs nobody out; every request is answered |
| `throttle` | 2 requests, 2 clients, 2 proxies, headers of 0 or 1 entries, limit 2, window and lockout 3, idle time 12, clock to 18 | no header or route makes a client count under another address than its own (`HeadersBuyNothing`); at most `MaxAttempts - 1` + the requests in progress are counted; a lockout ends only for a listed reason (`LockoutHolds`); it is reported exactly when it begins |
| `update` | 2 clicks, 3 versions of which the last is defective, 2 snapshots kept | only tested binaries under a binary's name, the version that ran last among them (`BinaryKept`); no migration without a snapshot still there; the installed version runs; the lock is released |
| `update_old` | 2 clicks, 3 good versions | violation: finding 4 |
| `update_crash` | 1 click, 2 good versions | violation: finding 5 |
| `startup` | the service and 1 command at a time, 2 commands typed by root, the service's or another user, 2 migrations, 2 kills or stops, every kind of install found | nothing readable by others once the database is open and restricted (`NothingExposed`); a start fails on a file only if owners changed after its check (`CheckSuffices`); what has run is what is recorded, and a prefix (`SchemaMatchesRecord`); the service comes up and stays up (`ServiceComesUp`) |

The bounds, and why they are enough. `MaxRowid` 2 or 3: ids are compared and reused, nothing is
computed from them, and two ids give deletion and reuse in both orders; the insert that would
exceed it fails as it does when the disk is full. Two passwords, two names: properties only tell
"same" from "other". Fields of four characters: the CSV code looks at the first two and at both
ends, and four let a limit, a line break within and at the end of a field, what truncation leaves there, and a typed quote before a
formula occur in one field. Two migrations: one done and one not, or two missing, which is what
a race between two starts distinguishes. Two commands and two accidents in `startup`: a command of another user can come
before, between and after the steps of the service, and still be there when the service is started again. `MaxKeys` 4: the account's key, two racing changes, a reset. `MaxTime` 18 in `throttle`
(a unit is five minutes, the code's 15-minute window and lockout and 60-minute idle time): a full
window, a lockout at its end, the sweep, and a failure after it. `MaxTime` 2 in `backup`: two file names
already let an older file be pruned. `MaxPath` 2 in `update`: the longest name two updates in one process
reach. `MaxHard` in `tagging` is one below the failure limit, and at the limit in `tagging_backlog`: that
is the boundary the liveness property depends on.

Only `startup` switches the deadlock check off: a service that runs, with no command left to type and no accident left to
happen, has nothing more to do.

## 4. Fairness, and why the code justifies it

Specifications with liveness properties say which steps must go on; users, crashes, timeouts and edits
are never forced.

* `Inventory`, `Backup`, `Sessions`: strong fairness of one request's next step. A handler is a goroutine, the
  Go scheduler runs it; `database/sql` hands a freed connection directly to a waiting caller that it
  picks at random (so none waits for ever, with probability 1), and `sync.Mutex` and `sync.RWMutex` do not
  starve a waiter. Weak fairness would not do: other requests take the
  connection again and again, so the step is not enabled all the time. In `Inventory` a failure counts as a step of a
  handler that writes, not of a page: a page that waited for itself would not be helped by an error that may never come.
* `Tagging`: a run goes on, somebody keeps clicking (the repository's README asks for it), and a
  provider that is asked about an item again and again tags it at last unless it is `hard`. That the
  run is not cut short for ever is the premise of `EveryItemTagged` and not assumed.
* `Update`: a request goes on, `main` reads the restart channel, the service manager starts the binary.
* `Startup`: the service is started again whatever ended it (by `Restart=on-failure` or by whoever stopped it; the service
  manager's limit on restarts in a row is not modelled), a process that runs goes on, a server in a terminal is stopped some
  time, and an operator who is told to hand files back does that. Kills and commands are finitely many, which is the bound of
  the run.
* `Backup`: a client that downloads reads to the end or disconnects. One that does neither holds the
  connection for as long as TCP lets it: the server sets no write timeout, on purpose (`main.go:206-208`).

`Throttle` states safety only and has no fairness.

## 5. Findings: where the code and its documents disagree

1. `tagging_edit`, `ExistingKeywordsKept`. A run writes back keywords it read before the provider was
   asked; what somebody typed meanwhile is lost, against `ai_tag.go:34-35` and `README.md:181`.
2. `tagging_backlog`, `EveryItemTagged`. As many items without a usable answer as the failure limit, with the
   lowest ids, stop every later run before the rest of the backlog (`README.md:183`).
3. `backup_reminder`, `ReminderDue`. Items added between a download's query and its record are below the
   watermark without being in any backup (`README.md:191`). The same is true of an automatic backup when a replacing import
   commits between its query and its record (`backup.go:221`): the reset watermark is overwritten with the largest id of an
   inventory that the file does not hold.
4. `update_old`, `OldBinaryKept`. A second update between the first one's install and the restart works on
   `binbash.old` and moves it away (`README.md:234`, `update.go:39-41`).
5. `update_crash`, `BinbashInPlace`. Between the two renames of `swapBinary` there is no `binbash`, and a process that dies there
   leaves none to start, against `apply.go:30-31` and `apply.go:301`, which call the swap atomic. A roll-back that fails leaves the
   same, and says so. `BinaryKept` says what does hold: the version that ran is there to be put back by hand.

Three more disagreements follow from the models as they are; they have no run of their own, and the properties that pass state
what the code does instead.

* **A typed quote.** `backup.go:49-50` says that `desanitizeCSVField` "reverses sanitizeCSVField, so re-importing binbash's own
  export round-trips exactly". `sanitizeCSVField` leaves a field that begins with a quote as it is, so a text `'=x` that a user
  typed is `'=x` in the backup and comes back as `=x`. Line breaks (CRLF becomes LF), and a space or line break that truncation left
  at the end of a field, change as well. `BackupRestores` demands exactness of the other fields (`Plain`) and of these the
  changes that `ComesBackAs` lists.
* **A late failure.** An attempt that passed `Throttled` and fails when more than `throttleWindow` has gone since the first
  failure counted starts a new record without a lockout (`auth.go:394-396`) and so ends one that has just begun, against
  `auth.go:380-381` ("locking it out for lockoutDuration") and the 15 minutes of `README.md:281`. In the program the fifth
  failure and the late one can be moments apart, on either side of the end of the window. `LockoutHolds` allows this failure and no other.
* **Case variants.** The forms refuse a name that differs from another only in case, and `bins.go:279-282` and `bins_test.go:5-6`
  say the import depends on that; the import compares exactly (`backup.go:246`) and creates such pairs. `UniqueBinNames` and
  `NamesStayUnique` are about equal names.

Two things a reader should know that no run checks. Nothing limits the keywords that tagging appends (`ai_tag.go:170-196`), while the
import refuses a whole file for one field over the limit (`backup.go:171-175`): a backup of an inventory with such an item is
not accepted. And a database from before migration 5 that holds two bins of one name fails at that migration at every start; the
`startup` run takes every missing migration to be applicable.

## 6. What is proved

TLAPS checks, for every value of the constants that the named assumptions allow (any number of ids,
requests, names, texts and files):

* `Invariance`: `Spec => []IInv` for module Inventory. `IInv` is `TypeOK`, `Consistent` for *both* images,
  `TxHoldsConnection` (a request that is in DeleteBin or an import holds the connection, and only such
  a one does), and `DeleteNeverBlocked`. The properties of the runs are not inductive by themselves: a commit
  makes `work` durable, so `Consistent(db)` needs `Consistent(work)`; that the bin deletion cannot leave
  orphans needs `DeleteNeverBlocked`; and that one needs to know nobody else writes inside the transaction.
* From it `TypeCorrect`, `NoOrphansEver`, `NamesStayUnique`, `SearchStaysInSync` and `DeleteSucceeds`.
* `InventoryProofs` has one lemma per SQL statement (`InsertBinSafe`, `UpdateBinSafe`, ...): a statement that its
  constraints allow takes a consistent database to a consistent database. They rest on `RowidsProofs`: three lemmas about
  tables, and `NextRowidFresh`: the id that SQLite picks exists, is in range and is unused. Its proof takes
  the least number above all ids in use, which exists because `<` on the naturals is well founded.
* `OperationsAreWhole`: Inventory implements `InventorySpec`, imports of any length included. The refinement mapping is
  the committed tables without the index; what has to be known is what the *uncommitted* image holds when it is committed.
  `TxFollowsRequest` says that: in DeleteBin, `work` is `db` with the bin's items deleted; in an import, `work` is what the
  rows taken so far make of the tables it started from (`Loaded`: old rows untouched, each new bin described by the
  first row of its name, one new item per row by a bijection). `RInv` adds it to `IInv`. `OneMoreLoaded` is the step of an import,
  `StepImplements` maps every step to an operation of InventorySpec or a stutter.
* `EveryBackupRestores`: `BackupRestores` in every reachable state: every backup is accepted, an inventory of plain fields comes
  back exactly, and any other with the changes that `ComesBackAs` names and no others, unless these make two bin names one.
  Three parts:
  (1) `FieldsStayGood`: every stored row *and* every row a pending request will write passes the import's validation and
  has no space in front (`FieldsGood`). The forms, the strict parser (by refusal) and the Homebox parser (by skipping, then cutting
  fields to the limit, `ParsedRows`) each have to establish it.
  (2) `FieldRestored`: for any such field, trimming and the two quote rules undo each other up to what `ComesBackAs` names, and
  `ComesBackWithinLimits`: the strict parser then accepts every row. `FieldComesBack` is the plain case: a field that is
  trimmed, has no CRLF in it and does not begin with a typed quote comes back as it was, and so does a listing of such fields
  (`PlainRowsComeBack`); what a first round trip leaves is always such a field, so a second takes nothing more
  (`RoundTripsSettle`).
  (3) `RestoreRow` and `RestoredIsLoaded`: after k rows the items are 1..k in the order of the file, in bins of the names
  the rows give. That a bin has the category its rows say needs that equal names meant one bin, `NamesUnique`; and rows are
  counted alike in whatever order the listing has them (`OrderDoesNotCount`, by a bijection).
  The recursions over rows are recursive functions: that one exists, and what holds of its values, is proved by the least row
  number without it (`LeastNatural`), since no prover here can use an induction theorem.
* `TaggingProofs`: `GInv` adds to the types and to `NothingPaidTwice` that exactly the holder of the mutex runs and only who runs has
  rows left (`OneRun`): without it another run could tag what this one still holds. That a batch has at most `BatchSize` rows
  is `FirstFew` of `RowidsProofs`: no more than K numbers have fewer than K below them.
* `BackupProofs`: `BInv` says who holds mutex and connection at every step (`LocksHeld`), that a page load about to rename has
  a whole file under a temporary name of its own (`FileInHand`), and that no item of a recorded backup is above the watermark
  (`SavedBelow`). It gives the type invariant and three more; the action property `OnlySurplusPruned` needs `LastFew`: of
  the files above a surplus one, the last `Keep` are not surplus themselves.

* `SessionsProofs`: `SInv` adds to the types who holds the lock (`LockHeld`), that memory lags behind the disk only
  while a change is between its two writes (`MemoryFollows`), and what is true of the keys of changes *in progress*
  (`KeysDistinct`: no two have the same, none is in use, none was replaced). The properties say nothing of changes
  in progress, and without that a finished change could bring a replaced key back. It gives
  `SessionsTypeCorrect`, `MemoryAgreesWithDisk`, `ReplacedKeysStayDead` and, as an action property,
  `StartSignsNobodyOut`.
* `ThrottleProofs`: the bound of `GuessesBounded` is not inductive, because a count at the bound could grow.
  `RecordOK` adds that under a lockout the count *plus the requests of that address in progress* is within the bound.
  A failure moves one from the second to the first; no request joins, since a lockout outlasts the window it was
  earned in (`WindowWithinLockout`, which needs `ThrottleWindow <= LockoutDuration`). `LockoutsHold` needs that the
  sweep spares lockouts (`LockoutDuration < ThrottleIdleTTL`) and that a failure within the window leaves the address locked
  out (`FailureKeepsLockout`: under a lockout the count is at the limit already); a failure after it does not (section 5).
  `LockoutsReportedOnce` needs the first two.
* `UpdateProofs`: `UInv` says that the version that runs has its file, tested, at the path the system reports for it (`ProcessHasFile`), and
  the version that ran last one at some path (`RunningKept`), where
  the holder of the lock is relative to that path (`TargetInPlace`), and that a snapshot of the present schema is behind
  every request past that step and every file at `binbash` that is not the schema's version (`SnapshotBehind`). It gives
  `UpdateTypeCorrect` (with mutual exclusion), `BinaryNeverLost` and `MigrationAfterSnapshot`. That `binbash` itself is in place
  is no theorem: finding 5.
* `ClientFound` (in `ThrottleProofs`): for any header and any sequence of trusted proxies a request is attributed to its client; the last
  entry that is not trusted is the one the first proxy appended. `HeadersAreNoUse` follows.
* `StartupProofs`: `StInv` says where files stand (`FilesStand`: sidecars beside a database, and whoever has it open has both),
  that what a process has restricted stays private (`StaysPrivate`: what others make later takes the database's mode), that
  the check of an undisturbed process is still true (`CheckStands`), and that a process has seen every earlier migration
  recorded (`SeenRecorded`). `SchemaMatchesRecord` needs the last: recording number n keeps the record a prefix only because the
  process has seen all before n.

Each inductive invariant was first checked by TLC on the instance of the run before it was proved.

Assumptions, each named in the module that declares the constants and evaluated by TLC: `MaxRowid` is a positive natural,
`TitleCase` maps names to names, fields are sequences of characters, the cells that the Homebox parser works on are trimmed
(`get` and `deriveBinName` trim them), files are sequences of rows, a page asks a query at least, and the value for a free connection is no request; a batch, the failure
limit and the number of backups kept are positive; trusted addresses are addresses and routes go through them only; root and the
service's user are users; the
configured password is acceptable; the requests are finitely many, the limit is above 1, and window, lockout and idle time
are ordered as in `auth.go`; a snapshot is kept at least, and the release installed first works.

Only model-checked: liveness (`EveryRequestAnswered` of three modules, `LockReleased`, `EveryItemTagged`, `NewVersionRuns`,
`BusyReleased`, `ServiceComesUp`), which is out of the prover's reach. Every invariant and every action property that a
passing run checks is also proved, and so is the refinement.

## 7. Abstractions, and what is not modelled

* A bin's category and description are one value, an item's name, description and keywords another (in
  Tagging keywords are a set of words), and one limit stands for the six limits of the columns. `titleCase` and the case folding of NOCASE are constant functions.
* A request that is refused before its first write changes nothing and is a stuttering step.
* Csv: a file that `encoding/csv` cannot read, the recognition of a header and a byte-order mark are "other" headers; the word "bin"
  is one character. Of the white space that `strings.TrimSpace` takes, blanks, CRLF and LF are characters of the model; a carriage
  return on its own, which no browser submits in a form, is not.
* A password is its own hash and a cookie is the key that signed it; the expiry of a cookie is a logout.
* Tagging assumes a `tag_count` above 0. The mutex and the batch vanish with the process, which is what
  `Expire` and `EndRun` leave behind, so there is no crash action of its own.
* Throttle: two failures are never recorded in the same nanosecond, and a request's address is what `Proxy` makes of it. The parsing of configured prefixes is not modelled.
* Startup: `-wal` and `-shm` are one file, a `chmod` of the database and its sidecars one step; the database lies in a directory
  of its own and the backups are configured below it; a password is configured; waiting for SQLite's lock for 5 seconds and then
  failing is being `Overtaken`. What root makes beside another user's database belongs to root or to that user: SQLite tries to
  change it, and both are possible.
* Update: every release migrates the schema, which is the case the snapshot exists for; Windows, containers and
  development builds refuse or differ, and are left out. `RestoreByHand` is what the failed roll-back's message
  asks the administrator to do.
* Not modelled: the provider client and the parsing of its answer, CSRF and security headers, configuration, templates and
  logging (stateless or read once, and unit tests reach them), title-casing of strings, search ranking (SQLite's), the
  fail2ban filter.

## 8. Plan

1. Tagging and backups on the tables of Inventory, so that `BackupRestores` and `ReminderDue` speak of one database.
2. `Startup` and `Update` composed: the migration of a new version after a snapshot, started while a command of the old version runs.
3. The answer of the AI provider: the attempts, limits and the parser of tags in `internal/ai`.
