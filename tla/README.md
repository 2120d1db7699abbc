# Verification of the data-file hub

TLA+ modules, TLC configurations and TLAPS proofs for the data-file hub: an administrator uploads TXT files,
each line becomes a ticket, and tickets are handed out to the devices of
mode-A users (one at a time) and mode-B users (in batches), completed, given
up, recycled, revoked or expired.  Production runs several gunicorn workers
with gevent greenlets and one scheduler on PostgreSQL; every interleaving of
their SQL statements is possible, and that is what is modelled.

## The system

| part | state | operations | hard behaviour |
|---|---|---|---|
| Ticket assignment (`services/ticket_pool.py`) | `lottery_tickets`, `uploaded_files`, Redis list of pending ids | assign one, assign a batch, finalise, preview | row locks and `SKIP LOCKED`, two advisory locks, stale Redis ids, a retry loop |
| Mode A (`services/mode_a_service.py`, `routes/mode_a.py`) | – | next (close, then assign), stop | two transactions in one request; the close does not name the device |
| Mode B (`services/mode_b_service.py`, `routes/mode_b.py`) | `download_filename` | download, confirm, preview, pool status | repeated or late confirmations, several devices of one user; three readings of the reserve |
| Recycling (`services/ticket_recycle_service.py`) | tickets, counters | put assigned tickets back | counters written from an unlocked read |
| Expiry (`tasks/expire_tickets.py`) | tickets, counters | expire overdue tickets every minute | aggregates overwrite counters |
| Import, revocation (`services/file_parser.py`, `utils/time_utils.py`) | files, tickets, texts on disk | import, revoke | duplicates across requests and the hour of reset; a disk outside of the transaction; locks the file before its tickets |
| Sessions, devices (`routes/auth.py`, `services/session_service.py`, `routes/device.py`, the check before a request in `app.py`) | `user_sessions`, `device_registry`, cookies | login, heartbeat, binding, change of device id, forced logout, clean-up | every check is a read of its own, and its write comes later |
| Results and winning calculation (`services/result_parser.py`, `services/winning_calc_service.py`, `utils/winning_calculator.py`) | `match_results`, `is_winning`, amounts | upload a sheet of predicted or final results, recalculate | uploads that merge into one row; overtaken calculations give up |
| Winning records (`routes/winning.py`) | `winning_records`, images | upload an image, check a record | a check against a calculation that deletes, or an upload that replaces; the old image is deleted before the commit |
| Archive (`tasks/archive.py`), scheduler (`tasks/scheduler.py`) | all tables, disk | delete old rows and what is stored for them | disk first, commit later; one worker per job, by a lock that may be lost |
| Administration (`routes/admin.py`, `services/user_import_service.py`) | users, settings | create, import, edit and delete users | disabling or deleting a user whose requests are under way |
| Notifications, pages, start-up | – | – | no state depends on them |

Parts meet in the two tables (each request is a sequence of short
transactions), in PostgreSQL's locks, and in calls: routes call the services,
mode A and mode B call `ticket_pool`, the scheduler calls the jobs.

What makes each part correct: a ticket is with one device at a time and only
that device closes it; nothing leaves a final status; a user stays within its
limits and never gets a blocked type; a batch is one file of one type and
leaves the reserve; a file's counters count its tickets; a revoked file has no
live ticket; an overdue ticket leaves the pool; every request ends.  No
accepted result sheet is lost; predicted and final results do not disturb each
other, and the right ones decide a ticket; a calculation works on the file it
was started for; checked evidence stays.  A disabled user stays out and an
ended session ended; a device id has one owner.  One file per code and business
day; no ticket outlives its file, no row the text or image stored for it.

## Modules

| module | what it is |
|---|---|
| `TicketLifecycle` | the abstract promise: the committed rows of `lottery_tickets`, and the steps they may take |
| `PoolSelection` | the pure part of `ticket_pool.py`: ORDER BY, the group of a batch, reserve arithmetic, the preview |
| `TicketPool` | the two tables and every transaction that moves tickets, one SQL statement per action |
| `TicketPoolProps` | what must be true of it, and the fair specification |
| `MCTicketPool` | values of the constants for TLC, symmetry |
| `PoolSelectionProofs` | lemmas and theorems about the pure part |
| `TicketPoolProofs` | the inductive invariant, the safety theorems and the refinement |
| `RevocationProofs` | a second invariant on top of it: what a revocation under way has in hand |
| `LimitProofs` | two more: what a download under way has counted, of its user's tickets and of the pool |
| `CounterProofs` | and two on top of these: what a transaction knows of the files whose counters it will write, when maintenance runs alone and when it does not |
| `MatchData` | pure: how a result sheet is read and merged, when a ticket wins, which results decide it |
| `WinningCalc` | one row of `match_results`, its tickets and winning records, and the uploads, calculations and checks that change them, one statement per action |
| `WinningCalcProps` | what must be true of them |
| `MCWinningCalc` | sheets and bets for TLC, symmetry |
| `WinningCalcProofs` | theorems about merging and deciding; the inductive invariants of uploads, calculations and checks, and the theorems from them |
| `DeviceOwners` | the abstract promise of the device registry: who owns which device id |
| `Accounts` | users, sessions, cookies and devices, and every request, job and administrator operation that changes them, one statement or commit per action |
| `AccountsProps` | what must be true of them |
| `MCAccounts` | symmetry and a constraint |
| `AccountsProofs` | the inductive invariant, the safety theorems and the refinement |
| `BusinessTime` | pure: business days, their windows, deadlines |
| `FileStore` | the rows of files and tickets from upload to deletion, what is stored on disk beside them, the requests that upload files and images, the two archive jobs, and faults |
| `FileStoreProps` | what must be true of them |
| `MCFileStore` | a constraint |
| `FileStoreProofs` | lemmas about business days, the inductive invariant and the theorems from it |

`TicketPool` extends `PoolSelection` and instantiates `TicketLifecycle`, whose
only variable is the table `tickets` of the detailed module; so the refinement
mapping is the identity on committed rows, and everything uncommitted is
hidden.  `WinningCalc` extends `MatchData`; it shares no state with
`TicketPool`, because a calculation reads completed and expired tickets only
and writes columns no other part uses.  `Accounts` extends no other module and
instantiates `DeviceOwners`, whose `owner` is read off the registry.
`FileStore` extends `BusinessTime`; it sees of a ticket only whether it is
closed and when, so `CloseTicket` and `DropRecord` stand for what `TicketPool` and
`WinningCalc` do; and of a file's counters only whether they show a ticket as open.

### How the ticket pool corresponds to the code

* `tickets` and `files` hold committed rows: status, owner and device of a
  ticket; stored status and the three counters of a file.  Ticket amounts,
  names, versions and dates other than the deadline are left out, and a
  ticket's deadline and type are its file's, as the import gives them.
* `txn[w]` is what worker `w` is doing: a SQLAlchemy session with the request's
  arguments, the rows its running statement found (`cand`), the ones it has
  locked (`held`, `flocked`) and will write (`got`, `scope`), and the values it
  has read (`snap`, `count`).  `pc` names the next statement.
* Actions are statements.  `TakeUserLock` and `TakeReserveLock` are the
  advisory locks; `PickOne`, `TryHint` and `PickBatch` the
  `FOR UPDATE SKIP LOCKED` selections; `Scan` and `LockRow` an UPDATE or
  `FOR UPDATE` that takes its snapshot first, then waits for each row and
  re-evaluates its WHERE clause on what it finds, as READ COMMITTED does;
  `ReadFile` is the ORM's plain `get`, `LockFile` the flush of its UPDATE;
  `Commit` makes the writes visible and releases every lock.  Nothing is
  written before `Commit`: a row to be written is locked, so no other
  transaction could have seen it.
* The two ways counters are updated are kept apart: `CloseInFile` and the
  assignments add to the row they have locked (`assigned_count =
  assigned_count + n`), while recycle, revoke and expire write a value computed
  from the row they read before, and only in the columns whose value the ORM
  saw change (`Overwrite`).
* A file whose name gives no readable deadline has none (`NoDeadline`).  In SQL a
  comparison with NULL is never true, so `Eligible` and `Overdue` pass its tickets
  over; `TryHint` may come upon one by its id, locks it, and its UPDATE
  (`UpdateMatches`) finds no row.
* A Redis id is any existing ticket's: pushes and removals are best effort, so
  the list may hold ids of tickets assigned, closed or revoked since.
* `Abort` is ROLLBACK.  The deadlock detector ends a cycle of waiting
  transactions (`InDeadlock`); with `MayFail` any transaction may also fail at
  any statement: a lock or statement timeout, an exception, a killed worker.

Requests come in with any arguments a client or administrator can send
(`Request`): a device may confirm any ids, repeatedly.

What is shown of the pool is one query, hence an operator: `Preview`, the
largest batch a mode-B user could get now, its limits included, and
`ModeBStatus`, the groups of the pool trimmed by the reserve.

### How results and winnings correspond to the code

* `ResultData` is the JSON of `match_results.result_data`: per match number and
  play an entry with a predicted and a final result, each with its SP or
  without.  A sheet is a sequence of lines; a line carries the results of its
  match and, apart from them, an SF result with a number of its own.
  `ParseLines`, `ClearUploadKind`, `MergeResultData` and `IsIncomplete` follow
  the functions of `result_parser.py` of those names; an SP given without a
  result is never read.
* A ticket bets on one play: a set of options per match.  It wins if one of the
  combinations of its options hits in every match (`CalculateWinning`), which is
  when the gross amount is positive, SPs being positive.  Postponed matches hit
  any option, except that CBF and BQC results lose their dashes first
  (`CountsAsPostponed`).  `SelectActiveOutcome` is
  `_select_active_winning_outcome`.
* `result` is the row of one period and lottery type; `tix` the four columns a
  calculation writes (predicted win, final win, `is_winning`, image);
  `records` the winning records; `latest` remembers the last accepted sheet of
  each kind and is in no table.
* `txn[w]` is a request: the objects its session has loaded (`row`, `seen`,
  `record`), and what it is about to write (`new`, `wrote`, `targets`).  The ORM
  writes only the columns whose value it changed (`Changed`, `Flushed`).  The
  advisory lock of a period is held from `LockPeriod` to `StoreResult`.
* A calculation is `StartCalc` (first token check), `BeginCalc` (status
  processing, committed), `LoadTickets`, one `CalculateTicket` per ticket with
  the query of its record, after which a ticket whose columns changed is flushed by
  the next query (`FlushTicket`, which waits for its row), `CheckNewest` (second check), `Cleanup` (records to
  delete are fetched again; the last one comes from the session, as it was),
  `CommitCalc`.  A flushed row stays locked to the end (`RowFree`).  It may fail at any statement (`FailCalc`,
  `MarkError`) or be killed (`Killed`).
* Both image uploads (user and administrator) are `UploadImage`, `ReadRecord`,
  `StoreImage`; the mark is one UPDATE (`MarkChecked`).

### How users, sessions and devices correspond to the code

* `users`, `registry` and `sessions` are rows of `users`, `device_registry` and
  `user_sessions`; `cookies` says which user a signed cookie with a session's
  token was given to (it cannot be taken back); `history` are the users some
  other row refers to.
* `txn[w]` is a worker's request.  A request with a cookie is `Enter` (the reads of
  `update_last_seen`: user, session, expiry), `Touch` or `DropExpired` (its
  commit), then the handler, which reads the user again, since the commit
  expired it.  What the client sends is chosen where the code first looks at it.
* A login is `Login` (the user is read), `CountSessions`, `PurgeDevice` (its own
  transaction), `CreateSession`, `LoginUser` (the user is read again, the cookie
  given).  A change of device id is `FindTarget`, `CountHeld`, `CheckConflict`,
  `FindOwnRow`, `ChangeDevice` or `FailChange`: four checks and one commit.
* `ClaimFails` and `ChangeFails` are what PostgreSQL and the ORM refuse at the
  commit: a unique device id taken meanwhile, a row to update that is gone, a
  user that is gone.
* An edit of a user is `EditUser`, `SaveUser` (the columns it changed),
  `ReloadUser`, `EndSessions` (a second transaction).  A deletion is `DeleteUser`
  (the look for references) and `EraseUser` (one transaction, which fails as a whole).
* Adjacent reads that no write of another request can tell apart are one step.
  A token or key that nothing refers to any more stands for a new one.
* Left out: an administrator's own session, and a crash between
  the two transactions of an edit that disables a user, after which its sessions would stay
  until the next clean-up (each request of the user is refused all the same).

### How files, storage and deletion correspond to the code

* `files` holds code, time of upload and deadline; of a file name the code before
  the first underscore (`internal_code`) is kept, on which both checks for a
  duplicate agree.  `tickets` holds per file and line whether the ticket is open or
  closed, its terminal time, and its winning records with their images.  `disk` and
  `images` are what is stored outside of the database.
* `upload[w]` is a request of one or more files.  Each is `OpenFile` (reads the
  clock), `TakeLock` (advisory lock on business day and code), `CheckFile`, then
  `AcceptFile` (commit) or `RejectFile` (rollback) and `RemoveRejected`.  A
  duplicate is refused without ending the transaction, so its lock stays; a request can
  collect several and meet another in a deadlock, which `BreakDeadlock` ends.
* `job[r]` is a run of `archive_old_tickets` (`ReadTickets`, `DeleteImage` per
  image, `DeleteTickets`) or of `archive_old_uploaded_txt_files` (`ReadFiles`,
  `DeleteText` per file, `DeleteFiles`).  The lock that keeps a job to one worker
  is held by a connection of its own (`holds`), which `LoseLock` loses.
* `photo[w]` is a request with a winning image, by the user or an administrator:
  `SendImage` (the record is read, the new image stored under a name of its own),
  `DeleteReplaced` (the old image is deleted, which no rollback undoes),
  `CommitImage`.  If it fails before the commit (`FailPhoto`), the new image belongs
  to nobody and the record may name one that is gone; `lost` remembers those.
* `FailUpload` and `FailJob` are an exception or a killed worker at any step: rows
  are rolled back, the disk is not.  A stored file whose row was never committed
  stays on disk for ever; no property says otherwise.
* The files job selects by a file's stored counters, then counts its tickets.  The
  counters can drift (`counter_drift`), so `open`, what they say, is set by the
  import and after that by any closing of a ticket, to either value: `ReadFiles` may
  miss a file that is done and pick one that is not.
* `DropRecord` is a calculation, or the deletion of a period, that deletes a record
  and after its commit the image, if it can.
* Time is in hours.  A deadline is the hour a file name gives, on the day
  `resolve_deadline_datetime` chooses; a name without a readable hour gives none
  (`None`), and the file is accepted all the same.

## Runs

All are on PostgreSQL, with two workers; rows of one or two files in the pool.

| run | checks | instance |
|---|---|---|
| `everyday` | `CountersExact`, `BlockedNeverHeld` | tickets in two files, one user of each mode, type 0 blocked for the first; all eight operations, maintenance alone |
| `confirms` | `ClosesOwnDevice`, `ImplementsLifecycle` | one mode-B user, two devices, recycling at the same time |
| `downloads` | `ProcessingWithinLimit`, `BatchOfOneType`, `PreviewHonest`, `StatusHonest`, `BatchLeavesReserve` | four tickets of two types with one deadline, two users, reserve 1, processing limit 2 |
| `maintenance` | `TypeOK`, `WrittenRowsStillMatch`, `RevokedFileInert`, `ImplementsLifecycle`, `DriftsOnlyByStaleRead` | a mode-A user against recycling, revocation and expiry; failures anywhere |
| `progress` | `RequestsEnd`, `OverdueExpires`, `UndatedStays` | two files with a ticket each, one without a deadline; all mode-A and maintenance operations, stale Redis ids; `FairSpec` |
| `counter_drift` | `CountersExact` is violated | recycling while a device asks for a ticket |
| `daily_limit` | `DailyLimitKept` is violated | mode A, two devices of a user, limit 1 |
| `results` | `CalcTypeOK`, `NoSheetLost`, `CalculatesItsOwnFile`, `ImagesInSync`, `EntriesStay` | two uploads of two sheets as either kind, recalculations and checks, two tickets and a record |
| `evidence` | `FinalDecidesFirst`, `SettledEvidenceStays` | one upload of four sheets (one without an SP, one postponed), two images, two record ids, checks |
| `sf_lost` | `SheetFullyStored` is violated | SF numbers and match numbers over the same range |
| `accounts` | `AccountsTypeOK`, `DisabledStaysOut`, `ImplementsOwners`, `EndedStaysEnded` | two users, devices, workers, sessions and registry rows; every operation; two lifetimes, two hours |
| `uploads` | `FileStoreTypeOK`, `OneFilePerDay`, `DueInTime`, `FilesOutliveTickets`, `EvidenceKept`, `UploadsFinish`, `OldFilesGo` | two codes, requests of two files by two workers, names with any hour or none; a file with up to two tickets, two images, two senders, two runs of jobs; one fault, three hours, days of two; `FairSpec` |

`everyday` carries the constraint `MaintenanceAlone` (of `TicketPoolProps`) and shows what the
counters rely on: assignments, closes and confirmations keep them exact
whatever their order, and so does each maintenance operation as long as no
other transaction runs with it.  `counter_drift` drops the constraint, and so does
`maintenance`: there every race of the three maintenance operations happens, and
`DriftsOnlyByStaleRead` says that a file's counters go wrong in no other way than by
one of them writing what it had read or counted before somebody else's commit.

Bounds.  Two workers, because every hazard listed is between two transactions,
and a lock conflict or a deadlock needs no third.  Two to four tickets in two
files: two tickets of one file meet in a counter, two files in a batch of
several files, four tickets in the reserve and processing arithmetic (the proofs
hold for any number).  `MaxAttempts` is 2 rounds where the code has 10: a retry
happens and runs out.  `MaxBatch` bounds what a client asks for, `MaxNow` the
clock: before and at or after the deadline.  The clock stays within one
business day, so the daily count never resets.

For the winning calculation: two files meet in the row, which is what a stale
token needs; two tickets in `evidence` and `results`, because the records of all tickets but the last are
read again before they are deleted; one match and two plays, of which SF is the one
with a number of its own.  The proofs hold for any number of each.  Every initial state
with one sheet calculated, and any tickets it lets win having records, is an
initial state, so a run need not spend its uploads on getting there.
Deadlock is not checked in these runs: when the uploads are used up and
every record is checked, the instance is done.

`accounts` has the constraint `Focus`: everything in the first hour, the second user
with at most one session there and only while nobody is edited, forced out or
disabled; and the passing of time with one user, no registered device and no
administrator operation.  Two users meet in the registry and nowhere else, and
nothing reads both the clock and the registry.  A sheet of users has no more rows than
there are users, and its cells are valid, empty, too large or no status at all.
The proofs have none of these bounds.

`uploads` has the constraint `Focus`, which is one of two things.  `Overlap`: requests
that overlap, up to the next business day (requests of several files only within the
first), without images or jobs; a file without a deadline, and a fault, come only
without another file.  `MaxFiles` lets two requests start beside two files, without
which none would wait for another in a circle; the three ids are for these and a file
in hand; a day has two hours, one of them before the reset.  `Ageing`: the first file,
uploaded by itself, whose tickets are closed at any time and grow old, one of them with
images and records that come and go; two images are one and its replacement, or one
each of two requests.  With a retention of an hour, two hours after the first are
enough for the file to be old while one of its tickets is or is not.  One fault,
because each of the properties could be broken by one.
The constraints make the two liveness properties statements about behaviours that stay within
them.  Deadlock is not checked: when the clock stops and every file is gone, it is done.

### Places where the code and its documents differ

* `counter_drift`.  `recycle_assigned_tickets` reads a file's counters without
  a lock, computes the new ones and writes them.  A request that is handed a
  ticket of the file and commits in between is forgotten: pending and
  assigned are then off by one for good (the expiry job recounts a file only
  when it expires one of its tickets).  The README's core goals and the
  acceptance rules exclude any drift.
* `daily_limit`.  The limit counts tickets already completed.  The user's
  advisory lock orders the assignments but the second device still sees
  nothing completed, so both devices are served under a limit of one.
* `sf_lost`.  A line's SF result is stored under the SF number; when that is also a
  match number and the line of that match comes later, `parsed_data[seq_no] =
  field_data` replaces it, and the SF result of the sheet is gone.

### Known weaknesses that no run is spent on

* A revocation and the expiry job let counters drift as a recycling does.  `revoke_file`
  (`file_parser.py:497`) loads the file, then writes zero to its counters; the ORM's
  UPDATE names only columns that were not zero when loaded, so a hand-out that commits
  in between leaves its `assigned_count`.  The expiry job (`expire_tickets.py:43`)
  aggregates a file's tickets and writes the counts later: what commits to that file
  in between is overwritten; and a ticket recycled past its deadline between the job's
  two reads expires without a recount of its file.  Both happen in `maintenance`, where
  `DriftsOnlyByStaleRead` allows them and nothing else.
* `get_next_ticket` and `stop_receiving` (`mode_a_service.py:249`) find the device's
  ticket, then close it by id and user.  If it is recycled and handed to the
  user's other device in between, it is closed under that device's hands;
  `ClosesOwnDevice` is therefore checked and proved without mode-A closes.
* A calculation whose ticket no longer wins deletes the ticket's record unless it
  is checked.  The mark is read in `Cleanup` (for the last ticket even earlier),
  the deletion commits later and names the id only: a record an administrator
  checks in between is deleted.  `SettledEvidenceStays` shows that this window is
  all: evidence no request had chosen when it was checked stays.
* `max_devices` holds one login at a time.  Two that overlap both count
  before either inserts (`auth.py:102`), and a heartbeat binds a
  session to any device, so `docs/b-mode-api.md:115` promises more than the code keeps.
* A change of device id counts the tickets held on the old one, then commits
  (`device.py:124`); tickets handed out in between stay with a device id that nobody
  has any more, until they are recycled.
* A winning image that is replaced is deleted before the commit that replaces its URL
  (`winning.py:386`, `admin.py:1976`): if that fails, the record names an image
  that is gone.  `EvidenceKept` says that nothing else is lost.
* A file whose counters drifted above zero is never deleted by the archive job
  (`archive.py:101`); `OldFilesGo` leaves it out.
* A file whose name has no readable hour is accepted (`time_utils.py:66`), and its
  tickets wait in the pool for a revocation; they count for no batch and never expire.
* A forced deletion of a user (`admin.py:1349`) leaves its tickets assigned to
  nobody.
* A file uploaded before the hour of reset with a deadline after it is due on
  that calendar day, so in the next business day (`time_utils.py:74`); `DueInTime` states it so.
* A change of the reset hour in the middle of a day moves the window of
  the duplicate check and the key of the lock; two files of a code may then fall into one day.

## Fairness

`FairSpec` assumes strong fairness of each worker's statements: a greenlet that
has a statement to run runs it, and PostgreSQL grants a lock in the order of
its queue, so who waits again and again is served.  It assumes that
the deadlock detector ends a deadlock (weak fairness), that the scheduler
starts the expiry job again and again (strong: the job lock refuses a start while
another worker runs it), and that time passes.  No request is ever assumed to
arrive.  `OverdueExpires` also assumes that deadlocks with revocations do not
recur for ever: the expiry job can be the victim of each of them.

In `FileStore`, a request under way is served again and again when it can go on
(strong: an advisory lock is granted in the order of its queue, and the deadlock
detector ends a cycle), a job under way goes on, and the scheduler starts a
job that has something to do (weak: its cron triggers recur, and nothing that
is due becomes undue but by a job).  Nobody has to upload or close anything,
and time may stop.  `Accounts` has no fairness: nothing there must happen.

## Proofs

The proofs hold for any finite set of tickets and any sets of files, users,
devices and workers, any limits and reserve; they assume `PoolAssumption` and
`SelectionAssumption` (the types of the constants), which TLC evaluates in
every run.

`PoolSelectionProofs` shows that the ORDER BY is a strict total order, so a
query's first row exists and is unique; that Python's `max` over the groups has a
value in the pool; and that the preview's number and a download's size agree.
`StatusAddsUp` says that the numbers per group which `_trim_status_for_mode_b`
shows add up to the pool less the reserve.  A sum over groups would need
induction; instead the tickets of the pool are numbered by their rank in the
ORDER BY (`RowsAreNumbered`, a bijection), the first so many of the order are
counted by it, and `FunctionTheorems` says that sets in bijection have one
cardinality.

`TicketPoolProofs` rests on one inductive invariant, `IInv`:

* the tables and transaction records are well typed (`TablesOK`);
* every transaction is `Sound`: what it holds includes what it writes; the rows
  it writes still satisfy its WHERE clause (`WorkOK`) and suit the user (`Suits`); and a
  transaction that has not reached its rows yet has none (the `Early` clauses);
* no two transactions hold a row, which is what the row locks mean.

`WrittenRowsStillMatch` is not inductive by itself: that a commit of another
transaction leaves the matched rows alone follows only from exclusive locks and
from `got \subseteq held`.  Each action has a lemma, named after it, that shows
`IInv` is kept; `InvariantHolds` collects them.  From it follow:

| theorem | property |
|---|---|
| `TypeCorrect` | `TypeOK` |
| `WrittenRowsMatch` | `WrittenRowsStillMatch` |
| `NobodyHoldsABlockedType` | `BlockedNeverHeld` |
| `BatchesAreOfOneType` | `BatchOfOneType` |
| `PreviewIsHonest` | `PreviewHonest` |
| `StatusIsHonest` | `StatusHonest` |
| `ConfirmationsCloseOwnDevice` | `ClosesOwnDevice`, where no mode-A close runs (`Kinds` without "next" and "stop"; with them it is false, see Known weaknesses) |
| `UndatedTicketsStay` | `UndatedStays`: what is handed out or expired has a deadline, what is closed or recycled was not in the pool |
| `PoolImplementsLifecycle` | `ImplementsLifecycle`: every commit maps to one abstract step per ticket, by the matched rows; every other action stutters |

Five more invariants rest on `IInv`, each kept by every action beside it.
`RevocationProofs` (`RevInv`): from its snapshot on, a revocation has written or
still waits for every live ticket of its file.  This survives the commits of
others because no commit makes a ticket live that was not (`IInv` says the
written rows were pending or assigned), and the file was there when the
revocation began, so nobody imports it again.  When it commits, the rows it
writes are all the live ones.  `LimitProofs` (`LimInv`): a download past its
count holds its user's advisory lock, and the user's tickets together with what the
batch may still add are within the limit.  Nobody else gives that user a ticket
meanwhile: another download would need the lock, and single tickets go only to
mode-A users, also in the rounds that go on without the lock.  `LimitIsKept`,
that a query with LIMIT n returns at most n rows, is proved there too.

`ResInv` says the same of the pool: a download past its count holds the reserve's
lock, and the tickets it may choose from are at least its batch and the reserve.
Other downloads wait for the lock, and what else may happen, returned tickets,
imported files, confirmations, only adds to the pool or leaves it alone.  Three
operations take tickets without the lock: a single assignment (for which the
reserve is kept), a revocation, and the expiry job.  `ReserveIsLeft` is therefore
about a pool without them (`Kinds \cap Takers = {}`).  With each of them TLC breaks
the property: with one of the first two at once; with the expiry job only
beside a recycling, which returns a ticket the job has passed by, since a batch is
taken from the earliest deadline and the job waits for the rows the batch holds.

`CntInv` (in `CounterProofs`, which also needs `RevInv`) is about counters.  A transaction
that adds and subtracts has in its scope every file of the tickets it writes, and each
ticket has the status it is subtracted from; one that overwrites has loaded the
rows as they still are (`RowsLoaded`), and the expiry job has counted the tickets
as they will be after its commit (`Counted`), of every file with an overdue ticket
(`OverdueNoted`).  Both survive only while nobody else commits to these files,
hence the hypothesis `[]MaintenanceAlone` of `CountersStayExact`: a recycling, a
revocation or an expiry run has no other transaction beside it.  Requests
still run in any number and order, files are imported and time passes at any moment,
and any transaction may fail.  `counter_drift` shows that the hypothesis is needed.

Without it, `CountersDriftByStaleRead` proves that nothing else makes counters wrong.
What a transaction has in hand (`AllWhole`) says nothing of the rows, so it survives
everybody else's commits: a transaction that adds and subtracts has every file of its
tickets in its scope, a revocation has tickets of its own file only.  A commit that
works on rows nobody overtook then adds up by the same lemmas, one per kind
(`ClosingExact`, `AssignmentExact`, `RecyclingExact`, `RevocationExact`), and the
others are those `ReadBefore` names.

| theorem | property |
|---|---|
| `RevokedFilesAreInert` | `RevokedFileInert` |
| `ProcessingIsLimited` | `ProcessingWithinLimit` |
| `ReserveIsLeft` | `BatchLeavesReserve`, without single assignments, revocations and expiry |
| `CountersStayExact` | `CountersExact`, under `[]MaintenanceAlone` |
| `CountersDriftByStaleRead` | `DriftsOnlyByStaleRead`, whatever runs beside maintenance |

The first theorems of `WinningCalcProofs` need no invariant.  `KindsAreIndependent` and
`UploadsCommute` say that predicted and final sheets do not disturb each other;
`AcceptedSheetsAreComplete` that an accepted sheet takes no entry away;
`WinsAreDecided` that nobody wins under results that miss one of its matches;
from it `FinalResultsDecide`, which is what the order of the two checks in
`_select_active_winning_outcome` amounts to.

The others rest on an inductive invariant of five parts: types; `FilesOK`, the
file id of an upload is nobody else's, not in the row yet and no calculation's
token; `LockOK`, the row is still as the upload holding the period's lock
read it; `TokensOK`, a calculation that loaded another file's data will not find
its token again (file ids are never reused); and `NoSheetLost`.  Most steps are
quiet: they leave file and data of the row alone (`QuietKeeps`); the
upload's two steps have lemmas of their own.

`ImagesStayInSync` has a second invariant, `SyncInv`: a ticket has at most one live record
and shows an image exactly when it has one; the rows calculations have
flushed are apart; a ticket not flushed yet can only lose its image; and what a calculation will write to a ticket's image and which
records it will delete agree, given what the records are now (`CalculationOK`).
It assumes that no image is uploaded (`"image" \notin Requests`).  With uploads the
property is false: one stored between a calculation's read of the ticket and
its write leaves the two apart (a hazard in `PROJECT.json`).

| theorem | property |
|---|---|
| `CalcTypeCorrect` | `CalcTypeOK` |
| `UploadsAreKept` | `NoSheetLost` |
| `OwnFile` | `CalculatesItsOwnFile` |
| `EntriesAreKept` | `EntriesStay` |
| `FinalFirst` | `FinalDecidesFirst` |
| `EvidenceIsKept` | `SettledEvidenceStays` |
| `ImagesStayInSync` | `ImagesInSync`, while no image is uploaded |

`AccountsProofs` has an inductive invariant of five parts: types; for every
request what it must know at its statement (user, token, device: `Fits`), and
that the registry rows and the new session it holds are its user's or gone (`Holds`);
`DevicesUnique`, a device id is in one row; `CookiesAgree`, a session belongs to
the user its cookie was given to; and `DisabledStaysOut`.  The last is not
inductive alone: a cookie given to one user and a session of another would let
a disabled user in through the session forced logout does not find.

| theorem | property |
|---|---|
| `AccountsTypeCorrect` | `AccountsTypeOK` |
| `DisabledUsersStayOut` | `DisabledStaysOut` |
| `EndedSessionsStayEnded` | `EndedStaysEnded` |
| `AccountsImplementOwners` | `ImplementsOwners`: with unique device ids `Owner` does not depend on the row chosen; a registration maps to `Claim`, a change of id to `Change` or `Claim`, a deletion to `Leave`, all else stutters |

`FileStoreProofs` first shows that business days are what they seem:
`WindowsPartition`, an hour is in the window of exactly one business day, its
own; and where a deadline falls.  These rest on lemmas about `\div` and `%` by
a constant that is not a number, which the SMT solver does not find alone.  The inductive
invariant is: types; what each request has in hand (`UploadFits`, `InHand`: the id it
took is nobody else's, its text is stored, the lock for its day and code is
held, no accepted file has that day and code once it checked); that locks and ids in
hand are apart; what each job has read is still so (`JobFits`: tickets to delete
are closed and old, or gone, and a file to delete has no tickets); what an image
request has in hand (the image it stored is there and nobody's, the record it read
belongs to its ticket); that image names are apart; and the four invariants.

| theorem | property |
|---|---|
| `FileStoreTypeCorrect` | `FileStoreTypeOK` |
| `OneFileADay` | `OneFilePerDay` |
| `FilesDueInTime` | `DueInTime` |
| `TicketsHaveFiles` | `FilesOutliveTickets` |
| `EvidenceIsKept` | `EvidenceKept` |

They hold for any lock loss, any number of overlapping jobs and whatever the counters
say: the order of tickets before files is kept by what the jobs read, not by their lock.

The proofs about results assume `MatchAssumption` and `CalcAssumption`, among them that a sheet of the
instance parses into `ParsedData`: what the fold of `ParseLines` computes for
every sequence would need induction.

Only model-checked: the four liveness properties, `RequestsEnd`, `OverdueExpires`,
`UploadsFinish` and `OldFilesGo`, which are outside the prover's reach, and
the violations of the three finding runs.  Every safety property of a passing run is
proved, under the hypotheses the tables give.

## Not modelled

* SQLite: a development set-up with one process and one lock.
* The Redis list itself, the object store's calls, notifications and pages.
* What a TXT line or a file name means, amounts, taxes, multipliers, names.
* The second transaction of a download, which stores the name of the TXT file;
  `complete_ticket` and `complete_tickets_batch`, which nothing calls; the previous ticket, cooldown, statistics and lists, which only read.
* Of results and winnings: more than one period or lottery type; tickets that do
  not parse, which never win; SF rows stored under a match number by earlier
  versions, and SF numbers that are not numbers; the result sheet's own row and
  its status; the deletion of a period's results; the routes that record an
  object already uploaded; the calculation as a job of the scheduler, which
  runs the same statements; the set of completed and expired tickets is fixed.
* Of users: the switch `can_receive`, change of password, an administrator's
  own session; settings other than the lifetime of sessions, the reserve and
  the hour of reset (which is constant); turning the pool off ends a request early, as `Abort` does.
* Of images: the object store, whose key is a ticket and a date
  (`oss_service.py:42`), so that a second image on a day overwrites the first, and
  the route that records an object by such a key; images here are local
  files, each with a name of its own.
* Audit rows and their purge, VACUUM, exports.

## Plan

1. Done: `TicketLifecycle`, `PoolSelection`, `TicketPool`; `MatchData`,
   `WinningCalc`; `DeviceOwners`, `Accounts`; `BusinessTime`, `FileStore`; their
   properties, runs and proofs.
2. The deletion of a period's results beside calculations; the window between a
   calculation's second check and its commit, in which an older one may write over
   a newer one's tickets.
3. `Amounts`: amounts and the tax threshold as operators, against reference
   definitions.
4. A composition of `Accounts` and `TicketPool`: a change of device id or the
   deletion of a user beside the assignment of tickets.
5. Proofs to add: which evidence survives uploads beside calculations.
