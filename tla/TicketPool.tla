----------------------------- MODULE TicketPool -----------------------------
(***************************************************************************)
(* The ticket pool on PostgreSQL (READ COMMITTED): the tables              *)
(* lottery_tickets and uploaded_files, and every request, administrator    *)
(* operation and scheduled job that moves tickets, one SQL statement per   *)
(* step.  A worker is a greenlet of a gunicorn process or the scheduler;   *)
(* it runs one transaction at a time.  A transaction's writes are kept in  *)
(* its own record and reach the tables when it commits, which nothing can  *)
(* see before: the rows it writes are locked until then.                   *)
(***************************************************************************)
EXTENDS PoolSelection

CONSTANTS
  Users, Devices, Workers,
  None,          \* NULL
  ClientMode,    \* User.client_mode, "mode_a" or "mode_b"
  Blocked,       \* the lottery types a user does not receive
  DailyLimit,    \* User.daily_ticket_limit, or None
  MaxProcessing, \* User.max_processing_b_mode, or None
  Reserve,       \* SystemSettings.mode_b_pool_reserve
  MaxAttempts,   \* rounds of assign_ticket_atomic's loop (10 in the code)
  MaxBatch,      \* bound: the largest batch a client asks for
  MaxNow,        \* bound: the last tick of the clock
  MayFail,       \* whether a transaction may also fail for no reason of its own
  Kinds          \* the operations this instance runs

AllKinds == {"next", "stop", "download", "confirm", "recycle", "revoke",
             "expire", "import"}

ASSUME PoolAssumption ==
  /\ None \notin Users \cup Devices \cup Nat
  /\ ClientMode \in [Users -> {"mode_a", "mode_b"}]
  /\ Blocked \in [Users -> SUBSET Nat]
  /\ DailyLimit \in [Users -> Nat \cup {None}]
  /\ MaxProcessing \in [Users -> Nat \cup {None}]
  /\ Reserve \in Nat
  /\ MaxAttempts \in Nat \ {0}
  /\ MaxBatch \in Nat \ {0}
  /\ MaxNow \in Nat
  /\ MayFail \in BOOLEAN
  /\ Kinds \subseteq AllKinds

VARIABLES
  tickets,  \* committed rows of lottery_tickets
  files,    \* committed rows of uploaded_files
  now,      \* beijing_now()
  txn       \* what each worker is doing

tables == <<tickets, files>>
vars == <<tickets, files, now, txn>>

Lifecycle == INSTANCE TicketLifecycle

-----------------------------------------------------------------------------
(* Rows *)

Counters == [pending : Nat, assigned : Nat, completed : Nat]
Zero == [pending |-> 0, assigned |-> 0, completed |-> 0]

FileRow == [status : {"absent", "active", "revoked"},
            pending : Nat, assigned : Nat, completed : Nat]

CountersOf(row) == [pending |-> row.pending, assigned |-> row.assigned,
                    completed |-> row.completed]

Pending == {t \in Tickets : tickets[t].status = "pending"}

(* A comparison with a NULL deadline is never true. *)
Eligible(u, clock) ==
  {t \in Pending : /\ HasDeadline(t) /\ DeadlineOf(t) > clock
                   /\ TypeOf(t) \notin Blocked[u]}
HeldBy(u, d) ==
  {t \in Tickets : /\ tickets[t].status = "assigned"
                   /\ tickets[t].user = u
                   /\ tickets[t].device = d}
ProcessingOf(u) ==
  {t \in Tickets : tickets[t].status = "assigned" /\ tickets[t].user = u}
CompletedToday(u) ==
  {t \in Tickets : tickets[t].status = "completed" /\ tickets[t].user = u}

-----------------------------------------------------------------------------
(* Transactions *)

PCs == {"idle", "user lock", "reserve lock", "daily", "processing", "stats", "pick",
        "hint", "scan", "rows", "load", "count", "read", "files", "commit"}

(***************************************************************************)
(* One worker's transaction.  ids and done are the request's; cand holds   *)
(* the rows the running statement found and has still to lock, held the    *)
(* locked rows of lottery_tickets and got those of them the transaction    *)
(* writes; scope holds the rows of uploaded_files it works on, flocked     *)
(* those it has locked, unread those it has still to load, snap the        *)
(* counters it loaded and count the ones it computed.                      *)
(***************************************************************************)
Txn == [kind : {"none", "assign"} \cup AllKinds,
        pc : PCs,
        user : Users \cup {None},
        device : Devices \cup {None},
        ids : SUBSET Tickets,
        done : SUBSET Tickets,
        want : Nat,
        clock : Nat,
        tries : Nat,
        stage : {1, 2},
        cand : SUBSET Tickets,
        held : SUBSET Tickets,
        got : SUBSET Tickets,
        scope : SUBSET Files,
        unread : SUBSET Files,
        flocked : SUBSET Files,
        snap : [Files -> Counters],
        count : [Files -> Counters],
        advisory : SUBSET {"user", "reserve"}]

Idle == [kind |-> "none", pc |-> "idle", user |-> None, device |-> None,
         ids |-> {}, done |-> {}, want |-> 0, clock |-> 0, tries |-> 0,
         stage |-> 1, cand |-> {}, held |-> {}, got |-> {}, scope |-> {},
         unread |-> {}, flocked |-> {}, snap |-> [f \in Files |-> Zero],
         count |-> [f \in Files |-> Zero], advisory |-> {}]

Closing(r) == r.kind \in {"next", "stop", "confirm"}

Others(w) == Workers \ {w}
RowFree(w, t) == \A v \in Others(w) : t \notin txn[v].held
FileFree(w, f) == \A v \in Others(w) : f \notin txn[v].flocked
UserLockFree(w) ==
  \A v \in Others(w) : ~ ("user" \in txn[v].advisory /\ txn[v].user = txn[w].user)
ReserveLockFree(w) == \A v \in Others(w) : "reserve" \notin txn[v].advisory

(* The worker goes on, and no row changes. *)
Continue(w, r) ==
  /\ txn' = [txn EXCEPT ![w] = r]
  /\ UNCHANGED <<tables, now>>

(* A request arrives at an idle worker. *)
Receive(w, kind, r) ==
  /\ kind \in Kinds
  /\ txn[w].pc = "idle"
  /\ Continue(w, r)

-----------------------------------------------------------------------------
(* Requests *)

(***************************************************************************)
(* mode_a_service.get_next_ticket.  A device that holds a ticket and       *)
(* confirms it (the id it sends is that of the ticket the service finds)   *)
(* closes it first; a device that holds none goes straight to assignment.  *)
(* An unconfirmed or cooling-down request changes nothing and is left out. *)
(* assigned_at is abstracted: any ticket the device holds may be the       *)
(* latest one.                                                             *)
(***************************************************************************)
Assigning(u, d) ==
  [Idle EXCEPT !.kind = "assign", !.pc = "user lock", !.user = u, !.device = d, !.want = 1]

ClosingCurrent(kind, u, d, t, done) ==
  [Idle EXCEPT !.kind = kind, !.pc = "scan", !.user = u, !.device = d,
               !.ids = {t}, !.done = done]

NextTicket(w, u, d) ==
  /\ ClientMode[u] = "mode_a"
  /\ \/ /\ HeldBy(u, d) = {}
        /\ Receive(w, "next", Assigning(u, d))
     \/ \E t \in HeldBy(u, d) : \E done \in SUBSET {t} :
          Receive(w, "next", ClosingCurrent("next", u, d, t, done))

(* mode_a_service.stop_receiving, when the device holds a ticket *)
StopReceiving(w, u, d) ==
  /\ ClientMode[u] = "mode_a"
  /\ \E t \in HeldBy(u, d) : \E done \in SUBSET {t} :
       Receive(w, "stop", ClosingCurrent("stop", u, d, t, done))

(* mode_b_service.download_batch *)
DownloadBatch(w, u, d, n) ==
  /\ ClientMode[u] = "mode_b"
  /\ Receive(w, "download",
             [Idle EXCEPT !.kind = "download", !.pc = "user lock",
                          !.user = u, !.device = d, !.want = n])

(***************************************************************************)
(* mode_b_service.confirm_batch.  The client sends the ids of a batch;     *)
(* the first completed_count of them, in its own order, are completed and  *)
(* the others given up.  Nothing ties the ids to what the device was given.*)
(***************************************************************************)
ConfirmBatch(w, u, d, ids, done) ==
  /\ ClientMode[u] = "mode_b"
  /\ ids # {} /\ \A t \in ids : tickets[t].status # "absent"
  /\ Receive(w, "confirm",
             [Idle EXCEPT !.kind = "confirm", !.pc = "scan", !.user = u,
                          !.device = d, !.ids = ids, !.done = done])

(* ticket_recycle_service.recycle_assigned_tickets *)
RecycleTickets(w, ids) ==
  /\ ids # {} /\ \A t \in ids : tickets[t].status # "absent"
  /\ Receive(w, "recycle",
             [Idle EXCEPT !.kind = "recycle", !.pc = "scan", !.ids = ids])

(* file_parser.revoke_file *)
RevokeFile(w, f) ==
  /\ files[f].status # "absent"
  /\ Receive(w, "revoke",
             [Idle EXCEPT !.kind = "revoke", !.pc = "load", !.ids = TicketsOf(f),
                          !.scope = {f}])

(* expire_tickets.expire_overdue_tickets, one at a time by the job's lock *)
ExpireOverdue(w) ==
  /\ \A v \in Others(w) : txn[v].kind # "expire"
  /\ Receive(w, "expire",
             [Idle EXCEPT !.kind = "expire", !.pc = "load", !.clock = now])

(***************************************************************************)
(* file_parser.process_uploaded_file: the file and all its tickets appear  *)
(* with one commit, pending or, past the deadline, expired.                *)
(***************************************************************************)
ImportFile(f) ==
  LET status == IF f \notin NoDeadline /\ Deadline[f] <= now THEN "expired" ELSE "pending"
  IN /\ "import" \in Kinds
     /\ files[f].status = "absent"
     /\ tickets' = [t \in Tickets |-> IF FileOf[t] = f
                                      THEN [Lifecycle!Absent EXCEPT !.status = status]
                                      ELSE tickets[t]]
     /\ files' = [files EXCEPT ![f] =
                    [status |-> "active",
                     pending |-> IF status = "pending"
                                 THEN Cardinality(TicketsOf(f)) ELSE 0,
                     assigned |-> 0, completed |-> 0]]
     /\ UNCHANGED <<now, txn>>

-----------------------------------------------------------------------------
(* Assignment: assign_ticket_atomic and assign_tickets_batch *)

(* pg_advisory_xact_lock(1001, user): one assignment per user at a time *)
TakeUserLock(w) ==
  LET r == txn[w]
  IN /\ r.pc = "user lock"
     /\ UserLockFree(w)
     /\ Continue(w, [r EXCEPT !.advisory = @ \cup {"user"},
                              !.pc = IF r.kind = "assign" THEN "daily"
                                                          ELSE "reserve lock"])

(* Mutant: no reserve lock, so two batches may count the same pool. *)
TakeReserveLockAtOnce(w) ==
  /\ txn[w].pc = "reserve lock"
  /\ Continue(w, [txn[w] EXCEPT !.pc = "daily", !.clock = now])

(* pg_advisory_xact_lock(1002, 1): one batch at a time *)
TakeReserveLock(w) ==
  LET r == txn[w]
  IN /\ r.pc = "reserve lock"
     /\ ReserveLockFree(w)
     /\ Continue(w, [r EXCEPT !.advisory = @ \cup {"reserve"}, !.pc = "daily",
                              !.clock = now])

(* What is left of a limit once n has been used; None is no limit. *)
Remaining(limit, n, want) ==
  IF limit = None THEN want ELSE AtMost(want, Less(limit, n))

(* Mutant: the tickets the user is working on are forgotten. *)
PreviewOfPool(u) ==
  Remaining(DailyLimit[u], Cardinality(CompletedToday(u)),
            PreviewAvailable(Eligible(u, now), Reserve))

(* preview_batch: what a download could get, within the user's two limits.   *)
Preview(u) ==
  LET available == PreviewAvailable(Eligible(u, now), Reserve)
      allowed == Remaining(MaxProcessing[u], Cardinality(ProcessingOf(u)), available)
  IN Remaining(DailyLimit[u], Cardinality(CompletedToday(u)), allowed)

(* get_pool_status as _trim_status_for_mode_b leaves it for a mode-B client. *)
ModeBStatus(u) ==
  LET pool == Eligible(u, now)
  IN [total_pending |-> Less(Cardinality(pool), Reserve),
      by_type |-> TrimForModeB(pool, Reserve),
      assigned |-> Cardinality({t \in Tickets : tickets[t].status = "assigned"}),
      completed_today |-> Cardinality({t \in Tickets : tickets[t].status = "completed"})]

(***************************************************************************)
(* The daily limit counts the tickets the user completed in this business  *)
(* day (the model's clock stays within one).  One ticket is refused when   *)
(* nothing is left of it, a batch is cut down to what is left.             *)
(***************************************************************************)
CheckDaily(w) ==
  LET r == txn[w]
      room == Remaining(DailyLimit[r.user], Cardinality(CompletedToday(r.user)), r.want)
  IN /\ r.pc = "daily"
     /\ Continue(w, IF room = 0 THEN Idle
                    ELSE [r EXCEPT !.want = room,
                                   !.pc = IF r.kind = "assign" THEN "pick" ELSE "processing"])

(* Mutant: the limit only refuses, it does not cut the batch down. *)
CheckProcessingUncut(w) ==
  LET r == txn[w]
      room == Remaining(MaxProcessing[r.user], Cardinality(ProcessingOf(r.user)), r.want)
  IN /\ r.pc = "processing"
     /\ Continue(w, IF room = 0 THEN Idle ELSE [r EXCEPT !.pc = "stats"])

(* A batch is also cut down to what is left of the user's processing limit. *)
CheckProcessing(w) ==
  LET r == txn[w]
      room == Remaining(MaxProcessing[r.user], Cardinality(ProcessingOf(r.user)), r.want)
  IN /\ r.pc = "processing"
     /\ Continue(w, IF room = 0 THEN Idle ELSE [r EXCEPT !.want = room, !.pc = "stats"])

(* Keep the reserve in the pool and choose the batch's lottery type. *)
ChooseGroup(w) ==
  LET r == txn[w]
      pool == Eligible(r.user, r.clock)
      actual == AtMost(r.want, Less(Cardinality(pool), Reserve))
  IN /\ r.pc = "stats"
     /\ Continue(w, IF actual = 0 THEN Idle
                    ELSE [r EXCEPT !.ids = {t \in GroupIn(Tickets, Earliest(BatchGroup(pool, actual))) :
                                              HasDeadline(t)},
                                   !.want = actual, !.pc = "pick"])

(* The files whose row the transaction updates; a file loaded by the ORM is  *)
(* updated only if a value changed.                                          *)
ToWrite(r) ==
  {f \in r.scope \ r.unread : r.kind = "expire" => r.snap[f] # r.count[f]}

(* A loaded file is flushed before the next one is loaded; a closing request *)
(* runs a second UPDATE after the files of the first; revoke_file's update   *)
(* of the tickets comes after the flush of the file.                         *)
AfterFiles(r) ==
  IF r.unread # {} THEN [r EXCEPT !.pc = "read"]
  ELSE CASE Closing(r) /\ r.stage = 1 -> [r EXCEPT !.pc = "scan", !.stage = 2]
         [] r.kind = "revoke" -> [r EXCEPT !.pc = "scan"]
         [] OTHER -> [r EXCEPT !.pc = "commit"]

ToFiles(r) ==
  IF ToWrite(r) \subseteq r.flocked THEN AfterFiles(r) ELSE [r EXCEPT !.pc = "files"]

(* The transaction has locked and updated the rows S, and goes on to their   *)
(* files.                                                                    *)
Take(r, S) ==
  ToFiles([r EXCEPT !.held = @ \cup S, !.got = S, !.scope = FilesOf(S)])

(* SELECT ... FOR UPDATE SKIP LOCKED LIMIT n, then the UPDATE of those rows *)
PickBatch(w) ==
  LET r == txn[w]
      free == {t \in r.ids \cap Pending : RowFree(w, t)}
      S == LowestIds(free, r.want)
  IN /\ r.pc = "pick" /\ r.kind = "download"
     /\ Continue(w, IF S = {} THEN Idle ELSE Take(r, S))

(* Mutant: the SELECT without FOR UPDATE SKIP LOCKED. *)
PickOneUnlocked(w) ==
  LET r == txn[w]
      free == Eligible(r.user, now)
  IN /\ r.pc = "pick" /\ r.kind = "assign"
     /\ Continue(w, IF free = {} THEN Idle
                    ELSE Take([r EXCEPT !.clock = now], {Earliest(free)}))

(***************************************************************************)
(* One round of the mode-A loop.  The database's candidate comes first;    *)
(* without one, the id popped from the Redis list is tried: any id that    *)
(* was ever pushed may still be in the list, since removals are best       *)
(* effort, or the list may be empty or unreachable.                        *)
(***************************************************************************)
PickOne(w) ==
  LET r == txn[w]
      free == {t \in Eligible(r.user, now) : RowFree(w, t)}
  IN /\ r.pc = "pick" /\ r.kind = "assign"
     /\ \/ /\ free # {}
           /\ Continue(w, Take([r EXCEPT !.clock = now], {Earliest(free)}))
        \/ /\ free = {}
           /\ \E t \in {t \in Tickets : tickets[t].status # "absent"} :
                Continue(w, [r EXCEPT !.clock = now, !.pc = "hint", !.cand = {t}])
        \/ /\ free = {}
           /\ Continue(w, Idle)

(* Mutant: rounds without end. *)
RetryForever(r) == [r EXCEPT !.pc = "pick", !.cand = {}]

(* Another round, unless the rounds are used up. *)
Retry(r) ==
  IF r.tries + 1 < MaxAttempts
  THEN [r EXCEPT !.tries = @ + 1, !.pc = "pick", !.cand = {}]
  ELSE Idle

(* The loop goes on after its transaction has ended: the user lock and every *)
(* row lock are released.                                                    *)
Restart(r) == Retry([Assigning(r.user, r.device) EXCEPT !.tries = r.tries])

(* ticket.deadline_time and ticket.deadline_time <= current_now *)
TooLate(r, t) == r.kind = "assign" /\ HasDeadline(t) /\ DeadlineOf(t) <= r.clock

RefusesNothing(r, t) == FALSE   \* mutant: the type is not looked at
Refuses(r, t) == ~ TooLate(r, t) /\ TypeOf(t) \in Blocked[r.user]

MatchesAny(t) == TRUE   \* mutant: the UPDATE trusts the row it read
UpdateMatches(t) == HasDeadline(t)

(***************************************************************************)
(* SELECT ... WHERE id = :id AND status = 'pending' FOR UPDATE SKIP LOCKED.*)
(* An overdue ticket is taken too, to be expired; one of a blocked type    *)
(* stays locked by the transaction and goes back to the list; the UPDATE   *)
(* (deadline_time > :now) finds no ticket without a deadline, and the      *)
(* transaction is rolled back.                                             *)
(***************************************************************************)
TryHint(w) ==
  LET r == txn[w]
  IN /\ r.pc = "hint"
     /\ \E t \in r.cand :
          \/ /\ ~ (t \in Pending /\ RowFree(w, t))
             /\ Continue(w, Retry(r))
          \/ /\ t \in Pending /\ RowFree(w, t) /\ Refuses(r, t)
             /\ Continue(w, Retry([r EXCEPT !.held = @ \cup {t}]))
          \/ /\ t \in Pending /\ RowFree(w, t) /\ ~ Refuses(r, t) /\ ~ UpdateMatches(t)
             /\ Continue(w, Restart(r))
          \/ /\ t \in Pending /\ RowFree(w, t) /\ ~ Refuses(r, t) /\ UpdateMatches(t)
             /\ Continue(w, Take([r EXCEPT !.cand = {}], {t}))

-----------------------------------------------------------------------------
(* Statements that find rows first and lock them one by one *)

(* The rows the running UPDATE or SELECT FOR UPDATE may touch. *)
Target(r) ==
  IF r.kind = "expire" THEN Tickets
  ELSE IF ~ Closing(r) THEN r.ids
  ELSE IF r.stage = 1 THEN r.ids \cap r.done ELSE r.ids \ r.done

(* assigned_user_id = :user_id AND status = 'assigned'; only a mode-B        *)
(* confirmation names the device.                                            *)
MineOnAnyDevice(r, t) ==   \* mutant: no request names the device
  tickets[t].status = "assigned" /\ tickets[t].user = r.user

MineInAnyStatus(r, t) ==   \* mutant: the status is not looked at
  /\ tickets[t].user = r.user
  /\ r.kind = "confirm" => tickets[t].device = r.device

Mine(r, t) ==
  /\ tickets[t].status = "assigned"
  /\ tickets[t].user = r.user
  /\ r.kind = "confirm" => tickets[t].device = r.device

RevocablePending(t) == tickets[t].status = "pending"   \* mutant: assigned ones stay
Revocable(t) == tickets[t].status \in {"pending", "assigned"}

PastDeadline(t, clock) ==   \* mutant: < where the pool hands out what is >
  tickets[t].status = "pending" /\ HasDeadline(t) /\ DeadlineOf(t) < clock
Overdue(t, clock) ==
  tickets[t].status = "pending" /\ HasDeadline(t) /\ DeadlineOf(t) <= clock

(* Its WHERE clause. *)
Match(r, t) ==
  \/ Closing(r) /\ Mine(r, t)
  \/ r.kind = "recycle" /\ tickets[t].status = "assigned"
  \/ r.kind = "revoke" /\ Revocable(t)
  \/ r.kind = "expire" /\ Overdue(t, r.clock)

AfterRows(r) ==
  CASE Closing(r) -> ToFiles([r EXCEPT !.scope = FilesOf(r.got)])
    [] r.kind = "recycle" ->
         IF r.got = {} THEN Idle
         ELSE [r EXCEPT !.pc = "read", !.scope = FilesOf(r.got), !.unread = FilesOf(r.got)]
    [] r.kind = "revoke" -> [r EXCEPT !.pc = "commit"]
    [] OTHER -> [r EXCEPT !.pc = "count"]

(* The statement's snapshot: the committed rows its WHERE clause accepts. *)
Scan(w) ==
  LET r == txn[w]
      found == {t \in Target(r) : Match(r, t)}
  IN /\ r.pc = "scan"
     /\ Continue(w, IF found = {} THEN AfterRows(r)
                    ELSE [r EXCEPT !.pc = "rows", !.cand = found])

(***************************************************************************)
(* Wait for a row, lock it and look at it again: the transaction that held *)
(* it may have changed it (READ COMMITTED re-evaluates the WHERE clause).  *)
(***************************************************************************)
Locked(r, t) ==
  [r EXCEPT !.cand = @ \ {t}, !.held = @ \cup {t},
            !.got = IF Match(r, t) THEN @ \cup {t} ELSE @]

LockRow(w) ==
  /\ txn[w].pc = "rows"
  /\ \E t \in txn[w].cand :
       LET r == Locked(txn[w], t)
       IN /\ RowFree(w, t)
          /\ Continue(w, IF r.cand = {} THEN AfterRows(r) ELSE r)

-----------------------------------------------------------------------------
(* Counters of uploaded_files *)

(* File.derived_status is "active" *)
FileActive(f) ==
  LET row == files[f]
  IN /\ row.status = "active"
     /\ row.completed < Cardinality(TicketsOf(f))
     /\ (row.pending = 0 /\ row.assigned = 0) => f \in NoDeadline \/ now < Deadline[f]

(* revoke_file reads the file and refuses one that is not active. *)
LoadFile(w) ==
  LET r == txn[w]
  IN /\ r.pc = "load" /\ r.kind = "revoke"
     /\ \E f \in r.scope :
          Continue(w, IF FileActive(f)
                      THEN ToFiles([r EXCEPT !.snap[f] = CountersOf(files[f])])
                      ELSE Idle)

(* expire_overdue_tickets first notes the files that have overdue tickets. *)
FindOverdue(w) ==
  LET r == txn[w]
  IN /\ r.pc = "load" /\ r.kind = "expire"
     /\ Continue(w, [r EXCEPT !.pc = "scan",
                              !.scope = FilesOf({t \in Tickets : Overdue(t, r.clock)})])

(* _sync_uploaded_file_counters: one aggregate, its own UPDATE included *)
CountTickets(w) ==
  LET r == txn[w]
      status(t) == IF t \in r.got THEN "expired" ELSE tickets[t].status
      number(f, st) == Cardinality({t \in TicketsOf(f) : status(t) = st})
      counted == [f \in Files |->
                    IF f \in r.scope
                    THEN [pending |-> number(f, "pending"),
                          assigned |-> number(f, "assigned"),
                          completed |-> number(f, "completed")]
                    ELSE Zero]
  IN /\ r.pc = "count"
     /\ Continue(w, IF r.scope = {} THEN [r EXCEPT !.pc = "commit"]
                    ELSE [r EXCEPT !.pc = "read", !.unread = r.scope, !.count = counted])

(* db.session.get(UploadedFile, id): a plain read, which locks nothing *)
ReadFile(w) ==
  LET r == txn[w]
  IN /\ r.pc = "read"
     /\ \E f \in r.unread :
          LET loaded == [r EXCEPT !.snap[f] = CountersOf(files[f]), !.unread = @ \ {f}]
          IN Continue(w, ToFiles(loaded))

(* Wait for the row of a file the transaction updates. *)
LockFile(w) ==
  LET r == txn[w]
  IN /\ r.pc = "files"
     /\ \E f \in ToWrite(r) \ r.flocked :
          /\ FileFree(w, f)
          /\ Continue(w, ToFiles([r EXCEPT !.flocked = @ \cup {f}]))

-----------------------------------------------------------------------------
(* COMMIT *)

(* recycle_assigned_tickets clears every column of the assignment. *)
BackWithOwner(row) == [row EXCEPT !.status = "pending"]   \* mutant
BackToPool(row) == [row EXCEPT !.status = "pending", !.user = None, !.device = None]

NewTicket(r, t) ==
  LET row == tickets[t]
  IN CASE Closing(r) ->
            [row EXCEPT !.status = IF t \in r.done THEN "completed" ELSE "expired"]
       [] r.kind = "expire" \/ TooLate(r, t) -> [row EXCEPT !.status = "expired"]
       [] r.kind = "recycle" -> BackToPool(row)
       [] r.kind = "revoke" -> [row EXCEPT !.status = "revoked"]
       [] OTHER -> [status |-> "assigned", user |-> r.user, device |-> r.device]

(* The ORM's UPDATE names only the attributes whose value it saw change. *)
Overwrite(row, old, new) ==
  [row EXCEPT !.pending = IF new.pending = old.pending THEN @ ELSE new.pending,
              !.assigned = IF new.assigned = old.assigned THEN @ ELSE new.assigned,
              !.completed = IF new.completed = old.completed THEN @ ELSE new.completed]

CloseCompletedOnly(row, n, done) ==   \* mutant: tickets given up stay counted
  [row EXCEPT !.assigned = Less(@, done), !.completed = @ + done]
CloseInFile(row, n, done) ==
  [row EXCEPT !.assigned = Less(@, n), !.completed = @ + done]

RecycleInFile(row, n) == [row EXCEPT !.pending = @ + n, !.assigned = Less(@, n)]

(***************************************************************************)
(* The assignment and closing statements add to and subtract from the row  *)
(* they have locked; recycle, revoke and expire write the values they      *)
(* computed from the row they loaded.                                      *)
(***************************************************************************)
NewFile(r, f) ==
  LET row == files[f]
      old == r.snap[f]
      mine == r.got \cap TicketsOf(f)
      n == Cardinality(mine)
  IN CASE Closing(r) -> CloseInFile(row, n, Cardinality(mine \cap r.done))
       [] r.kind = "expire" -> Overwrite(row, old, r.count[f])
       [] r.kind = "recycle" -> Overwrite(row, old, RecycleInFile(old, n))
       [] r.kind = "revoke" ->
            [Overwrite(row, old, [old EXCEPT !.pending = 0, !.assigned = 0])
               EXCEPT !.status = "revoked"]
       [] \E t \in mine : TooLate(r, t) -> [row EXCEPT !.pending = Less(@, n)]
       [] OTHER -> [row EXCEPT !.pending = Less(@, n), !.assigned = @ + n]

(***************************************************************************)
(* What the worker does once its transaction is committed and its locks,   *)
(* the advisory ones included, are released: get_next_ticket goes on to    *)
(* assign a ticket unless closing found nothing to close (or the pool is   *)
(* switched off, which Abort covers); after expiring an overdue ticket the *)
(* assignment loop goes on, without the user lock.                         *)
(***************************************************************************)
AfterCommit(r) ==
  IF r.kind = "next" /\ r.got # {} THEN Assigning(r.user, r.device)
  ELSE IF \E t \in r.got : TooLate(r, t) THEN Restart(r)
  ELSE Idle

Commit(w) ==
  LET r == txn[w]
  IN /\ r.pc = "commit"
     /\ tickets' = [t \in Tickets |-> IF t \in r.got THEN NewTicket(r, t) ELSE tickets[t]]
     /\ files' = [f \in Files |-> IF f \in r.scope THEN NewFile(r, f) ELSE files[f]]
     /\ txn' = [txn EXCEPT ![w] = AfterCommit(r)]
     /\ UNCHANGED now

(* The worker's statement waits for a lock that others hold. *)
Waiting(w) ==
  LET r == txn[w]
  IN \/ r.pc = "user lock" /\ ~ UserLockFree(w)
     \/ r.pc = "reserve lock" /\ ~ ReserveLockFree(w)
     \/ r.pc = "rows" /\ \A t \in r.cand : ~ RowFree(w, t)
     \/ r.pc = "files" /\ \A f \in ToWrite(r) \ r.flocked : ~ FileFree(w, f)

Holders(w) ==
  LET r == txn[w]
  IN {v \in Others(w) :
        \/ r.pc = "user lock" /\ "user" \in txn[v].advisory /\ txn[v].user = r.user
        \/ r.pc = "reserve lock" /\ "reserve" \in txn[v].advisory
        \/ r.pc = "rows" /\ txn[v].held \cap r.cand # {}
        \/ r.pc = "files" /\ txn[v].flocked \cap (ToWrite(r) \ r.flocked) # {}}

(* Everyone in a set of transactions waits for another of them. *)
InDeadlock(w) ==
  \E D \in SUBSET Workers : w \in D /\ \A v \in D : Waiting(v) /\ Holders(v) \subseteq D

(***************************************************************************)
(* ROLLBACK by PostgreSQL's deadlock detector or, where the instance lets  *)
(* transactions fail, by a lock or statement timeout, an error, a closed   *)
(* connection or the death of the worker.                                  *)
(***************************************************************************)
Abort(w) ==
  /\ txn[w].pc # "idle"
  /\ MayFail \/ InDeadlock(w)
  /\ Continue(w, Idle)

Tick ==
  /\ now < MaxNow
  /\ now' = now + 1
  /\ UNCHANGED <<tables, txn>>

-----------------------------------------------------------------------------
Init ==
  /\ Lifecycle!Init
  /\ files = [f \in Files |-> [status |-> "absent", pending |-> 0,
                               assigned |-> 0, completed |-> 0]]
  /\ now = 0
  /\ txn = [w \in Workers |-> Idle]

Request(w) ==
  \/ \E u \in Users, d \in Devices :
       \/ NextTicket(w, u, d)
       \/ StopReceiving(w, u, d)
       \/ \E n \in 1..MaxBatch : DownloadBatch(w, u, d, n)
       \/ \E ids \in SUBSET Tickets : \E done \in SUBSET ids :
            ConfirmBatch(w, u, d, ids, done)
  \/ \E ids \in SUBSET Tickets : RecycleTickets(w, ids)
  \/ \E f \in Files : RevokeFile(w, f)
  \/ ExpireOverdue(w)

Statement(w) ==
  \/ TakeUserLock(w) \/ TakeReserveLock(w)
  \/ CheckDaily(w) \/ CheckProcessing(w) \/ ChooseGroup(w)
  \/ PickBatch(w) \/ PickOne(w) \/ TryHint(w)
  \/ Scan(w) \/ LockRow(w)
  \/ LoadFile(w) \/ FindOverdue(w) \/ CountTickets(w) \/ ReadFile(w) \/ LockFile(w)
  \/ Commit(w)

Next ==
  \/ \E w \in Workers : Request(w) \/ Statement(w) \/ Abort(w)
  \/ \E f \in Files : ImportFile(f)
  \/ Tick

Spec == Init /\ [][Next]_vars
=============================================================================
