--------------------------- MODULE TicketPoolProps ---------------------------
(***************************************************************************)
(* What must be true of the ticket pool.                                   *)
(***************************************************************************)
EXTENDS TicketPool

-----------------------------------------------------------------------------
(* Types *)

(* Every row, counter and transaction record keeps its shape; a counter is   *)
(* never negative.                                                           *)
TypeOK ==
  /\ tickets \in [Tickets -> Lifecycle!TicketRow]
  /\ files \in [Files -> FileRow]
  /\ now \in Nat
  /\ txn \in [Workers -> Txn]

-----------------------------------------------------------------------------
(* Rows a transaction works on *)

(* The rows a transaction is going to change are still as its WHERE clause   *)
(* required when it locked them: pending for an assignment, assigned to the  *)
(* caller for a close, and so on.                                            *)
WrittenRowsStillMatch ==
  \A w \in Workers : \A t \in txn[w].got :
    IF txn[w].kind \in {"assign", "download"} THEN t \in Pending ELSE Match(txn[w], t)

(* A mode-B batch is of one lottery type and one deadline (one TXT file).    *)
BatchOfOneType ==
  \A w \in Workers :
    txn[w].kind = "download" =>
      \A s, t \in txn[w].got : TypeOf(s) = TypeOf(t) /\ DeadlineOf(s) = DeadlineOf(t)

-----------------------------------------------------------------------------
(* Tickets and users *)

(* A user never holds a ticket of a lottery type blocked for it, whichever   *)
(* way the ticket was found: by the query, or by an id left in the Redis list*)
BlockedNeverHeld ==
  \A t \in Tickets :
    tickets[t].status = "assigned" => TypeOf(t) \notin Blocked[tickets[t].user]

(* A ticket whose file came without a readable deadline is for nobody: no    *)
(* query, no batch and no id left in the Redis list hands it out, and the    *)
(* expiry job passes it over; only a revocation takes it out of the pool.    *)
UndatedStays ==
  [][\A t \in Pending : ~ HasDeadline(t) => tickets'[t].status \in {"pending", "revoked"}]_vars

(* Concurrent downloads of a mode-B user's devices together never take it    *)
(* over its processing limit (max_processing_b_mode).                        *)
ProcessingWithinLimit ==
  \A u \in Users :
    (ClientMode[u] = "mode_b" /\ MaxProcessing[u] # None) =>
      Cardinality(ProcessingOf(u)) <= MaxProcessing[u]

(* A user never completes more tickets in a business day than its daily limit*)
DailyLimitKept ==
  \A u \in Users :
    DailyLimit[u] # None => Cardinality(CompletedToday(u)) <= DailyLimit[u]

(* A device's request closes only tickets that were handed to that device.   *)
ClosesOwnDevice ==
  \A w \in Workers : Closing(txn[w]) =>
    \A t \in txn[w].got : tickets[t].device = txn[w].device

(* What a download of n tickets would get now, if nobody else touched the    *)
(* pool: cut down to the user's limits first.                                *)
Served(u, n) ==
  LET today == Remaining(DailyLimit[u], Cardinality(CompletedToday(u)), n)
      want == Remaining(MaxProcessing[u], Cardinality(ProcessingOf(u)), today)
  IN BatchSize(Eligible(u, now), Reserve, want)

(* The preview tells a mode-B client the largest batch it could get now, by  *)
(* the rules and limits a download then follows: a download of n tickets     *)
(* gets all n exactly when the preview says there are enough.                *)
PreviewHonest ==
  \A u \in Users : \A n \in 1..Cardinality(Tickets) : Served(u, n) = n <=> Preview(u) >= n

(* The pool a mode-B client is shown is the one its downloads are served     *)
(* from: the counts of the groups add up to the total, no batch is larger,   *)
(* and but for the user's own limits one is refused exactly when nothing is  *)
(* shown (pool_status and download, two readings of the same rules).         *)
StatusHonest ==
  \A u \in Users :
    LET status == ModeBStatus(u)
        groups == DOMAIN status.by_type
        items == {x \in groups \X (1..Cardinality(Tickets)) : x[2] <= status.by_type[x[1]]}
    IN /\ Cardinality(items) = status.total_pending
       /\ \A n \in 1..Cardinality(Tickets) :
            LET batch == BatchSize(Eligible(u, now), Reserve, n)
            IN batch <= status.total_pending /\ (batch = 0 <=> groups = {})

(* A batch leaves at least the reserve in the pool, counted as the batch     *)
(* counted it, however many users download at once.                          *)
LeavesReserve(w) ==
  (txn[w].kind = "download" /\ txn[w].pc = "commit" /\ tickets' # tickets) =>
    Cardinality({t \in Tickets : /\ tickets'[t].status = "pending"
                                 /\ HasDeadline(t) /\ DeadlineOf(t) > txn[w].clock
                                 /\ TypeOf(t) \notin Blocked[txn[w].user]}) >= Reserve

BatchLeavesReserve ==
  [][\A w \in Workers : txn'[w] # txn[w] => LeavesReserve(w)]_vars

-----------------------------------------------------------------------------
(* Files *)

CountedAs(f, status) == Cardinality({t \in TicketsOf(f) : tickets[t].status = status})

(* An administrator operation or job runs while nothing else does.           *)
MaintenanceAlone ==
  \A w \in Workers :
    txn[w].kind \in {"recycle", "revoke", "expire"} =>
      \A v \in Others(w) : txn[v].pc = "idle"

(* The counters of a file are the numbers of its tickets in each status, as  *)
(* long as administrator operations and the expiry job run alone.            *)
CountersExact ==
  \A f \in Files :
    files[f].status # "absent" =>
      /\ files[f].pending = CountedAs(f, "pending")
      /\ files[f].assigned = CountedAs(f, "assigned")
      /\ files[f].completed = CountedAs(f, "completed")

Numbers(f) == [pending |-> CountedAs(f, "pending"), assigned |-> CountedAs(f, "assigned"),
               completed |-> CountedAs(f, "completed")]

CountsItsTickets(f) == CountersOf(files[f]) = Numbers(f)

(* The worker writes to f from values that are no longer those of the tables:*)
(* the row it loaded, or the numbers it counted, changed since; or the expiry*)
(* job takes tickets of a file it had not noted.                             *)
ReadBefore(w, f) ==
  LET r == txn[w]
      overtaken == f \in r.scope /\ r.snap[f] # CountersOf(files[f])
  IN \/ r.kind \in {"recycle", "revoke"} /\ overtaken
     \/ r.kind = "expire" /\ (overtaken \/ r.count[f] # Numbers(f)')
     \/ r.kind = "expire" /\ f \in FilesOf(r.got) \ r.scope

(* Whatever maintenance races with, the counters of a file go wrong only in  *)
(* the commit of a recycling, a revocation or the expiry job that works on   *)
(* what it read before: assignments, closes and maintenance that nothing     *)
(* overtook keep right counters right.                                       *)
DriftsOnlyByStaleRead ==
  [][\A f \in Files :
       (CountsItsTickets(f) /\ ~ CountsItsTickets(f)') =>
         \E w \in Workers : txn[w].pc = "commit" /\ txn'[w] # txn[w] /\ ReadBefore(w, f)]_vars

(* A revoked file has no ticket in the pool or with a device: a recycling, a *)
(* hand-out or a retry that raced the revocation put none back.              *)
RevokedFileInert ==
  \A f \in Files :
    files[f].status = "revoked" =>
      \A t \in TicketsOf(f) : tickets[t].status \notin {"pending", "assigned"}

-----------------------------------------------------------------------------
(* The abstract specification *)

(* Committed tickets follow the life cycle: handed out only from the pool,   *)
(* closed only by the user that holds them, final statuses never left,       *)
(* expired only when nobody holds them.                                      *)
ImplementsLifecycle == Lifecycle!Spec

-----------------------------------------------------------------------------
(* Liveness *)

(***************************************************************************)
(* A worker keeps running its transaction: PostgreSQL serves those who wait*)
(* for a lock in turn (strong fairness), its deadlock detector ends every  *)
(* deadlock, the scheduler starts the expiry job again and again, and time *)
(* passes.                                                                 *)
(***************************************************************************)
FairSpec ==
  /\ Spec
  /\ \A w \in Workers : SF_vars(Statement(w)) /\ WF_vars(InDeadlock(w) /\ Abort(w))
  /\ SF_vars(\E w \in Workers : ExpireOverdue(w))
  /\ WF_vars(Tick)

(* Every request comes to an end: the rounds of the assignment loop, stale   *)
(* ids of the Redis list, and lock waits do not keep a worker forever.       *)
RequestsEnd == \A w \in Workers : txn[w].pc # "idle" ~> txn[w].pc = "idle"

(* No ticket stays in the pool past its deadline, unless revocations keep    *)
(* running into deadlocks with the expiry job (revoke_file locks the file    *)
(* before its tickets, every other transaction the tickets before the file). *)
OverdueExpires ==
  <>[](\A w \in Workers : ~ InDeadlock(w)) =>
    \A t \in Tickets :
      (t \in Pending /\ HasDeadline(t) /\ DeadlineOf(t) <= now) ~> t \notin Pending
=============================================================================
