--------------------------- MODULE TicketPoolProofs ---------------------------
(***************************************************************************)
(* Theorems about the ticket pool, for any number of tickets, files, users,*)
(* devices and workers, any deadlines, types, limits and mix of operations.*)
(*                                                                         *)
(* The argument: a transaction writes only rows it has locked (got is a    *)
(* subset of held), no row is locked by two transactions, and a row fits   *)
(* the statement's condition at the moment it is locked.  Until the        *)
(* transaction commits nobody else can change the row, so at the commit    *)
(* the row still fits: a ticket goes from the state the statement asked    *)
(* for to the state the statement gives it, which is what the life cycle   *)
(* allows.                                                                 *)
(***************************************************************************)
EXTENDS TicketPoolProps, PoolSelectionProofs

-----------------------------------------------------------------------------
(* The inductive invariant *)

(* The row fits the statement that locked it.                                *)
Fits(r, t) ==
  IF r.kind \in {"assign", "download"} THEN t \in Pending ELSE Match(r, t)

(* Where an assignment has not yet chosen the rows it writes.                *)
Early == {"user lock", "reserve lock", "daily", "processing", "stats", "pick", "hint"}

(* A request of a client names its user and its device.                      *)
Identified(r) ==
  (r.kind \in {"assign", "download"} \/ Closing(r)) => r.user \in Users /\ r.device \in Devices

(* What is handed out suits the user: a single ticket, or tickets of one     *)
(* group, all with a deadline and none of a blocked type (an overdue ticket  *)
(* will be expired).                                                         *)
Suits(r) ==
  /\ r.kind = "assign" =>
       /\ \A s, t \in r.got : s = t
       /\ \A t \in r.got : /\ HasDeadline(t)
                           /\ TooLate(r, t) \/ TypeOf(t) \notin Blocked[r.user]
  /\ r.kind = "download" =>
       /\ r.got \subseteq r.ids
       /\ \A s, t \in r.ids : TypeOf(s) = TypeOf(t) /\ DeadlineOf(s) = DeadlineOf(t)
       /\ \A t \in r.ids : HasDeadline(t) /\ TypeOf(t) \notin Blocked[r.user]

WorkOK(r) ==
  /\ r.kind \in Kinds \cup {"none", "assign"}
  /\ Identified(r)
  /\ r.got \subseteq r.held
  /\ \A t \in r.got : Fits(r, t)
  /\ Suits(r)

Sound(r) ==
  /\ r \in Txn
  /\ WorkOK(r)
  /\ r.pc \in Early => r.got = {} /\ r.kind \in {"assign", "download"}
  /\ r.pc = "hint" => r.kind = "assign"

(* A ticket has the file it was imported with.                               *)
TicketsHaveFiles ==
  \A t \in Tickets : tickets[t].status # "absent" => files[FileOf[t]].status # "absent"

TablesOK ==
  /\ tickets \in [Tickets -> Lifecycle!TicketRow]
  /\ files \in [Files -> FileRow]
  /\ now \in Nat
  /\ TicketsHaveFiles
  /\ BlockedNeverHeld

(* No two transactions hold the same row of lottery_tickets.                 *)
RowsExclusive ==
  \A w \in Workers : \A v \in Others(w) : txn[w].held \cap txn[v].held = {}

IInv ==
  /\ TablesOK
  /\ txn \in [Workers -> Txn]
  /\ \A w \in Workers : Sound(txn[w])
  /\ RowsExclusive

-----------------------------------------------------------------------------
(* Types *)

(* Sets of tickets are finite, so their sizes are numbers.                   *)
LEMMA CardinalityInNat ==
  ASSUME NEW S \in SUBSET Tickets
  PROVE  Cardinality(S) \in Nat
BY SelectionAssumption, FS_Subset, FS_CardinalityType

(* The files of some tickets are files.                                      *)
LEMMA FilesOfType ==
  ASSUME NEW S \in SUBSET Tickets
  PROVE  FilesOf(S) \in SUBSET Files
BY SelectionAssumption DEF FilesOf

(* An idle worker's record is a transaction record.                          *)
LEMMA IdleType == Idle \in Txn
BY DEF Idle, Txn, PCs, AllKinds, Zero, Counters

(* An idle worker is sound.                                                  *)
LEMMA IdleSound == Sound(Idle)
<1>1. /\ Idle.kind = "none" /\ Idle.pc = "idle" /\ Idle.got = {} /\ Idle.held = {}
  BY DEF Idle
<1> QED BY <1>1, IdleType DEF Sound, WorkOK, Identified, Closing, Early, Suits

(***************************************************************************)
(* A transaction that goes on with the same rows, for the same request, is *)
(* as sound as before.                                                     *)
(***************************************************************************)
SameWork(q, r) ==
  /\ q.kind = r.kind /\ q.user = r.user /\ q.device = r.device
  /\ q.ids = r.ids /\ q.done = r.done /\ q.clock = r.clock
  /\ q.held = r.held /\ q.got = r.got

(* Going on with the same rows for the same request keeps the work right.    *)
LEMMA SameWorkOK ==
  ASSUME NEW r, WorkOK(r), NEW q, SameWork(q, r)
  PROVE  WorkOK(q)
<1>1. \A t : Match(q, t) <=> Match(r, t)
  BY DEF SameWork, Match, Mine, Closing
<1>2. \A t : Fits(q, t) <=> Fits(r, t)
  BY <1>1 DEF SameWork, Fits
<1>3. \A t : TooLate(q, t) <=> TooLate(r, t)
  BY DEF SameWork, TooLate
<1>4. Suits(q)
  BY <1>3 DEF SameWork, WorkOK, Suits
<1> QED BY <1>2, <1>4 DEF SameWork, WorkOK, Identified, Closing

(* Going on to the files changes neither the request nor the rows.           *)
LEMMA ToFilesSame ==
  ASSUME NEW r \in Txn
  PROVE  /\ ToFiles(r) \in Txn
         /\ SameWork(ToFiles(r), r)
         /\ ToFiles(r).pc \notin Early
<1>1. ASSUME NEW p \in PCs
      PROVE  [r EXCEPT !.pc = p] \in Txn /\ [r EXCEPT !.pc = p].pc = p
  BY DEF Txn
<1>2. [r EXCEPT !.pc = "scan", !.stage = 2] \in Txn
  BY DEF Txn, PCs
<1>3. AfterFiles(r) \in Txn /\ AfterFiles(r).pc \in {"read", "scan", "commit"}
  <2>1. [r EXCEPT !.pc = "scan", !.stage = 2].pc = "scan"
    BY DEF Txn
  <2> QED BY <1>1, <1>2, <2>1 DEF AfterFiles, PCs
<1>4. ToFiles(r) \in Txn /\ ToFiles(r).pc \in {"read", "scan", "commit", "files"}
  BY <1>1, <1>3 DEF ToFiles, PCs
<1>5. \A p : SameWork([r EXCEPT !.pc = p], r)
  BY DEF SameWork, Txn
<1>6. SameWork([r EXCEPT !.pc = "scan", !.stage = 2], r)
  BY DEF SameWork, Txn
<1>7. SameWork(ToFiles(r), r)
  BY <1>5, <1>6 DEF ToFiles, AfterFiles
<1> QED BY <1>4, <1>7 DEF Early

(* A transaction that goes on to its files is sound.                         *)
LEMMA ToFilesSound ==
  ASSUME NEW r \in Txn, WorkOK(r)
  PROVE  Sound(ToFiles(r)) /\ ToFiles(r).held = r.held
<1>1. ToFiles(r).pc # "hint"
  BY ToFilesSame DEF Early
<1> QED BY <1>1, ToFilesSame, SameWorkOK DEF Sound, SameWork

(* A transaction that takes rows of the pool.                                *)
LEMMA TakeSound ==
  ASSUME NEW r, Sound(r), r.kind \in {"assign", "download"},
         NEW S \in SUBSET Pending,
         r.kind = "assign" =>
           /\ \A s, t \in S : s = t
           /\ \A t \in S : HasDeadline(t) /\ (TooLate(r, t) \/ TypeOf(t) \notin Blocked[r.user]),
         r.kind = "download" => S \subseteq r.ids
  PROVE  Sound(Take(r, S)) /\ Take(r, S).held = r.held \cup S
<1> DEFINE q == [r EXCEPT !.held = @ \cup S, !.got = S, !.scope = FilesOf(S)]
<1>1. S \in SUBSET Tickets
  BY DEF Pending
<1>2. r \in Txn /\ WorkOK(r)
  BY DEF Sound
<1>3. q \in Txn
  BY <1>1, <1>2, FilesOfType DEF Txn
<1>4. /\ q.kind = r.kind /\ q.user = r.user /\ q.device = r.device /\ q.ids = r.ids
      /\ q.clock = r.clock /\ q.held = r.held \cup S /\ q.got = S
  BY <1>2 DEF Txn
<1> HIDE DEF q
<1>5. Suits(q)
  BY <1>2, <1>4 DEF WorkOK, Suits, TooLate
<1>6. WorkOK(q)
  BY <1>2, <1>4, <1>5 DEF WorkOK, Identified, Closing, Fits
<1>7. Sound(ToFiles(q)) /\ ToFiles(q).held = r.held \cup S
  BY <1>3, <1>4, <1>6, ToFilesSound
<1> QED BY <1>7 DEF Take, q

(* Another round of the assignment loop, or the end of it.                   *)
LEMMA RetrySound ==
  ASSUME NEW r \in Txn, r.kind = "assign", r.got = {},
         r.user \in Users, r.device \in Devices
  PROVE  Sound(Retry(r)) /\ Retry(r).held \subseteq r.held /\ Retry(r).got = {}
<1> DEFINE q == [r EXCEPT !.tries = @ + 1, !.pc = "pick", !.cand = {}]
<1>1. q \in Txn
  <2>1. r.tries + 1 \in Nat
    BY DEF Txn
  <2> QED BY <2>1 DEF Txn, PCs
<1>2. q.kind = "assign" /\ q.got = {} /\ q.user = r.user /\ q.device = r.device
      /\ q.held = r.held /\ q.pc = "pick"
  BY DEF Txn
<1>3. Sound(q)
  <2> HIDE DEF q
  <2> QED BY <1>1, <1>2 DEF Sound, WorkOK, Identified, Suits
<1>4. Idle.held = {} /\ Idle.got = {}
  BY DEF Idle
<1> QED BY <1>2, <1>3, <1>4, IdleSound DEF Retry

(* An assignment that begins is sound and holds nothing.                     *)
LEMMA AssigningSound ==
  ASSUME NEW u \in Users, NEW d \in Devices
  PROVE  /\ Sound(Assigning(u, d))
         /\ Assigning(u, d) \in Txn
         /\ Assigning(u, d).kind = "assign" /\ Assigning(u, d).user = u
         /\ Assigning(u, d).device = d /\ Assigning(u, d).got = {}
         /\ Assigning(u, d).held = {}
<1> DEFINE q == Assigning(u, d)
<1>1. q \in Txn
  BY IdleType DEF Assigning, Txn, PCs
<1>2. q.kind = "assign" /\ q.pc = "user lock" /\ q.user = u /\ q.device = d
      /\ q.got = {} /\ q.held = {}
  BY DEF Assigning, Idle
<1>3. Sound(q)
  <2> HIDE DEF q
  <2> QED BY <1>1, <1>2 DEF Sound, WorkOK, Identified, Suits
<1> QED BY <1>1, <1>2, <1>3

(* The loop goes on as a new assignment, which holds neither row nor lock.   *)
LEMMA RestartForm ==
  ASSUME NEW r, r.user \in Users, r.device \in Devices, r.tries \in Nat
  PROVE  \E q \in Txn : /\ Restart(r) = Retry(q) /\ q.kind = "assign"
                        /\ q.user = r.user /\ q.device = r.device
                        /\ q.got = {} /\ q.held = {} /\ q.advisory = {}
<1> DEFINE a == Assigning(r.user, r.device)
           q == [a EXCEPT !.tries = r.tries]
<1>1. a \in Txn /\ a.kind = "assign" /\ a.user = r.user /\ a.device = r.device
      /\ a.got = {} /\ a.held = {}
  BY AssigningSound
<1>2. a.advisory = {}
  BY DEF Assigning, Idle
<1>3. Restart(r) = Retry(q)
  BY DEF Restart
<1> HIDE DEF a
<1>4. q \in Txn /\ q.kind = "assign" /\ q.user = r.user /\ q.device = r.device
      /\ q.got = {} /\ q.held = {} /\ q.advisory = {}
  BY <1>1, <1>2 DEF Txn
<1> QED BY <1>3, <1>4

(* A transaction stays sound while nobody changes the rows it writes.        *)
LEMMA StillSound ==
  ASSUME NEW v \in Workers, Sound(txn'[v]),
         \A t \in txn'[v].got : t \in Tickets /\ tickets'[t] = tickets[t]
  PROVE  Sound(txn[v])'
<1>1. \A t \in txn'[v].got : Fits(txn'[v], t) => Fits(txn[v], t)'
  BY DEF Fits, Pending, Match, Closing, Mine, Revocable, Overdue
<1> QED BY <1>1 DEF Sound, WorkOK, Identified, Closing, Suits, TooLate

(***************************************************************************)
(* What a statement must show when it changes no row: that the transaction *)
(* is sound after it, and that the rows it locked were free.               *)
(***************************************************************************)
LEMMA ContinueKeeps ==
  ASSUME IInv, NEW w \in Workers, NEW q,
         UNCHANGED <<tables, now>>, txn' = [txn EXCEPT ![w] = q],
         Sound(q),
         \A t \in q.held : RowFree(w, t)
  PROVE  IInv'
<1>1. UNCHANGED <<tickets, files, now>>
  BY DEF tables
<1>2. TablesOK'
  BY <1>1 DEF IInv, TablesOK, TicketsHaveFiles, BlockedNeverHeld
<1>3. \A v \in Workers : txn'[v] = IF v = w THEN q ELSE txn[v]
  BY DEF IInv
<1>4. ASSUME NEW v \in Workers
      PROVE  Sound(txn[v])'
  <2>1. Sound(txn'[v])
    BY <1>3, <1>4 DEF IInv
  <2>2. \A t \in txn'[v].got : t \in Tickets /\ tickets'[t] = tickets[t]
    BY <1>1, <2>1 DEF Sound, Txn
  <2> QED BY <2>1, <2>2, StillSound
<1>6. txn' \in [Workers -> Txn]
  BY DEF IInv, Sound
<1>7. RowsExclusive'
  BY <1>3 DEF IInv, RowsExclusive, Others, RowFree
<1> QED BY <1>2, <1>4, <1>6, <1>7 DEF IInv

-----------------------------------------------------------------------------
(* Requests *)

(* A request that begins with no row is sound.                               *)
LEMMA FreshSound ==
  ASSUME NEW q \in Txn, q.kind \in Kinds, q.pc # "hint", q.got = {},
         Identified(q),
         q.ids = {} \/ q.kind # "download",
         q.pc \in Early => q.kind \in {"assign", "download"}
  PROVE  Sound(q)
BY DEF Sound, WorkOK, Suits

(* A sound request that arrives at an idle worker disturbs nothing.          *)
LEMMA ReceiveKeeps ==
  ASSUME IInv, NEW w \in Workers, NEW q, NEW kind,
         Receive(w, kind, q),
         Sound(q), q.held = {}
  PROVE  IInv'
BY ContinueKeeps DEF Receive, Continue

(* A request that closes the device's current ticket begins sound.           *)
LEMMA ClosingCurrentSound ==
  ASSUME NEW kind \in {"next", "stop"}, kind \in Kinds, NEW u \in Users, NEW d \in Devices,
         NEW t \in Tickets, NEW done \in SUBSET {t}
  PROVE  LET q == ClosingCurrent(kind, u, d, t, done)
         IN Sound(q) /\ q.held = {}
<1> DEFINE q == ClosingCurrent(kind, u, d, t, done)
<1>1. q \in Txn
  <2>1. kind \in AllKinds /\ {t} \in SUBSET Tickets /\ done \in SUBSET Tickets
    BY DEF AllKinds
  <2> QED BY <2>1, IdleType DEF ClosingCurrent, Txn, PCs
<1>2. /\ q.kind = kind /\ q.pc = "scan" /\ q.user = u /\ q.device = d
      /\ q.got = {} /\ q.held = {}
  BY DEF ClosingCurrent, Idle
<1> HIDE DEF q
<1>3. Identified(q)
  BY <1>2 DEF Identified
<1>4. Sound(q)
  BY <1>1, <1>2, <1>3, FreshSound DEF Early
<1> QED BY <1>2, <1>4 DEF q

(* get_next_ticket disturbs nothing when it begins.                          *)
LEMMA NextTicketKeeps ==
  ASSUME IInv, NEW w \in Workers, NEW u \in Users, NEW d \in Devices, NextTicket(w, u, d)
  PROVE  IInv'
<1>1. CASE Receive(w, "next", Assigning(u, d))
  <2>1. Sound(Assigning(u, d)) /\ Assigning(u, d).held = {}
    BY AssigningSound
  <2> QED BY <1>1, <2>1, ReceiveKeeps
<1>2. CASE \E t \in HeldBy(u, d) : \E done \in SUBSET {t} :
             Receive(w, "next", ClosingCurrent("next", u, d, t, done))
  <2>0. PICK t \in Tickets : \E done \in SUBSET {t} :
               Receive(w, "next", ClosingCurrent("next", u, d, t, done))
    BY <1>2 DEF HeldBy
  <2>1. PICK done \in SUBSET {t} : Receive(w, "next", ClosingCurrent("next", u, d, t, done))
    BY <2>0
  <2>2. "next" \in Kinds
    BY <2>1 DEF Receive
  <2> QED BY <2>1, <2>2, ClosingCurrentSound, ReceiveKeeps
<1> QED BY <1>1, <1>2 DEF NextTicket

(* Nor does stop_receiving.                                                  *)
LEMMA StopReceivingKeeps ==
  ASSUME IInv, NEW w \in Workers, NEW u \in Users, NEW d \in Devices, StopReceiving(w, u, d)
  PROVE  IInv'
<1>0. PICK t \in Tickets : \E done \in SUBSET {t} :
             Receive(w, "stop", ClosingCurrent("stop", u, d, t, done))
  BY DEF StopReceiving, HeldBy
<1>1. PICK done \in SUBSET {t} : Receive(w, "stop", ClosingCurrent("stop", u, d, t, done))
  BY <1>0
<1>2. "stop" \in Kinds
  BY <1>1 DEF Receive
<1> QED BY <1>1, <1>2, ClosingCurrentSound, ReceiveKeeps

(* Nor does download_batch.                                                  *)
LEMMA DownloadBatchKeeps ==
  ASSUME IInv, NEW w \in Workers, NEW u \in Users, NEW d \in Devices, NEW n \in 1..MaxBatch,
         DownloadBatch(w, u, d, n)
  PROVE  IInv'
<1> DEFINE q == [Idle EXCEPT !.kind = "download", !.pc = "user lock",
                             !.user = u, !.device = d, !.want = n]
<1>1. n \in Nat
  BY PoolAssumption
<1>2. q \in Txn
  BY <1>1, IdleType DEF Txn, PCs, AllKinds
<1>3. /\ q.kind = "download" /\ q.pc = "user lock" /\ q.user = u /\ q.device = d
      /\ q.got = {} /\ q.held = {} /\ q.ids = {}
  BY DEF Idle
<1>4. Receive(w, "download", q)
  BY DEF DownloadBatch
<1> HIDE DEF q
<1>5. Sound(q)
  BY <1>2, <1>3, <1>4, FreshSound DEF Early, Identified, Receive
<1> QED BY <1>3, <1>4, <1>5, ReceiveKeeps

(* Nor does confirm_batch, whatever ids the client sends.                    *)
LEMMA ConfirmBatchKeeps ==
  ASSUME IInv, NEW w \in Workers, NEW u \in Users, NEW d \in Devices,
         NEW ids \in SUBSET Tickets, NEW done \in SUBSET ids,
         ConfirmBatch(w, u, d, ids, done)
  PROVE  IInv'
<1> DEFINE q == [Idle EXCEPT !.kind = "confirm", !.pc = "scan", !.user = u,
                             !.device = d, !.ids = ids, !.done = done]
<1>1. q \in Txn
  BY IdleType DEF Txn, PCs, AllKinds
<1>2. /\ q.kind = "confirm" /\ q.pc = "scan" /\ q.user = u /\ q.device = d
      /\ q.got = {} /\ q.held = {}
  BY DEF Idle
<1>3. Receive(w, "confirm", q)
  BY DEF ConfirmBatch
<1> HIDE DEF q
<1>4. Sound(q)
  BY <1>1, <1>2, <1>3, FreshSound DEF Early, Identified, Receive
<1> QED BY <1>2, <1>3, <1>4, ReceiveKeeps

(* Nor does recycle_assigned_tickets.                                        *)
LEMMA RecycleTicketsKeeps ==
  ASSUME IInv, NEW w \in Workers, NEW ids \in SUBSET Tickets, RecycleTickets(w, ids)
  PROVE  IInv'
<1> DEFINE q == [Idle EXCEPT !.kind = "recycle", !.pc = "scan", !.ids = ids]
<1>1. q \in Txn
  BY IdleType DEF Txn, PCs, AllKinds
<1>2. q.kind = "recycle" /\ q.pc = "scan" /\ q.got = {} /\ q.held = {}
  BY DEF Idle
<1>3. Receive(w, "recycle", q)
  BY DEF RecycleTickets
<1> HIDE DEF q
<1>4. Sound(q)
  BY <1>1, <1>2, <1>3, FreshSound DEF Early, Identified, Closing, Receive
<1> QED BY <1>2, <1>3, <1>4, ReceiveKeeps

(* Nor does revoke_file.                                                     *)
LEMMA RevokeFileKeeps ==
  ASSUME IInv, NEW w \in Workers, NEW f \in Files, RevokeFile(w, f)
  PROVE  IInv'
<1> DEFINE q == [Idle EXCEPT !.kind = "revoke", !.pc = "load", !.ids = TicketsOf(f),
                             !.scope = {f}]
<1>1. q \in Txn
  BY IdleType DEF Txn, PCs, AllKinds, TicketsOf
<1>2. q.kind = "revoke" /\ q.pc = "load" /\ q.got = {} /\ q.held = {}
  BY DEF Idle
<1>3. Receive(w, "revoke", q)
  BY DEF RevokeFile
<1> HIDE DEF q
<1>4. Sound(q)
  BY <1>1, <1>2, <1>3, FreshSound DEF Early, Identified, Closing, Receive
<1> QED BY <1>2, <1>3, <1>4, ReceiveKeeps

(* Nor does expire_overdue_tickets.                                          *)
LEMMA ExpireOverdueKeeps ==
  ASSUME IInv, NEW w \in Workers, ExpireOverdue(w)
  PROVE  IInv'
<1> DEFINE q == [Idle EXCEPT !.kind = "expire", !.pc = "load", !.clock = now]
<1>1. q \in Txn
  BY IdleType DEF Txn, PCs, AllKinds, IInv, TablesOK
<1>2. q.kind = "expire" /\ q.pc = "load" /\ q.got = {} /\ q.held = {}
  BY DEF Idle
<1>3. Receive(w, "expire", q)
  BY DEF ExpireOverdue
<1> HIDE DEF q
<1>4. Sound(q)
  BY <1>1, <1>2, <1>3, FreshSound DEF Early, Identified, Closing, Receive
<1> QED BY <1>2, <1>3, <1>4, ReceiveKeeps

(* No request disturbs the invariant.                                        *)
LEMMA RequestKeeps ==
  ASSUME IInv, NEW w \in Workers, Request(w)
  PROVE  IInv'
BY NextTicketKeeps, StopReceivingKeeps, DownloadBatchKeeps, ConfirmBatchKeeps,
   RecycleTicketsKeeps, RevokeFileKeeps, ExpireOverdueKeeps DEF Request

-----------------------------------------------------------------------------
(* Statements that change no row *)

(* What the invariant says of one worker, in the form the steps use.         *)
LEMMA SoundFacts ==
  ASSUME IInv, NEW w \in Workers
  PROVE  /\ txn[w] \in Txn
         /\ Sound(txn[w]) /\ WorkOK(txn[w])
         /\ \A t \in txn[w].held : RowFree(w, t)
         /\ txn[w].pc \in Early =>
              /\ txn[w].got = {}
              /\ txn[w].kind \in {"assign", "download"}
              /\ txn[w].user \in Users
              /\ txn[w].device \in Devices
<1>1. Sound(txn[w])
  BY DEF IInv
<1>2. \A t \in txn[w].held : RowFree(w, t)
  BY DEF IInv, RowsExclusive, RowFree, Others
<1> QED BY <1>1, <1>2 DEF Sound, WorkOK, Identified

(* The transaction ends without a change, or goes on with the same rows.     *)
LEMMA IdleKeeps ==
  ASSUME IInv, NEW w \in Workers, Continue(w, Idle)
  PROVE  IInv'
<1>1. Idle.held = {}
  BY DEF Idle
<1> QED BY <1>1, IdleSound, ContinueKeeps DEF Continue

(* A step past the choice of rows that keeps them disturbs nothing.          *)
LEMMA ControlKeeps ==
  ASSUME IInv, NEW w \in Workers, NEW q \in Txn, Continue(w, q), SameWork(q, txn[w]),
         q.pc \notin Early
  PROVE  IInv'
<1>1. Sound(q)
  <2>1. q.pc # "hint"
    BY DEF Early
  <2> QED BY <2>1, SoundFacts, SameWorkOK DEF Sound
<1>2. \A t \in q.held : RowFree(w, t)
  BY SoundFacts DEF SameWork
<1> QED BY <1>1, <1>2, ContinueKeeps DEF Continue

(* An assignment that has not yet chosen its rows goes on.                   *)
LEMMA EarlyKeeps ==
  ASSUME IInv, NEW w \in Workers, NEW q \in Txn, Continue(w, q),
         txn[w].pc \in Early,
         q.kind = txn[w].kind, q.user = txn[w].user, q.device = txn[w].device,
         q.got = {}, q.held = txn[w].held,
         q.pc = "hint" => q.kind = "assign",
         q.kind = "download" =>
           /\ \A s, t \in q.ids : TypeOf(s) = TypeOf(t) /\ DeadlineOf(s) = DeadlineOf(t)
           /\ \A t \in q.ids : HasDeadline(t) /\ TypeOf(t) \notin Blocked[q.user]
  PROVE  IInv'
<1> DEFINE r == txn[w]
<1>1. Sound(r) /\ r.got = {} /\ r.kind \in {"assign", "download"}
  BY SoundFacts
<1>2. Suits(q)
  BY <1>1 DEF Suits
<1>3. Sound(q)
  <2> HIDE DEF r
  <2>1. Identified(q)
    BY <1>1 DEF r, Sound, WorkOK, Identified, Closing
  <2> QED BY <1>1, <1>2, <2>1 DEF r, Sound, WorkOK
<1>4. \A t \in q.held : RowFree(w, t)
  BY SoundFacts
<1> QED BY <1>3, <1>4, ContinueKeeps DEF Continue

(* Taking the user's advisory lock disturbs nothing.                         *)
LEMMA TakeUserLockKeeps ==
  ASSUME IInv, NEW w \in Workers, TakeUserLock(w)
  PROVE  IInv'
<1> DEFINE r == txn[w]
           next == IF r.kind = "assign" THEN "daily" ELSE "reserve lock"
           q == [r EXCEPT !.advisory = @ \cup {"user"}, !.pc = next]
<1>1. r \in Txn /\ r.pc \in Early /\ WorkOK(r) /\ r.got = {}
  BY SoundFacts DEF TakeUserLock, Early
<1>2. q \in Txn
  <2>1. next \in PCs
    BY DEF PCs
  <2> HIDE DEF next
  <2> QED BY <1>1, <2>1 DEF Txn
<1>3. /\ q.kind = r.kind /\ q.user = r.user /\ q.device = r.device
      /\ q.got = r.got /\ q.held = r.held /\ q.ids = r.ids
      /\ q.pc # "hint"
  BY <1>1 DEF Txn
<1>4. Continue(w, q)
  BY DEF TakeUserLock
<1> HIDE DEF q
<1> QED BY <1>1, <1>2, <1>3, <1>4, EarlyKeeps DEF WorkOK, Suits

(* Taking the reserve's advisory lock disturbs nothing.                      *)
LEMMA TakeReserveLockKeeps ==
  ASSUME IInv, NEW w \in Workers, TakeReserveLock(w)
  PROVE  IInv'
<1> DEFINE r == txn[w]
           q == [r EXCEPT !.advisory = @ \cup {"reserve"}, !.pc = "daily", !.clock = now]
<1>1. r \in Txn /\ r.pc \in Early /\ WorkOK(r) /\ r.got = {} /\ now \in Nat
  BY SoundFacts DEF TakeReserveLock, Early, IInv, TablesOK
<1>2. q \in Txn
  BY <1>1 DEF Txn, PCs
<1>3. /\ q.kind = r.kind /\ q.user = r.user /\ q.device = r.device
      /\ q.got = r.got /\ q.held = r.held /\ q.ids = r.ids
      /\ q.pc # "hint"
  BY <1>1 DEF Txn
<1>4. Continue(w, q)
  BY DEF TakeReserveLock
<1> HIDE DEF q
<1> QED BY <1>1, <1>2, <1>3, <1>4, EarlyKeeps DEF WorkOK, Suits

(* What is left of a limit is a number.                                      *)
LEMMA RemainingType ==
  ASSUME NEW limit \in Nat \cup {None}, NEW n \in Nat, NEW want \in Nat
  PROVE  Remaining(limit, n, want) \in Nat
BY DEF Remaining, AtMost, Less

(* The daily limit is a number, and so is what is left of it.                *)
LEMMA CheckDailyKeeps ==
  ASSUME IInv, NEW w \in Workers, CheckDaily(w)
  PROVE  IInv'
<1> DEFINE r == txn[w]
           room == Remaining(DailyLimit[r.user], Cardinality(CompletedToday(r.user)), r.want)
           q == [r EXCEPT !.want = room,
                          !.pc = IF r.kind = "assign" THEN "pick" ELSE "processing"]
<1>1. /\ r \in Txn /\ r.pc \in Early /\ WorkOK(r) /\ r.got = {} /\ r.user \in Users
  BY SoundFacts DEF CheckDaily, Early
<1>2. room \in Nat
  <2>1. Cardinality(CompletedToday(r.user)) \in Nat
    BY CardinalityInNat DEF CompletedToday
  <2>2. r.want \in Nat
    BY <1>1 DEF Txn
  <2>3. DailyLimit[r.user] \in Nat \cup {None}
    BY <1>1, PoolAssumption
  <2> QED BY <2>1, <2>2, <2>3, RemainingType
<1> HIDE DEF room
<1>3. q \in Txn
  BY <1>1, <1>2 DEF Txn, PCs
<1>4. /\ q.kind = r.kind /\ q.user = r.user /\ q.device = r.device
      /\ q.got = r.got /\ q.held = r.held /\ q.ids = r.ids
      /\ q.pc # "hint"
  BY <1>1 DEF Txn
<1>5. Continue(w, Idle) \/ Continue(w, q)
  BY DEF CheckDaily, room
<1> HIDE DEF q
<1> QED BY <1>1, <1>3, <1>4, <1>5, EarlyKeeps, IdleKeeps DEF WorkOK, Suits

(* The processing limit is a number, and so is what is left of it.           *)
LEMMA CheckProcessingKeeps ==
  ASSUME IInv, NEW w \in Workers, CheckProcessing(w)
  PROVE  IInv'
<1> DEFINE r == txn[w]
           room == Remaining(MaxProcessing[r.user], Cardinality(ProcessingOf(r.user)), r.want)
           q == [r EXCEPT !.want = room, !.pc = "stats"]
<1>1. /\ r \in Txn /\ r.pc \in Early /\ WorkOK(r) /\ r.got = {} /\ r.user \in Users
  BY SoundFacts DEF CheckProcessing, Early
<1>2. room \in Nat
  <2>1. Cardinality(ProcessingOf(r.user)) \in Nat
    BY CardinalityInNat DEF ProcessingOf
  <2>2. r.want \in Nat
    BY <1>1 DEF Txn
  <2>3. MaxProcessing[r.user] \in Nat \cup {None}
    BY <1>1, PoolAssumption
  <2> QED BY <2>1, <2>2, <2>3, RemainingType
<1> HIDE DEF room
<1>3. q \in Txn
  BY <1>1, <1>2 DEF Txn, PCs
<1>4. /\ q.kind = r.kind /\ q.user = r.user /\ q.device = r.device
      /\ q.got = r.got /\ q.held = r.held /\ q.ids = r.ids
      /\ q.pc # "hint"
  BY <1>1 DEF Txn
<1>5. Continue(w, Idle) \/ Continue(w, q)
  BY DEF CheckProcessing, room
<1> HIDE DEF q
<1> QED BY <1>1, <1>3, <1>4, <1>5, EarlyKeeps, IdleKeeps DEF WorkOK, Suits

(* The group a batch chooses is of one type, which the user may receive.     *)
LEMMA ChooseGroupKeeps ==
  ASSUME IInv, NEW w \in Workers, ChooseGroup(w)
  PROVE  IInv'
<1> DEFINE r == txn[w]
           pool == Eligible(r.user, r.clock)
           actual == AtMost(r.want, Less(Cardinality(pool), Reserve))
           group == {t \in GroupIn(Tickets, Earliest(BatchGroup(pool, actual))) : HasDeadline(t)}
           q == [r EXCEPT !.ids = group, !.want = actual, !.pc = "pick"]
<1>1. r \in Txn /\ r.pc \in Early /\ r.got = {} /\ r.user \in Users
  BY SoundFacts DEF ChooseGroup, Early
<1>2. pool \in SUBSET Tickets /\ \A t \in pool : TypeOf(t) \notin Blocked[r.user]
  BY DEF Eligible, Pending
<1>3. Cardinality(pool) \in Nat /\ actual \in Nat
  <2>1. r.want \in Nat
    BY <1>1 DEF Txn
  <2>2. Cardinality(pool) \in Nat
    BY <1>2, CardinalityInNat
  <2> QED BY <2>1, <2>2, PoolAssumption DEF AtMost, Less
<1>4. CASE actual = 0
  BY <1>4, IdleKeeps DEF ChooseGroup
<1>5. CASE actual # 0
  <2>1. Cardinality(pool) # 0
    BY <1>1, <1>3, <1>5, PoolAssumption DEF AtMost, Less, Txn
  <2>2. pool # {}
    BY <2>1, FS_EmptySet
  <2>3. Earliest(BatchGroup(pool, actual)) \in pool
    <3>1. PICK t \in pool : /\ t \in BatchGroup(pool, actual)
                            /\ BatchGroup(pool, actual) = GroupIn(pool, t)
      <4> HIDE DEF pool, actual
      <4> QED BY <1>2, <1>3, <2>2, BatchGroupIsOneOfThePool
    <3>2. BatchGroup(pool, actual) # {} /\ BatchGroup(pool, actual) \in SUBSET pool
      BY <3>1 DEF GroupIn
    <3> HIDE DEF pool, actual
    <3> QED BY <1>2, <3>2, EarliestIsFirst
  <2>4. /\ \A s, t \in group : TypeOf(s) = TypeOf(t) /\ DeadlineOf(s) = DeadlineOf(t)
        /\ \A t \in group : HasDeadline(t) /\ TypeOf(t) \notin Blocked[r.user]
    <3> HIDE DEF pool, actual, r
    <3> QED BY <1>2, <2>3 DEF GroupIn
  <2>5. group \in SUBSET Tickets
    BY DEF GroupIn
  <2> HIDE DEF group, actual
  <2>6. q \in Txn
    BY <1>1, <1>3, <2>5 DEF Txn, PCs
  <2>7. /\ q.kind = r.kind /\ q.user = r.user /\ q.device = r.device
        /\ q.got = r.got /\ q.held = r.held /\ q.ids = group
        /\ q.pc # "hint"
    BY <1>1 DEF Txn
  <2>8. Continue(w, q)
    BY <1>5 DEF ChooseGroup, group, actual
  <2> HIDE DEF q
  <2> QED BY <1>1, <2>4, <2>6, <2>7, <2>8, EarlyKeeps
<1> QED BY <1>4, <1>5

-----------------------------------------------------------------------------
(* Statements that lock rows *)

(* Any round of the loop that ends with another round, or with none.         *)
LEMMA RetryKeeps ==
  ASSUME IInv, NEW w \in Workers, NEW q \in Txn, Continue(w, Retry(q)),
         q.kind = "assign", q.got = {}, q.user \in Users, q.device \in Devices,
         \A t \in q.held : RowFree(w, t)
  PROVE  IInv'
BY RetrySound, ContinueKeeps DEF Continue

(* A transaction takes rows that were free.                                  *)
LEMMA TakeKeeps ==
  ASSUME IInv, NEW w \in Workers, NEW q, NEW S \in SUBSET Pending, Continue(w, Take(q, S)),
         Sound(q), q.kind \in {"assign", "download"},
         \A t \in q.held \cup S : RowFree(w, t),
         q.kind = "assign" =>
           /\ \A s, t \in S : s = t
           /\ \A t \in S : HasDeadline(t) /\ (TooLate(q, t) \/ TypeOf(t) \notin Blocked[q.user]),
         q.kind = "download" => S \subseteq q.ids
  PROVE  IInv'
BY TakeSound, ContinueKeeps DEF Continue

(* A batch locks free pending rows of its group only.                        *)
LEMMA PickBatchKeeps ==
  ASSUME IInv, NEW w \in Workers, PickBatch(w)
  PROVE  IInv'
<1> DEFINE r == txn[w]
           free == {t \in r.ids \cap Pending : RowFree(w, t)}
           S == LowestIds(free, r.want)
<1>1. Sound(r) /\ r.kind = "download" /\ \A t \in r.held : RowFree(w, t)
  BY SoundFacts DEF PickBatch
<1>2. S \subseteq r.ids /\ S \in SUBSET Pending /\ \A t \in S : RowFree(w, t)
  BY DEF LowestIds
<1>3. Continue(w, Idle) \/ Continue(w, Take(r, S))
  BY DEF PickBatch
<1> HIDE DEF r, S
<1> QED BY <1>1, <1>2, <1>3, TakeKeeps, IdleKeeps

(* The query's first row is free, pending and of a type the user may get.    *)
LEMMA PickOneKeeps ==
  ASSUME IInv, NEW w \in Workers, PickOne(w)
  PROVE  IInv'
<1> DEFINE r == txn[w]
           free == {t \in Eligible(r.user, now) : RowFree(w, t)}
           q == [r EXCEPT !.clock = now]
<1>1. /\ r \in Txn /\ r.pc = "pick" /\ r.pc \in Early /\ r.kind = "assign" /\ r.got = {}
      /\ r.user \in Users /\ WorkOK(r) /\ now \in Nat
      /\ \A t \in r.held : RowFree(w, t)
  BY SoundFacts DEF PickOne, Early, IInv, TablesOK
<1>2. CASE free # {} /\ Continue(w, Take(q, {Earliest(free)}))
  <2>1. free \in SUBSET Pending /\ free \in SUBSET Tickets
    BY DEF Eligible, Pending
  <2>2. Earliest(free) \in free
    <3> HIDE DEF free
    <3> QED BY <1>2, <2>1, EarliestIsFirst
  <2>3. /\ HasDeadline(Earliest(free)) /\ TypeOf(Earliest(free)) \notin Blocked[r.user]
        /\ RowFree(w, Earliest(free))
    <3> DEFINE t == Earliest(free)
    <3>1. t \in free
      BY <2>2
    <3> HIDE DEF t
    <3>2. HasDeadline(t) /\ TypeOf(t) \notin Blocked[r.user] /\ RowFree(w, t)
      BY <3>1 DEF Eligible
    <3> QED BY <3>2 DEF t
  <2>4. q \in Txn
    BY <1>1 DEF Txn
  <2>5. /\ q.kind = "assign" /\ q.got = {} /\ q.held = r.held /\ q.pc = "pick"
        /\ q.user = r.user /\ q.device = r.device
    BY <1>1 DEF Txn
  <2>6. Sound(q)
    <3> HIDE DEF q
    <3> QED BY <1>1, <2>4, <2>5 DEF Sound, WorkOK, Identified, Suits
  <2> DEFINE S == {Earliest(free)}
  <2>7. S \in SUBSET Pending
    <3> HIDE DEF free
    <3> QED BY <2>1, <2>2
  <2>8. /\ \A s, t \in S : s = t
        /\ \A t \in S : HasDeadline(t) /\ TypeOf(t) \notin Blocked[q.user] /\ RowFree(w, t)
    <3> HIDE DEF free, q
    <3> QED BY <2>3, <2>5
  <2>9. Continue(w, Take(q, S))
    BY <1>2
  <2> HIDE DEF S, q
  <2> QED BY <1>1, <2>5, <2>6, <2>7, <2>8, <2>9, TakeKeeps
<1>3. ASSUME NEW t \in Tickets,
             Continue(w, [r EXCEPT !.clock = now, !.pc = "hint", !.cand = {t}])
      PROVE  IInv'
  <2> DEFINE p == [r EXCEPT !.clock = now, !.pc = "hint", !.cand = {t}]
  <2>1. p \in Txn
    BY <1>1 DEF Txn, PCs
  <2>2. /\ p.kind = r.kind /\ p.got = {} /\ p.held = r.held
        /\ p.user = r.user /\ p.device = r.device
    BY <1>1 DEF Txn
  <2>3. Continue(w, p)
    BY <1>3
  <2> HIDE DEF p
  <2> QED BY <1>1, <2>1, <2>2, <2>3, EarlyKeeps
<1>4. \/ free # {} /\ Continue(w, Take(q, {Earliest(free)}))
      \/ \E t \in Tickets : Continue(w, [r EXCEPT !.clock = now, !.pc = "hint", !.cand = {t}])
      \/ Continue(w, Idle)
  BY DEF PickOne
<1> QED BY <1>2, <1>3, <1>4, IdleKeeps

(* An id from Redis is taken only if free, pending and not refused.          *)
LEMMA TryHintKeeps ==
  ASSUME IInv, NEW w \in Workers, TryHint(w)
  PROVE  IInv'
<1> DEFINE r == txn[w]
<1>1. /\ r \in Txn /\ r.kind = "assign" /\ r.got = {} /\ WorkOK(r)
      /\ r.user \in Users /\ r.device \in Devices
      /\ \A t \in r.held : RowFree(w, t)
  BY SoundFacts DEF TryHint, Early, Sound
<1>2. PICK t \in r.cand :
          \/ Continue(w, Retry(r))
          \/ t \in Pending /\ RowFree(w, t) /\ Continue(w, Retry([r EXCEPT !.held = @ \cup {t}]))
          \/ /\ t \in Pending /\ RowFree(w, t) /\ ~ Refuses(r, t) /\ HasDeadline(t)
             /\ Continue(w, Take([r EXCEPT !.cand = {}], {t}))
          \/ Continue(w, Restart(r))
  BY DEF TryHint, UpdateMatches
<1>3. t \in Tickets
  BY <1>1 DEF Txn
<1>4. CASE Continue(w, Retry(r))
  BY <1>1, <1>4, RetryKeeps
<1>5. CASE t \in Pending /\ RowFree(w, t) /\ Continue(w, Retry([r EXCEPT !.held = @ \cup {t}]))
  <2> DEFINE q == [r EXCEPT !.held = @ \cup {t}]
  <2>1. q \in Txn
    BY <1>1, <1>3 DEF Txn
  <2>2. /\ q.kind = "assign" /\ q.got = {} /\ q.user = r.user /\ q.device = r.device
        /\ q.held = r.held \cup {t}
    BY <1>1 DEF Txn
  <2>3. Continue(w, Retry(q))
    BY <1>5
  <2> HIDE DEF q
  <2> QED BY <1>1, <1>5, <2>1, <2>2, <2>3, RetryKeeps
<1>6. CASE /\ t \in Pending /\ RowFree(w, t) /\ ~ Refuses(r, t) /\ HasDeadline(t)
           /\ Continue(w, Take([r EXCEPT !.cand = {}], {t}))
  <2> DEFINE q == [r EXCEPT !.cand = {}]
  <2>1. q \in Txn
    BY <1>1 DEF Txn
  <2>2. SameWork(q, r) /\ q.pc = r.pc
    BY <1>1 DEF Txn, SameWork
  <2>3. Sound(q)
    <3> HIDE DEF q
    <3> QED BY <1>1, <2>1, <2>2, SameWorkOK DEF Sound, SameWork
  <2>4. TooLate(q, t) \/ TypeOf(t) \notin Blocked[q.user]
    <3> HIDE DEF q
    <3> QED BY <1>1, <1>6, <2>2 DEF SameWork, TooLate, Refuses
  <2>5. Continue(w, Take(q, {t}))
    BY <1>6
  <2> DEFINE S == {t}
  <2>6. /\ S \in SUBSET Pending
        /\ \A s, x \in S : s = x
        /\ \A x \in S : /\ RowFree(w, x) /\ HasDeadline(x)
                        /\ TooLate(q, x) \/ TypeOf(x) \notin Blocked[q.user]
    <3> HIDE DEF q
    <3> QED BY <1>6, <2>4
  <2>7. q.kind = "assign" /\ q.held = r.held
    BY <1>1, <2>2 DEF SameWork
  <2> HIDE DEF q, S
  <2>8. Continue(w, Take(q, S))
    BY <2>5 DEF S
  <2> QED BY <1>1, <2>3, <2>6, <2>7, <2>8, TakeKeeps
<1>7. CASE Continue(w, Restart(r))
  <2>1. r.tries \in Nat
    BY <1>1 DEF Txn
  <2> QED BY <1>1, <1>7, <2>1, RestartForm, RetryKeeps
<1> QED BY <1>2, <1>4, <1>5, <1>6, <1>7

-----------------------------------------------------------------------------
(* Statements that find rows and lock them one by one *)

(* After its rows are locked, a transaction goes on sound.                   *)
LEMMA AfterRowsSound ==
  ASSUME NEW r \in Txn, WorkOK(r)
  PROVE  Sound(AfterRows(r)) /\ AfterRows(r).held \subseteq r.held
<1> DEFINE F == FilesOf(r.got)
           p == [r EXCEPT !.scope = F]
           q == [r EXCEPT !.pc = "read", !.scope = F, !.unread = F]
<1>1. F \in SUBSET Files
  <2>1. r.got \in SUBSET Tickets
    BY DEF Txn
  <2> QED BY <2>1, FilesOfType
<1> HIDE DEF F
<1>2. Sound(ToFiles(p)) /\ ToFiles(p).held = r.held
  <2>1. p \in Txn /\ SameWork(p, r)
    BY <1>1 DEF Txn, SameWork
  <2> HIDE DEF p
  <2> QED BY <2>1, SameWorkOK, ToFilesSound DEF SameWork
<1>3. Sound(q) /\ q.held = r.held
  <2>1. q \in Txn /\ SameWork(q, r) /\ q.pc = "read"
    BY <1>1 DEF Txn, PCs, SameWork
  <2> HIDE DEF q
  <2> QED BY <2>1, SameWorkOK DEF Sound, SameWork, Early
<1>4. ASSUME NEW c \in {"commit", "count"}
      PROVE  Sound([r EXCEPT !.pc = c]) /\ [r EXCEPT !.pc = c].held = r.held
  <2> DEFINE s == [r EXCEPT !.pc = c]
  <2>1. s \in Txn /\ SameWork(s, r) /\ s.pc = c
    BY DEF Txn, PCs, SameWork
  <2> HIDE DEF s
  <2>2. Sound(s) /\ s.held = r.held
    BY <2>1, SameWorkOK DEF Sound, SameWork, Early
  <2> QED BY <2>2 DEF s
<1>5. Sound(Idle) /\ Idle.held = {}
  BY IdleSound DEF Idle
<1>6. AfterRows(r) \in {ToFiles(p), q, Idle, [r EXCEPT !.pc = "commit"], [r EXCEPT !.pc = "count"]}
  BY DEF AfterRows, F
<1> HIDE DEF p, q
<1> QED BY <1>2, <1>3, <1>4, <1>5, <1>6

(* Going on after the rows disturbs nothing.                                 *)
LEMMA AfterRowsKeeps ==
  ASSUME IInv, NEW w \in Workers, NEW q \in Txn, Continue(w, AfterRows(q)), WorkOK(q),
         \A t \in q.held : RowFree(w, t)
  PROVE  IInv'
BY AfterRowsSound, ContinueKeeps DEF Continue

(* Finding rows locks none.                                                  *)
LEMMA ScanKeeps ==
  ASSUME IInv, NEW w \in Workers, Scan(w)
  PROVE  IInv'
<1> DEFINE r == txn[w]
           found == {t \in Target(r) : Match(r, t)}
           q == [r EXCEPT !.pc = "rows", !.cand = found]
<1>1. r \in Txn /\ WorkOK(r) /\ \A t \in r.held : RowFree(w, t)
  BY SoundFacts
<1>2. found \in SUBSET Tickets
  BY <1>1 DEF Target, Txn
<1> HIDE DEF found
<1>3. q \in Txn /\ SameWork(q, r) /\ q.pc \notin Early
  BY <1>1, <1>2 DEF Txn, PCs, SameWork, Early
<1>4. Continue(w, AfterRows(r)) \/ Continue(w, q)
  BY DEF Scan, found
<1> HIDE DEF q
<1> QED BY <1>1, <1>3, <1>4, AfterRowsKeeps, ControlKeeps

(* A row is looked at again once it is locked: only one that still fits is   *)
(* written.                                                                  *)
LEMMA LockedOK ==
  ASSUME NEW r \in Txn, WorkOK(r), NEW t \in r.cand
  PROVE  /\ Locked(r, t) \in Txn
         /\ WorkOK(Locked(r, t))
         /\ Locked(r, t).held = r.held \cup {t}
         /\ Locked(r, t).pc = r.pc
<1> DEFINE got == IF Match(r, t) THEN r.got \cup {t} ELSE r.got
           q == [r EXCEPT !.cand = @ \ {t}, !.held = @ \cup {t}, !.got = got]
<1>1. t \in Tickets
  BY DEF Txn
<1>2. got \in SUBSET Tickets /\ got \subseteq r.held \cup {t}
  BY <1>1 DEF Txn, WorkOK
<1>3. Locked(r, t) = q
  BY DEF Locked
<1>4. Match(r, t) => r.kind \notin {"assign", "download"}
  BY DEF Match, Closing
<1>5. \A x \in got : Fits(r, x)
  BY <1>4 DEF WorkOK, Fits
<1>6. r.kind \in {"assign", "download"} => got = r.got
  BY <1>4
<1> HIDE DEF got
<1>7. q \in Txn
  BY <1>1, <1>2 DEF Txn
<1>8. /\ q.kind = r.kind /\ q.user = r.user /\ q.device = r.device /\ q.ids = r.ids
      /\ q.clock = r.clock /\ q.held = r.held \cup {t} /\ q.got = got /\ q.pc = r.pc
  BY DEF Txn
<1> HIDE DEF q
<1>9. \A x \in q.got : Fits(q, x)
  BY <1>5, <1>8 DEF Fits, Match, Mine, Closing
<1>10. Suits(q)
  BY <1>6, <1>8 DEF WorkOK, Suits, TooLate
<1>11. WorkOK(q)
  BY <1>2, <1>8, <1>9, <1>10 DEF WorkOK, Identified, Closing
<1> QED BY <1>3, <1>7, <1>8, <1>11

(* A row is locked only when no other transaction holds it.                  *)
LEMMA LockRowKeeps ==
  ASSUME IInv, NEW w \in Workers, LockRow(w)
  PROVE  IInv'
<1>1. /\ txn[w] \in Txn /\ WorkOK(txn[w]) /\ txn[w].pc = "rows"
      /\ \A t \in txn[w].held : RowFree(w, t)
  BY SoundFacts DEF LockRow
<1>2. PICK t \in txn[w].cand :
        /\ RowFree(w, t)
        /\ \/ Continue(w, AfterRows(Locked(txn[w], t)))
           \/ Continue(w, Locked(txn[w], t))
  BY DEF LockRow
<1> DEFINE q == Locked(txn[w], t)
<1>3. q \in Txn /\ WorkOK(q) /\ q.pc = "rows" /\ \A x \in q.held : RowFree(w, x)
  BY <1>1, <1>2, LockedOK
<1>4. Continue(w, AfterRows(q)) \/ Continue(w, q)
  BY <1>2
<1> HIDE DEF q
<1>5. Sound(q)
  BY <1>3 DEF Sound, Early
<1> QED BY <1>3, <1>4, <1>5, AfterRowsKeeps, ContinueKeeps DEF Continue

-----------------------------------------------------------------------------
(* Counters of uploaded_files *)

(* A file's counters, read from its row, are counters.                       *)
LEMMA CountersOfType ==
  ASSUME IInv, NEW f \in Files
  PROVE  CountersOf(files[f]) \in Counters
BY DEF IInv, TablesOK, FileRow, CountersOf, Counters

(* A transaction goes on to the files it updates.                            *)
LEMMA ToFilesKeeps ==
  ASSUME IInv, NEW w \in Workers, NEW q \in Txn, Continue(w, ToFiles(q)), SameWork(q, txn[w])
  PROVE  IInv'
<1>1. WorkOK(q) /\ \A t \in q.held : RowFree(w, t)
  BY SoundFacts, SameWorkOK DEF SameWork
<1> QED BY <1>1, ToFilesSound, ContinueKeeps DEF Continue

(* Reading the file to revoke disturbs nothing.                              *)
LEMMA LoadFileKeeps ==
  ASSUME IInv, NEW w \in Workers, LoadFile(w)
  PROVE  IInv'
<1>1. txn[w] \in Txn
  BY SoundFacts
<1>2. CASE Continue(w, Idle)
  BY <1>2, IdleKeeps
<1>3. ASSUME NEW f \in txn[w].scope,
             Continue(w, ToFiles([txn[w] EXCEPT !.snap[f] = CountersOf(files[f])]))
      PROVE  IInv'
  <2> DEFINE q == [txn[w] EXCEPT !.snap[f] = CountersOf(files[f])]
  <2>1. f \in Files
    BY <1>1 DEF Txn
  <2>2. CountersOf(files[f]) \in Counters
    BY <2>1, CountersOfType
  <2>3. q \in Txn /\ SameWork(q, txn[w])
    BY <1>1, <2>1, <2>2 DEF Txn, SameWork
  <2>4. Continue(w, ToFiles(q))
    BY <1>3
  <2> HIDE DEF q
  <2> QED BY <2>3, <2>4, ToFilesKeeps
<1> QED BY <1>2, <1>3 DEF LoadFile

(* Noting the files with overdue tickets disturbs nothing.                   *)
LEMMA FindOverdueKeeps ==
  ASSUME IInv, NEW w \in Workers, FindOverdue(w)
  PROVE  IInv'
<1> DEFINE F == FilesOf({t \in Tickets : Overdue(t, txn[w].clock)})
           q == [txn[w] EXCEPT !.pc = "scan", !.scope = F]
<1>1. txn[w] \in Txn
  BY SoundFacts
<1>2. F \in SUBSET Files
  BY FilesOfType
<1>3. Continue(w, q)
  BY DEF FindOverdue
<1> HIDE DEF F
<1>4. q \in Txn /\ SameWork(q, txn[w]) /\ q.pc \notin Early
  BY <1>1, <1>2 DEF Txn, PCs, SameWork, Early
<1> HIDE DEF q
<1> QED BY <1>3, <1>4, ControlKeeps

(* Counting a file's tickets disturbs nothing.                               *)
LEMMA CountTicketsKeeps ==
  ASSUME IInv, NEW w \in Workers, CountTickets(w)
  PROVE  IInv'
<1> DEFINE r == txn[w]
           status(t) == IF t \in r.got THEN "expired" ELSE tickets[t].status
           number(f, st) == Cardinality({t \in TicketsOf(f) : status(t) = st})
           counted == [f \in Files |->
                         IF f \in r.scope
                         THEN [pending |-> number(f, "pending"),
                               assigned |-> number(f, "assigned"),
                               completed |-> number(f, "completed")]
                         ELSE Zero]
           p == [r EXCEPT !.pc = "commit"]
           q == [r EXCEPT !.pc = "read", !.unread = r.scope, !.count = counted]
<1>1. r \in Txn
  BY SoundFacts
<1>2. counted \in [Files -> Counters]
  <2>1. \A f, st : number(f, st) \in Nat
    BY CardinalityInNat DEF TicketsOf
  <2> HIDE DEF number
  <2> QED BY <2>1 DEF Counters, Zero
<1>3. Continue(w, p) \/ Continue(w, q)
  BY DEF CountTickets
<1> HIDE DEF counted
<1>4. p \in Txn /\ SameWork(p, r) /\ p.pc \notin Early
  BY <1>1 DEF Txn, PCs, SameWork, Early
<1>5. q \in Txn /\ SameWork(q, r) /\ q.pc \notin Early
  BY <1>1, <1>2 DEF Txn, PCs, SameWork, Early
<1> HIDE DEF p, q
<1> QED BY <1>3, <1>4, <1>5, ControlKeeps

(* Reading a file's row disturbs nothing.                                    *)
LEMMA ReadFileKeeps ==
  ASSUME IInv, NEW w \in Workers, ReadFile(w)
  PROVE  IInv'
<1>1. txn[w] \in Txn
  BY SoundFacts
<1>2. PICK f \in txn[w].unread :
        Continue(w, ToFiles([txn[w] EXCEPT !.snap[f] = CountersOf(files[f]), !.unread = @ \ {f}]))
  BY DEF ReadFile
<1> DEFINE q == [txn[w] EXCEPT !.snap[f] = CountersOf(files[f]), !.unread = @ \ {f}]
<1>3. f \in Files
  BY <1>1 DEF Txn
<1>4. CountersOf(files[f]) \in Counters
  BY <1>3, CountersOfType
<1>5. q \in Txn /\ SameWork(q, txn[w])
  BY <1>1, <1>3, <1>4 DEF Txn, SameWork
<1>6. Continue(w, ToFiles(q))
  BY <1>2
<1> HIDE DEF q
<1> QED BY <1>5, <1>6, ToFilesKeeps

(* Locking a file's row disturbs nothing.                                    *)
LEMMA LockFileKeeps ==
  ASSUME IInv, NEW w \in Workers, LockFile(w)
  PROVE  IInv'
<1>1. txn[w] \in Txn
  BY SoundFacts
<1>2. PICK f \in ToWrite(txn[w]) : Continue(w, ToFiles([txn[w] EXCEPT !.flocked = @ \cup {f}]))
  BY DEF LockFile
<1> DEFINE q == [txn[w] EXCEPT !.flocked = @ \cup {f}]
<1>3. f \in Files
  BY <1>1 DEF ToWrite, Txn
<1>4. q \in Txn /\ SameWork(q, txn[w])
  BY <1>1, <1>3 DEF Txn, SameWork
<1>5. Continue(w, ToFiles(q))
  BY <1>2
<1> HIDE DEF q
<1> QED BY <1>4, <1>5, ToFilesKeeps

-----------------------------------------------------------------------------
(* COMMIT, the import of a file, and the clock *)

(* The rows a transaction writes are in the tables.                          *)
LEMMA WrittenRowsPresent ==
  ASSUME NEW r, Sound(r), NEW t \in r.got
  PROVE  /\ t \in Tickets
         /\ tickets[t].status \in {"pending", "assigned"}
         /\ r.kind # "none"
BY DEF Sound, WorkOK, Txn, Fits, Pending, Match, Mine, Revocable, Overdue, Closing

(* A commit writes well-formed rows, and removes none.                       *)
LEMMA NewTicketType ==
  ASSUME IInv, NEW r, Sound(r), NEW t \in r.got
  PROVE  /\ NewTicket(r, t) \in Lifecycle!TicketRow
         /\ NewTicket(r, t).status # "absent"
<1> DEFINE row == tickets[t]
<1>1. row \in Lifecycle!TicketRow
  BY WrittenRowsPresent DEF IInv, TablesOK
<1>2. r.user \in Users \cup {None} /\ r.device \in Devices \cup {None}
  BY DEF Sound, Txn
<1> HIDE DEF row
<1>3. ASSUME NEW s \in {"completed", "expired", "revoked"}
      PROVE  /\ [row EXCEPT !.status = s] \in Lifecycle!TicketRow
             /\ [row EXCEPT !.status = s].status # "absent"
  BY <1>1 DEF Lifecycle!TicketRow, Lifecycle!TicketStatus, Lifecycle!FinalStatus,
              Lifecycle!ActiveStatus
<1>4. BackToPool(row) \in Lifecycle!TicketRow /\ BackToPool(row).status # "absent"
  BY <1>1 DEF BackToPool, Lifecycle!TicketRow, Lifecycle!TicketStatus, Lifecycle!FinalStatus,
       Lifecycle!ActiveStatus
<1> DEFINE assigned == [status |-> "assigned", user |-> r.user, device |-> r.device]
<1>5. assigned \in Lifecycle!TicketRow /\ assigned.status # "absent"
  BY <1>2 DEF Lifecycle!TicketRow, Lifecycle!TicketStatus, Lifecycle!FinalStatus,
              Lifecycle!ActiveStatus
<1>6. NewTicket(r, t) \in {[row EXCEPT !.status = "completed"], [row EXCEPT !.status = "expired"],
                           [row EXCEPT !.status = "revoked"], BackToPool(row), assigned}
  BY DEF NewTicket, row
<1> QED BY <1>3, <1>4, <1>5, <1>6

(* A counter never becomes negative, and a file that is there stays.         *)
LEMMA OverwriteType ==
  ASSUME NEW row \in FileRow, NEW old, NEW new,
         new.pending \in Nat, new.assigned \in Nat, new.completed \in Nat
  PROVE  Overwrite(row, old, new) \in FileRow /\ Overwrite(row, old, new).status = row.status
BY DEF Overwrite, FileRow

(* A commit writes well-formed counters, and removes no file.                *)
LEMMA NewFileType ==
  ASSUME IInv, NEW r, Sound(r), NEW f \in Files
  PROVE  /\ NewFile(r, f) \in FileRow
         /\ NewFile(r, f).status = "absent" => files[f].status = "absent"
<1> DEFINE row == files[f]
           old == r.snap[f]
           mine == r.got \cap TicketsOf(f)
           n == Cardinality(mine)
           done == Cardinality(mine \cap r.done)
<1>1. row \in FileRow
  BY DEF IInv, TablesOK
<1>2. old \in Counters /\ r.count[f] \in Counters
  BY DEF Sound, Txn
<1>3. n \in Nat /\ done \in Nat
  <2>1. mine \in SUBSET Tickets /\ mine \cap r.done \in SUBSET Tickets
    BY DEF TicketsOf
  <2> QED BY <2>1, CardinalityInNat
<1> HIDE DEF row, old, n, done
<1>4. \A i, j \in Nat : Less(i, j) \in Nat
  BY DEF Less
<1> DEFINE closed == CloseInFile(row, n, done)
           expired == Overwrite(row, old, r.count[f])
           recycled == Overwrite(row, old, RecycleInFile(old, n))
           kept == Overwrite(row, old, [old EXCEPT !.pending = 0, !.assigned = 0])
           revoked == [kept EXCEPT !.status = "revoked"]
           late == [row EXCEPT !.pending = Less(@, n)]
           given == [row EXCEPT !.pending = Less(@, n), !.assigned = @ + n]
<1>5. closed \in FileRow /\ closed.status = row.status
  <2>1. row.assigned \in Nat /\ row.completed \in Nat
    BY <1>1 DEF FileRow
  <2> DEFINE a == Less(row.assigned, n)
             b == row.completed + done
  <2>2. closed = [row EXCEPT !.assigned = a, !.completed = b]
    BY DEF CloseInFile
  <2> HIDE DEF a, b, closed
  <2>3. a \in Nat
    BY <1>3, <1>4, <2>1 DEF a
  <2>4. b \in Nat
    BY <1>3, <2>1 DEF b
  <2> QED BY <1>1, <2>2, <2>3, <2>4 DEF FileRow
<1>6. expired \in FileRow /\ expired.status = row.status
  <2>1. r.count[f].pending \in Nat /\ r.count[f].assigned \in Nat /\ r.count[f].completed \in Nat
    BY <1>2 DEF Counters
  <2> QED BY <1>1, <2>1, OverwriteType
<1>7. recycled \in FileRow /\ recycled.status = row.status
  <2> DEFINE new == RecycleInFile(old, n)
  <2>1. new.pending \in Nat /\ new.assigned \in Nat /\ new.completed \in Nat
    BY <1>2, <1>3, <1>4 DEF RecycleInFile, Counters
  <2> HIDE DEF new
  <2>2. Overwrite(row, old, new) \in FileRow /\ Overwrite(row, old, new).status = row.status
    BY <1>1, <2>1, OverwriteType
  <2> QED BY <2>2 DEF new
<1>8. revoked \in FileRow /\ revoked.status = "revoked"
  <2> DEFINE new == [old EXCEPT !.pending = 0, !.assigned = 0]
  <2>1. new.pending \in Nat /\ new.assigned \in Nat /\ new.completed \in Nat
    BY <1>2 DEF Counters
  <2> HIDE DEF new
  <2>2. Overwrite(row, old, new) \in FileRow
    BY <1>1, <2>1, OverwriteType
  <2>3. kept \in FileRow
    BY <2>2 DEF new
  <2> HIDE DEF kept
  <2> QED BY <2>3 DEF FileRow
<1>9. late \in FileRow /\ late.status = row.status
  BY <1>1, <1>3, <1>4 DEF FileRow
<1>10. given \in FileRow /\ given.status = row.status
  <2>1. row.pending \in Nat /\ row.assigned \in Nat
    BY <1>1 DEF FileRow
  <2> DEFINE a == Less(row.pending, n)
             b == row.assigned + n
  <2>2. given = [row EXCEPT !.pending = a, !.assigned = b]
    OBVIOUS
  <2> HIDE DEF a, b, given
  <2>3. a \in Nat
    BY <1>3, <1>4, <2>1 DEF a
  <2>4. b \in Nat
    BY <1>3, <2>1 DEF b
  <2> QED BY <1>1, <2>2, <2>3, <2>4 DEF FileRow
<1>11. NewFile(r, f) \in {closed, expired, recycled, revoked, late, given}
  BY DEF NewFile, row, old, n, done
<1> HIDE DEF closed, expired, recycled, revoked, late, given
<1> QED BY <1>5, <1>6, <1>7, <1>8, <1>9, <1>10, <1>11 DEF row

(* After its commit a worker holds no row.                                   *)
LEMMA AfterCommitSound ==
  ASSUME NEW r, Sound(r)
  PROVE  Sound(AfterCommit(r)) /\ AfterCommit(r).held = {} /\ AfterCommit(r).got = {}
<1>1. CASE r.kind = "next" /\ r.got # {}
  <2>1. r.user \in Users /\ r.device \in Devices
    BY <1>1 DEF Sound, WorkOK, Identified, Closing
  <2> QED BY <1>1, <2>1, AssigningSound DEF AfterCommit
<1>2. CASE ~ (r.kind = "next" /\ r.got # {}) /\ \E t \in r.got : TooLate(r, t)
  <2>1. r.user \in Users /\ r.device \in Devices /\ r.tries \in Nat
    BY <1>2 DEF Sound, WorkOK, Identified, TooLate, Txn
  <2> QED BY <1>2, <2>1, RestartForm, RetrySound DEF AfterCommit
<1>3. CASE ~ (r.kind = "next" /\ r.got # {}) /\ ~ \E t \in r.got : TooLate(r, t)
  <2>1. AfterCommit(r) = Idle
    BY <1>3 DEF AfterCommit
  <2> QED BY <2>1, IdleSound DEF Idle
<1> QED BY <1>1, <1>2, <1>3

(* A commit changes only rows it holds: the other transactions stay sound.   *)
LEMMA CommitKeeps ==
  ASSUME IInv, NEW w \in Workers, Commit(w)
  PROVE  IInv'
<1> DEFINE r == txn[w]
<1>1. Sound(r)
  BY SoundFacts
<1>2. /\ tickets' = [t \in Tickets |-> IF t \in r.got THEN NewTicket(r, t) ELSE tickets[t]]
      /\ files' = [f \in Files |-> IF f \in r.scope THEN NewFile(r, f) ELSE files[f]]
      /\ txn' = [txn EXCEPT ![w] = AfterCommit(r)]
      /\ now' = now
  BY DEF Commit
<1>3. \A v \in Workers : txn'[v] = IF v = w THEN AfterCommit(r) ELSE txn[v]
  BY <1>2 DEF IInv
<1> HIDE DEF r
<1>4. tickets' \in [Tickets -> Lifecycle!TicketRow]
  BY <1>1, <1>2, NewTicketType DEF IInv, TablesOK
<1>5. files' \in [Files -> FileRow]
  BY <1>1, <1>2, NewFileType DEF IInv, TablesOK
<1>6. TicketsHaveFiles'
  <2> SUFFICES ASSUME NEW t \in Tickets, tickets'[t].status # "absent"
               PROVE  files'[FileOf[t]].status # "absent"
    BY DEF TicketsHaveFiles
  <2>1. tickets[t].status # "absent"
    BY <1>1, <1>2, WrittenRowsPresent
  <2>2. FileOf[t] \in Files /\ files[FileOf[t]].status # "absent"
    BY <2>1, SelectionAssumption DEF IInv, TablesOK, TicketsHaveFiles
  <2> QED BY <1>1, <1>2, <2>2, NewFileType
<1>7. BlockedNeverHeld'
  <2> SUFFICES ASSUME NEW t \in Tickets, tickets'[t].status = "assigned"
               PROVE  TypeOf(t) \notin Blocked[tickets'[t].user]
    BY DEF BlockedNeverHeld
  <2>1. CASE t \notin r.got
    BY <1>2, <2>1 DEF IInv, TablesOK, BlockedNeverHeld
  <2>2. CASE t \in r.got
    <3>1. tickets'[t] = NewTicket(r, t) /\ r.kind # "none" /\ tickets[t] \in Lifecycle!TicketRow
      BY <1>1, <1>2, <2>2, WrittenRowsPresent DEF IInv, TablesOK
    <3>2. r.kind \in {"assign", "download"} /\ ~ TooLate(r, t)
      <4>1. /\ \A s : [tickets[t] EXCEPT !.status = s].status = s
            /\ BackToPool(tickets[t]).status = "pending"
        BY <3>1 DEF BackToPool, Lifecycle!TicketRow
      <4>2. NewTicket(r, t).status = "assigned"
        BY <2>2, <3>1
      <4>3. ~ Closing(r) /\ r.kind \notin {"expire", "recycle", "revoke"} /\ ~ TooLate(r, t)
        BY <4>1, <4>2 DEF NewTicket, Closing
      <4>4. r.kind \in {"none", "assign"} \cup AllKinds
        BY <1>1 DEF Sound, Txn
      <4> QED BY <2>2, <3>1, <4>3, <4>4, <1>1 DEF AllKinds, Closing, Sound, WorkOK, Fits, Match
    <3>3. tickets'[t].user = r.user
      BY <3>1, <3>2 DEF NewTicket, Closing
    <3> QED BY <1>1, <2>2, <3>2, <3>3 DEF Sound, WorkOK, Suits
  <2> QED BY <2>1, <2>2
<1>8. /\ Sound(AfterCommit(r)) /\ AfterCommit(r).held = {} /\ AfterCommit(r).got = {}
  BY <1>1, AfterCommitSound
<1>9. ASSUME NEW v \in Workers
      PROVE  Sound(txn[v])'
  <2>1. Sound(txn'[v])
    BY <1>3, <1>8 DEF IInv
  <2>2. \A t \in txn'[v].got : t \in Tickets /\ tickets'[t] = tickets[t]
    <3>1. CASE v = w
      BY <1>3, <1>8, <3>1
    <3>2. CASE v # w
      <4>1. txn'[v] = txn[v] /\ txn[v].held \cap r.held = {}
        BY <1>3, <3>2 DEF IInv, RowsExclusive, Others, r
      <4>2. txn[v].got \subseteq txn[v].held /\ r.got \subseteq r.held
        BY <1>1, SoundFacts DEF Sound, WorkOK
      <4>3. txn[v].got \in SUBSET Tickets
        BY SoundFacts DEF Txn
      <4> QED BY <1>2, <4>1, <4>2, <4>3
    <3> QED BY <3>1, <3>2
  <2> QED BY <2>1, <2>2, StillSound
<1>10. txn' \in [Workers -> Txn]
  BY <1>2, <1>8 DEF IInv, Sound
<1>11. RowsExclusive'
  BY <1>3, <1>8 DEF IInv, RowsExclusive, Others
<1>12. TablesOK'
  BY <1>2, <1>4, <1>5, <1>6, <1>7 DEF IInv, TablesOK
<1> QED BY <1>9, <1>10, <1>11, <1>12 DEF IInv

(* An import changes only absent tickets, which nobody holds.                *)
LEMMA ImportFileKeeps ==
  ASSUME IInv, NEW f \in Files, ImportFile(f)
  PROVE  IInv'
<1> DEFINE status == IF f \notin NoDeadline /\ Deadline[f] <= now THEN "expired" ELSE "pending"
           new == [Lifecycle!Absent EXCEPT !.status = status]
           row == [status |-> "active",
                   pending |-> IF status = "pending" THEN Cardinality(TicketsOf(f)) ELSE 0,
                   assigned |-> 0, completed |-> 0]
<1>1. /\ files[f].status = "absent"
      /\ tickets' = [t \in Tickets |-> IF FileOf[t] = f THEN new ELSE tickets[t]]
      /\ files' = [files EXCEPT ![f] = row]
      /\ now' = now /\ txn' = txn
  BY DEF ImportFile
<1>2. new \in Lifecycle!TicketRow /\ new.status \notin {"absent", "assigned"}
  BY DEF Lifecycle!Absent, Lifecycle!TicketRow, Lifecycle!TicketStatus, Lifecycle!ActiveStatus,
     Lifecycle!FinalStatus
<1>3. row \in FileRow /\ row.status = "active"
  <2>1. Cardinality(TicketsOf(f)) \in Nat
    BY CardinalityInNat DEF TicketsOf
  <2> QED BY <2>1 DEF FileRow
<1> HIDE DEF new, row
<1>4. \A t \in Tickets : FileOf[t] = f => tickets[t].status = "absent"
  BY <1>1 DEF IInv, TablesOK, TicketsHaveFiles
<1>5. tickets' \in [Tickets -> Lifecycle!TicketRow] /\ files' \in [Files -> FileRow]
  BY <1>1, <1>2, <1>3 DEF IInv, TablesOK
<1>6. TicketsHaveFiles'
  BY <1>1, <1>3, SelectionAssumption DEF IInv, TablesOK, TicketsHaveFiles
<1>7. BlockedNeverHeld'
  BY <1>1, <1>2 DEF IInv, TablesOK, BlockedNeverHeld
<1>8. ASSUME NEW v \in Workers
      PROVE  Sound(txn[v])'
  <2>1. Sound(txn'[v])
    BY <1>1 DEF IInv
  <2>2. \A t \in txn'[v].got : t \in Tickets /\ tickets'[t] = tickets[t]
    BY <1>1, <1>4, <2>1, WrittenRowsPresent
  <2> QED BY <2>1, <2>2, StillSound
<1>9. TablesOK'
  BY <1>1, <1>5, <1>6, <1>7 DEF IInv, TablesOK
<1>10. txn' \in [Workers -> Txn] /\ RowsExclusive'
  BY <1>1 DEF IInv, RowsExclusive, Others
<1> QED BY <1>8, <1>9, <1>10 DEF IInv

(* The clock changes nothing a transaction has chosen.                       *)
LEMMA TickKeeps ==
  ASSUME IInv, Tick
  PROVE  IInv'
<1>1. now' = now + 1 /\ tickets' = tickets /\ files' = files /\ txn' = txn
  BY DEF Tick, tables
<1>2. ASSUME NEW v \in Workers
      PROVE  Sound(txn[v])'
  <2>1. Sound(txn'[v])
    BY <1>1 DEF IInv
  <2>2. \A t \in txn'[v].got : t \in Tickets /\ tickets'[t] = tickets[t]
    BY <1>1, <2>1 DEF Sound, Txn
  <2> QED BY <2>1, <2>2, StillSound
<1> QED BY <1>1, <1>2 DEF IInv, TablesOK, TicketsHaveFiles, BlockedNeverHeld, RowsExclusive, Others

-----------------------------------------------------------------------------
(* The invariant and what follows from it *)

(* The invariant holds of the empty tables.                                  *)
LEMMA InitEstablishes == Init => IInv
<1> SUFFICES ASSUME Init PROVE IInv
  OBVIOUS
<1>1. /\ tickets = [t \in Tickets |-> Lifecycle!Absent]
      /\ files = [f \in Files |-> [status |-> "absent", pending |-> 0,
                                   assigned |-> 0, completed |-> 0]]
      /\ now = 0
      /\ txn = [w \in Workers |-> Idle]
  BY DEF Init, Lifecycle!Init
<1>2. Lifecycle!Absent \in Lifecycle!TicketRow /\ Lifecycle!Absent.status = "absent"
  BY DEF Lifecycle!Absent, Lifecycle!TicketRow, Lifecycle!TicketStatus, Lifecycle!ActiveStatus,
     Lifecycle!FinalStatus
<1>3. TablesOK
  BY <1>1, <1>2 DEF TablesOK, FileRow, TicketsHaveFiles, BlockedNeverHeld
<1>4. Idle.held = {}
  BY DEF Idle
<1> QED BY <1>1, <1>3, <1>4, IdleSound, IdleType DEF IInv, RowsExclusive, Others

(* Every step preserves it.                                                  *)
LEMMA NextPreserves == IInv /\ [Next]_vars => IInv'
<1> SUFFICES ASSUME IInv, [Next]_vars PROVE IInv'
  OBVIOUS
<1>1. CASE UNCHANGED vars
  <2>1. tickets' = tickets /\ files' = files /\ now' = now /\ txn' = txn
    BY <1>1 DEF vars, tables
  <2>2. ASSUME NEW v \in Workers
        PROVE  Sound(txn[v])'
    <3>1. Sound(txn'[v])
      BY <2>1 DEF IInv
    <3>2. \A t \in txn'[v].got : t \in Tickets /\ tickets'[t] = tickets[t]
      BY <2>1, <3>1 DEF Sound, Txn
    <3> QED BY <3>1, <3>2, StillSound
  <2> QED BY <2>1, <2>2 DEF IInv, TablesOK, TicketsHaveFiles, BlockedNeverHeld, RowsExclusive, Others
<1>2. CASE \E w \in Workers : Request(w)
  BY <1>2, RequestKeeps
<1>3. CASE \E w \in Workers : Statement(w)
  <2>1. PICK w \in Workers : Statement(w)
    BY <1>3
  <2> QED BY <2>1, TakeUserLockKeeps, TakeReserveLockKeeps, CheckDailyKeeps, CheckProcessingKeeps,
             ChooseGroupKeeps, PickBatchKeeps, PickOneKeeps, TryHintKeeps, ScanKeeps, LockRowKeeps,
             LoadFileKeeps, FindOverdueKeeps, CountTicketsKeeps, ReadFileKeeps, LockFileKeeps,
             CommitKeeps DEF Statement
<1>4. CASE \E w \in Workers : Abort(w)
  BY <1>4, IdleKeeps DEF Abort
<1>5. CASE \E f \in Files : ImportFile(f)
  BY <1>5, ImportFileKeeps
<1>6. CASE Tick
  BY <1>6, TickKeeps
<1> QED BY <1>1, <1>2, <1>3, <1>4, <1>5, <1>6 DEF Next

(* The inductive invariant, in every reachable state.                        *)
LEMMA InvariantHolds == Spec => []IInv
BY InitEstablishes, NextPreserves, PTL DEF Spec

(***************************************************************************)
(* Every row, counter and transaction record keeps its shape, whatever     *)
(* transactions run together; in particular no counter becomes negative.   *)
(***************************************************************************)
THEOREM TypeCorrect == Spec => []TypeOK
<1>1. IInv => TypeOK
  BY DEF IInv, TablesOK, TypeOK
<1> QED BY <1>1, InvariantHolds, PTL

(* Up to its commit, the rows a transaction writes stay as its statement     *)
(* required: what was read under the lock is not stale when it is used.      *)
THEOREM WrittenRowsMatch == Spec => []WrittenRowsStillMatch
<1>1. IInv => WrittenRowsStillMatch
  BY DEF IInv, Sound, WorkOK, Fits, WrittenRowsStillMatch
<1> QED BY <1>1, InvariantHolds, PTL

(* A user never holds a ticket of a type blocked for it, by the query, by a  *)
(* stale id of the Redis list, in a single hand-out or in a batch.           *)
THEOREM NobodyHoldsABlockedType == Spec => []BlockedNeverHeld
<1>1. IInv => BlockedNeverHeld
  BY DEF IInv, TablesOK
<1> QED BY <1>1, InvariantHolds, PTL

(* A mode-B batch is of one lottery type and one deadline, also when rows of *)
(* the chosen group were locked by others.                                   *)
THEOREM BatchesAreOfOneType == Spec => []BatchOfOneType
<1>1. IInv => BatchOfOneType
  BY DEF IInv, Sound, WorkOK, Suits, BatchOfOneType
<1> QED BY <1>1, InvariantHolds, PTL

(* What is left of a limit is a number, and never more than the wish. *)
LEMMA RemainingWithin ==
  ASSUME NEW limit \in Nat \cup {None}, NEW used \in Nat, NEW want \in Nat
  PROVE  Remaining(limit, used, want) \in Nat /\ Remaining(limit, used, want) <= want
BY DEF Remaining, AtMost, Less

(* The preview a mode-B client sees tells exactly which downloads would be   *)
(* served in full.                                                           *)
THEOREM PreviewIsHonest == Spec => []PreviewHonest
<1>1. IInv => PreviewHonest
  <2> SUFFICES ASSUME IInv, NEW u \in Users, NEW n \in 1..Cardinality(Tickets)
               PROVE  Served(u, n) = n <=> Preview(u) >= n
    BY DEF PreviewHonest
  <2> DEFINE S == Eligible(u, now)
             done == Cardinality(CompletedToday(u))
             busy == Cardinality(ProcessingOf(u))
             today == Remaining(DailyLimit[u], done, n)
             want == Remaining(MaxProcessing[u], busy, today)
             available == PreviewAvailable(S, Reserve)
             allowed == Remaining(MaxProcessing[u], busy, available)
  <2>1. S \in SUBSET Tickets
    BY DEF Eligible, Pending
  <2>2. n \in Nat \ {0}
    BY CardinalityInNat
  <2>3. done \in Nat /\ busy \in Nat
    <3>1. CompletedToday(u) \in SUBSET Tickets /\ ProcessingOf(u) \in SUBSET Tickets
      BY DEF CompletedToday, ProcessingOf
    <3> QED BY <3>1, SizeType
  <2>4. DailyLimit[u] \in Nat \cup {None} /\ MaxProcessing[u] \in Nat \cup {None}
    BY PoolAssumption
  <2>5. available \in Nat
    BY <2>1, PoolAssumption, PreviewIsNumber
  <2>6. Preview(u) >= n <=> /\ available >= n
                            /\ Remaining(MaxProcessing[u], busy, n) = n
                            /\ today = n
    <3>1. Preview(u) = Remaining(DailyLimit[u], done, allowed)
      BY DEF Preview
    <3> HIDE DEF available, done, busy
    <3>2. allowed \in Nat
      BY <2>3, <2>4, <2>5, RemainingWithin
    <3>3. allowed >= n <=> available >= n /\ Remaining(MaxProcessing[u], busy, n) = n
      BY <2>2, <2>3, <2>4, <2>5 DEF Remaining, AtMost, Less
    <3> HIDE DEF allowed
    <3>4. Remaining(DailyLimit[u], done, allowed) >= n <=> allowed >= n /\ today = n
      BY <2>2, <2>3, <2>4, <3>2 DEF Remaining, AtMost, Less
    <3> QED BY <3>1, <3>3, <3>4
  <2>7. Served(u, n) = BatchSize(S, Reserve, want)
    BY DEF Served
  <2>8. today \in Nat /\ today <= n /\ want \in Nat /\ want <= today
    <3> HIDE DEF done, busy
    <3>1. today \in Nat /\ today <= n
      BY <2>2, <2>3, <2>4, RemainingWithin
    <3> HIDE DEF today
    <3>2. want \in Nat /\ want <= today
      BY <2>3, <2>4, <3>1, RemainingWithin
    <3> QED BY <3>1, <3>2
  <2>9. BatchSize(S, Reserve, want) <= want /\ BatchSize(S, Reserve, want) \in Nat
    <3>1. want \in Nat
      BY <2>8
    <3> HIDE DEF S, want
    <3> QED BY <2>1, <3>1, PoolAssumption, BatchWithinWish
  <2>10. BatchSize(S, Reserve, n) = n <=> available >= n
    BY <2>1, <2>2, PoolAssumption, PreviewTellsWhatADownloadGets
  <2>11. CASE want = n
    <3>1. today = n /\ Remaining(MaxProcessing[u], busy, n) = n
      BY <2>2, <2>8, <2>11
    <3> QED BY <2>6, <2>7, <2>10, <2>11, <3>1
  <2>12. CASE want # n
    <3>1. Served(u, n) # n
      BY <2>2, <2>7, <2>8, <2>9, <2>12
    <3>2. ~ (today = n /\ Remaining(MaxProcessing[u], busy, n) = n)
      BY <2>12
    <3> QED BY <2>6, <3>1, <3>2
  <2> QED BY <2>11, <2>12
<1> QED BY <1>1, InvariantHolds, PTL

(* The pool a mode-B client is shown is the one its downloads are served     *)
(* from.                                                                     *)
THEOREM StatusIsHonest == Spec => []StatusHonest
<1>1. IInv => StatusHonest
  <2> SUFFICES ASSUME IInv, NEW u \in Users
               PROVE  LET status == ModeBStatus(u)
                          groups == DOMAIN status.by_type
                          items == {x \in groups \X (1..Cardinality(Tickets)) :
                                      x[2] <= status.by_type[x[1]]}
                      IN /\ Cardinality(items) = status.total_pending
                         /\ \A n \in 1..Cardinality(Tickets) :
                              LET batch == BatchSize(Eligible(u, now), Reserve, n)
                              IN batch <= status.total_pending /\ (batch = 0 <=> groups = {})
    BY DEF StatusHonest
  <2> DEFINE S == Eligible(u, now)
             total == Less(Cardinality(S), Reserve)
             shown == TrimForModeB(S, Reserve)
             items == ShownRows(S, Reserve)
  <2>1. S \in SUBSET Tickets /\ Reserve \in Nat
    BY PoolAssumption DEF Eligible, Pending
  <2>2. ModeBStatus(u).total_pending = total /\ ModeBStatus(u).by_type = shown
    BY DEF ModeBStatus
  <2>3. Cardinality(items) = total
    BY <2>1, StatusAddsUp
  <2>4. Cardinality(S) \in Nat /\ total \in Nat
    BY <2>1, SizeType DEF Less
  <2>5. total # 0 => DOMAIN shown # {}
    <3>1. SUFFICES ASSUME DOMAIN shown = {} PROVE total = 0
      OBVIOUS
    <3>2. items = {}
      BY <3>1 DEF ShownRows
    <3> QED BY <2>3, <3>2, FS_EmptySet
  <2>6. total = 0 => DOMAIN shown = {}
    <3> SUFFICES ASSUME total = 0, NEW g \in DOMAIN shown PROVE FALSE
      OBVIOUS
    <3>1. PICK t \in S : g = GroupIn(S, t)
      BY DEF TrimForModeB, GroupCounts
    <3>2. AtMost(Cardinality(g), Less(total, Cardinality(GroupsBefore(S, g)))) > 0
      BY DEF TrimForModeB
    <3>3. Cardinality(g) \in Nat /\ Cardinality(GroupsBefore(S, g)) \in Nat
      BY <2>1, <3>1, SizeType, RankByGroups DEF Size
    <3> HIDE DEF total
    <3> QED BY <3>2, <3>3 DEF AtMost, Less
  <2>7. ASSUME NEW n \in 1..Cardinality(Tickets)
        PROVE  LET batch == BatchSize(S, Reserve, n)
               IN batch <= total /\ (batch = 0 <=> total = 0)
    <3> DEFINE actual == AtMost(n, total)
               group == Cardinality(BatchGroup(S, actual))
    <3>1. n \in Nat \ {0}
      BY CardinalityInNat
    <3>2. actual \in Nat /\ actual <= total /\ (actual = 0 <=> total = 0)
      <4> HIDE DEF total
      <4> QED BY <2>4, <3>1 DEF AtMost
    <3>3. actual # 0 => group \in Nat \ {0}
      <4> SUFFICES ASSUME actual # 0 PROVE group \in Nat \ {0}
        OBVIOUS
      <4>1. S # {}
        <5>1. Cardinality(S) # 0
          BY <2>1, <2>4, <3>2 DEF Less
        <5> QED BY <5>1, FS_EmptySet
      <4> HIDE DEF S, actual
      <4>2. PICK t \in S : t \in BatchGroup(S, actual) /\ BatchGroup(S, actual) = GroupIn(S, t)
        BY <2>1, <3>2, <4>1, BatchGroupIsOneOfThePool
      <4>3. IsFiniteSet(BatchGroup(S, actual)) /\ group \in Nat
        <5>1. BatchGroup(S, actual) \in SUBSET Tickets
          BY <2>1, <4>2 DEF GroupIn
        <5> QED BY <5>1, SelectionAssumption, FS_Subset, FS_CardinalityType
      <4> QED BY <4>2, <4>3, FS_EmptySet
    <3>4. BatchSize(S, Reserve, n) = IF actual = 0 THEN 0 ELSE AtMost(actual, group)
      BY DEF BatchSize
    <3> HIDE DEF actual, group, total
    <3> QED BY <2>4, <3>2, <3>3, <3>4 DEF AtMost
  <2> HIDE DEF S, total, shown, items
  <2> QED BY <2>2, <2>3, <2>5, <2>6, <2>7 DEF ShownRows, S, items, shown
<1> QED BY <1>1, InvariantHolds, PTL

(* Where only mode-B requests close tickets, a device never closes another   *)
(* device's: the confirmation names the device and looks at the row again    *)
(* after waiting for it.  (A mode-A close does not.)                         *)
THEOREM ConfirmationsCloseOwnDevice ==
  ASSUME Kinds \cap {"next", "stop"} = {}
  PROVE  Spec => []ClosesOwnDevice
<1>1. IInv => ClosesOwnDevice
  <2> SUFFICES ASSUME IInv, NEW w \in Workers, Closing(txn[w]), NEW t \in txn[w].got
               PROVE  tickets[t].device = txn[w].device
    BY DEF ClosesOwnDevice
  <2>1. txn[w].kind = "confirm" /\ Fits(txn[w], t)
    BY SoundFacts DEF WorkOK, Closing
  <2>2. Match(txn[w], t) /\ Mine(txn[w], t)
    BY <2>1 DEF Fits, Match
  <2> QED BY <2>1, <2>2 DEF Mine
<1> QED BY <1>1, InvariantHolds, PTL

-----------------------------------------------------------------------------
(* The life cycle *)

(* A commit is one step of the life cycle, or changes no ticket.             *)
LEMMA CommitIsAMove ==
  ASSUME IInv, NEW w \in Workers, Commit(w)
  PROVE  [Lifecycle!Next]_tickets
<1> DEFINE r == txn[w]
           S == r.got
<1>1. Sound(r) /\ WorkOK(r)
  BY SoundFacts
<1>2. tickets' = [t \in Tickets |-> IF t \in S THEN NewTicket(r, t) ELSE tickets[t]]
  BY DEF Commit
<1>3. S \in SUBSET Tickets /\ \A t \in S : tickets[t] \in Lifecycle!TicketRow
  BY <1>1 DEF Sound, Txn, IInv, TablesOK
<1>4. CASE S = {}
  <2>1. tickets' = tickets
    BY <1>2, <1>4 DEF IInv, TablesOK
  <2> QED BY <2>1
<1> HIDE DEF r, S
<1>5. ASSUME S # {}, Closing(r)
      PROVE  Lifecycle!Next
  <2>1. \A t \in S : tickets[t].status = "assigned" /\ tickets[t].user = r.user
    BY <1>1, <1>5 DEF S, WorkOK, Fits, Match, Mine, Closing
  <2>2. \A t \in S : NewTicket(r, t) =
          [tickets[t] EXCEPT !.status = IF t \in r.done \cap S THEN "completed" ELSE "expired"]
    BY <1>5 DEF NewTicket, Closing, TooLate
  <2>3. r.user \in Users
    BY <1>1, <1>5 DEF WorkOK, Identified
  <2>4. Lifecycle!Close(S, r.done \cap S, r.user)
    BY <1>2, <1>5, <2>1, <2>2 DEF Lifecycle!Close, Lifecycle!Move
  <2> QED BY <1>3, <2>3, <2>4 DEF Lifecycle!Next
<1>6. ASSUME S # {}, r.kind = "expire" \/ (r.kind = "assign" /\ \A t \in S : TooLate(r, t))
      PROVE  Lifecycle!Next
  <2>1. \A t \in S : tickets[t].status = "pending"
    BY <1>1, <1>6 DEF S, WorkOK, Fits, Pending, Match, Overdue, Closing
  <2>2. \A t \in S : NewTicket(r, t) = [tickets[t] EXCEPT !.status = "expired"]
    BY <1>6 DEF NewTicket, Closing
  <2>3. Lifecycle!Expire(S)
    BY <1>2, <1>3, <1>6, <2>1, <2>2 DEF Lifecycle!Expire, Lifecycle!Move, Lifecycle!With
  <2> QED BY <1>3, <2>3 DEF Lifecycle!Next
<1>7. ASSUME S # {}, r.kind = "recycle"
      PROVE  Lifecycle!Next
  <2>1. \A t \in S : tickets[t].status = "assigned"
    BY <1>1, <1>7 DEF S, WorkOK, Fits, Match, Closing
  <2>2. \A t \in S : NewTicket(r, t) = [Lifecycle!Absent EXCEPT !.status = "pending"]
    <3> SUFFICES ASSUME NEW t \in S
                 PROVE  NewTicket(r, t) = [Lifecycle!Absent EXCEPT !.status = "pending"]
      OBVIOUS
    <3>1. NewTicket(r, t) = BackToPool(tickets[t])
      BY <1>7 DEF NewTicket, Closing, TooLate
    <3> DEFINE row == tickets[t]
               free == [status |-> "pending", user |-> None, device |-> None]
    <3>2. row \in Lifecycle!TicketRow
      BY <1>3
    <3> HIDE DEF row
    <3>3. BackToPool(row) = free
      <4> DEFINE back == BackToPool(row)
      <4>1. /\ back \in Lifecycle!TicketRow
            /\ back.status = "pending" /\ back.user = None /\ back.device = None
        BY <3>2 DEF BackToPool, Lifecycle!TicketRow, Lifecycle!TicketStatus, Lifecycle!ActiveStatus
      <4> HIDE DEF back
      <4>2. back = free
        BY <4>1 DEF Lifecycle!TicketRow
      <4> QED BY <4>2 DEF back
    <3>4. [Lifecycle!Absent EXCEPT !.status = "pending"] = free
      BY DEF Lifecycle!Absent
    <3> QED BY <3>1, <3>3, <3>4 DEF row
  <2>3. Lifecycle!Recycle(S)
    BY <1>2, <1>3, <1>7, <2>1, <2>2 DEF Lifecycle!Recycle, Lifecycle!Move, Lifecycle!With
  <2> QED BY <1>3, <2>3 DEF Lifecycle!Next
<1>8. ASSUME S # {}, r.kind = "revoke"
      PROVE  Lifecycle!Next
  <2>1. \A t \in S : tickets[t].status \in {"pending", "assigned"}
    BY <1>1, <1>8 DEF S, WorkOK, Fits, Match, Revocable, Closing
  <2>2. \A t \in S : NewTicket(r, t) = [tickets[t] EXCEPT !.status = "revoked"]
    BY <1>8 DEF NewTicket, Closing, TooLate
  <2>3. Lifecycle!Revoke(S)
    BY <1>2, <1>3, <1>8, <2>1, <2>2 DEF Lifecycle!Revoke, Lifecycle!Move, Lifecycle!With
  <2> QED BY <1>3, <2>3 DEF Lifecycle!Next
<1>9. ASSUME S # {}, r.kind \in {"assign", "download"}, \A t \in S : ~ TooLate(r, t)
      PROVE  Lifecycle!Next
  <2>1. \A t \in S : tickets[t].status = "pending"
    BY <1>1, <1>9 DEF S, WorkOK, Fits, Pending
  <2>2. \A t \in S :
          NewTicket(r, t) = [status |-> "assigned", user |-> r.user, device |-> r.device]
    BY <1>9 DEF NewTicket, Closing
  <2>3. r.user \in Users /\ r.device \in Devices
    BY <1>1, <1>9 DEF WorkOK, Identified
  <2>4. Lifecycle!HandOut(S, r.user, r.device)
    BY <1>2, <1>3, <1>9, <2>1, <2>2 DEF Lifecycle!HandOut, Lifecycle!Move, Lifecycle!With
  <2> QED BY <1>3, <2>3, <2>4 DEF Lifecycle!Next
<1>10. ASSUME S # {}
       PROVE  \/ Closing(r) \/ r.kind \in {"expire", "recycle", "revoke"}
              \/ r.kind = "assign" /\ \A t \in S : TooLate(r, t)
              \/ r.kind \in {"assign", "download"} /\ \A t \in S : ~ TooLate(r, t)
  <2>1. r.kind \in {"assign"} \cup AllKinds
    BY <1>1, <1>10, WrittenRowsPresent DEF S, Sound, Txn
  <2>2. r.kind # "import"
    BY <1>1, <1>10 DEF S, WorkOK, Fits, Match, Closing
  <2>3. r.kind = "assign" => \A s, t \in S : s = t
    BY <1>1 DEF S, WorkOK, Suits
  <2> QED BY <1>10, <2>1, <2>2, <2>3 DEF AllKinds, Closing, TooLate
<1> QED BY <1>4, <1>5, <1>6, <1>7, <1>8, <1>9, <1>10

(* So is the import of a file.                                               *)
LEMMA ImportIsAMove ==
  ASSUME IInv, NEW f \in Files, ImportFile(f)
  PROVE  [Lifecycle!Next]_tickets
<1> DEFINE status == IF f \notin NoDeadline /\ Deadline[f] <= now THEN "expired" ELSE "pending"
           S == TicketsOf(f)
<1>1. /\ files[f].status = "absent"
      /\ tickets' = [t \in Tickets |-> IF FileOf[t] = f
                                       THEN [Lifecycle!Absent EXCEPT !.status = status]
                                       ELSE tickets[t]]
  BY DEF ImportFile
<1>2. status \in {"pending", "expired"} /\ S \in SUBSET Tickets
  BY DEF TicketsOf
<1> HIDE DEF status
<1>3. \A t \in S : tickets[t].status = "absent"
  BY <1>1 DEF IInv, TablesOK, TicketsHaveFiles, TicketsOf
<1>4. CASE S = {}
  <2>1. tickets' = tickets
    BY <1>1, <1>4 DEF TicketsOf, IInv, TablesOK
  <2> QED BY <2>1
<1>5. CASE S # {}
  <2>1. tickets' = [t \in Tickets |-> IF t \in S THEN [Lifecycle!Absent EXCEPT !.status = status]
                                      ELSE tickets[t]]
    BY <1>1 DEF TicketsOf
  <2>2. Lifecycle!Import(S, status)
    BY <1>2, <1>3, <1>5, <2>1 DEF Lifecycle!Import, Lifecycle!Move, Lifecycle!With
  <2>3. status \in Lifecycle!TicketStatus
    BY <1>2 DEF Lifecycle!TicketStatus, Lifecycle!ActiveStatus, Lifecycle!FinalStatus
  <2> QED BY <1>2, <2>2, <2>3 DEF Lifecycle!Next
<1> QED BY <1>4, <1>5

(* No other statement touches a ticket.                                      *)
LEMMA OtherStepsStutter ==
  ASSUME Next, \A w \in Workers : ~ Commit(w), \A f \in Files : ~ ImportFile(f)
  PROVE  tickets' = tickets
<1>1. ASSUME NEW w, NEW q, Continue(w, q)
      PROVE  tickets' = tickets
  BY <1>1 DEF Continue, tables
<1>2. ASSUME NEW w \in Workers, Request(w)
      PROVE  tickets' = tickets
  BY <1>1, <1>2 DEF Request, NextTicket, StopReceiving, DownloadBatch, ConfirmBatch, RecycleTickets,
                    RevokeFile, ExpireOverdue, Receive
<1>3. ASSUME NEW w \in Workers, Statement(w)
      PROVE  tickets' = tickets
  <2>1. CASE TakeUserLock(w) \/ TakeReserveLock(w) \/ CheckDaily(w) \/ CheckProcessing(w)
             \/ ChooseGroup(w)
    BY <1>1, <2>1 DEF TakeUserLock, TakeReserveLock, CheckDaily, CheckProcessing, ChooseGroup
  <2>2. CASE PickBatch(w) \/ PickOne(w) \/ TryHint(w) \/ Scan(w) \/ LockRow(w)
    BY <1>1, <2>2 DEF PickBatch, PickOne, TryHint, Scan, LockRow
  <2>3. CASE LoadFile(w) \/ FindOverdue(w) \/ CountTickets(w) \/ ReadFile(w) \/ LockFile(w)
    BY <1>1, <2>3 DEF LoadFile, FindOverdue, CountTickets, ReadFile, LockFile
  <2> QED BY <1>3, <2>1, <2>2, <2>3 DEF Statement
<1>4. ASSUME NEW w \in Workers, Abort(w)
      PROVE  tickets' = tickets
  BY <1>1, <1>4 DEF Abort
<1> QED BY <1>2, <1>3, <1>4 DEF Next, Tick, tables

(***************************************************************************)
(* The committed tickets follow the life cycle of TicketLifecycle, however *)
(* requests, administrator operations, jobs and failures interleave: no    *)
(* ticket is handed out twice, closed by anyone but its user, taken back   *)
(* from a final status, or run out of time while somebody holds it.        *)
(***************************************************************************)
THEOREM PoolImplementsLifecycle == Spec => ImplementsLifecycle
<1>1. Init => Lifecycle!Init
  BY DEF Init
<1>2. IInv /\ [Next]_vars => [Lifecycle!Next]_tickets
  <2> SUFFICES ASSUME IInv, [Next]_vars PROVE [Lifecycle!Next]_tickets
    OBVIOUS
  <2>1. CASE UNCHANGED vars
    BY <2>1 DEF vars, tables
  <2>2. CASE \E w \in Workers : Commit(w)
    BY <2>2, CommitIsAMove
  <2>3. CASE \E f \in Files : ImportFile(f)
    BY <2>3, ImportIsAMove
  <2>4. CASE Next /\ (\A w \in Workers : ~ Commit(w)) /\ (\A f \in Files : ~ ImportFile(f))
    BY <2>4, OtherStepsStutter
  <2> QED BY <2>1, <2>2, <2>3, <2>4
<1> QED BY <1>1, <1>2, InvariantHolds, PTL DEF Spec, ImplementsLifecycle, Lifecycle!Spec
-----------------------------------------------------------------------------
(* Tickets without a deadline *)

(* A commit hands out and expires only tickets with a deadline; what it       *)
(* closes or recycles was not in the pool.                                    *)
LEMMA CommitLeavesUndated ==
  ASSUME IInv, NEW w \in Workers, Commit(w), NEW t \in Pending, ~ HasDeadline(t)
  PROVE  tickets'[t].status \in {"pending", "revoked"}
<1> DEFINE r == txn[w]
<1>1. Sound(r) /\ WorkOK(r)
  BY SoundFacts
<1>2. t \in Tickets /\ tickets[t].status = "pending" /\ tickets[t] \in Lifecycle!TicketRow
  BY DEF Pending, IInv, TablesOK
<1>3. tickets'[t] = IF t \in r.got THEN NewTicket(r, t) ELSE tickets[t]
  BY <1>2 DEF Commit
<1> HIDE DEF r
<1>4. CASE t \in r.got
  <2>1. Fits(r, t) /\ r.kind \notin {"assign", "download"}
    BY <1>1, <1>4 DEF WorkOK, Suits
  <2>2. r.kind = "revoke"
    BY <1>2, <2>1 DEF Fits, Match, Mine, Overdue
  <2>3. NewTicket(r, t) = [tickets[t] EXCEPT !.status = "revoked"]
    BY <2>2 DEF NewTicket, Closing, TooLate
  <2> QED BY <1>2, <1>3, <1>4, <2>3 DEF Lifecycle!TicketRow
<1> QED BY <1>2, <1>3, <1>4

(* Tickets whose file came without a readable deadline stay in the pool,     *)
(* whatever requests, jobs and stale ids of the Redis list come upon them,   *)
(* until they are revoked.                                                   *)
THEOREM UndatedTicketsStay == Spec => UndatedStays
<1>1. IInv /\ [Next]_vars =>
        [\A t \in Pending : ~ HasDeadline(t) => tickets'[t].status \in {"pending", "revoked"}]_vars
  <2> SUFFICES ASSUME IInv, [Next]_vars, vars' # vars, NEW t \in Pending, ~ HasDeadline(t)
               PROVE  tickets'[t].status \in {"pending", "revoked"}
    OBVIOUS
  <2>1. t \in Tickets /\ tickets[t].status = "pending"
    BY DEF Pending
  <2>2. CASE \E w \in Workers : Commit(w)
    BY <2>2, CommitLeavesUndated
  <2>3. CASE \E f \in Files : ImportFile(f)
    <3>1. PICK f \in Files : ImportFile(f)
      BY <2>3
    <3>2. FileOf[t] # f
      BY <2>1, <3>1 DEF ImportFile, IInv, TablesOK, TicketsHaveFiles
    <3>3. tickets'[t] = tickets[t]
      BY <2>1, <3>1, <3>2 DEF ImportFile
    <3> QED BY <2>1, <3>3
  <2>4. CASE Next /\ (\A w \in Workers : ~ Commit(w)) /\ (\A f \in Files : ~ ImportFile(f))
    BY <2>1, <2>4, OtherStepsStutter
  <2> QED BY <2>2, <2>3, <2>4
<1> QED BY <1>1, InvariantHolds, PTL DEF Spec, UndatedStays
=============================================================================
