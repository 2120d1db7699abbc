---------------------------- MODULE CounterProofs ----------------------------
(***************************************************************************)
(* The counters of a file are the numbers of its tickets, as long as the   *)
(* administrator operations and the expiry job run while nothing else does.*)
(*                                                                         *)
(* The argument: an assignment and a closing request add to and subtract   *)
(* from the row of every file they take tickets of, and each ticket they   *)
(* take has the status they subtract it from.  The other operations write  *)
(* the values they computed from what they loaded, before they had the     *)
(* row; nobody else commits meanwhile, and the import of a file concerns   *)
(* none of theirs, so what they loaded is still what the row says.         *)
(***************************************************************************)
EXTENDS RevocationProofs

Maintains(r) == r.kind \in {"recycle", "revoke", "expire"}

(* Where a transaction has all the tickets it writes and turns to files.     *)
Filing == {"read", "files", "commit"}

(* What it loaded of its files is still what their rows say.                 *)
RowsLoaded(r) ==
  \A f \in r.scope : /\ files[f].status # "absent"
                     /\ f \notin r.unread => r.snap[f] = CountersOf(files[f])

(* The expiry job noted every file with an overdue ticket.                   *)
OverdueNoted(r) ==
  /\ \A t \in Tickets : Overdue(t, r.clock) => FileOf[t] \in r.scope
  /\ \A f \in r.scope : files[f].status # "absent"

(* What it counted is what the tickets will be once it has committed.        *)
CountedIn(r, f, status) ==
  Cardinality({t \in TicketsOf(f) :
                 (IF t \in r.got THEN "expired" ELSE tickets[t].status) = status})

Counted(r) ==
  \A f \in r.scope :
    r.count[f] = [pending |-> CountedIn(r, f, "pending"),
                  assigned |-> CountedIn(r, f, "assigned"),
                  completed |-> CountedIn(r, f, "completed")]

(* It has the files of its tickets, and the right values to write to them.   *)
Prepared(r) ==
  /\ r.kind \notin {"revoke", "expire"} => FilesOf(r.got) \subseteq r.scope
  /\ Maintains(r) => RowsLoaded(r)
  /\ r.kind = "expire" => OverdueNoted(r) /\ Counted(r)

Ready(r) ==
  /\ r.pc = "count" => r.kind = "expire"
  /\ r.pc \in {"scan", "rows"} => Closing(r) \/ Maintains(r)
  /\ r.pc \in Filing \/ (r.kind = "revoke" /\ r.pc # "load") => Prepared(r)
  /\ r.kind = "revoke" => r.cand \cup r.got \subseteq r.ids
  /\ r.kind = "expire" => r.clock <= now /\ (r.pc # "load" => OverdueNoted(r))
  /\ Maintains(r) /\ r.pc = "commit" => r.scope \cap r.unread = {}

AllReady == \A w \in Workers : Ready(txn[w])

CntInv == CountersExact /\ AllReady

-----------------------------------------------------------------------------
(* Steps that change no row *)

(* A step that changes no row keeps it if the worker's record is ready.      *)
LEMMA ContinueCounts ==
  ASSUME IInv, CntInv, NEW w \in Workers, NEW q, Continue(w, q), Ready(q)
  PROVE  CntInv'
<1>1. UNCHANGED <<tickets, files, now>>
  BY DEF Continue, tables
<1>2. \A v \in Workers : txn'[v] = IF v = w THEN q ELSE txn[v]
  BY DEF Continue, IInv
<1>3. ASSUME NEW v \in Workers
      PROVE  Ready(txn[v])'
  <2>1. Ready(txn'[v])
    BY <1>2 DEF CntInv, AllReady
  <2> QED BY <1>1, <2>1 DEF Ready, Prepared, RowsLoaded, OverdueNoted, Counted, CountedIn,
                            CountersOf, Overdue, Maintains, Closing
<1>4. CountersExact'
  BY <1>1 DEF CntInv, CountersExact, CountedAs
<1> QED BY <1>3, <1>4 DEF CntInv, AllReady

(* A worker goes on, with a record that is ready whatever the rows are.      *)
Proceeds(w) == \E q : Continue(w, q) /\ Ready(q)

(* That keeps it.                                                            *)
LEMMA ProceedsCounts ==
  ASSUME IInv, CntInv, NEW w \in Workers, Proceeds(w)
  PROVE  CntInv'
BY ContinueCounts DEF Proceeds

(* An assignment that has no tickets yet, and an idle worker, are ready.     *)
LEMMA EarlyReady ==
  ASSUME NEW q, q.kind \in {"assign", "download", "none"}, q.pc \in Early \cup {"idle"}
  PROVE  Ready(q)
BY DEF Ready, Early, Filing, Maintains, Closing

(* The end of a request is ready for the next one.                           *)
LEMMA IdleReady == Ready(Idle)
<1>1. Idle.kind = "none" /\ Idle.pc = "idle"
  BY DEF Idle
<1> QED BY <1>1, EarlyReady

(* The same request, with the same tickets and the same view of its files.   *)
SameBooks(q, r) ==
  /\ q.kind = r.kind /\ q.ids = r.ids /\ q.clock = r.clock
  /\ q.cand = r.cand /\ q.got = r.got
  /\ q.scope = r.scope /\ q.unread = r.unread /\ q.snap = r.snap /\ q.count = r.count

(* It is then as well prepared.                                              *)
LEMMA SameBooksPrepared ==
  ASSUME NEW r, Prepared(r), NEW q, SameBooks(q, r)
  PROVE  Prepared(q)
BY DEF SameBooks, Prepared, Maintains, RowsLoaded, OverdueNoted, Counted, CountedIn

(* Where a transaction goes with its files.                                  *)
LEMMA ToFilesBooks ==
  ASSUME NEW r \in Txn
  PROVE  /\ SameBooks(ToFiles(r), r)
         /\ \/ ToFiles(r).pc \in {"files", "read"}
            \/ ToFiles(r).pc = "scan" /\ (Closing(r) \/ r.kind = "revoke")
            \/ ToFiles(r).pc = "commit" /\ r.unread = {}
<1>1. \A p : SameBooks([r EXCEPT !.pc = p], r) /\ [r EXCEPT !.pc = p].pc = p
  BY DEF SameBooks, Txn
<1>2. /\ SameBooks([r EXCEPT !.pc = "scan", !.stage = 2], r)
      /\ [r EXCEPT !.pc = "scan", !.stage = 2].pc = "scan"
  BY DEF SameBooks, Txn
<1>3. CASE r.unread # {}
  <2>1. AfterFiles(r) = [r EXCEPT !.pc = "read"]
    BY <1>3 DEF AfterFiles
  <2> QED BY <1>1, <2>1 DEF ToFiles
<1>4. CASE r.unread = {}
  <2>1. AfterFiles(r) =
          IF Closing(r) /\ r.stage = 1 THEN [r EXCEPT !.pc = "scan", !.stage = 2]
          ELSE IF r.kind = "revoke" THEN [r EXCEPT !.pc = "scan"]
          ELSE [r EXCEPT !.pc = "commit"]
    BY <1>4 DEF AfterFiles, Closing
  <2> QED BY <1>1, <1>2, <1>4, <2>1 DEF ToFiles
<1> QED BY <1>3, <1>4

(* A prepared transaction goes on to its files, and to the commit only when  *)
(* it has loaded them all.                                                   *)
LEMMA ToFilesReady ==
  ASSUME NEW r \in Txn, Prepared(r),
         r.kind = "revoke" => r.cand \cup r.got \subseteq r.ids,
         r.kind = "expire" => r.clock <= now
  PROVE  Ready(ToFiles(r))
<1> DEFINE q == ToFiles(r)
<1>1. SameBooks(q, r) /\ Prepared(q)
  BY ToFilesBooks, SameBooksPrepared
<1>2. \/ q.pc \in {"files", "read"}
      \/ q.pc = "scan" /\ (Closing(q) \/ Maintains(q))
      \/ q.pc = "commit" /\ q.unread = {}
  BY <1>1, ToFilesBooks DEF SameBooks, Closing, Maintains
<1> HIDE DEF q
<1>3. q.kind = "revoke" => q.cand \cup q.got \subseteq q.ids
  BY <1>1 DEF SameBooks
<1>4. q.kind = "expire" => q.clock <= now /\ OverdueNoted(q)
  BY <1>1 DEF SameBooks, Prepared
<1> QED BY <1>1, <1>2, <1>3, <1>4 DEF Ready, q

(* A request begins with its files still to be found.                        *)
LEMMA FreshReady ==
  ASSUME NEW q, q.pc \notin {"count", "rows"} \cup Filing,
         q.pc = "scan" => Closing(q) \/ Maintains(q),
         q.kind = "revoke" => q.pc = "load" /\ q.cand = {} /\ q.got = {},
         q.kind = "expire" => q.pc = "load" /\ q.clock <= now
  PROVE  Ready(q)
<1>1. ~ (Maintains(q) /\ q.pc = "commit")
  BY DEF Filing
<1>2. ~ (q.pc \in Filing \/ (q.kind = "revoke" /\ q.pc # "load"))
  OBVIOUS
<1> QED BY <1>1, <1>2 DEF Ready

(* Every request begins ready.                                               *)
LEMMA RequestProceeds ==
  ASSUME IInv, NEW w \in Workers, Request(w)
  PROVE  Proceeds(w)
<1>1. ASSUME NEW u \in Users, NEW d \in Devices, NextTicket(w, u, d) \/ StopReceiving(w, u, d)
      PROVE  Proceeds(w)
  <2>1. \A k \in {"next", "stop"} : \A t, done : Ready(ClosingCurrent(k, u, d, t, done))
    <3> SUFFICES ASSUME NEW k \in {"next", "stop"}, NEW t, NEW done
                 PROVE  Ready(ClosingCurrent(k, u, d, t, done))
      OBVIOUS
    <3> DEFINE q == ClosingCurrent(k, u, d, t, done)
    <3>1. q.kind = k /\ q.pc = "scan"
      BY DEF ClosingCurrent, Idle
    <3> HIDE DEF q
    <3>2. Ready(q)
      BY <3>1, FreshReady DEF Filing, Closing
    <3> QED BY <3>2 DEF q
  <2>2. Ready(Assigning(u, d))
    <3>1. Assigning(u, d).kind = "assign" /\ Assigning(u, d).pc \in Early
      BY DEF Assigning, Idle, Early
    <3> QED BY <3>1, EarlyReady
  <2>3. \/ Continue(w, Assigning(u, d))
        \/ \E t, done : Continue(w, ClosingCurrent("next", u, d, t, done))
        \/ \E t, done : Continue(w, ClosingCurrent("stop", u, d, t, done))
    BY <1>1 DEF NextTicket, StopReceiving, Receive
  <2> QED BY <2>1, <2>2, <2>3 DEF Proceeds
<1>2. ASSUME NEW u \in Users, NEW d \in Devices, NEW n \in 1..MaxBatch, DownloadBatch(w, u, d, n)
      PROVE  Proceeds(w)
  <2> DEFINE q == [Idle EXCEPT !.kind = "download", !.pc = "user lock",
                               !.user = u, !.device = d, !.want = n]
  <2>1. q.kind = "download" /\ q.pc \in Early
    BY DEF Idle, Early
  <2>2. Continue(w, q)
    BY <1>2 DEF DownloadBatch, Receive
  <2> HIDE DEF q
  <2> QED BY <2>1, <2>2, EarlyReady DEF Proceeds
<1>3. ASSUME NEW u \in Users, NEW d \in Devices, NEW ids, NEW done, ConfirmBatch(w, u, d, ids, done)
      PROVE  Proceeds(w)
  <2> DEFINE q == [Idle EXCEPT !.kind = "confirm", !.pc = "scan", !.user = u,
                               !.device = d, !.ids = ids, !.done = done]
  <2>1. q.kind = "confirm" /\ q.pc = "scan" /\ Continue(w, q)
    BY <1>3 DEF ConfirmBatch, Receive, Idle
  <2> HIDE DEF q
  <2>2. Ready(q)
    BY <2>1, FreshReady DEF Filing, Closing
  <2> QED BY <2>1, <2>2 DEF Proceeds
<1>4. ASSUME NEW ids, RecycleTickets(w, ids)
      PROVE  Proceeds(w)
  <2> DEFINE q == [Idle EXCEPT !.kind = "recycle", !.pc = "scan", !.ids = ids]
  <2>1. q.kind = "recycle" /\ q.pc = "scan" /\ Continue(w, q)
    BY <1>4 DEF RecycleTickets, Receive, Idle
  <2> HIDE DEF q
  <2>2. Ready(q)
    BY <2>1, FreshReady DEF Filing, Maintains
  <2> QED BY <2>1, <2>2 DEF Proceeds
<1>5. ASSUME NEW f \in Files, RevokeFile(w, f)
      PROVE  Proceeds(w)
  <2> DEFINE q == [Idle EXCEPT !.kind = "revoke", !.pc = "load", !.ids = TicketsOf(f),
                               !.scope = {f}]
  <2>1. q.kind = "revoke" /\ q.pc = "load" /\ q.cand = {} /\ q.got = {} /\ Continue(w, q)
    BY <1>5 DEF RevokeFile, Receive, Idle
  <2> HIDE DEF q
  <2>2. Ready(q)
    BY <2>1, FreshReady DEF Filing
  <2> QED BY <2>1, <2>2 DEF Proceeds
<1>6. CASE ExpireOverdue(w)
  <2> DEFINE q == [Idle EXCEPT !.kind = "expire", !.pc = "load", !.clock = now]
  <2>1. q.kind = "expire" /\ q.pc = "load" /\ q.clock = now /\ Continue(w, q)
    BY <1>6 DEF ExpireOverdue, Receive, Idle
  <2>2. now \in Nat
    BY DEF IInv, TablesOK
  <2> HIDE DEF q
  <2>3. Ready(q)
    BY <2>1, <2>2, FreshReady DEF Filing
  <2> QED BY <2>1, <2>3 DEF Proceeds
<1> QED BY <1>1, <1>2, <1>3, <1>4, <1>5, <1>6 DEF Request

(* An assignment that takes tickets takes their files.                       *)
LEMMA TakeReady ==
  ASSUME NEW r \in Txn, r.kind \in {"assign", "download"}, NEW S \in SUBSET Tickets
  PROVE  Ready(Take(r, S))
<1> DEFINE q == [r EXCEPT !.held = @ \cup S, !.got = S, !.scope = FilesOf(S)]
<1>1. q \in Txn
  BY FilesOfType DEF Txn
<1>2. q.kind = r.kind /\ q.got = S /\ q.scope = FilesOf(S)
  BY DEF Txn
<1>3. Take(r, S) = ToFiles(q)
  BY DEF Take
<1> HIDE DEF q
<1>4. Prepared(q)
  BY <1>2 DEF Prepared, Maintains
<1> QED BY <1>1, <1>2, <1>3, <1>4, ToFilesReady

(* Another round begins ready.                                               *)
LEMMA RetryReady ==
  ASSUME NEW r \in Txn, r.kind = "assign"
  PROVE  Ready(Retry(r))
<1> DEFINE q == [r EXCEPT !.tries = @ + 1, !.pc = "pick", !.cand = {}]
<1>1. q.kind = "assign" /\ q.pc = "pick"
  BY DEF Txn
<1>2. Retry(r) = q \/ Retry(r) = Idle
  BY DEF Retry
<1> HIDE DEF q
<1>3. "pick" \in Early
  BY DEF Early
<1>4. Ready(q)
  BY <1>1, <1>3, EarlyReady
<1> QED BY <1>2, <1>4, IdleReady DEF q

(* So does every statement before the choice of rows.                        *)
LEMMA EarlyProceeds ==
  ASSUME IInv, NEW w \in Workers,
         \/ TakeUserLock(w) \/ TakeReserveLock(w) \/ CheckDaily(w) \/ CheckProcessing(w)
         \/ ChooseGroup(w) \/ PickBatch(w) \/ PickOne(w) \/ TryHint(w)
  PROVE  Proceeds(w)
<1> DEFINE r == txn[w]
<1>1. r \in Txn /\ r.pc \in Early
  BY SoundFacts DEF TakeUserLock, TakeReserveLock, CheckDaily, CheckProcessing, ChooseGroup,
                    PickBatch, PickOne, TryHint, Early
<1>2. r.kind \in {"assign", "download"}
  BY <1>1, SoundFacts
<1>3. CASE Continue(w, Idle)
  BY <1>3, IdleReady DEF Proceeds
<1>4. ASSUME NEW q, Continue(w, q), q.kind = r.kind, q.pc \in Early
      PROVE  Proceeds(w)
  BY <1>2, <1>4, EarlyReady DEF Proceeds
<1>5. CASE TakeUserLock(w) \/ TakeReserveLock(w)
  <2> DEFINE locked(p) == [r EXCEPT !.advisory = @ \cup {"user"}, !.pc = p]
             batch == [r EXCEPT !.advisory = @ \cup {"reserve"}, !.pc = "daily", !.clock = now]
  <2>1. /\ \A p : locked(p).kind = r.kind /\ locked(p).pc = p
        /\ batch.kind = r.kind /\ batch.pc = "daily"
    BY <1>1 DEF Txn
  <2>2. (\E p \in Early : Continue(w, locked(p))) \/ Continue(w, batch)
    BY <1>5 DEF TakeUserLock, TakeReserveLock, Early
  <2>3. "daily" \in Early
    BY DEF Early
  <2> HIDE DEF locked, batch
  <2> QED BY <1>4, <2>1, <2>2, <2>3
<1>6. CASE CheckDaily(w) \/ CheckProcessing(w) \/ ChooseGroup(w)
  <2> DEFINE cut(n, p) == [r EXCEPT !.want = n, !.pc = p]
             chosen(ids, n) == [r EXCEPT !.ids = ids, !.want = n, !.pc = "pick"]
  <2>1. /\ \A n, p : cut(n, p).kind = r.kind /\ cut(n, p).pc = p
        /\ \A ids, n : chosen(ids, n).kind = r.kind /\ chosen(ids, n).pc = "pick"
    BY <1>1 DEF Txn
  <2>2. \/ Continue(w, Idle)
        \/ \E n : \E p \in Early : Continue(w, cut(n, p))
        \/ \E ids, n : Continue(w, chosen(ids, n))
    BY <1>6 DEF CheckDaily, CheckProcessing, ChooseGroup, Early
  <2>3. "pick" \in Early
    BY DEF Early
  <2> HIDE DEF cut, chosen
  <2> QED BY <1>3, <1>4, <2>1, <2>2, <2>3
<1>7. CASE PickBatch(w)
  <2>1. \A S : LowestIds(S, r.want) \subseteq S
    BY DEF LowestIds
  <2>2. Continue(w, Idle) \/ \E S \in SUBSET Tickets : Continue(w, Take(r, S))
    BY <1>1, <1>7, <2>1 DEF PickBatch, Pending
  <2> QED BY <1>1, <1>2, <1>3, <2>2, TakeReady DEF Proceeds
<1>8. CASE PickOne(w)
  <2> DEFINE q == [r EXCEPT !.clock = now]
             hint(t) == [r EXCEPT !.clock = now, !.pc = "hint", !.cand = {t}]
  <2>1. q \in Txn /\ q.kind = r.kind
    BY <1>1 DEF Txn, IInv, TablesOK
  <2>2. /\ \A t : hint(t).kind = r.kind /\ hint(t).pc = "hint"
        /\ "hint" \in Early
    BY <1>1 DEF Txn, Early
  <2>3. \/ Continue(w, Idle) \/ \E t : Continue(w, hint(t))
        \/ \E S \in SUBSET Tickets : Continue(w, Take(q, S))
    <3> DEFINE free == {t \in Eligible(r.user, now) : RowFree(w, t)}
    <3>1. free # {} => Earliest(free) \in Tickets
      <4>1. free \subseteq Tickets
        BY DEF Eligible, Pending
      <4> HIDE DEF free
      <4> QED BY <4>1, EarliestIsFirst
    <3> QED BY <1>8, <3>1 DEF PickOne
  <2> HIDE DEF q, hint
  <2> QED BY <1>2, <1>3, <1>4, <2>1, <2>2, <2>3, TakeReady DEF Proceeds
<1>9. CASE TryHint(w)
  <2>1. r.kind = "assign"
    BY <1>9, SoundFacts DEF TryHint, Sound
  <2>2. PICK t \in r.cand :
          \/ Continue(w, Retry(r))
          \/ Continue(w, Retry([r EXCEPT !.held = @ \cup {t}]))
          \/ Continue(w, Take([r EXCEPT !.cand = {}], {t}))
          \/ Continue(w, Restart(r))
    BY <1>9 DEF TryHint
  <2>3. /\ [r EXCEPT !.held = @ \cup {t}] \in Txn /\ [r EXCEPT !.cand = {}] \in Txn
        /\ [r EXCEPT !.held = @ \cup {t}].kind = r.kind /\ [r EXCEPT !.cand = {}].kind = r.kind
        /\ t \in Tickets
    BY <1>1, <2>2 DEF Txn
  <2>4. Ready(Restart(r)) /\ ~ Maintains(Restart(r))
    <3>1. r.user \in Users /\ r.device \in Devices /\ r.tries \in Nat
      BY <1>1, <1>9, SoundFacts DEF TryHint, Txn, Early
    <3> QED BY <3>1, RestartForm, RetryReady, KindStays DEF Maintains
  <2> QED BY <1>1, <2>1, <2>2, <2>3, <2>4, RetryReady, TakeReady DEF Proceeds
<1> QED BY <1>5, <1>6, <1>7, <1>8, <1>9

-----------------------------------------------------------------------------
(* Statements that find rows and lock them one by one *)

(* What a transaction that looks for its rows relies on.                     *)
Searching(r) ==
  /\ Closing(r) \/ Maintains(r)
  /\ r.kind = "revoke" => Prepared(r) /\ r.unread = {} /\ r.cand \cup r.got \subseteq r.ids
  /\ r.kind = "expire" => OverdueNoted(r) /\ r.clock <= now

(* A ticket that is there has a file that is there.                          *)
LEMMA FilePresent ==
  ASSUME IInv, NEW t \in Tickets, tickets[t].status # "absent"
  PROVE  FileOf[t] \in Files /\ files[FileOf[t]].status # "absent"
BY SelectionAssumption DEF IInv, TablesOK, TicketsHaveFiles

(* It goes on to the files of the rows it has locked.                        *)
LEMMA AfterRowsReady ==
  ASSUME IInv, NEW r \in Txn, WorkOK(r), Searching(r)
  PROVE  Ready(AfterRows(r))
<1> DEFINE F == FilesOf(r.got)
<1>1. F \in SUBSET Files
  BY FilesOfType DEF Txn
<1>2. CASE Closing(r)
  <2> DEFINE q == [r EXCEPT !.scope = F]
  <2>1. q \in Txn /\ q.kind = r.kind /\ q.got = r.got /\ q.scope = F
    BY <1>1 DEF Txn
  <2>2. AfterRows(r) = ToFiles(q)
    BY <1>2 DEF AfterRows, Closing
  <2>3. Prepared(q) /\ q.kind \notin {"revoke", "expire"}
    <3> HIDE DEF q
    <3> QED BY <1>2, <2>1 DEF Prepared, Closing, Maintains
  <2> HIDE DEF q
  <2> QED BY <2>1, <2>2, <2>3, ToFilesReady
<1>3. CASE r.kind = "recycle"
  <2> DEFINE q == [r EXCEPT !.pc = "read", !.scope = F, !.unread = F]
  <2>1. /\ q.kind = r.kind /\ q.pc = "read" /\ q.got = r.got /\ q.scope = F /\ q.unread = F
    BY DEF Txn
  <2>2. AfterRows(r) = q \/ AfterRows(r) = Idle
    BY <1>3 DEF AfterRows, Closing
  <2>3. \A f \in F : files[f].status # "absent"
    <3>1. \A t \in r.got : t \in Tickets /\ tickets[t].status = "assigned"
      BY <1>3 DEF Txn, WorkOK, Fits, Match, Closing
    <3> QED BY <3>1, FilePresent DEF FilesOf
  <2> HIDE DEF q, F
  <2>4. Prepared(q)
    BY <1>3, <2>1, <2>3 DEF Prepared, RowsLoaded, F
  <2>5. Ready(q)
    BY <1>3, <2>1, <2>4 DEF Ready
  <2> QED BY <2>2, <2>5, IdleReady
<1>4. CASE r.kind = "revoke"
  <2> DEFINE q == [r EXCEPT !.pc = "commit"]
  <2>1. q.pc = "commit" /\ SameBooks(q, r)
    BY DEF SameBooks, Txn
  <2>2. AfterRows(r) = q
    BY <1>4 DEF AfterRows, Closing
  <2> HIDE DEF q
  <2>3. Prepared(q)
    BY <1>4, <2>1, SameBooksPrepared DEF Searching
  <2>4. q.kind = "revoke" /\ q.unread = {} /\ q.cand \cup q.got \subseteq q.ids
    BY <1>4, <2>1 DEF Searching, SameBooks
  <2>5. Ready(q)
    BY <2>1, <2>3, <2>4 DEF Ready
  <2> QED BY <2>2, <2>5
<1>5. CASE r.kind = "expire"
  <2> DEFINE q == [r EXCEPT !.pc = "count"]
  <2>1. q.pc = "count" /\ SameBooks(q, r)
    BY DEF SameBooks, Txn
  <2>2. AfterRows(r) = q
    BY <1>5 DEF AfterRows, Closing
  <2> HIDE DEF q
  <2>3. q.kind = "expire" /\ OverdueNoted(q) /\ q.clock <= now
    BY <1>5, <2>1 DEF Searching, SameBooks, OverdueNoted
  <2>4. Ready(q)
    BY <2>1, <2>3 DEF Ready, Filing
  <2> QED BY <2>2, <2>4
<1> QED BY <1>2, <1>3, <1>4, <1>5 DEF Searching, Maintains

(* Where a transaction looks for its rows, it is so.                         *)
LEMMA ReadyToSearch ==
  ASSUME IInv, RevInv, CntInv, NEW w \in Workers, txn[w].pc \in {"scan", "rows"}
  PROVE  Searching(txn[w])
<1> DEFINE r == txn[w]
<1>1. Ready(r) /\ Revokes(r)
  BY DEF CntInv, AllReady, RevInv
<1>2. r.pc \in {"scan", "rows"}
  OBVIOUS
<1> HIDE DEF r
<1>3. r.kind = "revoke" => Prepared(r) /\ r.unread = {} /\ r.cand \cup r.got \subseteq r.ids
  BY <1>1, <1>2 DEF Ready, Revokes, RevokesOneFile
<1>4. r.kind = "expire" => OverdueNoted(r) /\ r.clock <= now
  BY <1>1, <1>2 DEF Ready
<1> QED BY <1>1, <1>2, <1>3, <1>4 DEF Ready, Searching, r

(* As long as it looks for rows, it stays so.                                *)
LEMMA SearchingReady ==
  ASSUME NEW q, Searching(q), q.pc = "rows"
  PROVE  Ready(q)
<1>1. q.pc \notin Filing \cup {"count", "commit"}
  BY DEF Filing
<1> QED BY <1>1 DEF Ready, Searching

(* The statement finds its rows.                                             *)
LEMMA ScanCounts ==
  ASSUME IInv, RevInv, CntInv, NEW w \in Workers, Scan(w)
  PROVE  CntInv'
<1> DEFINE r == txn[w]
           found == {t \in Target(r) : Match(r, t)}
           q == [r EXCEPT !.pc = "rows", !.cand = found]
<1>1. r \in Txn /\ WorkOK(r) /\ Searching(r)
  BY SoundFacts, ReadyToSearch DEF Scan
<1>2. Continue(w, q) \/ Continue(w, AfterRows(r))
  BY DEF Scan
<1>3. r.kind = "revoke" => found \subseteq r.ids
  BY RevokeMatches
<1>4. /\ q.kind = r.kind /\ q.pc = "rows" /\ q.cand = found /\ q.ids = r.ids /\ q.clock = r.clock
      /\ q.got = r.got /\ q.scope = r.scope /\ q.unread = r.unread /\ q.snap = r.snap
  BY <1>1 DEF Txn
<1> HIDE DEF q, found, r
<1>5. Searching(q)
  BY <1>1, <1>3, <1>4 DEF Searching, Closing, Maintains, Prepared, RowsLoaded, OverdueNoted
<1>6. Ready(q) /\ Ready(AfterRows(r))
  BY <1>1, <1>4, <1>5, SearchingReady, AfterRowsReady
<1> QED BY <1>2, <1>6, ContinueCounts

(* It locks one of them.                                                     *)
LEMMA LockRowCounts ==
  ASSUME IInv, RevInv, CntInv, NEW w \in Workers, LockRow(w)
  PROVE  CntInv'
<1> DEFINE r == txn[w]
<1>1. r \in Txn /\ WorkOK(r) /\ Searching(r) /\ r.pc = "rows"
  BY SoundFacts, ReadyToSearch DEF LockRow
<1>2. PICK t \in r.cand : Continue(w, AfterRows(Locked(r, t))) \/ Continue(w, Locked(r, t))
  BY DEF LockRow
<1> DEFINE q == Locked(r, t)
<1>3. q \in Txn /\ WorkOK(q)
  BY <1>1, LockedOK
<1>4. /\ q.kind = r.kind /\ q.pc = "rows" /\ q.ids = r.ids /\ q.clock = r.clock
      /\ q.cand = r.cand \ {t} /\ q.got \subseteq r.got \cup {t}
      /\ q.scope = r.scope /\ q.unread = r.unread /\ q.snap = r.snap
  BY <1>1 DEF Locked, Txn
<1>5. Continue(w, q) \/ Continue(w, AfterRows(q))
  BY <1>2
<1> HIDE DEF q, r
<1>6. Searching(q)
  BY <1>1, <1>4 DEF Searching, Closing, Maintains, Prepared, RowsLoaded, OverdueNoted
<1>7. Ready(q) /\ Ready(AfterRows(q))
  BY <1>3, <1>4, <1>6, SearchingReady, AfterRowsReady
<1> QED BY <1>5, <1>7, ContinueCounts

-----------------------------------------------------------------------------
(* Counters of uploaded_files *)

(* A file a revocation loads is the one it works on.                         *)
LEMMA LoadFileCounts ==
  ASSUME IInv, RevInv, CntInv, NEW w \in Workers, LoadFile(w)
  PROVE  CntInv'
<1> DEFINE r == txn[w]
<1>1. r \in Txn /\ r.kind = "revoke" /\ RevokesOneFile(r) /\ r.cand \cup r.got \subseteq r.ids
  BY SoundFacts DEF LoadFile, RevInv, Revokes, CntInv, AllReady, Ready
<1>2. CASE Continue(w, Idle)
  BY <1>2, IdleReady, ContinueCounts
<1>3. ASSUME NEW f \in r.scope, Continue(w, ToFiles([r EXCEPT !.snap[f] = CountersOf(files[f])]))
      PROVE  CntInv'
  <2> DEFINE q == [r EXCEPT !.snap[f] = CountersOf(files[f])]
  <2>1. f \in Files
    BY <1>1 DEF Txn
  <2>2. CountersOf(files[f]) \in Counters
    BY <2>1, CountersOfType
  <2>3. /\ q \in Txn /\ q.kind = r.kind /\ q.scope = r.scope /\ q.ids = r.ids
        /\ q.cand = r.cand /\ q.got = r.got /\ q.unread = r.unread
        /\ q.snap[f] = CountersOf(files[f])
    BY <1>1, <2>1, <2>2 DEF Txn
  <2>4. Continue(w, ToFiles(q))
    BY <1>3
  <2> HIDE DEF q, r
  <2>5. r.scope = {f} /\ files[f].status # "absent"
    BY <1>1, <1>3 DEF RevokesOneFile
  <2>6. RowsLoaded(q)
    BY <2>3, <2>5 DEF RowsLoaded
  <2>7. Prepared(q)
    BY <1>1, <2>3, <2>6 DEF Prepared
  <2>8. Ready(ToFiles(q))
    BY <1>1, <2>3, <2>7, ToFilesReady
  <2> QED BY <2>4, <2>8, ContinueCounts
<1> QED BY <1>2, <1>3 DEF LoadFile

(* The expiry job notes the files of the overdue tickets.                    *)
LEMMA FindOverdueCounts ==
  ASSUME IInv, CntInv, NEW w \in Workers, FindOverdue(w)
  PROVE  CntInv'
<1> DEFINE r == txn[w]
           F == FilesOf({t \in Tickets : Overdue(t, r.clock)})
           q == [r EXCEPT !.pc = "scan", !.scope = F]
<1>1. r \in Txn /\ r.kind = "expire" /\ r.clock <= now
  BY SoundFacts DEF FindOverdue, CntInv, AllReady, Ready
<1>2. Continue(w, q)
  BY DEF FindOverdue
<1>3. q.kind = "expire" /\ q.pc = "scan" /\ q.scope = F /\ q.clock = r.clock
  BY <1>1 DEF Txn
<1>4. \A f \in F : files[f].status # "absent"
  <2>1. \A t \in Tickets : Overdue(t, r.clock) => files[FileOf[t]].status # "absent"
    BY FilePresent DEF Overdue
  <2> QED BY <2>1 DEF FilesOf
<1>5. \A t \in Tickets : Overdue(t, r.clock) => FileOf[t] \in F
  BY DEF FilesOf
<1> HIDE DEF q, F, r
<1>6. OverdueNoted(q)
  BY <1>3, <1>4, <1>5 DEF OverdueNoted
<1>7. Ready(q)
  BY <1>1, <1>3, <1>6 DEF Ready, Filing, Maintains
<1> QED BY <1>2, <1>7, ContinueCounts

(* It counts their tickets, its own UPDATE included.                         *)
LEMMA CountTicketsCounts ==
  ASSUME IInv, CntInv, NEW w \in Workers, CountTickets(w)
  PROVE  CntInv'
<1> DEFINE r == txn[w]
           counted == [f \in Files |->
                         IF f \in r.scope
                         THEN [pending |-> CountedIn(r, f, "pending"),
                               assigned |-> CountedIn(r, f, "assigned"),
                               completed |-> CountedIn(r, f, "completed")]
                         ELSE Zero]
           p == [r EXCEPT !.pc = "commit"]
           q == [r EXCEPT !.pc = "read", !.unread = r.scope, !.count = counted]
<1>1. r \in Txn /\ r.kind = "expire" /\ r.clock <= now /\ OverdueNoted(r)
  BY SoundFacts DEF CountTickets, CntInv, AllReady, Ready
<1>2. (r.scope = {} /\ Continue(w, p)) \/ Continue(w, q)
  BY DEF CountTickets, CountedIn
<1>3. p.kind = r.kind /\ p.pc = "commit" /\ p.scope = r.scope /\ p.clock = r.clock
  BY <1>1 DEF Txn
<1>4. /\ q.kind = r.kind /\ q.pc = "read" /\ q.scope = r.scope /\ q.clock = r.clock
      /\ q.got = r.got /\ q.unread = r.scope /\ q.count = counted
  BY <1>1 DEF Txn
<1>5. \A f \in r.scope : counted[f] = [pending |-> CountedIn(r, f, "pending"),
                                       assigned |-> CountedIn(r, f, "assigned"),
                                       completed |-> CountedIn(r, f, "completed")]
  BY <1>1 DEF Txn
<1> HIDE DEF counted, p, q, r
<1>6. OverdueNoted(p) /\ OverdueNoted(q)
  BY <1>1, <1>3, <1>4 DEF OverdueNoted
<1>7. r.scope = {} => Ready(p)
  <2> SUFFICES ASSUME r.scope = {} PROVE Ready(p)
    OBVIOUS
  <2>1. RowsLoaded(p) /\ Counted(p) /\ p.scope \cap p.unread = {}
    BY <1>3 DEF RowsLoaded, Counted
  <2>2. Prepared(p)
    BY <1>1, <1>3, <1>6, <2>1 DEF Prepared
  <2> QED BY <1>1, <1>3, <1>6, <2>1, <2>2 DEF Ready
<1>8. Ready(q)
  <2>1. RowsLoaded(q)
    BY <1>1, <1>4 DEF RowsLoaded, OverdueNoted
  <2>2. Counted(q)
    BY <1>4, <1>5 DEF Counted, CountedIn
  <2>3. Prepared(q)
    BY <1>1, <1>4, <1>6, <2>1, <2>2 DEF Prepared
  <2> QED BY <1>1, <1>4, <1>6, <2>3 DEF Ready
<1> QED BY <1>2, <1>7, <1>8, ContinueCounts

(* A file that is read is read as its row says.                              *)
LEMMA ReadFileCounts ==
  ASSUME IInv, CntInv, NEW w \in Workers, ReadFile(w)
  PROVE  CntInv'
<1> DEFINE r == txn[w]
<1>1. r \in Txn /\ r.pc = "read" /\ Ready(r)
  BY SoundFacts DEF ReadFile, CntInv, AllReady
<1>2. PICK f \in r.unread :
        Continue(w, ToFiles([r EXCEPT !.snap[f] = CountersOf(files[f]), !.unread = @ \ {f}]))
  BY DEF ReadFile
<1> DEFINE q == [r EXCEPT !.snap[f] = CountersOf(files[f]), !.unread = @ \ {f}]
<1>3. f \in Files
  BY <1>1 DEF Txn
<1>4. CountersOf(files[f]) \in Counters
  BY <1>3, CountersOfType
<1>5. /\ q \in Txn /\ q.kind = r.kind /\ q.scope = r.scope /\ q.ids = r.ids
      /\ q.cand = r.cand /\ q.got = r.got /\ q.clock = r.clock /\ q.count = r.count
      /\ q.unread = r.unread \ {f}
      /\ q.snap[f] = CountersOf(files[f]) /\ \A g \in Files \ {f} : q.snap[g] = r.snap[g]
  BY <1>1, <1>3, <1>4 DEF Txn
<1>6. Continue(w, ToFiles(q))
  BY <1>2
<1>7. r.scope \in SUBSET Files
  BY <1>1 DEF Txn
<1> HIDE DEF q, r
<1>8. Prepared(r)
  BY <1>1 DEF Ready, Filing
<1>9. Prepared(q)
  <2>1. Maintains(r) => RowsLoaded(q)
    BY <1>5, <1>7, <1>8 DEF Prepared, RowsLoaded
  <2>2. r.kind = "expire" => OverdueNoted(q) /\ Counted(q)
    BY <1>5, <1>8 DEF Prepared, OverdueNoted, Counted, CountedIn
  <2> QED BY <1>5, <1>8, <2>1, <2>2 DEF Prepared, Maintains
<1>10. Ready(ToFiles(q))
  BY <1>1, <1>5, <1>9, ToFilesReady DEF Ready
<1> QED BY <1>6, <1>10, ContinueCounts

(* A file that is locked was loaded before.                                  *)
LEMMA LockFileCounts ==
  ASSUME IInv, CntInv, NEW w \in Workers, LockFile(w)
  PROVE  CntInv'
<1> DEFINE r == txn[w]
<1>1. r \in Txn /\ r.pc = "files" /\ Ready(r)
  BY SoundFacts DEF LockFile, CntInv, AllReady
<1>2. PICK f \in ToWrite(r) : Continue(w, ToFiles([r EXCEPT !.flocked = @ \cup {f}]))
  BY DEF LockFile
<1> DEFINE q == [r EXCEPT !.flocked = @ \cup {f}]
<1>3. q \in Txn /\ SameBooks(q, r)
  <2>1. f \in Files
    BY <1>1 DEF ToWrite, Txn
  <2> QED BY <1>1, <2>1 DEF Txn, SameBooks
<1>4. Continue(w, ToFiles(q))
  BY <1>2
<1> HIDE DEF q, r
<1>5. Prepared(q)
  BY <1>1, <1>3, SameBooksPrepared DEF Ready, Filing
<1>6. Ready(ToFiles(q))
  BY <1>1, <1>3, <1>5, ToFilesReady DEF Ready, SameBooks
<1> QED BY <1>4, <1>6, ContinueCounts

-----------------------------------------------------------------------------
(* Sizes *)

(* Taking tickets out of a set and putting tickets into it.                  *)
LEMMA SizeTakenOut ==
  ASSUME NEW S \in SUBSET Tickets, NEW M \in SUBSET S
  PROVE  Cardinality(S \ M) = Less(Cardinality(S), Cardinality(M))
<1>1. IsFiniteSet(S) /\ Cardinality(S) \in Nat
  BY SelectionAssumption, FS_Subset, FS_CardinalityType
<1>2. Cardinality(M) \in Nat /\ Cardinality(M) <= Cardinality(S)
  BY <1>1, FS_Subset, FS_CardinalityType
<1>3. S \cap M = M
  OBVIOUS
<1>4. Cardinality(S \ M) = Cardinality(S) - Cardinality(M)
  BY <1>1, <1>3, FS_Difference
<1> QED BY <1>1, <1>2, <1>4 DEF Less

(* Rows put into a status they did not have add to its number.               *)
LEMMA SizePutIn ==
  ASSUME NEW S \in SUBSET Tickets, NEW M \in SUBSET Tickets, S \cap M = {}
  PROVE  Cardinality(S \cup M) = Cardinality(S) + Cardinality(M)
<1>1. IsFiniteSet(S) /\ IsFiniteSet(M)
  BY SelectionAssumption, FS_Subset
<1>2. Cardinality(S) \in Nat /\ Cardinality(M) \in Nat
  BY <1>1, FS_CardinalityType
<1>3. Cardinality(S \cup M) = Cardinality(S) + Cardinality(M) - Cardinality(S \cap M)
  BY <1>1, FS_Union
<1>4. Cardinality(S \cap M) = 0
  BY FS_EmptySet
<1> QED BY <1>2, <1>3, <1>4

-----------------------------------------------------------------------------
(* COMMIT, the import of a file, and the clock *)

(* A file's tickets in one status, before and after the commit of r.         *)
InStatus(f, status) == {t \in TicketsOf(f) : tickets[t].status = status}
After(r, f, status) ==
  {t \in TicketsOf(f) :
     (IF t \in r.got THEN NewTicket(r, t).status ELSE tickets[t].status) = status}

Exact(f) ==
  /\ files[f].pending = Cardinality(InStatus(f, "pending"))
  /\ files[f].assigned = Cardinality(InStatus(f, "assigned"))
  /\ files[f].completed = Cardinality(InStatus(f, "completed"))

ExactAfter(row, r, f) ==
  /\ row.pending = Cardinality(After(r, f, "pending"))
  /\ row.assigned = Cardinality(After(r, f, "assigned"))
  /\ row.completed = Cardinality(After(r, f, "completed"))

(* A file none of whose tickets is written stays as it is.                   *)
LEMMA UntouchedExact ==
  ASSUME NEW r, NEW f, Exact(f), r.got \cap TicketsOf(f) = {}
  PROVE  ExactAfter(files[f], r, f)
<1>1. \A s : After(r, f, s) = InStatus(f, s)
  BY DEF After, InStatus
<1> QED BY <1>1 DEF Exact, ExactAfter

(* An UPDATE computed from the row as it is writes the values it computed.   *)
LEMMA OverwriteExact ==
  ASSUME NEW row \in FileRow, NEW new
  PROVE  LET w == Overwrite(row, CountersOf(row), new)
         IN w.pending = new.pending /\ w.assigned = new.assigned /\ w.completed = new.completed
BY DEF Overwrite, CountersOf, FileRow

(* Completing and giving up tickets takes them off those assigned.           *)
LEMMA ClosingExact ==
  ASSUME IInv, NEW r, Sound(r), Closing(r), NEW f \in Files, Exact(f)
  PROVE  ExactAfter(NewFile(r, f), r, f)
<1> DEFINE row == files[f]
           mine == r.got \cap TicketsOf(f)
           done == mine \cap r.done
           n == Cardinality(mine)
           k == Cardinality(done)
<1>1. NewFile(r, f) = CloseInFile(row, n, k)
  BY DEF NewFile, Closing, TooLate
<1>2. \A t \in mine : tickets[t].status = "assigned" /\ tickets[t] \in Lifecycle!TicketRow
  BY DEF Sound, WorkOK, Fits, Match, Mine, Closing, TicketsOf, IInv, TablesOK
<1>3. \A t \in mine : NewTicket(r, t).status = IF t \in r.done THEN "completed" ELSE "expired"
  BY <1>2 DEF NewTicket, Closing, TooLate, Lifecycle!TicketRow
<1>4. \A s : InStatus(f, s) \in SUBSET Tickets
  BY DEF InStatus, TicketsOf
<1>5. /\ mine \in SUBSET InStatus(f, "assigned") /\ done \in SUBSET Tickets
      /\ InStatus(f, "completed") \cap done = {}
  BY <1>2 DEF InStatus, TicketsOf
<1>6. /\ After(r, f, "pending") = InStatus(f, "pending")
      /\ After(r, f, "assigned") = InStatus(f, "assigned") \ mine
      /\ After(r, f, "completed") = InStatus(f, "completed") \cup done
  BY <1>2, <1>3 DEF After, InStatus
<1>7. /\ CloseInFile(row, n, k).pending = row.pending
      /\ CloseInFile(row, n, k).assigned = Less(row.assigned, n)
      /\ CloseInFile(row, n, k).completed = row.completed + k
  BY DEF CloseInFile, IInv, TablesOK, FileRow
<1>8. Cardinality(InStatus(f, "assigned") \ mine) = Less(row.assigned, n)
  BY <1>4, <1>5, SizeTakenOut DEF Exact
<1>9. Cardinality(InStatus(f, "completed") \cup done) = row.completed + k
  BY <1>4, <1>5, SizePutIn DEF Exact
<1> QED BY <1>1, <1>6, <1>7, <1>8, <1>9 DEF Exact, ExactAfter

(* Handing tickets out moves them from those pending to those assigned; one  *)
(* found too late is only taken off those pending.                           *)
LEMMA AssignmentExact ==
  ASSUME IInv, NEW r, Sound(r), ~ Closing(r), ~ Maintains(r), NEW f \in Files, Exact(f)
  PROVE  ExactAfter(NewFile(r, f), r, f)
<1> DEFINE row == files[f]
           mine == r.got \cap TicketsOf(f)
           n == Cardinality(mine)
<1>1. \A t \in mine : tickets[t].status = "pending" /\ tickets[t] \in Lifecycle!TicketRow
  BY DEF Sound, WorkOK, Fits, Match, Maintains, Pending, TicketsOf, IInv, TablesOK
<1>2. \A t \in mine : NewTicket(r, t).status = IF TooLate(r, t) THEN "expired" ELSE "assigned"
  BY <1>1 DEF NewTicket, Maintains, Lifecycle!TicketRow
<1>3. \A s : InStatus(f, s) \in SUBSET Tickets
  BY DEF InStatus, TicketsOf
<1>4. /\ mine \in SUBSET InStatus(f, "pending") /\ mine \in SUBSET Tickets
      /\ InStatus(f, "assigned") \cap mine = {}
  BY <1>1 DEF InStatus, TicketsOf
<1>5. Cardinality(InStatus(f, "pending") \ mine) = Less(row.pending, n)
  BY <1>3, <1>4, SizeTakenOut DEF Exact
<1>6. row \in FileRow
  BY DEF IInv, TablesOK
<1>7. ASSUME \E t \in mine : TooLate(r, t)
      PROVE  ExactAfter(NewFile(r, f), r, f)
  <2> DEFINE new == [row EXCEPT !.pending = Less(@, n)]
  <2>1. NewFile(r, f) = new
    BY <1>7 DEF NewFile, Maintains
  <2>2. \A t \in mine : NewTicket(r, t).status = "expired"
    BY <1>2, <1>7 DEF Sound, WorkOK, Suits, TooLate
  <2>3. /\ After(r, f, "pending") = InStatus(f, "pending") \ mine
        /\ After(r, f, "assigned") = InStatus(f, "assigned")
        /\ After(r, f, "completed") = InStatus(f, "completed")
    BY <1>1, <2>2 DEF After, InStatus
  <2>4. /\ new.pending = Less(row.pending, n)
        /\ new.assigned = row.assigned /\ new.completed = row.completed
    BY <1>6 DEF FileRow
  <2> HIDE DEF new, mine
  <2> QED BY <1>5, <2>1, <2>3, <2>4 DEF Exact, ExactAfter
<1>8. ASSUME ~ \E t \in mine : TooLate(r, t)
      PROVE  ExactAfter(NewFile(r, f), r, f)
  <2> DEFINE new == [row EXCEPT !.pending = Less(@, n), !.assigned = @ + n]
  <2>1. NewFile(r, f) = new
    BY <1>8 DEF NewFile, Maintains
  <2>2. \A t \in mine : NewTicket(r, t).status = "assigned"
    BY <1>2, <1>8
  <2>3. /\ After(r, f, "pending") = InStatus(f, "pending") \ mine
        /\ After(r, f, "assigned") = InStatus(f, "assigned") \cup mine
        /\ After(r, f, "completed") = InStatus(f, "completed")
    BY <1>1, <2>2 DEF After, InStatus
  <2>4. /\ new.pending = Less(row.pending, n)
        /\ new.assigned = row.assigned + n /\ new.completed = row.completed
    BY <1>6 DEF FileRow
  <2>5. Cardinality(InStatus(f, "assigned") \cup mine) = row.assigned + n
    BY <1>3, <1>4, SizePutIn DEF Exact
  <2> HIDE DEF new, mine
  <2> QED BY <1>5, <2>1, <2>3, <2>4, <2>5 DEF Exact, ExactAfter
<1> QED BY <1>7, <1>8

(* Recycling moves tickets from those assigned to those pending.             *)
LEMMA RecyclingExact ==
  ASSUME IInv, NEW r, Sound(r), r.kind = "recycle", NEW f \in Files, Exact(f),
         r.snap[f] = CountersOf(files[f])
  PROVE  ExactAfter(NewFile(r, f), r, f)
<1> DEFINE row == files[f]
           mine == r.got \cap TicketsOf(f)
           n == Cardinality(mine)
           new == RecycleInFile(CountersOf(row), n)
<1>1. NewFile(r, f) = Overwrite(row, CountersOf(row), new)
  BY DEF NewFile, Closing, TooLate
<1>2. \A t \in mine : tickets[t].status = "assigned" /\ tickets[t] \in Lifecycle!TicketRow
  BY DEF Sound, WorkOK, Fits, Match, Closing, TicketsOf, IInv, TablesOK
<1>3. \A t \in mine : NewTicket(r, t).status = "pending"
  BY <1>2 DEF NewTicket, BackToPool, Closing, TooLate, Lifecycle!TicketRow
<1>4. \A s : InStatus(f, s) \in SUBSET Tickets
  BY DEF InStatus, TicketsOf
<1>5. /\ mine \in SUBSET InStatus(f, "assigned") /\ mine \in SUBSET Tickets
      /\ InStatus(f, "pending") \cap mine = {}
  BY <1>2 DEF InStatus, TicketsOf
<1>6. /\ After(r, f, "pending") = InStatus(f, "pending") \cup mine
      /\ After(r, f, "assigned") = InStatus(f, "assigned") \ mine
      /\ After(r, f, "completed") = InStatus(f, "completed")
  BY <1>2, <1>3 DEF After, InStatus
<1>7. row \in FileRow
  BY DEF IInv, TablesOK
<1>8. /\ new.pending = row.pending + n
      /\ new.assigned = Less(row.assigned, n)
      /\ new.completed = row.completed
  BY DEF RecycleInFile, CountersOf
<1>9. Cardinality(InStatus(f, "assigned") \ mine) = Less(row.assigned, n)
  BY <1>4, <1>5, SizeTakenOut DEF Exact
<1>10. Cardinality(InStatus(f, "pending") \cup mine) = row.pending + n
  BY <1>4, <1>5, SizePutIn DEF Exact
<1> HIDE DEF new, mine, row
<1>11. /\ NewFile(r, f).pending = new.pending /\ NewFile(r, f).assigned = new.assigned
       /\ NewFile(r, f).completed = new.completed
  BY <1>1, <1>7, OverwriteExact
<1> QED BY <1>6, <1>8, <1>9, <1>10, <1>11 DEF Exact, ExactAfter, row

(* A revocation leaves none pending and none assigned.                       *)
LEMMA RevocationExact ==
  ASSUME IInv, NEW r, Sound(r), r.kind = "revoke", NEW f \in Files, Exact(f),
         r.snap[f] = CountersOf(files[f]),
         \A t \in TicketsOf(f) : Live(t) => t \in r.got
  PROVE  ExactAfter(NewFile(r, f), r, f)
<1> DEFINE row == files[f]
           mine == r.got \cap TicketsOf(f)
           new == [CountersOf(row) EXCEPT !.pending = 0, !.assigned = 0]
           over == Overwrite(row, CountersOf(row), new)
<1>1. NewFile(r, f) = [over EXCEPT !.status = "revoked"]
  BY DEF NewFile, Closing, TooLate
<1>2. \A t \in mine : Live(t) /\ tickets[t] \in Lifecycle!TicketRow
  BY DEF Sound, WorkOK, Fits, Match, Revocable, Live, Closing, TicketsOf, IInv, TablesOK
<1>3. \A t \in mine : NewTicket(r, t).status = "revoked"
  BY <1>2 DEF NewTicket, Closing, TooLate, Lifecycle!TicketRow
<1>4. /\ After(r, f, "pending") = {} /\ After(r, f, "assigned") = {}
      /\ After(r, f, "completed") = InStatus(f, "completed")
  BY <1>2, <1>3 DEF After, InStatus, Live
<1>5. row \in FileRow
  BY DEF IInv, TablesOK
<1>6. new.pending = 0 /\ new.assigned = 0 /\ new.completed = row.completed
  BY DEF CountersOf
<1> HIDE DEF new, row
<1>7. /\ over.pending = new.pending /\ over.assigned = new.assigned
      /\ over.completed = new.completed
  BY <1>5, OverwriteExact
<1>8. DOMAIN over = DOMAIN row
  BY DEF Overwrite
<1>9. /\ NewFile(r, f).pending = over.pending /\ NewFile(r, f).assigned = over.assigned
      /\ NewFile(r, f).completed = over.completed
  <2> HIDE DEF over
  <2> QED BY <1>1, <1>5, <1>8 DEF FileRow
<1> QED BY <1>4, <1>6, <1>7, <1>9, FS_EmptySet DEF Exact, ExactAfter, row

(* The expiry job writes what it counted.                                    *)
LEMMA ExpiryExact ==
  ASSUME IInv, NEW r, Sound(r), r.kind = "expire", NEW f \in r.scope, f \in Files,
         r.snap[f] = CountersOf(files[f]), Counted(r)
  PROVE  ExactAfter(NewFile(r, f), r, f)
<1> DEFINE row == files[f]
           new == r.count[f]
<1>1. NewFile(r, f) = Overwrite(row, CountersOf(row), new)
  BY DEF NewFile, Closing, TooLate
<1>2. \A t \in r.got : NewTicket(r, t).status = "expired"
  <2>1. \A t \in r.got : tickets[t] \in Lifecycle!TicketRow
    BY DEF Sound, Txn, IInv, TablesOK
  <2> QED BY <2>1 DEF NewTicket, Closing, Lifecycle!TicketRow
<1>3. \A s : CountedIn(r, f, s) = Cardinality(After(r, f, s))
  <2> SUFFICES ASSUME NEW s PROVE CountedIn(r, f, s) = Cardinality(After(r, f, s))
    OBVIOUS
  <2>1. After(r, f, s) = {t \in TicketsOf(f) :
                            (IF t \in r.got THEN "expired" ELSE tickets[t].status) = s}
    BY <1>2 DEF After
  <2> QED BY <2>1 DEF CountedIn
<1>4. row \in FileRow
  BY DEF IInv, TablesOK
<1>5. /\ new.pending = CountedIn(r, f, "pending") /\ new.assigned = CountedIn(r, f, "assigned")
      /\ new.completed = CountedIn(r, f, "completed")
  <2>1. new = [pending |-> CountedIn(r, f, "pending"),
               assigned |-> CountedIn(r, f, "assigned"),
               completed |-> CountedIn(r, f, "completed")]
    BY DEF Counted
  <2> HIDE DEF new
  <2> QED BY <2>1
<1> HIDE DEF new, row
<1>6. /\ NewFile(r, f).pending = new.pending /\ NewFile(r, f).assigned = new.assigned
      /\ NewFile(r, f).completed = new.completed
  BY <1>1, <1>4, OverwriteExact
<1> QED BY <1>3, <1>5, <1>6 DEF ExactAfter

(* A transaction that commits works on the files of all its tickets.         *)
LEMMA ScopeIsWhole ==
  ASSUME NEW r, Sound(r), Ready(r), r.pc = "commit", r.kind = "revoke" => RevokesOneFile(r),
         NEW f \in Files, f \notin r.scope
  PROVE  r.got \cap TicketsOf(f) = {}
<1> SUFFICES ASSUME NEW t \in r.got, t \in Tickets, FileOf[t] = f PROVE FALSE
  BY DEF TicketsOf
<1>1. Prepared(r)
  BY DEF Ready, Filing
<1>2. CASE r.kind \notin {"revoke", "expire"}
  BY <1>1, <1>2 DEF Prepared, FilesOf
<1>3. CASE r.kind = "revoke"
  <2>1. t \in r.ids
    BY <1>3 DEF Ready
  <2> QED BY <1>3, <2>1 DEF RevokesOneFile, TicketsOf
<1>4. CASE r.kind = "expire"
  <2>1. Overdue(t, r.clock)
    BY <1>4 DEF Sound, WorkOK, Fits, Match, Closing
  <2> QED BY <1>1, <1>4, <2>1 DEF Prepared, OverdueNoted
<1> QED BY <1>2, <1>3, <1>4

(* Its commit leaves the counters of every file exact.                       *)
LEMMA FileStaysExact ==
  ASSUME IInv, NEW r, Sound(r), Ready(r), r.pc = "commit", Revokes(r),
         NEW f \in Files, Exact(f)
  PROVE  ExactAfter(IF f \in r.scope THEN NewFile(r, f) ELSE files[f], r, f)
<1>1. Prepared(r)
  BY DEF Ready, Filing
<1>2. CASE f \notin r.scope
  BY <1>2, ScopeIsWhole, UntouchedExact DEF Revokes
<1>3. CASE f \in r.scope
  <2>1. Maintains(r) => r.snap[f] = CountersOf(files[f])
    BY <1>1, <1>3 DEF Ready, Prepared, RowsLoaded
  <2>2. CASE Closing(r)
    BY <1>3, <2>2, ClosingExact
  <2>3. CASE ~ Closing(r) /\ ~ Maintains(r)
    BY <1>3, <2>3, AssignmentExact
  <2>4. CASE r.kind = "recycle"
    BY <1>3, <2>1, <2>4, RecyclingExact DEF Maintains
  <2>5. CASE r.kind = "revoke"
    <3>1. \A t \in TicketsOf(f) : Live(t) => t \in r.got
      BY <1>3, <2>5 DEF Revokes, RevokesOneFile, Reaches
    <3> QED BY <1>3, <2>1, <2>5, <3>1, RevocationExact DEF Maintains
  <2>6. CASE r.kind = "expire"
    BY <1>1, <1>3, <2>1, <2>6, ExpiryExact DEF Maintains, Prepared
  <2> QED BY <2>2, <2>3, <2>4, <2>5, <2>6 DEF Maintains
<1> QED BY <1>2, <1>3

(* What follows a commit is ready, and an assignment or nothing.             *)
LEMMA AfterCommitReady ==
  ASSUME NEW r, Sound(r)
  PROVE  Ready(AfterCommit(r)) /\ ~ Maintains(AfterCommit(r))
<1>1. CASE r.kind = "next" /\ r.got # {}
  <2>1. Assigning(r.user, r.device).kind = "assign" /\ Assigning(r.user, r.device).pc \in Early
    BY DEF Assigning, Idle, Early
  <2> QED BY <1>1, <2>1, EarlyReady DEF AfterCommit, Maintains
<1>2. CASE ~ (r.kind = "next" /\ r.got # {}) /\ \E t \in r.got : TooLate(r, t)
  <2>1. r.user \in Users /\ r.device \in Devices /\ r.tries \in Nat
    BY <1>2 DEF Sound, WorkOK, Identified, TooLate, Txn
  <2> QED BY <1>2, <2>1, RestartForm, RetryReady, KindStays DEF AfterCommit, Maintains
<1>3. CASE ~ (r.kind = "next" /\ r.got # {}) /\ ~ \E t \in r.got : TooLate(r, t)
  BY <1>3, IdleReady DEF AfterCommit, Idle, Maintains
<1> QED BY <1>1, <1>2, <1>3

(* A commit leaves every counter exact; nobody else is then in the middle of *)
(* an operation that relies on the rows it changes.                          *)
LEMMA CommitCounts ==
  ASSUME IInv, RevInv, CntInv, MaintenanceAlone, NEW w \in Workers, Commit(w)
  PROVE  CntInv'
<1> DEFINE r == txn[w]
<1>1. Sound(r) /\ Ready(r) /\ Revokes(r) /\ r.pc = "commit"
  BY SoundFacts DEF CntInv, AllReady, RevInv, Commit
<1>2. /\ tickets' = [t \in Tickets |-> IF t \in r.got THEN NewTicket(r, t) ELSE tickets[t]]
      /\ files' = [f \in Files |-> IF f \in r.scope THEN NewFile(r, f) ELSE files[f]]
      /\ txn' = [txn EXCEPT ![w] = AfterCommit(r)]
  BY DEF Commit
<1>3. \A v \in Workers : txn'[v] = IF v = w THEN AfterCommit(r) ELSE txn[v]
  BY <1>2 DEF IInv
<1>4. \A v \in Workers : v # w => ~ Maintains(txn[v])
  BY <1>1 DEF MaintenanceAlone, Maintains, Others
<1> HIDE DEF r
<1>5. ASSUME NEW f \in Files, files'[f].status # "absent"
      PROVE  /\ files'[f].pending = CountedAs(f, "pending")'
             /\ files'[f].assigned = CountedAs(f, "assigned")'
             /\ files'[f].completed = CountedAs(f, "completed")'
  <2>1. files[f].status # "absent"
    <3>1. CASE r.kind = "revoke" /\ f \in r.scope
      BY <1>1, <3>1 DEF Revokes, RevokesOneFile
    <3>2. CASE r.kind # "revoke" \/ f \notin r.scope
      BY <1>2, <1>5, <3>2, NewFileStatus
    <3> QED BY <3>1, <3>2
  <2>2. Exact(f)
    BY <2>1 DEF CntInv, CountersExact, CountedAs, Exact, InStatus
  <2>3. ExactAfter(files'[f], r, f)
    BY <1>1, <1>2, <2>2, FileStaysExact
  <2>4. \A s : CountedAs(f, s)' = Cardinality(After(r, f, s))
    <3> SUFFICES ASSUME NEW s PROVE CountedAs(f, s)' = Cardinality(After(r, f, s))
      OBVIOUS
    <3>1. After(r, f, s) = {t \in TicketsOf(f) : tickets'[t].status = s}
      BY <1>2 DEF After, TicketsOf
    <3> QED BY <3>1 DEF CountedAs
  <2> QED BY <2>3, <2>4 DEF ExactAfter
<1>6. ASSUME NEW v \in Workers
      PROVE  Ready(txn[v])'
  <2>1. (Ready(txn'[v]) /\ ~ Maintains(txn'[v])) \/ txn'[v] = AfterCommit(r)
    BY <1>3, <1>4 DEF CntInv, AllReady
  <2>2. Ready(AfterCommit(r)) /\ ~ Maintains(AfterCommit(r))
    BY <1>1, AfterCommitReady
  <2> DEFINE q == txn'[v]
  <2>3. Ready(q) /\ ~ Maintains(q)
    BY <2>1, <2>2
  <2> HIDE DEF q
  <2> QED BY <2>3 DEF q, Ready, Prepared, Maintains, Closing
<1>7. CountersExact'
  BY <1>5 DEF CountersExact
<1> QED BY <1>6, <1>7 DEF CntInv, AllReady

(* The property's numbers, one by one.                                       *)
LEMMA CountsItsTicketsMeans ==
  ASSUME NEW f \in Files
  PROVE  /\ CountsItsTickets(f) <=> /\ files[f].pending = CountedAs(f, "pending")
                                   /\ files[f].assigned = CountedAs(f, "assigned")
                                   /\ files[f].completed = CountedAs(f, "completed")
         /\ CountsItsTickets(f)' <=> /\ files'[f].pending = CountedAs(f, "pending")'
                                    /\ files'[f].assigned = CountedAs(f, "assigned")'
                                    /\ files'[f].completed = CountedAs(f, "completed")'
BY DEF CountsItsTickets, CountersOf, Numbers

(* The import of a file leaves those alone that count their tickets, and the *)
(* imported one counts its own.                                              *)
LEMMA ImportExact ==
  ASSUME IInv, NEW f \in Files, ImportFile(f), NEW g \in Files, g = f \/ CountsItsTickets(g)
  PROVE  CountsItsTickets(g)'
<1> DEFINE status == IF f \notin NoDeadline /\ Deadline[f] <= now THEN "expired" ELSE "pending"
<1>1. /\ files[f].status = "absent" /\ txn' = txn /\ now' = now
      /\ \A t \in Tickets : tickets'[t] = IF FileOf[t] = f
                                          THEN [Lifecycle!Absent EXCEPT !.status = status]
                                          ELSE tickets[t]
      /\ \A h \in Files : h # f => files'[h] = files[h]
      /\ files'[f] = [status |-> "active",
                      pending |-> IF status = "pending" THEN Cardinality(TicketsOf(f)) ELSE 0,
                      assigned |-> 0, completed |-> 0]
  BY DEF ImportFile, IInv, TablesOK
<1>2. \A t \in TicketsOf(f) : tickets'[t].status = status
  BY <1>1 DEF TicketsOf, Lifecycle!Absent
<1>3. \A h \in Files \ {f} : \A t \in TicketsOf(h) : t \in Tickets /\ tickets'[t] = tickets[t]
  BY <1>1 DEF TicketsOf
<1>4. CASE g # f
  <2>1. \A s : CountedAs(g, s)' = CountedAs(g, s)
    <3> SUFFICES ASSUME NEW s PROVE CountedAs(g, s)' = CountedAs(g, s)
      OBVIOUS
    <3>1. {t \in TicketsOf(g) : tickets'[t].status = s} =
          {t \in TicketsOf(g) : tickets[t].status = s}
      BY <1>3, <1>4
    <3> QED BY <3>1 DEF CountedAs
  <2>2. files'[g] = files[g] /\ CountsItsTickets(g)
    BY <1>1, <1>4
  <2> QED BY <2>1, <2>2, CountsItsTicketsMeans
<1>5. CASE g = f
  <2>1. \A s : CountedAs(f, s)' = IF s = status THEN Cardinality(TicketsOf(f)) ELSE 0
    <3> SUFFICES ASSUME NEW s
                 PROVE CountedAs(f, s)' = IF s = status THEN Cardinality(TicketsOf(f)) ELSE 0
      OBVIOUS
    <3> DEFINE S == {t \in TicketsOf(f) : tickets'[t].status = s}
    <3>1. S = IF s = status THEN TicketsOf(f) ELSE {}
      BY <1>2
    <3>2. CountedAs(f, s)' = Cardinality(S)
      BY DEF CountedAs
    <3> HIDE DEF S, status
    <3> QED BY <3>1, <3>2, FS_EmptySet
  <2>2. status \in {"pending", "expired"}
    OBVIOUS
  <2> HIDE DEF status
  <2>3. /\ files'[f].pending = CountedAs(f, "pending")'
        /\ files'[f].assigned = CountedAs(f, "assigned")'
        /\ files'[f].completed = CountedAs(f, "completed")'
    BY <1>1, <2>1, <2>2
  <2> QED BY <1>5, <2>3, CountsItsTicketsMeans
<1> QED BY <1>4, <1>5

(* A file that is imported has the tickets it counts, and nobody works on it.*)
LEMMA ImportCounts ==
  ASSUME IInv, CntInv, NEW f \in Files, ImportFile(f)
  PROVE  CntInv'
<1> DEFINE status == IF f \notin NoDeadline /\ Deadline[f] <= now THEN "expired" ELSE "pending"
<1>1. /\ files[f].status = "absent" /\ txn' = txn /\ now' = now
      /\ \A t \in Tickets : tickets'[t] = IF FileOf[t] = f
                                          THEN [Lifecycle!Absent EXCEPT !.status = status]
                                          ELSE tickets[t]
      /\ \A g \in Files : g # f => files'[g] = files[g]
      /\ files'[f] = [status |-> "active",
                      pending |-> IF status = "pending" THEN Cardinality(TicketsOf(f)) ELSE 0,
                      assigned |-> 0, completed |-> 0]
  BY DEF ImportFile, IInv, TablesOK
<1>2. \A t \in TicketsOf(f) : tickets'[t].status = status
  BY <1>1 DEF TicketsOf, Lifecycle!Absent
<1>3. \A g \in Files \ {f} : \A t \in TicketsOf(g) : t \in Tickets /\ tickets'[t] = tickets[t]
  BY <1>1 DEF TicketsOf
<1>4. ASSUME NEW g \in Files, files'[g].status # "absent"
      PROVE  /\ files'[g].pending = CountedAs(g, "pending")'
             /\ files'[g].assigned = CountedAs(g, "assigned")'
             /\ files'[g].completed = CountedAs(g, "completed")'
  <2>1. g # f => CountsItsTickets(g)
    BY <1>1, <1>4, CountsItsTicketsMeans DEF CntInv, CountersExact
  <2> QED BY <2>1, ImportExact, CountsItsTicketsMeans
<1>5. ASSUME NEW v \in Workers
      PROVE  Ready(txn[v])'
  <2> DEFINE q == txn[v]
  <2>1. q \in Txn /\ Ready(q) /\ txn'[v] = q
    BY <1>1, SoundFacts DEF CntInv, AllReady
  <2>2. q.scope \in SUBSET Files /\ q.clock \in Nat
    BY <2>1 DEF Txn
  <2> HIDE DEF q
  <2>3. RowsLoaded(q) => RowsLoaded(txn[v])'
    BY <1>1, <2>1, <2>2 DEF RowsLoaded, CountersOf
  <2>4. OverdueNoted(q) /\ q.clock <= now => OverdueNoted(txn[v])'
    <3> SUFFICES ASSUME OverdueNoted(q), q.clock <= now PROVE OverdueNoted(txn[v])'
      OBVIOUS
    <3>1. ASSUME NEW t \in Tickets, tickets'[t].status = "pending",
                 HasDeadline(t), DeadlineOf(t) <= q.clock
          PROVE  FileOf[t] \in q.scope
      <4>1. CASE FileOf[t] = f
        <5>1. status = "pending"
          BY <1>2, <3>1, <4>1 DEF TicketsOf
        <5>2. Deadline[f] \in Nat /\ now \in Nat
          BY SelectionAssumption DEF IInv, TablesOK
        <5> QED BY <2>2, <3>1, <4>1, <5>1, <5>2 DEF DeadlineOf, HasDeadline
      <4>2. CASE FileOf[t] # f
        BY <1>1, <3>1, <4>2 DEF OverdueNoted, Overdue
      <4> QED BY <4>1, <4>2
    <3>2. \A g \in q.scope : files'[g].status # "absent"
      BY <1>1, <2>2 DEF OverdueNoted
    <3> QED BY <2>1, <3>1, <3>2 DEF OverdueNoted, Overdue
  <2>5. OverdueNoted(q) /\ Counted(q) => Counted(txn[v])'
    <3> SUFFICES ASSUME OverdueNoted(q), Counted(q), NEW g \in q.scope
                 PROVE  \A s : CountedIn(txn[v], g, s)' = CountedIn(q, g, s)
      BY <2>1 DEF Counted
    <3> SUFFICES ASSUME NEW s PROVE CountedIn(txn[v], g, s)' = CountedIn(q, g, s)
      OBVIOUS
    <3>1. g \in Files \ {f}
      BY <1>1, <2>2 DEF OverdueNoted
    <3>2. {t \in TicketsOf(g) : (IF t \in q.got THEN "expired" ELSE tickets'[t].status) = s} =
          {t \in TicketsOf(g) : (IF t \in q.got THEN "expired" ELSE tickets[t].status) = s}
      BY <1>3, <3>1
    <3> QED BY <2>1, <3>2 DEF CountedIn
  <2>6. Prepared(q) /\ (q.kind = "expire" => q.clock <= now) => Prepared(txn[v])'
    BY <2>1, <2>3, <2>4, <2>5 DEF Prepared, Maintains
  <2> QED BY <1>1, <2>1, <2>4, <2>6 DEF Ready, Closing, Maintains
<1>6. CountersExact'
  BY <1>4 DEF CountersExact
<1> QED BY <1>5, <1>6 DEF CntInv, AllReady

(* The clock, and a step of nobody, change no row and no transaction.        *)
LEMMA StillCounts ==
  ASSUME IInv, CntInv, UNCHANGED <<tickets, files, txn>>, now' \in {now, now + 1}
  PROVE  CntInv'
<1>1. ASSUME NEW v \in Workers
      PROVE  Ready(txn[v])'
  <2> DEFINE q == txn[v]
  <2>1. Ready(q) /\ txn'[v] = q
    BY DEF CntInv, AllReady
  <2>2. q.clock \in Nat /\ now \in Nat
    BY SoundFacts DEF Txn, IInv, TablesOK
  <2> HIDE DEF q
  <2>3. q.clock <= now => q.clock <= now'
    BY <2>2
  <2>4. Prepared(q) => Prepared(txn[v])'
    BY <2>1 DEF Prepared, Maintains, RowsLoaded, OverdueNoted, Overdue, Counted, CountedIn, CountersOf
  <2>5. OverdueNoted(q) => OverdueNoted(txn[v])'
    BY <2>1 DEF OverdueNoted, Overdue
  <2> QED BY <2>1, <2>3, <2>4, <2>5 DEF Ready, Closing, Maintains
<1>2. CountersExact'
  BY DEF CntInv, CountersExact, CountedAs
<1> QED BY <1>1, <1>2 DEF CntInv, AllReady

-----------------------------------------------------------------------------
(* The theorem *)

(* There is nothing to count in the empty tables.                            *)
LEMMA InitCounts == Init => CntInv
<1> SUFFICES ASSUME Init PROVE CntInv
  OBVIOUS
<1>1. AllReady
  BY IdleReady DEF Init, AllReady
<1>2. CountersExact
  BY DEF Init, CountersExact
<1> QED BY <1>1, <1>2 DEF CntInv

(* Every step of a behaviour in which they run alone keeps it.               *)
LEMMA NextCounts == IInv /\ RevInv /\ CntInv /\ MaintenanceAlone /\ [Next]_vars => CntInv'
<1> SUFFICES ASSUME IInv, RevInv, CntInv, MaintenanceAlone, [Next]_vars PROVE CntInv'
  OBVIOUS
<1>1. CASE UNCHANGED vars
  BY <1>1, StillCounts DEF vars, tables
<1>2. CASE \E w \in Workers : Request(w)
  BY <1>2, RequestProceeds, ProceedsCounts
<1>3. CASE \E w \in Workers : Statement(w)
  <2>1. PICK w \in Workers : Statement(w)
    BY <1>3
  <2> QED BY <2>1, EarlyProceeds, ProceedsCounts, ScanCounts, LockRowCounts, LoadFileCounts, FindOverdueCounts,
             CountTicketsCounts, ReadFileCounts, LockFileCounts, CommitCounts DEF Statement
<1>4. CASE \E w \in Workers : Abort(w)
  BY <1>4, IdleReady, ContinueCounts DEF Abort
<1>5. CASE \E f \in Files : ImportFile(f)
  BY <1>5, ImportCounts
<1>6. CASE Tick
  BY <1>6, StillCounts DEF Tick, tables
<1> QED BY <1>1, <1>2, <1>3, <1>4, <1>5, <1>6 DEF Next

(* The counters of every file are the numbers of its tickets in each status, *)
(* whatever requests interleave, whenever a recycling, a revocation or the   *)
(* expiry job runs while no other transaction does.  (Beside other           *)
(* transactions the values these wrote may be out of date: the drift that    *)
(* counter_drift.cfg shows.)                                                 *)
THEOREM CountersStayExact == Spec /\ []MaintenanceAlone => []CountersExact
<1>1. CntInv => CountersExact
  BY DEF CntInv
<1> QED BY <1>1, InitCounts, NextCounts, InitRevokes, NextRevokes, InvariantHolds, PTL DEF Spec

-----------------------------------------------------------------------------
(* Beside other transactions *)

(* What is left of Ready when maintenance does not run alone: nothing about  *)
(* the rows, only what a transaction has in hand.                            *)
Whole(r) ==
  /\ r.pc = "count" => r.kind = "expire"
  /\ r.pc \in {"scan", "rows"} => Closing(r) \/ Maintains(r)
  /\ r.pc \in Filing /\ r.kind \notin {"revoke", "expire"} => FilesOf(r.got) \subseteq r.scope
  /\ r.kind = "revoke" => r.cand \cup r.got \subseteq r.ids

AllWhole == \A w \in Workers : Whole(txn[w])

(* A transaction that is ready has that in hand, but for a revocation that   *)
(* has not read its file: it has nothing yet.                                *)
LEMMA ReadyWhole ==
  ASSUME NEW r, Ready(r)
  PROVE  Whole(r)
BY DEF Ready, Prepared, Whole

(* A worker that goes on with it keeps it.                                   *)
LEMMA ContinueWhole ==
  ASSUME IInv, AllWhole, NEW w \in Workers, NEW q, Continue(w, q), Whole(q)
  PROVE  AllWhole'
<1>1. \A v \in Workers : txn'[v] = IF v = w THEN q ELSE txn[v]
  BY DEF Continue, IInv
<1>2. \A v \in Workers : Whole(txn'[v])
  BY <1>1 DEF AllWhole
<1> QED BY <1>2 DEF AllWhole, Whole, Closing, Maintains

(* So does one that goes on to its files.                                    *)
LEMMA ToFilesWhole ==
  ASSUME NEW r \in Txn,
         r.kind \notin {"revoke", "expire"} => FilesOf(r.got) \subseteq r.scope,
         r.kind = "revoke" => r.cand \cup r.got \subseteq r.ids
  PROVE  Whole(ToFiles(r))
<1> DEFINE q == ToFiles(r)
<1>1. /\ SameBooks(q, r)
      /\ \/ q.pc \in {"files", "read", "commit"}
         \/ q.pc = "scan" /\ (Closing(r) \/ r.kind = "revoke")
  BY ToFilesBooks
<1> HIDE DEF q
<1>2. Whole(q)
  BY <1>1 DEF SameBooks, Whole, Closing, Maintains
<1> QED BY <1>2 DEF q

(* And one that has locked its rows.                                         *)
LEMMA AfterRowsWhole ==
  ASSUME IInv, NEW r \in Txn, WorkOK(r), Closing(r) \/ Maintains(r),
         r.kind = "revoke" => r.cand \cup r.got \subseteq r.ids
  PROVE  Whole(AfterRows(r))
<1>1. CASE Closing(r) \/ r.kind = "recycle"
  <2>1. Searching(r)
    BY <1>1 DEF Searching, Closing, Maintains
  <2> QED BY <2>1, AfterRowsReady, ReadyWhole
<1>2. CASE r.kind \in {"revoke", "expire"}
  <2> DEFINE q(p) == [r EXCEPT !.pc = p]
  <2>1. \A p : q(p).pc = p /\ q(p).kind = r.kind /\ q(p).ids = r.ids /\ q(p).cand = r.cand
               /\ q(p).got = r.got
    BY DEF Txn
  <2>2. AfterRows(r) = IF r.kind = "revoke" THEN q("commit") ELSE q("count")
    BY <1>2 DEF AfterRows, Closing
  <2> HIDE DEF q
  <2> QED BY <1>2, <2>1, <2>2 DEF Whole
<1> QED BY <1>1, <1>2 DEF Maintains

(* Finding rows and locking them.                                            *)
LEMMA SearchWhole ==
  ASSUME IInv, AllWhole, NEW w \in Workers, Scan(w) \/ LockRow(w)
  PROVE  AllWhole'
<1> DEFINE r == txn[w]
           found == {t \in Target(r) : Match(r, t)}
           p == [r EXCEPT !.pc = "rows", !.cand = found]
<1>1. /\ r \in Txn /\ WorkOK(r) /\ (Closing(r) \/ Maintains(r))
      /\ r.kind = "revoke" => r.cand \cup r.got \subseteq r.ids
  BY SoundFacts DEF Scan, LockRow, AllWhole, Whole
<1>2. CASE Scan(w)
  <2>1. Continue(w, p) \/ Continue(w, AfterRows(r))
    BY <1>2 DEF Scan
  <2>2. r.kind = "revoke" => found \subseteq r.ids
    BY RevokeMatches
  <2>3. /\ p.kind = r.kind /\ p.pc = "rows" /\ p.cand = found /\ p.ids = r.ids /\ p.got = r.got
    BY <1>1 DEF Txn
  <2> HIDE DEF p, found, r
  <2>4. Whole(p)
    BY <1>1, <2>2, <2>3 DEF Whole, Filing, Closing, Maintains
  <2> QED BY <1>1, <2>1, <2>4, AfterRowsWhole, ContinueWhole
<1>3. CASE LockRow(w)
  <2>1. PICK t \in r.cand : Continue(w, AfterRows(Locked(r, t))) \/ Continue(w, Locked(r, t))
    BY <1>3 DEF LockRow
  <2>2. r.pc = "rows"
    BY <1>3 DEF LockRow
  <2> DEFINE q == Locked(r, t)
  <2>3. q \in Txn /\ WorkOK(q)
    BY <1>1, LockedOK
  <2>4. /\ q.kind = r.kind /\ q.pc = "rows" /\ q.ids = r.ids
        /\ q.cand = r.cand \ {t} /\ q.got \subseteq r.got \cup {t}
    BY <1>1, <2>2 DEF Locked, Txn
  <2>5. Continue(w, q) \/ Continue(w, AfterRows(q))
    BY <2>1
  <2> HIDE DEF q, r
  <2>6. /\ Closing(q) \/ Maintains(q)
        /\ q.kind = "revoke" => q.cand \cup q.got \subseteq q.ids
    BY <1>1, <2>4 DEF Closing, Maintains
  <2>7. Whole(q)
    BY <2>4, <2>6 DEF Whole, Filing
  <2> QED BY <2>3, <2>5, <2>6, <2>7, AfterRowsWhole, ContinueWhole
<1> QED BY <1>2, <1>3

(* Loading, counting and locking the files.                                  *)
LEMMA FilingWhole ==
  ASSUME IInv, AllWhole, NEW w \in Workers,
         LoadFile(w) \/ FindOverdue(w) \/ CountTickets(w) \/ ReadFile(w) \/ LockFile(w)
  PROVE  AllWhole'
<1> DEFINE r == txn[w]
<1>1. r \in Txn /\ Whole(r)
  BY SoundFacts DEF AllWhole
<1>2. CASE LoadFile(w)
  <2>1. CASE Continue(w, Idle)
    BY <2>1, IdleReady, ReadyWhole, ContinueWhole
  <2>2. ASSUME NEW f \in r.scope, Continue(w, ToFiles([r EXCEPT !.snap[f] = CountersOf(files[f])]))
        PROVE  AllWhole'
    <3> DEFINE q == [r EXCEPT !.snap[f] = CountersOf(files[f])]
    <3>1. CountersOf(files[f]) \in Counters
      BY <1>1, CountersOfType DEF Txn
    <3>2. q \in Txn /\ q.kind = r.kind /\ q.ids = r.ids /\ q.cand = r.cand /\ q.got = r.got
      BY <1>1, <3>1 DEF Txn
    <3>3. r.kind = "revoke" /\ Continue(w, ToFiles(q))
      BY <1>2, <2>2 DEF LoadFile
    <3> HIDE DEF q, r
    <3>4. Whole(ToFiles(q))
      BY <1>1, <3>2, <3>3, ToFilesWhole DEF Whole
    <3> QED BY <3>3, <3>4, ContinueWhole
  <2> QED BY <1>2, <2>1, <2>2 DEF LoadFile
<1>3. CASE FindOverdue(w)
  <2> DEFINE q == [r EXCEPT !.pc = "scan", !.scope = FilesOf({t \in Tickets : Overdue(t, r.clock)})]
  <2>1. q.kind = "expire" /\ q.pc = "scan" /\ Continue(w, q)
    BY <1>1, <1>3 DEF FindOverdue, Txn
  <2> HIDE DEF q
  <2>2. Whole(q)
    BY <2>1 DEF Whole, Maintains, Filing
  <2> QED BY <2>1, <2>2, ContinueWhole
<1>4. CASE CountTickets(w)
  <2> DEFINE counting(c) == [r EXCEPT !.pc = "read", !.unread = r.scope, !.count = c]
             none == [r EXCEPT !.pc = "commit"]
  <2>1. Continue(w, none) \/ \E c : Continue(w, counting(c))
    BY <1>4 DEF CountTickets
  <2>2. /\ r.kind = "expire" /\ none.kind = r.kind /\ none.pc = "commit"
        /\ \A c : counting(c).kind = r.kind /\ counting(c).pc = "read"
    BY <1>1, <1>4 DEF CountTickets, Whole, Txn
  <2> HIDE DEF counting, none, r
  <2>3. Whole(none) /\ \A c : Whole(counting(c))
    BY <2>2 DEF Whole
  <2> QED BY <2>1, <2>3, ContinueWhole
<1>5. CASE ReadFile(w)
  <2>1. PICK f \in r.unread :
          Continue(w, ToFiles([r EXCEPT !.snap[f] = CountersOf(files[f]), !.unread = @ \ {f}]))
    BY <1>5 DEF ReadFile
  <2> DEFINE q == [r EXCEPT !.snap[f] = CountersOf(files[f]), !.unread = @ \ {f}]
  <2>2. CountersOf(files[f]) \in Counters
    BY <1>1, CountersOfType DEF Txn
  <2>3. /\ q \in Txn /\ q.kind = r.kind /\ q.ids = r.ids /\ q.cand = r.cand /\ q.got = r.got
        /\ q.scope = r.scope
    BY <1>1, <2>2 DEF Txn
  <2>4. r.pc = "read" /\ Continue(w, ToFiles(q))
    BY <1>5, <2>1 DEF ReadFile
  <2> HIDE DEF q, r
  <2>5. Whole(ToFiles(q))
    BY <1>1, <2>3, <2>4, ToFilesWhole DEF Whole, Filing
  <2> QED BY <2>4, <2>5, ContinueWhole
<1>6. CASE LockFile(w)
  <2>1. PICK f \in ToWrite(r) : Continue(w, ToFiles([r EXCEPT !.flocked = @ \cup {f}]))
    BY <1>6 DEF LockFile
  <2> DEFINE q == [r EXCEPT !.flocked = @ \cup {f}]
  <2>2. /\ q \in Txn /\ q.kind = r.kind /\ q.ids = r.ids /\ q.cand = r.cand /\ q.got = r.got
        /\ q.scope = r.scope
    BY <1>1 DEF ToWrite, Txn
  <2>3. r.pc = "files" /\ Continue(w, ToFiles(q))
    BY <1>6, <2>1 DEF LockFile
  <2> HIDE DEF q, r
  <2>4. Whole(ToFiles(q))
    BY <1>1, <2>2, <2>3, ToFilesWhole DEF Whole, Filing
  <2> QED BY <2>3, <2>4, ContinueWhole
<1> QED BY <1>2, <1>3, <1>4, <1>5, <1>6

(* Every step keeps it, whatever runs beside maintenance.                    *)
LEMMA NextWhole == IInv /\ AllWhole /\ [Next]_vars => AllWhole'
<1> SUFFICES ASSUME IInv, AllWhole, [Next]_vars PROVE AllWhole'
  OBVIOUS
<1>1. CASE txn' = txn
  BY <1>1 DEF AllWhole, Whole, Closing, Maintains
<1>2. ASSUME NEW w \in Workers, Proceeds(w)
      PROVE  AllWhole'
  BY <1>2, ReadyWhole, ContinueWhole DEF Proceeds
<1>3. ASSUME NEW w \in Workers, Request(w) \/ Abort(w)
      PROVE  AllWhole'
  <2>1. Abort(w) => Proceeds(w)
    BY IdleReady DEF Abort, Proceeds
  <2> QED BY <1>2, <1>3, <2>1, RequestProceeds
<1>4. ASSUME NEW w \in Workers, Commit(w)
      PROVE  AllWhole'
  <2>1. \A v \in Workers : txn'[v] = IF v = w THEN AfterCommit(txn[w]) ELSE txn[v]
    BY <1>4 DEF Commit, IInv
  <2>2. Whole(AfterCommit(txn[w]))
    BY SoundFacts, AfterCommitReady, ReadyWhole
  <2>3. \A v \in Workers : Whole(txn'[v])
    BY <2>1, <2>2 DEF AllWhole
  <2> QED BY <2>3 DEF AllWhole, Whole, Closing, Maintains
<1>5. ASSUME NEW w \in Workers, Statement(w)
      PROVE  AllWhole'
  BY <1>2, <1>4, <1>5, EarlyProceeds, SearchWhole, FilingWhole DEF Statement
<1> QED BY <1>1, <1>3, <1>5 DEF Next, ImportFile, Tick, vars, tables

(* A commit that is not of maintenance working on what it read before leaves *)
(* the counters of a file right.                                             *)
LEMMA CommitCountsRight ==
  ASSUME IInv, RevInv, AllWhole, NEW w \in Workers, Commit(w),
         NEW f \in Files, CountsItsTickets(f), ~ ReadBefore(w, f)
  PROVE  CountsItsTickets(f)'
<1> DEFINE r == txn[w]
<1>1. Sound(r) /\ Whole(r) /\ Revokes(r) /\ r.pc = "commit" /\ r \in Txn
  BY SoundFacts DEF AllWhole, RevInv, Commit
<1>2. /\ tickets' = [t \in Tickets |-> IF t \in r.got THEN NewTicket(r, t) ELSE tickets[t]]
      /\ files' = [g \in Files |-> IF g \in r.scope THEN NewFile(r, g) ELSE files[g]]
  BY DEF Commit
<1>3. /\ r.kind \in {"recycle", "revoke", "expire"} /\ f \in r.scope => r.snap[f] = CountersOf(files[f])
      /\ r.kind = "expire" => r.count[f] = Numbers(f)' /\ f \notin FilesOf(r.got) \ r.scope
  BY DEF ReadBefore
<1> HIDE DEF r
<1>4. \A s : CountedAs(f, s)' = Cardinality(After(r, f, s))
  <2> SUFFICES ASSUME NEW s PROVE CountedAs(f, s)' = Cardinality(After(r, f, s))
    OBVIOUS
  <2>1. After(r, f, s) = {t \in TicketsOf(f) : tickets'[t].status = s}
    BY <1>2 DEF After, TicketsOf
  <2> QED BY <2>1 DEF CountedAs
<1>5. Exact(f)
  BY CountsItsTicketsMeans DEF CountedAs, Exact, InStatus
<1>6. CASE f \notin r.scope
  <2>1. r.got \cap TicketsOf(f) = {}
    <3> SUFFICES ASSUME NEW t \in r.got, t \in Tickets, FileOf[t] = f PROVE FALSE
      BY DEF TicketsOf
    <3>1. f \in FilesOf(r.got)
      BY DEF FilesOf
    <3>2. CASE r.kind = "revoke"
      BY <1>1, <1>6, <3>2 DEF Whole, Revokes, RevokesOneFile, TicketsOf
    <3> QED BY <1>1, <1>3, <1>6, <3>1, <3>2 DEF Whole, Filing
  <2>2. ExactAfter(files'[f], r, f)
    BY <1>2, <1>5, <1>6, <2>1, UntouchedExact
  <2> QED BY <1>4, <2>2, CountsItsTicketsMeans DEF ExactAfter
<1>7. CASE f \in r.scope /\ r.kind = "expire"
  <2>1. files'[f] = Overwrite(files[f], CountersOf(files[f]), Numbers(f)')
    BY <1>2, <1>3, <1>7 DEF NewFile, Closing, TooLate
  <2>2. files[f] \in FileRow
    BY DEF IInv, TablesOK
  <2>3. /\ files'[f].pending = Numbers(f)'.pending /\ files'[f].assigned = Numbers(f)'.assigned
        /\ files'[f].completed = Numbers(f)'.completed
    BY <2>1, <2>2, OverwriteExact
  <2> QED BY <2>3 DEF CountsItsTickets, CountersOf, Numbers
<1>8. CASE f \in r.scope /\ r.kind # "expire"
  <2>1. files'[f] = NewFile(r, f)
    BY <1>2, <1>8
  <2>2. ExactAfter(NewFile(r, f), r, f)
    <3>1. CASE Closing(r)
      BY <1>1, <1>5, <1>8, <3>1, ClosingExact
    <3>2. CASE ~ Closing(r) /\ ~ Maintains(r)
      BY <1>1, <1>5, <1>8, <3>2, AssignmentExact
    <3>3. CASE r.kind = "recycle"
      BY <1>1, <1>3, <1>5, <1>8, <3>3, RecyclingExact
    <3>4. CASE r.kind = "revoke"
      <4>1. \A t \in TicketsOf(f) : Live(t) => t \in r.got
        BY <1>1, <1>8, <3>4 DEF Revokes, RevokesOneFile, Reaches
      <4> QED BY <1>1, <1>3, <1>5, <1>8, <3>4, <4>1, RevocationExact
    <3> QED BY <1>8, <3>1, <3>2, <3>3, <3>4 DEF Maintains
  <2> QED BY <1>4, <2>1, <2>2, CountsItsTicketsMeans DEF ExactAfter
<1> QED BY <1>6, <1>7, <1>8

(* After its commit a worker is elsewhere.                                   *)
LEMMA CommitMovesOn ==
  ASSUME IInv, NEW w \in Workers, Commit(w)
  PROVE  txn[w].pc = "commit" /\ txn'[w] # txn[w]
<1> DEFINE r == txn[w]
<1>1. txn'[w] = AfterCommit(r) /\ r.pc = "commit" /\ Sound(r)
  BY SoundFacts DEF Commit, IInv
<1>2. Assigning(r.user, r.device).pc = "user lock" /\ Idle.pc = "idle"
  BY DEF Assigning, Idle
<1>3. ASSUME \E t \in r.got : TooLate(r, t)
      PROVE  Restart(r).pc # "commit"
  <2>1. r.user \in Users /\ r.device \in Devices /\ r.tries \in Nat
    BY <1>1, <1>3 DEF Sound, WorkOK, Identified, TooLate, Txn
  <2>2. PICK q \in Txn : Restart(r) = Retry(q)
    BY <2>1, RestartForm
  <2>3. Retry(q).pc \in {"pick", "idle"}
    BY <1>2 DEF Retry, Txn
  <2> QED BY <2>2, <2>3
<1> HIDE DEF r
<1>4. AfterCommit(r).pc # "commit"
  BY <1>2, <1>3 DEF AfterCommit
<1> QED BY <1>1, <1>4 DEF r

(* The counters of a file go wrong only in the commit of a recycling, a      *)
(* revocation or the expiry job that writes what it read or counted before   *)
(* somebody else's commit, or takes tickets of a file it had not noted.      *)
LEMMA StepDrifts ==
  ASSUME IInv, RevInv, AllWhole, [Next]_vars,
         NEW f \in Files, CountsItsTickets(f), ~ CountsItsTickets(f)'
  PROVE  \E w \in Workers : txn[w].pc = "commit" /\ txn'[w] # txn[w] /\ ReadBefore(w, f)
<1>1. ~ UNCHANGED tables
  BY CountsItsTicketsMeans DEF tables, CountedAs
<1>2. ~ \E g \in Files : ImportFile(g)
  BY ImportExact
<1>3. \A w : \A q : ~ Continue(w, q)
  BY <1>1 DEF Continue
<1>4. \A w \in Workers : ~ Request(w) /\ ~ Abort(w)
  BY <1>3, RequestProceeds DEF Abort, Proceeds
<1>5. ASSUME NEW w \in Workers, Statement(w)
      PROVE  Commit(w)
  <2>1. ~ (\/ TakeUserLock(w) \/ TakeReserveLock(w) \/ CheckDaily(w) \/ CheckProcessing(w)
           \/ ChooseGroup(w) \/ PickBatch(w) \/ PickOne(w) \/ TryHint(w))
    BY <1>3, EarlyProceeds DEF Proceeds
  <2>2. ~ (Scan(w) \/ LockRow(w))
    BY <1>3 DEF Scan, LockRow
  <2>3. ~ (LoadFile(w) \/ FindOverdue(w) \/ CountTickets(w) \/ ReadFile(w) \/ LockFile(w))
    BY <1>3 DEF LoadFile, FindOverdue, CountTickets, ReadFile, LockFile
  <2> QED BY <1>5, <2>1, <2>2, <2>3 DEF Statement
<1>6. PICK w \in Workers : Commit(w)
  <2>1. Next /\ ~ Tick
    BY <1>1 DEF Tick, vars, tables
  <2> QED BY <1>2, <1>4, <1>5, <2>1 DEF Next
<1>7. ReadBefore(w, f)
  BY <1>6, CommitCountsRight
<1> QED BY <1>6, <1>7, CommitMovesOn

(* Assignments and closes never make the counters of a file wrong, whatever  *)
(* they race with, and maintenance only when it works on what it read before *)
(* a commit of somebody else: the only ways to the drift counter_drift.cfg   *)
(* shows.                                                                    *)
THEOREM CountersDriftByStaleRead == Spec => DriftsOnlyByStaleRead
<1>1. Init => AllWhole
  BY IdleReady, ReadyWhole DEF Init, AllWhole
<1>2. IInv /\ RevInv /\ AllWhole /\ [Next]_vars =>
        [\A f \in Files :
           (CountsItsTickets(f) /\ ~ CountsItsTickets(f)') =>
             \E w \in Workers : txn[w].pc = "commit" /\ txn'[w] # txn[w] /\ ReadBefore(w, f)]_vars
  BY StepDrifts
<1> QED BY <1>1, <1>2, NextWhole, InitRevokes, NextRevokes, InvariantHolds, PTL
        DEF Spec, DriftsOnlyByStaleRead
=============================================================================
