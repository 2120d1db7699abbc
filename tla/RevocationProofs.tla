--------------------------- MODULE RevocationProofs ---------------------------
(***************************************************************************)
(* A revoked file has no live ticket, whatever runs beside revoke_file.    *)
(*                                                                         *)
(* The argument: the revocation's UPDATE finds every live ticket of the    *)
(* file in its snapshot, waits for each row and writes those it finds live *)
(* when it has the row.  A ticket not live by then has a final status, and *)
(* no transaction writes such a row; nobody can import the file again.  So *)
(* when it commits, the live tickets of the file are the ones it writes.   *)
(***************************************************************************)
EXTENDS TicketPoolProofs

Live(t) == tickets[t].status \in {"pending", "assigned"}

(* From its snapshot on, a revocation has written or still waits for every   *)
(* live ticket of its file.                                                  *)
Reaches(r) ==
  /\ r.pc = "rows" => \A t \in r.ids : Live(t) => t \in r.cand \cup r.got
  /\ r.pc = "commit" => \A t \in r.ids : Live(t) => t \in r.got

RevokesOneFile(r) ==
  \E f \in Files :
    /\ r.scope = {f} /\ r.ids = TicketsOf(f) /\ r.unread = {}
    /\ files[f].status # "absent"
    /\ r.pc \in {"load", "files", "scan", "rows", "commit"}

Revokes(r) == r.kind = "revoke" => RevokesOneFile(r) /\ Reaches(r)

RevInv ==
  /\ \A w \in Workers : Revokes(txn[w])
  /\ RevokedFileInert

-----------------------------------------------------------------------------
(* Steps that change no row *)

(* A step that changes no row keeps it if the worker's record does.          *)
LEMMA ContinueRevokes ==
  ASSUME IInv, RevInv, NEW w \in Workers, NEW q, Continue(w, q), Revokes(q)
  PROVE  RevInv'
<1>1. UNCHANGED <<tickets, files>>
  BY DEF Continue, tables
<1>2. \A v \in Workers : txn'[v] = IF v = w THEN q ELSE txn[v]
  BY DEF Continue, IInv
<1>3. ASSUME NEW v \in Workers
      PROVE  Revokes(txn[v])'
  <2>1. Revokes(txn'[v])
    BY <1>2 DEF RevInv
  <2> QED BY <1>1, <2>1 DEF Revokes, RevokesOneFile, Reaches, Live
<1>4. RevokedFileInert'
  BY <1>1 DEF RevInv, RevokedFileInert
<1> QED BY <1>3, <1>4 DEF RevInv

(* A worker whose record is not a revocation's need not be looked at.        *)
LEMMA ContinueOther ==
  ASSUME IInv, RevInv, NEW w \in Workers, NEW q, Continue(w, q), q.kind # "revoke"
  PROVE  RevInv'
BY ContinueRevokes DEF Revokes

(* Going on to the files or to the next round leaves the kind as it is.      *)
LEMMA KindStays ==
  ASSUME NEW r \in Txn
  PROVE  /\ ToFiles(r).kind = r.kind
         /\ AfterRows(r).kind \in {r.kind, "none"}
         /\ Retry(r).kind \in {r.kind, "none"}
         /\ \A S : Take(r, S).kind = r.kind
<1>1. ASSUME NEW q, q.kind = r.kind, \A p : [q EXCEPT !.pc = p].kind = r.kind,
             [q EXCEPT !.pc = "scan", !.stage = 2].kind = r.kind
      PROVE  ToFiles(q).kind = r.kind
  BY <1>1 DEF ToFiles, AfterFiles
<1>2. ToFiles(r).kind = r.kind
  BY <1>1 DEF Txn
<1>3. ASSUME NEW F PROVE ToFiles([r EXCEPT !.scope = F]).kind = r.kind
  BY <1>1 DEF Txn
<1>4. AfterRows(r).kind \in {r.kind, "none"}
  BY <1>3 DEF AfterRows, Idle, Txn
<1>5. Retry(r).kind \in {r.kind, "none"}
  BY DEF Retry, Idle, Txn
<1>6. ASSUME NEW S PROVE Take(r, S).kind = r.kind
  BY <1>1 DEF Take, Txn
<1> QED BY <1>2, <1>4, <1>5, <1>6

(* Every request but a revocation begins as something else, and a revocation *)
(* begins with its file and all of its tickets.                              *)
LEMMA RequestRevokes ==
  ASSUME IInv, RevInv, NEW w \in Workers, Request(w)
  PROVE  RevInv'
<1>1. ASSUME NEW u \in Users, NEW d \in Devices, NextTicket(w, u, d) \/ StopReceiving(w, u, d)
      PROVE  RevInv'
  <2>1. \A k, t, done : ClosingCurrent(k, u, d, t, done).kind = k
    BY DEF ClosingCurrent, Idle
  <2>2. Assigning(u, d).kind = "assign"
    BY AssigningSound
  <2>3. \/ Continue(w, Assigning(u, d))
        \/ \E t, done : Continue(w, ClosingCurrent("next", u, d, t, done))
        \/ \E t, done : Continue(w, ClosingCurrent("stop", u, d, t, done))
    BY <1>1 DEF NextTicket, StopReceiving, Receive
  <2> QED BY <2>1, <2>2, <2>3, ContinueOther
<1>2. ASSUME NEW q, Continue(w, q), q.kind \in {"download", "confirm", "recycle", "expire"}
      PROVE  RevInv'
  BY <1>2, ContinueOther
<1>4. ASSUME NEW u \in Users, NEW d \in Devices, NEW n \in 1..MaxBatch, DownloadBatch(w, u, d, n)
      PROVE  RevInv'
  <2> DEFINE q == [Idle EXCEPT !.kind = "download", !.pc = "user lock",
                               !.user = u, !.device = d, !.want = n]
  <2>1. q.kind = "download" /\ Continue(w, q)
    BY <1>4 DEF DownloadBatch, Receive, Idle
  <2> QED BY <1>2, <2>1
<1>5. ASSUME NEW u \in Users, NEW d \in Devices, NEW ids, NEW done, ConfirmBatch(w, u, d, ids, done)
      PROVE  RevInv'
  <2> DEFINE q == [Idle EXCEPT !.kind = "confirm", !.pc = "scan", !.user = u,
                               !.device = d, !.ids = ids, !.done = done]
  <2>1. q.kind = "confirm" /\ Continue(w, q)
    BY <1>5 DEF ConfirmBatch, Receive, Idle
  <2> QED BY <1>2, <2>1
<1>6. ASSUME NEW ids, RecycleTickets(w, ids)
      PROVE  RevInv'
  <2> DEFINE q == [Idle EXCEPT !.kind = "recycle", !.pc = "scan", !.ids = ids]
  <2>1. q.kind = "recycle" /\ Continue(w, q)
    BY <1>6 DEF RecycleTickets, Receive, Idle
  <2> QED BY <1>2, <2>1
<1>7. CASE ExpireOverdue(w)
  <2> DEFINE q == [Idle EXCEPT !.kind = "expire", !.pc = "load", !.clock = now]
  <2>1. q.kind = "expire" /\ Continue(w, q)
    BY <1>7 DEF ExpireOverdue, Receive, Idle
  <2> QED BY <1>2, <2>1
<1>3. ASSUME NEW f \in Files, RevokeFile(w, f)
      PROVE  RevInv'
  <2> DEFINE q == [Idle EXCEPT !.kind = "revoke", !.pc = "load", !.ids = TicketsOf(f),
                               !.scope = {f}]
  <2>1. Continue(w, q) /\ files[f].status # "absent"
    BY <1>3 DEF RevokeFile, Receive
  <2>2. q.pc = "load" /\ q.scope = {f} /\ q.ids = TicketsOf(f) /\ q.unread = {}
    BY DEF Idle
  <2> HIDE DEF q
  <2>3. Revokes(q)
    BY <2>1, <2>2 DEF Revokes, RevokesOneFile, Reaches
  <2> QED BY <2>1, <2>3, ContinueRevokes
<1> QED BY <1>1, <1>3, <1>4, <1>5, <1>6, <1>7 DEF Request

(* No statement before the choice of rows is a revocation's.                 *)
LEMMA EarlyRevokes ==
  ASSUME IInv, RevInv, NEW w \in Workers,
         \/ TakeUserLock(w) \/ TakeReserveLock(w) \/ CheckDaily(w) \/ CheckProcessing(w)
         \/ ChooseGroup(w) \/ PickBatch(w) \/ PickOne(w) \/ TryHint(w)
  PROVE  RevInv'
<1> DEFINE r == txn[w]
<1>1. r \in Txn /\ r.pc \in Early
  BY SoundFacts DEF TakeUserLock, TakeReserveLock, CheckDaily, CheckProcessing, ChooseGroup,
                    PickBatch, PickOne, TryHint, Early
<1>2. r.kind # "revoke" /\ "none" # "revoke"
  BY <1>1, SoundFacts
<1>3. Idle.kind = "none"
  BY DEF Idle
<1>4. ASSUME NEW q, Continue(w, q), q = Idle \/ q.kind = r.kind
      PROVE  RevInv'
  BY <1>2, <1>3, <1>4, ContinueOther
<1>9. CASE TakeUserLock(w) \/ TakeReserveLock(w)
  <2> DEFINE locked(q, p) == [q EXCEPT !.advisory = @ \cup {"user"}, !.pc = p]
             batch(q) == [q EXCEPT !.advisory = @ \cup {"reserve"}, !.pc = "daily", !.clock = now]
  <2>1. \A p : locked(r, p).kind = r.kind /\ batch(r).kind = r.kind
    BY <1>1 DEF Txn
  <2>2. (\E p : Continue(w, locked(r, p))) \/ Continue(w, batch(r))
    BY <1>9 DEF TakeUserLock, TakeReserveLock
  <2> HIDE DEF locked, batch
  <2> QED BY <1>4, <2>1, <2>2
<1>10. CASE CheckDaily(w) \/ CheckProcessing(w) \/ ChooseGroup(w)
  <2> DEFINE cut(n, p) == [r EXCEPT !.want = n, !.pc = p]
             chosen(ids, n) == [r EXCEPT !.ids = ids, !.want = n, !.pc = "pick"]
  <2>1. \A n, p : cut(n, p).kind = r.kind /\ chosen(p, n).kind = r.kind
    BY <1>1 DEF Txn
  <2>2. \/ Continue(w, Idle)
        \/ \E n, p : Continue(w, cut(n, p))
        \/ \E ids, n : Continue(w, chosen(ids, n))
    BY <1>10 DEF CheckDaily, CheckProcessing, ChooseGroup
  <2> HIDE DEF cut, chosen
  <2> QED BY <1>4, <2>1, <2>2
<1>5. ASSUME NEW q \in Txn, q.kind = r.kind, NEW S,
             Continue(w, Take(q, S)) \/ Continue(w, Retry(q))
      PROVE  RevInv'
  BY <1>2, <1>5, KindStays, ContinueOther
<1>6. CASE PickBatch(w)
  <2>1. Continue(w, Idle) \/ \E S : Continue(w, Take(r, S))
    BY <1>6 DEF PickBatch
  <2> QED BY <1>1, <1>2, <1>3, <1>5, <2>1, ContinueOther
<1>7. CASE PickOne(w)
  <2>1. now \in Nat
    BY DEF IInv, TablesOK
  <2>2. [r EXCEPT !.clock = now] \in Txn /\ [r EXCEPT !.clock = now].kind = r.kind
    BY <1>1, <2>1 DEF Txn
  <2>3. \A t : [r EXCEPT !.clock = now, !.pc = "hint", !.cand = {t}].kind = r.kind
    BY <1>1 DEF Txn
  <2>4. \/ Continue(w, Idle) \/ \E S : Continue(w, Take([r EXCEPT !.clock = now], S))
        \/ \E t : Continue(w, [r EXCEPT !.clock = now, !.pc = "hint", !.cand = {t}])
    BY <1>7 DEF PickOne
  <2> QED BY <1>2, <1>3, <1>5, <2>2, <2>3, <2>4, ContinueOther
<1>8. CASE TryHint(w)
  <2>1. PICK t \in r.cand :
          \/ Continue(w, Retry(r))
          \/ Continue(w, Retry([r EXCEPT !.held = @ \cup {t}]))
          \/ Continue(w, Take([r EXCEPT !.cand = {}], {t}))
          \/ Continue(w, Restart(r))
    BY <1>8 DEF TryHint
  <2>2. /\ [r EXCEPT !.held = @ \cup {t}] \in Txn /\ [r EXCEPT !.cand = {}] \in Txn
        /\ [r EXCEPT !.held = @ \cup {t}].kind = r.kind /\ [r EXCEPT !.cand = {}].kind = r.kind
    BY <1>1, <2>1 DEF Txn
  <2>3. Restart(r).kind # "revoke"
    <3>1. r.user \in Users /\ r.device \in Devices /\ r.tries \in Nat
      BY <1>1, <1>8, SoundFacts DEF TryHint, Txn, Early
    <3> QED BY <3>1, RestartForm, KindStays
  <2> QED BY <1>1, <1>5, <2>1, <2>2, <2>3, ContinueOther
<1> QED BY <1>6, <1>7, <1>8, <1>9, <1>10

-----------------------------------------------------------------------------
(* A revocation on its way to the commit *)

(* With its file in hand, it goes on to lock it or to find its tickets.      *)
LEMMA ToFilesRevokes ==
  ASSUME NEW r \in Txn, r.kind = "revoke", RevokesOneFile(r)
  PROVE  Revokes(ToFiles(r))
<1>1. ASSUME NEW p \in {"files", "scan"}
      PROVE  Revokes([r EXCEPT !.pc = p])
  <2> DEFINE q == [r EXCEPT !.pc = p]
  <2>1. q.pc = p /\ q.scope = r.scope /\ q.ids = r.ids /\ q.unread = r.unread
    BY DEF Txn
  <2> HIDE DEF q
  <2>2. RevokesOneFile(q) /\ Reaches(q)
    BY <2>1 DEF RevokesOneFile, Reaches
  <2> QED BY <2>2 DEF q, Revokes
<1>2. ToFiles(r) \in {[r EXCEPT !.pc = "files"], [r EXCEPT !.pc = "scan"]}
  BY DEF ToFiles, AfterFiles, RevokesOneFile, Closing
<1> QED BY <1>1, <1>2

(* Its WHERE clause asks for live tickets of its file.                       *)
LEMMA RevokeMatches ==
  ASSUME NEW r, r.kind = "revoke"
  PROVE  Target(r) = r.ids /\ \A t : Match(r, t) <=> Live(t)
BY DEF Target, Match, Closing, Revocable, Live

(* The file is read.                                                         *)
LEMMA LoadFileRevokes ==
  ASSUME IInv, RevInv, NEW w \in Workers, LoadFile(w)
  PROVE  RevInv'
<1> DEFINE r == txn[w]
<1>1. r \in Txn /\ r.kind = "revoke" /\ RevokesOneFile(r)
  BY SoundFacts DEF LoadFile, RevInv, Revokes
<1>2. CASE Continue(w, Idle)
  BY <1>2, ContinueOther DEF Idle
<1>3. ASSUME NEW f \in r.scope, Continue(w, ToFiles([r EXCEPT !.snap[f] = CountersOf(files[f])]))
      PROVE  RevInv'
  <2> DEFINE q == [r EXCEPT !.snap[f] = CountersOf(files[f])]
  <2>1. f \in Files
    BY <1>1 DEF Txn
  <2>2. CountersOf(files[f]) \in Counters
    BY <2>1, CountersOfType
  <2>3. /\ q \in Txn /\ q.kind = r.kind /\ q.pc = r.pc /\ q.scope = r.scope /\ q.ids = r.ids
        /\ q.unread = r.unread
    BY <1>1, <2>1, <2>2 DEF Txn
  <2>4. Continue(w, ToFiles(q))
    BY <1>3
  <2> HIDE DEF q
  <2>5. RevokesOneFile(q)
    BY <1>1, <2>3 DEF RevokesOneFile
  <2> QED BY <1>1, <2>3, <2>4, <2>5, ToFilesRevokes, ContinueRevokes
<1> QED BY <1>2, <1>3 DEF LoadFile

(* The file is locked.                                                       *)
LEMMA LockFileRevokes ==
  ASSUME IInv, RevInv, NEW w \in Workers, LockFile(w)
  PROVE  RevInv'
<1> DEFINE r == txn[w]
<1>1. r \in Txn
  BY SoundFacts
<1>2. PICK f \in ToWrite(r) : Continue(w, ToFiles([r EXCEPT !.flocked = @ \cup {f}]))
  BY DEF LockFile
<1> DEFINE q == [r EXCEPT !.flocked = @ \cup {f}]
<1>3. f \in Files
  BY <1>1 DEF ToWrite, Txn
<1>4. /\ q \in Txn /\ q.kind = r.kind /\ q.pc = r.pc /\ q.scope = r.scope /\ q.ids = r.ids
      /\ q.unread = r.unread
  BY <1>1, <1>3 DEF Txn
<1>5. Continue(w, ToFiles(q))
  BY <1>2
<1> HIDE DEF q
<1>6. CASE r.kind = "revoke"
  <2>1. RevokesOneFile(q)
    BY <1>4, <1>6 DEF RevInv, Revokes, RevokesOneFile
  <2> QED BY <1>4, <1>5, <1>6, <2>1, ToFilesRevokes, ContinueRevokes
<1>7. CASE r.kind # "revoke"
  BY <1>4, <1>5, <1>7, KindStays, ContinueOther
<1> QED BY <1>6, <1>7

(* The jobs' and the recycling's statements about files are none of its.     *)
LEMMA CountingRevokes ==
  ASSUME IInv, RevInv, NEW w \in Workers, FindOverdue(w) \/ CountTickets(w) \/ ReadFile(w)
  PROVE  RevInv'
<1> DEFINE r == txn[w]
<1>1. r \in Txn
  BY SoundFacts
<1>2. r.kind # "revoke"
  BY DEF FindOverdue, CountTickets, ReadFile, RevInv, Revokes, RevokesOneFile
<1>3. ASSUME NEW q, Continue(w, q), q.kind = r.kind
      PROVE  RevInv'
  BY <1>2, <1>3, ContinueOther
<1>4. CASE FindOverdue(w)
  <2> DEFINE q(F) == [r EXCEPT !.pc = "scan", !.scope = F]
  <2>1. \A F : q(F).kind = r.kind
    BY <1>1 DEF Txn
  <2>2. \E F : Continue(w, q(F))
    BY <1>4 DEF FindOverdue
  <2> HIDE DEF q
  <2> QED BY <1>3, <2>1, <2>2
<1>5. CASE CountTickets(w)
  <2> DEFINE p == [r EXCEPT !.pc = "commit"]
             q(c) == [r EXCEPT !.pc = "read", !.unread = r.scope, !.count = c]
  <2>1. p.kind = r.kind /\ \A c : q(c).kind = r.kind
    BY <1>1 DEF Txn
  <2>2. Continue(w, p) \/ \E c : Continue(w, q(c))
    BY <1>5 DEF CountTickets
  <2> HIDE DEF p, q
  <2> QED BY <1>3, <2>1, <2>2
<1>6. CASE ReadFile(w)
  <2>1. PICK f \in r.unread :
          Continue(w, ToFiles([r EXCEPT !.snap[f] = CountersOf(files[f]), !.unread = @ \ {f}]))
    BY <1>6 DEF ReadFile
  <2> DEFINE q == [r EXCEPT !.snap[f] = CountersOf(files[f]), !.unread = @ \ {f}]
  <2>2. f \in Files
    BY <1>1 DEF Txn
  <2>3. CountersOf(files[f]) \in Counters
    BY <2>2, CountersOfType
  <2>4. q \in Txn /\ q.kind = r.kind
    BY <1>1, <2>2, <2>3 DEF Txn
  <2>5. Continue(w, ToFiles(q))
    BY <2>1
  <2> HIDE DEF q
  <2> QED BY <1>3, <2>4, <2>5, KindStays
<1> QED BY <1>4, <1>5, <1>6

(* The snapshot holds every live ticket of the file.                         *)
LEMMA ScanRevokes ==
  ASSUME IInv, RevInv, NEW w \in Workers, Scan(w)
  PROVE  RevInv'
<1> DEFINE r == txn[w]
           found == {t \in Target(r) : Match(r, t)}
           q == [r EXCEPT !.pc = "rows", !.cand = found]
<1>1. r \in Txn
  BY SoundFacts
<1>2. Continue(w, q) \/ (found = {} /\ Continue(w, AfterRows(r)))
  BY DEF Scan
<1>3. /\ q.kind = r.kind /\ q.pc = "rows" /\ q.scope = r.scope /\ q.ids = r.ids
      /\ q.unread = r.unread /\ q.cand = found /\ q.got = r.got
  BY <1>1 DEF Txn
<1> HIDE DEF q
<1>4. CASE r.kind = "revoke"
  <2>1. found = {t \in r.ids : Live(t)} /\ RevokesOneFile(r)
    BY <1>4, RevokeMatches DEF RevInv, Revokes
  <2> HIDE DEF found
  <2>2. Revokes(q)
    BY <1>3, <2>1 DEF Revokes, RevokesOneFile, Reaches
  <2> DEFINE p == [r EXCEPT !.pc = "commit"]
  <2>3. /\ p.kind = r.kind /\ p.pc = "commit" /\ p.scope = r.scope /\ p.ids = r.ids
        /\ p.unread = r.unread
    BY <1>1 DEF Txn
  <2>4. AfterRows(r) = p
    BY <1>4 DEF AfterRows, Closing
  <2> HIDE DEF p
  <2>5. found = {} => Revokes(p)
    BY <2>1, <2>3 DEF Revokes, RevokesOneFile, Reaches
  <2> QED BY <1>2, <2>2, <2>4, <2>5, ContinueRevokes
<1>5. CASE r.kind # "revoke"
  <2>1. AfterRows(r).kind # "revoke"
    BY <1>1, <1>5, KindStays
  <2> QED BY <1>2, <1>3, <1>5, <2>1, ContinueOther
<1> QED BY <1>4, <1>5

(* A row it has locked is written if it is still live.                       *)
LEMMA LockRowRevokes ==
  ASSUME IInv, RevInv, NEW w \in Workers, LockRow(w)
  PROVE  RevInv'
<1> DEFINE r == txn[w]
<1>1. r \in Txn /\ WorkOK(r) /\ r.pc = "rows"
  BY SoundFacts DEF LockRow
<1>2. PICK t \in r.cand :
        \/ Locked(r, t).cand = {} /\ Continue(w, AfterRows(Locked(r, t)))
        \/ Continue(w, Locked(r, t))
  BY DEF LockRow
<1> DEFINE q == Locked(r, t)
           got == IF Match(r, t) THEN r.got \cup {t} ELSE r.got
<1>3. q \in Txn
  BY <1>1, LockedOK
<1>4. /\ q.kind = r.kind /\ q.pc = r.pc /\ q.scope = r.scope /\ q.ids = r.ids
      /\ q.unread = r.unread /\ q.cand = r.cand \ {t} /\ q.got = got
  BY <1>1 DEF Locked, Txn
<1>5. Continue(w, q) \/ (q.cand = {} /\ Continue(w, AfterRows(q)))
  BY <1>2
<1> HIDE DEF q
<1>6. CASE r.kind = "revoke"
  <2>1. RevokesOneFile(r) /\ Reaches(r) /\ (Match(r, t) <=> Live(t))
    BY <1>6, RevokeMatches DEF RevInv, Revokes
  <2>2. \A s \in q.ids : Live(s) => s \in q.cand \cup q.got
    BY <1>1, <1>4, <2>1 DEF Reaches
  <2>3. Revokes(q)
    BY <1>1, <1>4, <2>1, <2>2 DEF Revokes, RevokesOneFile, Reaches
  <2> DEFINE p == [q EXCEPT !.pc = "commit"]
  <2>4. /\ p.kind = q.kind /\ p.pc = "commit" /\ p.scope = q.scope /\ p.ids = q.ids
        /\ p.unread = q.unread /\ p.got = q.got
    BY <1>3 DEF Txn
  <2>5. AfterRows(q) = p
    BY <1>4, <1>6 DEF AfterRows, Closing
  <2> HIDE DEF p
  <2>6. q.cand = {} => Revokes(p)
    BY <1>4, <2>1, <2>2, <2>4 DEF Revokes, RevokesOneFile, Reaches
  <2> QED BY <1>5, <2>3, <2>5, <2>6, ContinueRevokes
<1>7. CASE r.kind # "revoke"
  <2>1. AfterRows(q).kind # "revoke"
    BY <1>3, <1>4, <1>7, KindStays
  <2> QED BY <1>4, <1>5, <1>7, <2>1, ContinueOther
<1> QED BY <1>6, <1>7

-----------------------------------------------------------------------------
(* COMMIT, the import of a file, and the clock *)

(* Only a revocation changes the status of a file.                           *)
LEMMA NewFileStatus ==
  ASSUME IInv, NEW r, NEW f \in Files
  PROVE  NewFile(r, f).status = IF r.kind = "revoke" THEN "revoked" ELSE files[f].status
<1> DEFINE row == files[f]
           loaded == r.snap[f]
           mine == r.got \cap TicketsOf(f)
           size == Cardinality(mine)
           changed == CASE r.kind = "expire" -> r.count[f]
                        [] r.kind = "recycle" -> RecycleInFile(loaded, size)
                        [] OTHER -> [loaded EXCEPT !.pending = 0, !.assigned = 0]
<1>1. row \in FileRow
  BY DEF IInv, TablesOK
<1> HIDE DEF row
<1>2. \A old, new : /\ Overwrite(row, old, new).status = row.status
                    /\ [Overwrite(row, old, new) EXCEPT !.status = "revoked"].status = "revoked"
  BY <1>1 DEF Overwrite, FileRow
<1>3. \A n, done : CloseInFile(row, n, done).status = row.status
  BY <1>1 DEF CloseInFile, FileRow
<1>4. \A p, a : /\ [row EXCEPT !.pending = p].status = row.status
                /\ [row EXCEPT !.pending = p, !.assigned = a].status = row.status
  BY <1>1 DEF FileRow
<1>5. Closing(r) \/ r.kind \in {"expire", "recycle"} => r.kind # "revoke"
  BY DEF Closing
<1>6. CASE Closing(r)
  <2>1. NewFile(r, f) = CloseInFile(row, size, Cardinality(mine \cap r.done))
    BY <1>6 DEF NewFile, row, Closing, TooLate
  <2> QED BY <1>3, <1>5, <1>6, <2>1 DEF row
<1>7. CASE ~ Closing(r) /\ r.kind \in {"expire", "recycle", "revoke"}
  <2>1. CASE r.kind = "revoke"
    <3>1. NewFile(r, f) = [Overwrite(row, loaded, changed) EXCEPT !.status = "revoked"]
      BY <1>7, <2>1 DEF NewFile, row, Closing, TooLate
    <3> QED BY <1>2, <2>1, <3>1
  <2>2. CASE r.kind # "revoke"
    <3>1. NewFile(r, f) = Overwrite(row, loaded, changed)
      BY <1>7, <2>2 DEF NewFile, row, Closing, TooLate
    <3> QED BY <1>2, <2>2, <3>1 DEF row
  <2> QED BY <2>1, <2>2
<1>8. CASE ~ Closing(r) /\ r.kind \notin {"expire", "recycle", "revoke"}
  BY <1>4, <1>8 DEF NewFile, row
<1> QED BY <1>6, <1>7, <1>8

(* What follows a commit is no revocation.                                   *)
LEMMA AfterCommitKind ==
  ASSUME NEW r, Sound(r)
  PROVE  AfterCommit(r).kind # "revoke"
<1>1. CASE r.kind = "next" /\ r.got # {}
  <2>1. r.user \in Users /\ r.device \in Devices
    BY <1>1 DEF Sound, WorkOK, Identified, Closing
  <2> QED BY <1>1, <2>1, AssigningSound DEF AfterCommit
<1>2. CASE ~ (r.kind = "next" /\ r.got # {}) /\ \E t \in r.got : TooLate(r, t)
  <2>1. r.user \in Users /\ r.device \in Devices /\ r.tries \in Nat
    BY <1>2 DEF Sound, WorkOK, Identified, TooLate, Txn
  <2> QED BY <1>2, <2>1, RestartForm, KindStays DEF AfterCommit
<1>3. CASE ~ (r.kind = "next" /\ r.got # {}) /\ ~ \E t \in r.got : TooLate(r, t)
  BY <1>3 DEF AfterCommit, Idle
<1> QED BY <1>1, <1>2, <1>3

(* A commit makes no ticket live that was not; a revocation leaves none of   *)
(* its file's.                                                               *)
LEMMA CommitRevokes ==
  ASSUME IInv, RevInv, NEW w \in Workers, Commit(w)
  PROVE  RevInv'
<1> DEFINE r == txn[w]
<1>1. Sound(r)
  BY SoundFacts
<1>2. /\ r.pc = "commit"
      /\ tickets' = [t \in Tickets |-> IF t \in r.got THEN NewTicket(r, t) ELSE tickets[t]]
      /\ files' = [f \in Files |-> IF f \in r.scope THEN NewFile(r, f) ELSE files[f]]
      /\ txn' = [txn EXCEPT ![w] = AfterCommit(r)]
  BY DEF Commit
<1>3. \A v \in Workers : txn'[v] = IF v = w THEN AfterCommit(r) ELSE txn[v]
  BY <1>2 DEF IInv
<1>4. r.kind = "revoke" => RevokesOneFile(r) /\ \A t \in r.ids : Live(t) => t \in r.got
  BY <1>2 DEF RevInv, Revokes, Reaches
<1> HIDE DEF r
<1>5. ASSUME NEW t \in Tickets, Live(t)'
      PROVE  Live(t)
  BY <1>1, <1>2, <1>5, WrittenRowsPresent DEF Live
<1>6. ASSUME NEW f \in Files, files[f].status # "absent"
      PROVE  files'[f].status # "absent"
  BY <1>1, <1>2, <1>6, NewFileType
<1>7. ASSUME NEW v \in Workers
      PROVE  Revokes(txn[v])'
  <2>1. CASE v = w
    BY <1>1, <1>3, <2>1, AfterCommitKind DEF Revokes
  <2>2. CASE v # w
    <3> DEFINE q == txn[v]
    <3>1. txn'[v] = q /\ Revokes(q)
      BY <1>3, <2>2 DEF RevInv
    <3>2. q.ids \in SUBSET Tickets /\ q.scope \in SUBSET Files
      BY SoundFacts DEF Txn
    <3> HIDE DEF q
    <3>3. CASE q.kind = "revoke"
      <4>1. PICK f \in Files :
              /\ q.scope = {f} /\ q.ids = TicketsOf(f) /\ q.unread = {}
              /\ files[f].status # "absent"
              /\ q.pc \in {"load", "files", "scan", "rows", "commit"}
        BY <3>1, <3>3 DEF Revokes, RevokesOneFile
      <4>2. files'[f].status # "absent"
        BY <1>6, <4>1
      <4>3. \A t \in q.ids : Live(t)' => Live(t)
        BY <1>5, <3>2
      <4>4. RevokesOneFile(txn[v])'
        BY <3>1, <4>1, <4>2 DEF RevokesOneFile
      <4>5. Reaches(txn[v])'
        <5>1. Reaches(q)
          BY <3>1, <3>3 DEF Revokes
        <5> QED BY <3>1, <4>3, <5>1 DEF Reaches, Live
      <4> QED BY <4>4, <4>5 DEF Revokes
    <3>4. CASE q.kind # "revoke"
      BY <3>1, <3>4 DEF Revokes
    <3> QED BY <3>3, <3>4
  <2> QED BY <2>1, <2>2
<1>8. ASSUME NEW f \in Files, files'[f].status = "revoked", NEW t \in TicketsOf(f)
      PROVE  ~ Live(t)'
  <2>1. t \in Tickets
    BY DEF TicketsOf
  <2>2. CASE files[f].status = "revoked"
    <3>1. ~ Live(t)
      BY <1>8, <2>2 DEF RevInv, RevokedFileInert, Live
    <3> QED BY <1>5, <2>1, <3>1
  <2>3. CASE files[f].status # "revoked"
    <3>1. f \in r.scope /\ r.kind = "revoke"
      BY <1>2, <1>8, <2>3, NewFileStatus
    <3>2. t \in r.ids
      BY <1>4, <1>8, <3>1 DEF RevokesOneFile
    <3>3. CASE t \in r.got
      <4>1. tickets'[t] = [tickets[t] EXCEPT !.status = "revoked"]
        BY <1>2, <2>1, <3>1, <3>3 DEF NewTicket, Closing, TooLate
      <4>2. tickets[t] \in Lifecycle!TicketRow
        BY <2>1 DEF IInv, TablesOK
      <4> QED BY <4>1, <4>2 DEF Lifecycle!TicketRow, Live
    <3>4. CASE t \notin r.got
      BY <1>4, <1>5, <2>1, <3>1, <3>2, <3>4
    <3> QED BY <3>3, <3>4
  <2> QED BY <2>2, <2>3
<1>9. RevokedFileInert'
  BY <1>8 DEF RevokedFileInert, Live
<1> QED BY <1>7, <1>9 DEF RevInv

(* An import is of a file that nobody revokes.                               *)
LEMMA ImportRevokes ==
  ASSUME IInv, RevInv, NEW f \in Files, ImportFile(f)
  PROVE  RevInv'
<1> DEFINE row == files'[f]
<1>1. /\ files[f].status = "absent"
      /\ \A t \in Tickets : FileOf[t] # f => tickets'[t] = tickets[t]
      /\ \A g \in Files : g # f => files'[g] = files[g]
      /\ txn' = txn
  BY DEF ImportFile, IInv, TablesOK
<1>2. row.status = "active"
  BY DEF ImportFile, IInv, TablesOK
<1>3. ASSUME NEW v \in Workers
      PROVE  Revokes(txn[v])'
  <2> DEFINE q == txn[v]
  <2>1. txn'[v] = q /\ Revokes(q)
    BY <1>1 DEF RevInv
  <2> HIDE DEF q
  <2>2. CASE q.kind = "revoke"
    <3>1. PICK g \in Files :
            /\ q.scope = {g} /\ q.ids = TicketsOf(g) /\ q.unread = {}
            /\ files[g].status # "absent"
            /\ q.pc \in {"load", "files", "scan", "rows", "commit"}
      BY <2>1, <2>2 DEF Revokes, RevokesOneFile
    <3>2. g # f /\ files'[g].status # "absent"
      BY <1>1, <3>1
    <3>3. \A t \in q.ids : tickets'[t] = tickets[t]
      BY <1>1, <3>1, <3>2 DEF TicketsOf
    <3>4. RevokesOneFile(txn[v])'
      BY <2>1, <3>1, <3>2 DEF RevokesOneFile
    <3>5. Reaches(txn[v])'
      <4>1. Reaches(q)
        BY <2>1, <2>2 DEF Revokes
      <4> QED BY <2>1, <3>3, <4>1 DEF Reaches, Live
    <3> QED BY <3>4, <3>5 DEF Revokes
  <2>3. CASE q.kind # "revoke"
    BY <2>1, <2>3 DEF Revokes
  <2> QED BY <2>2, <2>3
<1>4. RevokedFileInert'
  <2> SUFFICES ASSUME NEW g \in Files, files'[g].status = "revoked", NEW t \in TicketsOf(g)
               PROVE  tickets'[t].status \notin {"pending", "assigned"}
    BY DEF RevokedFileInert
  <2>1. g # f
    BY <1>2
  <2>2. files[g].status = "revoked" /\ tickets'[t] = tickets[t]
    BY <1>1, <2>1 DEF TicketsOf
  <2> QED BY <2>2 DEF RevInv, RevokedFileInert
<1> QED BY <1>3, <1>4 DEF RevInv

(* The clock, and a step of nobody, change neither tickets nor transactions. *)
LEMMA StillRevokes ==
  ASSUME RevInv, UNCHANGED <<tickets, files, txn>>
  PROVE  RevInv'
BY DEF RevInv, Revokes, RevokesOneFile, Reaches, Live, RevokedFileInert

-----------------------------------------------------------------------------
(* The theorem *)

(* Nothing is revoked, and nobody revokes, in the empty tables.              *)
LEMMA InitRevokes == Init => RevInv
BY DEF Init, Idle, RevInv, Revokes, RevokedFileInert

(* Every step keeps it.                                                      *)
LEMMA NextRevokes == IInv /\ RevInv /\ [Next]_vars => RevInv'
<1> SUFFICES ASSUME IInv, RevInv, [Next]_vars PROVE RevInv'
  OBVIOUS
<1>1. CASE UNCHANGED vars
  BY <1>1, StillRevokes DEF vars, tables
<1>2. CASE \E w \in Workers : Request(w)
  BY <1>2, RequestRevokes
<1>3. CASE \E w \in Workers : Statement(w)
  <2>1. PICK w \in Workers : Statement(w)
    BY <1>3
  <2> QED BY <2>1, EarlyRevokes, ScanRevokes, LockRowRevokes, LoadFileRevokes, LockFileRevokes,
             CountingRevokes, CommitRevokes DEF Statement
<1>4. CASE \E w \in Workers : Abort(w)
  <2>1. Idle.kind # "revoke"
    BY DEF Idle
  <2> QED BY <1>4, <2>1, ContinueOther DEF Abort
<1>5. CASE \E f \in Files : ImportFile(f)
  BY <1>5, ImportRevokes
<1>6. CASE Tick
  BY <1>6, StillRevokes DEF Tick, tables
<1> QED BY <1>1, <1>2, <1>3, <1>4, <1>5, <1>6 DEF Next

(* Once a file is revoked, none of its tickets is in the pool or with a      *)
(* device: no hand-out, recycling, closing or retry that raced the           *)
(* revocation leaves one, and none is put back later.                        *)
THEOREM RevokedFilesAreInert == Spec => []RevokedFileInert
<1>1. RevInv => RevokedFileInert
  BY DEF RevInv
<1> QED BY <1>1, InitRevokes, NextRevokes, InvariantHolds, PTL DEF Spec
=============================================================================
