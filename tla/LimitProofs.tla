------------------------------ MODULE LimitProofs ------------------------------
(***************************************************************************)
(* What a download has counted still holds when it commits: its user works *)
(* on no more tickets than the processing limit, however many devices      *)
(* download at once, and the pool keeps the reserve.                       *)
(*                                                                         *)
(* The argument for the limit: a download holds its user's advisory lock   *)
(* from before it counts the user's tickets to its commit, so no other     *)
(* download of the user is past its own count.  Meanwhile the user's       *)
(* tickets only become fewer, and the batch is no larger than what the     *)
(* count left.  The argument for the reserve is the same, with the         *)
(* reserve's lock and the pool.                                            *)
(***************************************************************************)
EXTENDS TicketPoolProofs

(* A download that has counted fits beside the tickets its user works on.    *)
Fitting(r) ==
  MaxProcessing[r.user] # None =>
    /\ r.pc \in {"stats", "pick"} =>
         Cardinality(ProcessingOf(r.user)) + r.want <= MaxProcessing[r.user]
    /\ r.pc \notin Early =>
         Cardinality(ProcessingOf(r.user)) + Cardinality(r.got) <= MaxProcessing[r.user]

Counted(r) ==
  /\ r.kind \in {"assign", "next", "stop"} => ClientMode[r.user] = "mode_a"
  /\ r.kind = "download" => ClientMode[r.user] = "mode_b"
  /\ (r.kind = "download" /\ r.pc # "user lock") => "user" \in r.advisory /\ Fitting(r)

(* pg_advisory_xact_lock(1001, user) is held by one transaction at a time.   *)
UserLocksExclusive ==
  \A w \in Workers : \A v \in Others(w) :
    ("user" \in txn[w].advisory /\ "user" \in txn[v].advisory) => txn[w].user # txn[v].user

LimInv ==
  /\ \A w \in Workers : Counted(txn[w])
  /\ UserLocksExclusive
  /\ ProcessingWithinLimit

-----------------------------------------------------------------------------
(* SELECT ... LIMIT n *)

(* The query with LIMIT n returns at most n rows.                            *)
LEMMA LimitIsKept ==
  ASSUME NEW S \in SUBSET Tickets, NEW n \in Nat
  PROVE  /\ IsFiniteSet(LowestIds(S, n))
         /\ Cardinality(LowestIds(S, n)) \in Nat
         /\ Cardinality(LowestIds(S, n)) <= n
<1> DEFINE L == LowestIds(S, n)
           Below(t) == {s \in S : s < t}
           Above(t) == {s \in L : t < s}
           Aboves == {Above(t) : t \in L}
<1>1. L \in SUBSET S /\ L \in SUBSET Nat /\ IsFiniteSet(S) /\ IsFiniteSet(L)
  <2>1. IsFiniteSet(S)
    BY SelectionAssumption, FS_Subset
  <2>2. L \in SUBSET S
    BY DEF LowestIds
  <2> QED BY <2>1, <2>2, SelectionAssumption, FS_Subset
<1>2. \A t \in L : Cardinality(Below(t)) < n
  BY DEF LowestIds
<1> HIDE DEF L
<1>3. CASE L = {}
  BY <1>1, <1>3, FS_EmptySet DEF L
<1>4. CASE L # {}
  <2>1. PICK m \in L : \A t \in L : ~ (Above(t) \subseteq Above(m) /\ Above(t) # Above(m))
    <3>1. Aboves \subseteq FiniteSubsetsOf(L)
      BY <1>1, FS_Subset DEF FiniteSubsetsOf
    <3>2. Aboves # {}
      BY <1>4
    <3>3. IsWellFoundedOn(StrictSubsetOrdering(L), FiniteSubsetsOf(L))
      BY FS_StrictSubsetOrderingWellFounded
    <3>4. PICK X \in Aboves : \A Y \in Aboves : ~ (<<Y, X>> \in StrictSubsetOrdering(L))
      <4> HIDE DEF Aboves
      <4> QED BY <3>1, <3>2, <3>3, WFMin
    <3>5. PICK m \in L : X = Above(m)
      OBVIOUS
    <3>6. SUFFICES ASSUME NEW t \in L, Above(t) \subseteq Above(m), Above(t) # Above(m)
                   PROVE  FALSE
      BY <3>5
    <3>7. Above(t) \in Aboves /\ Above(t) \in SUBSET L /\ Above(m) \in SUBSET L
      OBVIOUS
    <3>8. <<Above(t), Above(m)>> \in StrictSubsetOrdering(L)
      <4> HIDE DEF Above, Aboves
      <4> QED BY <3>6, <3>7 DEF StrictSubsetOrdering
    <3> QED BY <3>4, <3>5, <3>7, <3>8
  <2>2. \A t \in L : t <= m
    <3> SUFFICES ASSUME NEW t \in L, ~ (t <= m) PROVE FALSE
      OBVIOUS
    <3>1. m \in Nat /\ \A s \in L : s \in Nat
      BY <1>1
    <3>2. m < t
      BY <3>1
    <3>3. \A s \in L : t < s => m < s
      BY <3>1, <3>2
    <3>4. Above(t) \subseteq Above(m)
      BY <3>3
    <3>5. t \in Above(m)
      BY <3>2
    <3>6. t \notin Above(t)
      BY <3>1
    <3> QED BY <2>1, <3>4, <3>5, <3>6
  <2>3. L \in SUBSET (Below(m) \cup {m})
    BY <1>1, <2>2
  <2>4. IsFiniteSet(Below(m)) /\ Cardinality(Below(m)) \in Nat /\ Cardinality(Below(m)) < n
    BY <1>1, <1>2, FS_Subset, FS_CardinalityType
  <2> HIDE DEF Below
  <2>5. IsFiniteSet(Below(m) \cup {m}) /\ Cardinality(Below(m) \cup {m}) <= Cardinality(Below(m)) + 1
    BY <2>4, FS_AddElement
  <2>6. Cardinality(Below(m) \cup {m}) \in Nat /\ Cardinality(L) \in Nat
    BY <1>1, <2>5, FS_CardinalityType
  <2>7. Cardinality(L) <= Cardinality(Below(m) \cup {m})
    BY <2>3, <2>5, FS_Subset
  <2> QED BY <1>1, <2>4, <2>5, <2>6, <2>7 DEF L
<1> QED BY <1>1, <1>3, <1>4 DEF L

-----------------------------------------------------------------------------
(* Steps that change no row *)

(* A step that changes no row keeps it if the worker's record does, and the  *)
(* worker took the user's lock only when nobody had it.                      *)
LEMMA ContinueCounts ==
  ASSUME IInv, LimInv, NEW w \in Workers, NEW q, Continue(w, q), Counted(q),
         "user" \in q.advisory =>
           q.user = txn[w].user /\ ("user" \in txn[w].advisory \/ UserLockFree(w))
  PROVE  LimInv'
<1>1. UNCHANGED <<tickets, files>>
  BY DEF Continue, tables
<1>2. \A v \in Workers : txn'[v] = IF v = w THEN q ELSE txn[v]
  BY DEF Continue, IInv
<1>3. ASSUME NEW v \in Workers
      PROVE  Counted(txn[v])'
  <2>1. Counted(txn'[v])
    BY <1>2 DEF LimInv
  <2> QED BY <1>1, <2>1 DEF Counted, Fitting, ProcessingOf
<1>4. UserLocksExclusive'
  BY <1>2 DEF LimInv, UserLocksExclusive, UserLockFree, Others
<1>5. ProcessingWithinLimit'
  BY <1>1 DEF LimInv, ProcessingWithinLimit, ProcessingOf
<1> QED BY <1>3, <1>4, <1>5 DEF LimInv

(* The worker goes on for the same request with the same advisory locks.     *)
SameLocks(q, r) == q.kind = r.kind /\ q.user = r.user /\ q.advisory = r.advisory
SameBatch(q, r) == SameLocks(q, r) /\ q.clock = r.clock

(* Where no batch is downloaded, that is all there is to it.                 *)
LEMMA OtherCounts ==
  ASSUME IInv, LimInv, NEW w \in Workers, NEW q, Continue(w, q), SameLocks(q, txn[w]),
         txn[w].kind # "download"
  PROVE  LimInv'
<1>1. Counted(q)
  BY DEF SameLocks, Counted, LimInv
<1> QED BY <1>1, ContinueCounts DEF SameLocks

(* A transaction that has chosen its rows keeps them.                        *)
LEMMA LateCounts ==
  ASSUME IInv, LimInv, NEW w \in Workers, NEW q, Continue(w, q), SameLocks(q, txn[w]),
         q.got = txn[w].got \/ txn[w].kind # "download",
         txn[w].pc \notin Early, q.pc \notin Early
  PROVE  LimInv'
<1>1. CASE txn[w].kind = "download"
  <2>1. Counted(txn[w]) /\ txn[w].pc # "user lock"
    BY DEF LimInv, Early
  <2>2. Counted(q)
    BY <1>1, <2>1 DEF SameLocks, Counted, Fitting, Early
  <2> QED BY <2>2, ContinueCounts DEF SameLocks
<1> QED BY <1>1, OtherCounts

(* So does one that gives up.                                                *)
LEMMA IdleCounts ==
  ASSUME IInv, LimInv, NEW w \in Workers, Continue(w, Idle)
  PROVE  LimInv'
<1>1. Counted(Idle) /\ Idle.advisory = {}
  BY DEF Counted, Idle
<1> QED BY <1>1, ContinueCounts

(* A request begins without a lock and without a count.                      *)
LEMMA FreshCounts ==
  ASSUME IInv, LimInv, NEW w \in Workers, NEW q, Continue(w, q), q.advisory = {},
         q.kind = "download" => q.pc = "user lock" /\ ClientMode[q.user] = "mode_b",
         q.kind \in {"assign", "next", "stop"} => ClientMode[q.user] = "mode_a"
  PROVE  LimInv'
BY ContinueCounts DEF Counted

-----------------------------------------------------------------------------
(* Requests *)

(* What a request is when it arrives: it holds no advisory lock, a download  *)
(* is a mode-B user's, and only mode-A users are given single tickets.       *)
Arrived(q) ==
  /\ q.advisory = {}
  /\ q.kind \in Kinds \/ (q.kind = "assign" /\ "next" \in Kinds)
  /\ q.kind = "download" => q.pc = "user lock" /\ ClientMode[q.user] = "mode_b"
  /\ q.kind \in {"assign", "next", "stop"} => ClientMode[q.user] = "mode_a"

Received(w) == \E q : Continue(w, q) /\ Arrived(q)

(* Every request arrives like that.                                          *)
LEMMA RequestsArrive ==
  ASSUME NEW w \in Workers, Request(w)
  PROVE  Received(w)
<1>1. ASSUME NEW u \in Users, NEW d \in Devices, NextTicket(w, u, d) \/ StopReceiving(w, u, d)
      PROVE  Received(w)
  <2>1. \A k, t, done : LET q == ClosingCurrent(k, u, d, t, done)
                        IN q.kind = k /\ q.user = u /\ q.advisory = {}
    BY DEF ClosingCurrent, Idle
  <2>2. /\ Assigning(u, d).kind = "assign" /\ Assigning(u, d).user = u
        /\ Assigning(u, d).advisory = {}
    BY DEF Assigning, Idle
  <2>3. /\ ClientMode[u] = "mode_a"
        /\ \/ Continue(w, Assigning(u, d)) /\ "next" \in Kinds
           \/ \E k \in {"next", "stop"} : \E t, done :
                Continue(w, ClosingCurrent(k, u, d, t, done)) /\ k \in Kinds
    BY <1>1 DEF NextTicket, StopReceiving, Receive
  <2>4. CASE Continue(w, Assigning(u, d)) /\ "next" \in Kinds
    BY <2>2, <2>3, <2>4 DEF Arrived, Received
  <2>5. ASSUME NEW k \in {"next", "stop"}, NEW t, NEW done,
               Continue(w, ClosingCurrent(k, u, d, t, done)), k \in Kinds
        PROVE  Received(w)
    <3> DEFINE q == ClosingCurrent(k, u, d, t, done)
    <3>1. q.kind = k /\ q.user = u /\ q.advisory = {} /\ Continue(w, q)
      BY <2>1, <2>5
    <3> HIDE DEF q
    <3> QED BY <2>3, <2>5, <3>1 DEF Arrived, Received
  <2> QED BY <2>3, <2>4, <2>5
<1>2. ASSUME NEW u \in Users, NEW d \in Devices, NEW n \in 1..MaxBatch, DownloadBatch(w, u, d, n)
      PROVE  Received(w)
  <2> DEFINE q == [Idle EXCEPT !.kind = "download", !.pc = "user lock",
                               !.user = u, !.device = d, !.want = n]
  <2>1. /\ q.kind = "download" /\ q.pc = "user lock" /\ q.advisory = {} /\ q.user = u
        /\ ClientMode[u] = "mode_b" /\ Continue(w, q) /\ "download" \in Kinds
    BY <1>2 DEF DownloadBatch, Receive, Idle
  <2> HIDE DEF q
  <2> QED BY <2>1 DEF Arrived, Received
<1>3. ASSUME NEW q, Continue(w, q), q.advisory = {},
             q.kind \in Kinds \cap {"confirm", "recycle", "revoke", "expire"}
      PROVE  Received(w)
  BY <1>3 DEF Arrived, Received
<1>4. ASSUME NEW u \in Users, NEW d \in Devices, NEW ids, NEW done, ConfirmBatch(w, u, d, ids, done)
      PROVE  Received(w)
  <2> DEFINE q == [Idle EXCEPT !.kind = "confirm", !.pc = "scan", !.user = u,
                               !.device = d, !.ids = ids, !.done = done]
  <2>1. q.kind = "confirm" /\ q.advisory = {} /\ Continue(w, q) /\ q.kind \in Kinds
    BY <1>4 DEF ConfirmBatch, Receive, Idle
  <2> QED BY <1>3, <2>1
<1>5. ASSUME NEW ids, RecycleTickets(w, ids)
      PROVE  Received(w)
  <2> DEFINE q == [Idle EXCEPT !.kind = "recycle", !.pc = "scan", !.ids = ids]
  <2>1. q.kind = "recycle" /\ q.advisory = {} /\ Continue(w, q) /\ q.kind \in Kinds
    BY <1>5 DEF RecycleTickets, Receive, Idle
  <2> QED BY <1>3, <2>1
<1>6. ASSUME NEW f \in Files, RevokeFile(w, f)
      PROVE  Received(w)
  <2> DEFINE q == [Idle EXCEPT !.kind = "revoke", !.pc = "load", !.ids = TicketsOf(f),
                               !.scope = {f}]
  <2>1. q.kind = "revoke" /\ q.advisory = {} /\ Continue(w, q) /\ q.kind \in Kinds
    BY <1>6 DEF RevokeFile, Receive, Idle
  <2> QED BY <1>3, <2>1
<1>7. CASE ExpireOverdue(w)
  <2> DEFINE q == [Idle EXCEPT !.kind = "expire", !.pc = "load", !.clock = now]
  <2>1. q.kind = "expire" /\ q.advisory = {} /\ Continue(w, q) /\ q.kind \in Kinds
    BY <1>7 DEF ExpireOverdue, Receive, Idle
  <2> QED BY <1>3, <2>1
<1> QED BY <1>1, <1>2, <1>4, <1>5, <1>6, <1>7 DEF Request

(* It has neither locked nor counted anything.                               *)
LEMMA RequestCounts ==
  ASSUME IInv, LimInv, NEW w \in Workers, Request(w)
  PROVE  LimInv'
<1>1. PICK q : Continue(w, q) /\ Arrived(q)
  BY RequestsArrive DEF Received
<1> QED BY <1>1, FreshCounts DEF Arrived

-----------------------------------------------------------------------------
(* The statements of an assignment *)

(* The user's lock is taken only when free.                                  *)
LEMMA TakeUserLockCounts ==
  ASSUME IInv, LimInv, NEW w \in Workers, TakeUserLock(w)
  PROVE  LimInv'
<1> DEFINE r == txn[w]
           next == IF r.kind = "assign" THEN "daily" ELSE "reserve lock"
           q == [r EXCEPT !.advisory = @ \cup {"user"}, !.pc = next]
<1>1. r \in Txn /\ UserLockFree(w) /\ Continue(w, q)
  BY SoundFacts DEF TakeUserLock
<1>2. /\ q.kind = r.kind /\ q.user = r.user /\ q.advisory = r.advisory \cup {"user"}
      /\ q.pc = next
  BY <1>1 DEF Txn
<1> HIDE DEF q
<1>3. Counted(q)
  BY <1>2 DEF LimInv, Counted, Fitting, Early
<1> QED BY <1>1, <1>2, <1>3, ContinueCounts

(* The reserve's lock comes after the user's.                                *)
LEMMA TakeReserveLockCounts ==
  ASSUME IInv, LimInv, NEW w \in Workers, TakeReserveLock(w)
  PROVE  LimInv'
<1> DEFINE r == txn[w]
           q == [r EXCEPT !.advisory = @ \cup {"reserve"}, !.pc = "daily", !.clock = now]
<1>1. r \in Txn /\ r.pc = "reserve lock" /\ Continue(w, q)
  BY SoundFacts DEF TakeReserveLock
<1>2. /\ q.kind = r.kind /\ q.user = r.user /\ q.advisory = r.advisory \cup {"reserve"}
      /\ q.pc = "daily"
  BY <1>1 DEF Txn
<1> HIDE DEF q
<1>3. Counted(q)
  BY <1>1, <1>2 DEF LimInv, Counted, Fitting, Early
<1>4. "user" \in q.advisory => "user" \in r.advisory
  BY <1>2
<1> QED BY <1>1, <1>2, <1>3, <1>4, ContinueCounts

(* The daily limit says nothing about the tickets the user works on.         *)
LEMMA CheckDailyCounts ==
  ASSUME IInv, LimInv, NEW w \in Workers, CheckDaily(w)
  PROVE  LimInv'
<1> DEFINE r == txn[w]
           next == IF r.kind = "assign" THEN "pick" ELSE "processing"
           q(n) == [r EXCEPT !.want = n, !.pc = next]
<1>1. r \in Txn /\ r.pc = "daily"
  BY SoundFacts DEF CheckDaily
<1>2. \A n : SameLocks(q(n), r) /\ q(n).pc = next
  BY <1>1 DEF Txn, SameLocks
<1>3. Continue(w, Idle) \/ \E n : Continue(w, q(n))
  BY DEF CheckDaily
<1> HIDE DEF q
<1>4. \A n : Counted(q(n))
  BY <1>1, <1>2 DEF LimInv, SameLocks, Counted, Fitting, Early
<1>5. ASSUME NEW n, Continue(w, q(n))
      PROVE  LimInv'
  BY <1>2, <1>4, <1>5, ContinueCounts DEF SameLocks
<1> QED BY <1>3, <1>5, IdleCounts

(* The check: what is left of the limit is what the batch may add.           *)
LEMMA CheckProcessingCounts ==
  ASSUME IInv, LimInv, NEW w \in Workers, CheckProcessing(w)
  PROVE  LimInv'
<1> DEFINE r == txn[w]
           limit == MaxProcessing[r.user]
           busy == Cardinality(ProcessingOf(r.user))
           room == Remaining(limit, busy, r.want)
           q == [r EXCEPT !.want = room, !.pc = "stats"]
<1>1. r \in Txn /\ r.pc = "processing" /\ r.user \in Users
  BY SoundFacts DEF CheckProcessing, Early
<1>2. CASE room = 0
  BY <1>2, IdleCounts DEF CheckProcessing
<1>3. CASE room # 0
  <2>1. busy \in Nat
    BY CardinalityInNat DEF ProcessingOf
  <2>2. limit \in Nat \cup {None} /\ r.want \in Nat
    BY <1>1, PoolAssumption DEF Txn
  <2>3. limit # None => busy + room <= limit
    <3> HIDE DEF limit, busy
    <3> QED BY <1>3, <2>1, <2>2 DEF Remaining, AtMost, Less
  <2>4. Continue(w, q)
    BY <1>3 DEF CheckProcessing
  <2>5. SameLocks(q, r) /\ q.pc = "stats" /\ q.want = room
    BY <1>1 DEF Txn, SameLocks
  <2>6. Fitting(q)
    <3> HIDE DEF q, room
    <3> QED BY <2>3, <2>5 DEF Fitting, Early, SameLocks
  <2> HIDE DEF q, room
  <2>7. Counted(q)
    BY <1>1, <2>5, <2>6 DEF LimInv, Counted, SameLocks
  <2> QED BY <2>4, <2>5, <2>7, ContinueCounts DEF SameLocks
<1> QED BY <1>2, <1>3

(* The reserve only makes the batch smaller.                                 *)
LEMMA ChooseGroupCounts ==
  ASSUME IInv, LimInv, NEW w \in Workers, ChooseGroup(w)
  PROVE  LimInv'
<1> DEFINE r == txn[w]
           pool == Eligible(r.user, r.clock)
           actual == AtMost(r.want, Less(Cardinality(pool), Reserve))
           q(ids) == [r EXCEPT !.ids = ids, !.want = actual, !.pc = "pick"]
<1>1. r \in Txn /\ r.pc = "stats"
  BY SoundFacts DEF ChooseGroup
<1>2. Continue(w, Idle) \/ \E ids : Continue(w, q(ids))
  BY DEF ChooseGroup
<1>3. actual \in Nat /\ r.want \in Nat /\ actual <= r.want
  <2>1. Cardinality(pool) \in Nat
    BY CardinalityInNat DEF Eligible, Pending
  <2>2. r.want \in Nat
    BY <1>1 DEF Txn
  <2> HIDE DEF pool
  <2> QED BY <2>1, <2>2, PoolAssumption DEF AtMost, Less
<1> HIDE DEF actual
<1>4. ASSUME NEW ids
      PROVE  SameLocks(q(ids), r) /\ q(ids).pc = "pick" /\ q(ids).want = actual
  BY <1>1 DEF Txn, SameLocks
<1> HIDE DEF q
<1>5. ASSUME NEW ids, Continue(w, q(ids))
      PROVE  LimInv'
  <2> DEFINE p == q(ids)
             limit == MaxProcessing[r.user]
             busy == Cardinality(ProcessingOf(r.user))
  <2>1. SameLocks(p, r) /\ p.pc = "pick" /\ p.want = actual
    BY <1>4
  <2> HIDE DEF p
  <2>2. ASSUME r.kind = "download"
        PROVE  Counted(p)
    <3>1. Counted(r) /\ r.user \in Users
      BY <1>1, SoundFacts DEF LimInv, Early
    <3>2. limit # None => busy + r.want <= limit
      BY <1>1, <2>2, <3>1 DEF Counted, Fitting
    <3>3. busy \in Nat /\ limit \in Nat \cup {None}
      BY <3>1, CardinalityInNat, PoolAssumption DEF ProcessingOf
    <3> HIDE DEF limit, busy
    <3>4. limit # None => busy + actual <= limit
      BY <1>3, <3>2, <3>3
    <3>5. Fitting(p)
      BY <2>1, <3>4 DEF Fitting, Early, SameLocks, limit, busy
    <3> QED BY <1>1, <2>1, <2>2, <3>1, <3>5 DEF Counted, SameLocks
  <2>3. r.kind # "download" => Counted(p)
    BY <2>1 DEF LimInv, Counted, SameLocks
  <2>4. Continue(w, p)
    BY <1>5 DEF p
  <2> QED BY <2>1, <2>2, <2>3, <2>4, ContinueCounts DEF SameLocks
<1> QED BY <1>2, <1>5, IdleCounts

(* Going on to the files or to the next round keeps the advisory locks.      *)
LEMMA LocksStay ==
  ASSUME NEW r \in Txn
  PROVE  /\ SameBatch(ToFiles(r), r)
         /\ AfterRows(r) = Idle \/ SameBatch(AfterRows(r), r)
         /\ Retry(r) = Idle \/ SameBatch(Retry(r), r)
         /\ \A S : SameBatch(Take(r, S), r)
<1>1. ASSUME NEW q, SameBatch(q, r), \A p : SameBatch([q EXCEPT !.pc = p], r),
             SameBatch([q EXCEPT !.pc = "scan", !.stage = 2], r)
      PROVE  SameBatch(ToFiles(q), r)
  BY <1>1 DEF ToFiles, AfterFiles
<1>2. SameBatch(ToFiles(r), r)
  BY <1>1 DEF Txn, SameBatch, SameLocks
<1>3. ASSUME NEW F PROVE SameBatch(ToFiles([r EXCEPT !.scope = F]), r)
  BY <1>1 DEF Txn, SameBatch, SameLocks
<1>4. AfterRows(r) = Idle \/ SameBatch(AfterRows(r), r)
  <2> DEFINE F == FilesOf(r.got)
             p(c) == [r EXCEPT !.pc = c]
             q == [r EXCEPT !.pc = "read", !.scope = F, !.unread = F]
  <2>1. SameBatch(q, r) /\ \A c : SameBatch(p(c), r)
    BY DEF Txn, SameBatch, SameLocks
  <2>2. AfterRows(r) \in {ToFiles([r EXCEPT !.scope = F]), q, Idle, p("commit"), p("count")}
    BY DEF AfterRows
  <2> HIDE DEF p, q
  <2> QED BY <1>3, <2>1, <2>2
<1>5. Retry(r) = Idle \/ SameBatch(Retry(r), r)
  BY DEF Retry, Txn, SameBatch, SameLocks
<1>6. ASSUME NEW S PROVE SameBatch(Take(r, S), r)
  BY <1>1 DEF Take, Txn, SameBatch, SameLocks
<1> QED BY <1>2, <1>4, <1>5, <1>6

(* A batch takes no more rows than it was cut down to.                       *)
LEMMA PickBatchCounts ==
  ASSUME IInv, LimInv, NEW w \in Workers, PickBatch(w)
  PROVE  LimInv'
<1> DEFINE r == txn[w]
           free == {t \in r.ids \cap Pending : RowFree(w, t)}
           S == LowestIds(free, r.want)
           q == [r EXCEPT !.held = @ \cup S, !.got = S, !.scope = FilesOf(S)]
           limit == MaxProcessing[r.user]
           busy == Cardinality(ProcessingOf(r.user))
<1>1. r \in Txn /\ r.pc = "pick" /\ r.kind = "download" /\ r.user \in Users
  BY SoundFacts DEF PickBatch, Early
<1>2. Continue(w, Idle) \/ Continue(w, Take(r, S))
  BY DEF PickBatch
<1>3. r.want \in Nat /\ free \in SUBSET Tickets
  BY <1>1 DEF Txn, Pending
<1>4. S \in SUBSET Tickets /\ Cardinality(S) \in Nat /\ Cardinality(S) <= r.want
  <2>1. S \in SUBSET free
    BY DEF LowestIds
  <2> HIDE DEF free
  <2> QED BY <1>3, <2>1, LimitIsKept
<1> HIDE DEF S
<1>5. FilesOf(S) \in SUBSET Files
  BY <1>4, FilesOfType
<1>6. q \in Txn /\ q.got = S
  BY <1>1, <1>4, <1>5 DEF Txn
<1>7. Take(r, S).got = S /\ Take(r, S).pc \notin Early /\ SameLocks(Take(r, S), r)
  <2> HIDE DEF q
  <2>1. ToFiles(q).got = S /\ ToFiles(q).pc \notin Early
    BY <1>6, ToFilesSame DEF SameWork
  <2> QED BY <1>1, <2>1, LocksStay DEF Take, q, SameBatch
<1>8. Counted(r)
  BY DEF LimInv
<1>9. limit # None => busy + Cardinality(S) <= limit
  <2>1. limit # None => busy + r.want <= limit
    BY <1>1, <1>8 DEF Counted, Fitting
  <2>2. busy \in Nat /\ limit \in Nat \cup {None}
    BY <1>1, CardinalityInNat, PoolAssumption DEF ProcessingOf
  <2> HIDE DEF limit, busy
  <2> QED BY <1>3, <1>4, <2>1, <2>2
<1> DEFINE p == Take(r, S)
<1>10. Counted(p)
  <2>1. p.got = S /\ p.pc \notin Early /\ SameLocks(p, r)
    BY <1>7
  <2> HIDE DEF p
  <2> QED BY <1>1, <1>8, <1>9, <2>1 DEF Counted, Fitting, SameLocks, Early
<1>11. CASE Continue(w, p)
  BY <1>7, <1>10, <1>11, ContinueCounts DEF SameLocks
<1> QED BY <1>2, <1>11, IdleCounts

(* Single tickets are none of a mode-B user's.                               *)
LEMMA PickOneCounts ==
  ASSUME IInv, LimInv, NEW w \in Workers, PickOne(w)
  PROVE  LimInv'
<1> DEFINE r == txn[w]
           q == [r EXCEPT !.clock = now]
           p(t) == [r EXCEPT !.clock = now, !.pc = "hint", !.cand = {t}]
<1>1. r \in Txn /\ r.kind # "download" /\ now \in Nat
  BY SoundFacts DEF PickOne, IInv, TablesOK
<1>2. q \in Txn /\ SameLocks(q, r) /\ \A t : SameLocks(p(t), r)
  BY <1>1 DEF Txn, SameLocks
<1>3. \/ Continue(w, Idle) \/ \E S : Continue(w, Take(q, S))
      \/ \E t : Continue(w, p(t))
  BY DEF PickOne
<1> HIDE DEF p, q
<1>4. \A S : SameLocks(Take(q, S), r)
  BY <1>2, LocksStay DEF SameLocks, SameBatch
<1> QED BY <1>1, <1>2, <1>3, <1>4, OtherCounts, IdleCounts

(* Nor are those an id from Redis names.                                     *)
LEMMA TryHintCounts ==
  ASSUME IInv, LimInv, NEW w \in Workers, TryHint(w)
  PROVE  LimInv'
<1> DEFINE r == txn[w]
           q(t) == [r EXCEPT !.held = @ \cup {t}]
           p == [r EXCEPT !.cand = {}]
<1>1. r \in Txn /\ r.kind = "assign" /\ ClientMode[r.user] = "mode_a"
  BY SoundFacts DEF TryHint, Sound, LimInv, Counted
<1>2. PICK t \in r.cand : \/ Continue(w, Retry(r)) \/ Continue(w, Retry(q(t)))
                          \/ Continue(w, Take(p, {t})) \/ Continue(w, Restart(r))
  BY DEF TryHint
<1>3. t \in Tickets
  BY <1>1 DEF Txn
<1>4. q(t) \in Txn /\ SameLocks(q(t), r) /\ p \in Txn /\ SameLocks(p, r)
  BY <1>1, <1>3 DEF Txn, SameLocks
<1> HIDE DEF p, q
<1>5. SameLocks(Take(p, {t}), r)
  BY <1>4, LocksStay DEF SameLocks, SameBatch
<1>6. Retry(q(t)) = Idle \/ SameLocks(Retry(q(t)), r)
  BY <1>4, LocksStay DEF SameLocks, SameBatch
<1>7. Retry(r) = Idle \/ SameLocks(Retry(r), r)
  BY <1>1, LocksStay DEF SameBatch
<1>8. ASSUME Continue(w, Restart(r)) PROVE LimInv'
  <2>1. r.user \in Users /\ r.device \in Devices /\ r.tries \in Nat
    BY <1>1, SoundFacts DEF TryHint, Txn, Early
  <2>2. PICK a \in Txn : /\ Restart(r) = Retry(a) /\ a.kind = "assign" /\ a.user = r.user
                         /\ a.advisory = {}
    BY <2>1, RestartForm
  <2>3. Retry(a) = Idle \/ SameLocks(Retry(a), a)
    BY LocksStay DEF SameBatch
  <2> QED BY <1>1, <1>8, <2>2, <2>3, IdleCounts, FreshCounts DEF SameLocks
<1> QED BY <1>1, <1>2, <1>5, <1>6, <1>7, <1>8, OtherCounts, IdleCounts

-----------------------------------------------------------------------------
(* The statements after the rows are chosen *)

(* A transaction that has chosen its rows gives up or goes on with the same  *)
(* locks and snapshot time, and a download with the same rows.               *)
GoesOn(w) ==
  \/ Continue(w, Idle)
  \/ /\ txn[w].pc \notin Early
     /\ \E q : /\ Continue(w, q) /\ SameBatch(q, txn[w])
               /\ txn[w].kind = "download" => q.got = txn[w].got /\ q.pc \notin Early

(* The statements that find rows do no more.                                 *)
LEMMA RowsGoOn ==
  ASSUME IInv, NEW w \in Workers, Scan(w) \/ LockRow(w)
  PROVE  GoesOn(w)
<1> DEFINE r == txn[w]
<1>1. r \in Txn /\ WorkOK(r) /\ r.pc \notin Early /\ r.pc \in {"scan", "rows"}
  BY SoundFacts DEF Scan, LockRow, Early
<1>on. ASSUME NEW q, Continue(w, q), SameBatch(q, r),
             r.kind = "download" => q.got = r.got /\ q.pc \notin Early
      PROVE  GoesOn(w)
  BY <1>on, <1>1 DEF GoesOn
<1>2. ASSUME NEW q \in Txn, SameBatch(q, r), q.got = r.got \/ r.kind # "download",
             Continue(w, AfterRows(q))
      PROVE  GoesOn(w)
  <2>1. CASE AfterRows(q) = Idle
    BY <1>2, <2>1 DEF GoesOn
  <2>2. CASE AfterRows(q) # Idle /\ r.kind = "download"
    <3> DEFINE p == [q EXCEPT !.pc = "count"]
    <3>1. AfterRows(q) = p
      BY <1>2, <2>2 DEF AfterRows, Closing, SameBatch, SameLocks
    <3>2. SameBatch(p, r) /\ p.got = q.got /\ p.pc = "count"
      BY <1>2 DEF Txn, SameBatch, SameLocks
    <3> HIDE DEF p
    <3> QED BY <1>on, <1>2, <2>2, <3>1, <3>2 DEF Early
  <2>3. CASE AfterRows(q) # Idle /\ r.kind # "download"
    <3>1. SameBatch(AfterRows(q), r)
      BY <1>2, <2>3, LocksStay DEF SameBatch, SameLocks
    <3> QED BY <1>on, <1>2, <2>3, <3>1
  <2> QED BY <2>1, <2>2, <2>3
<1>3. CASE Scan(w)
  <2> DEFINE p(S) == [r EXCEPT !.pc = "rows", !.cand = S]
  <2>1. \A S : SameBatch(p(S), r) /\ p(S).got = r.got /\ p(S).pc = "rows"
    BY <1>1 DEF Txn, SameBatch, SameLocks
  <2>2. Continue(w, AfterRows(r)) \/ \E S : Continue(w, p(S))
    BY <1>3 DEF Scan
  <2>3. SameBatch(r, r)
    BY DEF SameBatch, SameLocks
  <2> HIDE DEF p
  <2>4. ASSUME NEW S, Continue(w, p(S))
        PROVE  GoesOn(w)
    BY <1>on, <2>1, <2>4 DEF Early
  <2> QED BY <1>1, <1>2, <2>2, <2>3, <2>4
<1>4. CASE LockRow(w)
  <2>1. PICK t \in r.cand : \/ Continue(w, AfterRows(Locked(r, t)))
                            \/ Continue(w, Locked(r, t))
    BY <1>4 DEF LockRow
  <2> DEFINE q == Locked(r, t)
  <2>2. q \in Txn /\ q.pc = r.pc
    BY <1>1, LockedOK
  <2>3. Match(r, t) => r.kind # "download"
    BY DEF Match, Closing
  <2>4. SameBatch(q, r) /\ q.got = IF Match(r, t) THEN r.got \cup {t} ELSE r.got
    BY <1>1 DEF Locked, Txn, SameBatch, SameLocks
  <2>5. Continue(w, AfterRows(q)) \/ Continue(w, q)
    BY <2>1
  <2> HIDE DEF q
  <2>6. CASE Continue(w, q)
    BY <1>on, <1>1, <2>2, <2>3, <2>4, <2>6
  <2> QED BY <1>2, <2>2, <2>3, <2>4, <2>5, <2>6
<1> QED BY <1>3, <1>4

(* Nor do those that work on files.                                          *)
LEMMA FilesGoOn ==
  ASSUME IInv, NEW w \in Workers,
         LoadFile(w) \/ FindOverdue(w) \/ CountTickets(w) \/ ReadFile(w) \/ LockFile(w)
  PROVE  GoesOn(w)
<1> DEFINE r == txn[w]
<1>1. r \in Txn /\ r.pc \notin Early
  BY SoundFacts DEF LoadFile, FindOverdue, CountTickets, ReadFile, LockFile, Early
<1>2. ASSUME NEW q, Continue(w, q), SameBatch(q, r), q.got = r.got, q.pc \notin Early
      PROVE  GoesOn(w)
  BY <1>1, <1>2 DEF GoesOn
<1>3. ASSUME NEW q \in Txn, SameBatch(q, r), q.got = r.got, Continue(w, ToFiles(q))
      PROVE  GoesOn(w)
  <2>1. ToFiles(q).got = r.got /\ ToFiles(q).pc \notin Early /\ SameBatch(ToFiles(q), r)
    BY <1>3, ToFilesSame, LocksStay DEF SameWork, SameBatch, SameLocks
  <2> QED BY <1>2, <1>3, <2>1
<1>4. CASE LoadFile(w)
  <2>1. ASSUME NEW f \in r.scope, Continue(w, ToFiles([r EXCEPT !.snap[f] = CountersOf(files[f])]))
        PROVE  GoesOn(w)
    <3> DEFINE q == [r EXCEPT !.snap[f] = CountersOf(files[f])]
    <3>1. f \in Files
      BY <1>1 DEF Txn
    <3>2. CountersOf(files[f]) \in Counters
      BY <3>1, CountersOfType
    <3>3. q \in Txn /\ SameBatch(q, r) /\ q.got = r.got
      BY <1>1, <3>1, <3>2 DEF Txn, SameBatch, SameLocks
    <3>4. Continue(w, ToFiles(q))
      BY <2>1
    <3> HIDE DEF q
    <3> QED BY <1>3, <3>3, <3>4
  <2> QED BY <1>4, <2>1 DEF LoadFile, GoesOn
<1>5. CASE FindOverdue(w)
  <2> DEFINE q(F) == [r EXCEPT !.pc = "scan", !.scope = F]
  <2>1. \A F : SameBatch(q(F), r) /\ q(F).got = r.got /\ q(F).pc \notin Early
    BY <1>1 DEF Txn, SameBatch, SameLocks, Early
  <2>2. \E F : Continue(w, q(F))
    BY <1>5 DEF FindOverdue
  <2> HIDE DEF q
  <2> QED BY <1>2, <2>1, <2>2
<1>6. CASE CountTickets(w)
  <2> DEFINE p == [r EXCEPT !.pc = "commit"]
             q(c) == [r EXCEPT !.pc = "read", !.unread = r.scope, !.count = c]
  <2>1. /\ SameBatch(p, r) /\ p.got = r.got /\ p.pc \notin Early
        /\ \A c : SameBatch(q(c), r) /\ q(c).got = r.got /\ q(c).pc \notin Early
    BY <1>1 DEF Txn, SameBatch, SameLocks, Early
  <2>2. Continue(w, p) \/ \E c : Continue(w, q(c))
    BY <1>6 DEF CountTickets
  <2> HIDE DEF p, q
  <2> QED BY <1>2, <2>1, <2>2
<1>7. CASE ReadFile(w)
  <2>1. PICK f \in r.unread :
          Continue(w, ToFiles([r EXCEPT !.snap[f] = CountersOf(files[f]), !.unread = @ \ {f}]))
    BY <1>7 DEF ReadFile
  <2> DEFINE q == [r EXCEPT !.snap[f] = CountersOf(files[f]), !.unread = @ \ {f}]
  <2>2. f \in Files
    BY <1>1 DEF Txn
  <2>3. CountersOf(files[f]) \in Counters
    BY <2>2, CountersOfType
  <2>4. q \in Txn /\ SameBatch(q, r) /\ q.got = r.got
    BY <1>1, <2>2, <2>3 DEF Txn, SameBatch, SameLocks
  <2>5. Continue(w, ToFiles(q))
    BY <2>1
  <2> HIDE DEF q
  <2> QED BY <1>3, <2>4, <2>5
<1>8. CASE LockFile(w)
  <2>1. PICK f \in ToWrite(r) : Continue(w, ToFiles([r EXCEPT !.flocked = @ \cup {f}]))
    BY <1>8 DEF LockFile
  <2> DEFINE q == [r EXCEPT !.flocked = @ \cup {f}]
  <2>2. f \in Files
    BY <1>1 DEF ToWrite, Txn
  <2>3. q \in Txn /\ SameBatch(q, r) /\ q.got = r.got
    BY <1>1, <2>2 DEF Txn, SameBatch, SameLocks
  <2>4. Continue(w, ToFiles(q))
    BY <2>1
  <2> HIDE DEF q
  <2> QED BY <1>3, <2>3, <2>4
<1> QED BY <1>4, <1>5, <1>6, <1>7, <1>8

(* The statements after the selection leave a download its batch.            *)
LEMMA LateStepsCount ==
  ASSUME IInv, LimInv, NEW w \in Workers, GoesOn(w)
  PROVE  LimInv'
<1>1. ASSUME txn[w].pc \notin Early, NEW q, Continue(w, q), SameBatch(q, txn[w]),
             txn[w].kind = "download" => q.got = txn[w].got /\ q.pc \notin Early
      PROVE  LimInv'
  BY <1>1, LateCounts, OtherCounts DEF SameBatch
<1>2. CASE Continue(w, Idle)
  BY <1>2, IdleCounts
<1>3. CASE ~ Continue(w, Idle)
  <2>1. PICK q : /\ Continue(w, q) /\ SameBatch(q, txn[w]) /\ txn[w].pc \notin Early
                 /\ txn[w].kind = "download" => q.got = txn[w].got /\ q.pc \notin Early
    BY <1>3 DEF GoesOn
  <2> QED BY <1>1, <2>1
<1> QED BY <1>2, <1>3

-----------------------------------------------------------------------------
(* COMMIT *)

(* A ticket is in a user's hands after a commit because it was, or because   *)
(* the commit is that of an assignment to the user.                          *)
LEMMA HandsOut ==
  ASSUME IInv, NEW r, Sound(r), NEW t \in r.got, NewTicket(r, t).status = "assigned"
  PROVE  r.kind \in {"assign", "download"} /\ NewTicket(r, t).user = r.user
<1>1. r.kind # "none" /\ tickets[t] \in Lifecycle!TicketRow
  BY WrittenRowsPresent DEF IInv, TablesOK
<1>2. /\ \A s : [tickets[t] EXCEPT !.status = s].status = s
      /\ BackToPool(tickets[t]).status = "pending"
  BY <1>1 DEF BackToPool, Lifecycle!TicketRow
<1>3. ~ Closing(r) /\ r.kind \notin {"expire", "recycle", "revoke"} /\ ~ TooLate(r, t)
  BY <1>1, <1>2 DEF NewTicket, Closing
<1>4. r.kind \in {"none", "assign"} \cup AllKinds
  BY DEF Sound, Txn
<1>5. r.kind \in {"assign", "download"}
  BY <1>1, <1>3, <1>4 DEF AllKinds, Closing, Sound, WorkOK, Fits, Match
<1> QED BY <1>3, <1>5 DEF NewTicket, Closing

(* After its commit a worker has no lock, and goes on, if at all, to assign  *)
(* a single ticket.                                                          *)
LEMMA AfterCommitCounts ==
  ASSUME NEW r, Sound(r), Counted(r)
  PROVE  Counted(AfterCommit(r)) /\ AfterCommit(r).advisory = {}
<1>1. ASSUME NEW q, q.kind = "assign", ClientMode[q.user] = "mode_a"
      PROVE  Counted(q)
  BY <1>1 DEF Counted
<1>2. Counted(Idle) /\ Idle.advisory = {}
  BY DEF Counted, Idle
<1>3. ASSUME r.kind \in {"next", "assign"}
      PROVE  /\ ClientMode[r.user] = "mode_a"
             /\ Assigning(r.user, r.device) \in Txn
             /\ Assigning(r.user, r.device).kind = "assign"
             /\ Assigning(r.user, r.device).user = r.user
             /\ Assigning(r.user, r.device).advisory = {}
  <2>1. r.user \in Users /\ r.device \in Devices
    BY <1>3 DEF Sound, WorkOK, Identified, Closing
  <2>2. Assigning(r.user, r.device).advisory = {}
    BY DEF Assigning, Idle
  <2> QED BY <1>3, <2>1, <2>2, AssigningSound DEF Counted
<1>4. CASE r.kind = "next" /\ r.got # {}
  BY <1>1, <1>3, <1>4 DEF AfterCommit
<1>5. CASE ~ (r.kind = "next" /\ r.got # {}) /\ \E t \in r.got : TooLate(r, t)
  <2>1. /\ r.kind = "assign" /\ r.user \in Users /\ r.device \in Devices /\ r.tries \in Nat
        /\ ClientMode[r.user] = "mode_a"
    BY <1>3, <1>5 DEF TooLate, Sound, WorkOK, Identified, Txn
  <2>2. PICK a \in Txn : /\ Restart(r) = Retry(a) /\ a.kind = "assign" /\ a.user = r.user
                         /\ a.advisory = {}
    BY <2>1, RestartForm
  <2>3. Retry(a) = Idle \/ SameLocks(Retry(a), a)
    BY LocksStay DEF SameBatch
  <2> QED BY <1>1, <1>2, <1>5, <2>1, <2>2, <2>3 DEF SameLocks, AfterCommit
<1>6. CASE ~ (r.kind = "next" /\ r.got # {}) /\ ~ \E t \in r.got : TooLate(r, t)
  BY <1>2, <1>6 DEF AfterCommit
<1> QED BY <1>4, <1>5, <1>6

(* A commit gives tickets to the user of its download only, and no more than *)
(* its count left; everybody else keeps or loses some.                       *)
LEMMA CommitCounts ==
  ASSUME IInv, LimInv, NEW w \in Workers, Commit(w)
  PROVE  LimInv'
<1> DEFINE r == txn[w]
           busy(u) == ProcessingOf(u)
<1>1. Sound(r) /\ r.got \in SUBSET Tickets /\ Counted(r)
  BY SoundFacts DEF Txn, LimInv
<1>2. /\ r.pc = "commit"
      /\ tickets' = [t \in Tickets |-> IF t \in r.got THEN NewTicket(r, t) ELSE tickets[t]]
      /\ txn' = [txn EXCEPT ![w] = AfterCommit(r)]
  BY DEF Commit
<1>3. \A v \in Workers : txn'[v] = IF v = w THEN AfterCommit(r) ELSE txn[v]
  BY <1>2 DEF IInv
<1>4. r.kind = "download" => "user" \in r.advisory /\ Fitting(r)
  BY <1>1, <1>2 DEF Counted
<1>5. /\ Counted(AfterCommit(r)) /\ AfterCommit(r).advisory = {}
  BY <1>1, AfterCommitCounts
<1>6. \A v \in Others(w) : v \in Workers /\ v # w
  BY DEF Others
<1>7. \A v \in Others(w) :
        ("user" \in r.advisory /\ "user" \in txn[v].advisory) => txn[v].user # r.user
  BY DEF LimInv, UserLocksExclusive
<1> HIDE DEF r
<1>8. ASSUME NEW u
      PROVE  /\ busy(u) \in SUBSET Tickets /\ busy(u)' \in SUBSET Tickets
             /\ busy(u)' \subseteq busy(u) \cup r.got
             /\ ~ (r.user = u /\ r.kind \in {"assign", "download"}) => busy(u)' \subseteq busy(u)
  <2>1. ASSUME NEW t \in busy(u)', t \notin busy(u)
        PROVE  t \in r.got /\ r.user = u /\ r.kind \in {"assign", "download"}
    <3>1. t \in Tickets /\ tickets'[t].status = "assigned" /\ tickets'[t].user = u
      BY <2>1 DEF ProcessingOf
    <3>2. t \in r.got
      BY <1>2, <2>1, <3>1 DEF ProcessingOf
    <3>3. tickets'[t] = NewTicket(r, t)
      BY <1>2, <3>1, <3>2
    <3> QED BY <1>1, <3>1, <3>2, <3>3, HandsOut
  <2>2. busy(u) \in SUBSET Tickets /\ busy(u)' \in SUBSET Tickets
    BY DEF ProcessingOf
  <2> HIDE DEF busy
  <2> QED BY <2>1, <2>2
<1>9. ASSUME NEW u, busy(u)' \subseteq busy(u)
      PROVE  /\ Cardinality(busy(u)) \in Nat /\ Cardinality(busy(u)') \in Nat
             /\ Cardinality(busy(u)') <= Cardinality(busy(u))
  <2>1. IsFiniteSet(busy(u))
    BY <1>8, SelectionAssumption, FS_Subset
  <2> QED BY <1>8, <1>9, <2>1, FS_Subset, CardinalityInNat
<1>10. ASSUME NEW v \in Others(w), txn[v].kind = "download", txn[v].pc # "user lock",
              NEW u, u = txn[v].user
       PROVE  busy(u)' \subseteq busy(u)
  <2>1. Counted(txn[v])
    BY <1>6 DEF LimInv
  <2>2. ~ (r.user = u /\ r.kind \in {"assign", "download"})
    BY <1>1, <1>4, <1>7, <1>10, <2>1 DEF Counted
  <2> HIDE DEF busy
  <2> QED BY <1>8, <2>2
<1>11. ASSUME NEW v \in Workers
       PROVE  Counted(txn[v])'
  <2>1. CASE v = w
    BY <1>3, <1>5, <2>1 DEF Counted, Fitting, AfterCommit
  <2>2. CASE v # w
    <3>1. v \in Others(w) /\ txn'[v] = txn[v] /\ Counted(txn[v])
      BY <1>3, <2>2 DEF Others, LimInv
    <3>2. CASE txn[v].kind = "download" /\ txn[v].pc # "user lock"
      <4>1. PICK u : u = txn[v].user
        OBVIOUS
      <4> DEFINE before == Cardinality(ProcessingOf(u))
                 after == Cardinality(ProcessingOf(u))'
                 limit == MaxProcessing[u]
                 want == txn[v].want
                 size == Cardinality(txn[v].got)
                 pc == txn[v].pc
      <4>2. busy(u)' \subseteq busy(u)
        BY <1>10, <3>1, <3>2, <4>1
      <4>3. before \in Nat /\ after \in Nat /\ after <= before
        BY <1>9, <4>2
      <4>4. limit \in Nat \cup {None} /\ want \in Nat /\ size \in Nat
        <5>1. u \in Users
          BY <3>2, <4>1, SoundFacts DEF WorkOK, Identified
        <5> QED BY <5>1, PoolAssumption, SoundFacts, CardinalityInNat DEF Txn
      <4>5. limit # None => /\ pc \in {"stats", "pick"} => before + want <= limit
                            /\ pc \notin Early => before + size <= limit
        BY <3>1, <3>2, <4>1 DEF Counted, Fitting
      <4> HIDE DEF before, after, limit, want, size, pc
      <4>6. limit # None => /\ pc \in {"stats", "pick"} => after + want <= limit
                            /\ pc \notin Early => after + size <= limit
        BY <4>3, <4>4, <4>5
      <4>7. Fitting(txn[v])'
        BY <3>1, <4>1, <4>6 DEF Fitting, after, limit, want, size, pc
      <4> QED BY <3>1, <4>7 DEF Counted
    <3>3. CASE ~ (txn[v].kind = "download" /\ txn[v].pc # "user lock")
      BY <3>1, <3>3 DEF Counted
    <3> QED BY <3>2, <3>3
  <2> QED BY <2>1, <2>2
<1>12. UserLocksExclusive'
  BY <1>3, <1>5, <1>6 DEF LimInv, UserLocksExclusive, Others
<1>13. ASSUME NEW u \in Users, ClientMode[u] = "mode_b", MaxProcessing[u] # None
       PROVE  Cardinality(ProcessingOf(u))' <= MaxProcessing[u]
  <2> DEFINE before == Cardinality(ProcessingOf(u))
             after == Cardinality(ProcessingOf(u))'
             limit == MaxProcessing[u]
             size == Cardinality(r.got)
  <2>1. before <= limit /\ limit \in Nat
    BY <1>13, PoolAssumption DEF LimInv, ProcessingWithinLimit
  <2>2. before \in Nat /\ after \in Nat /\ size \in Nat
    BY <1>1, <1>8, CardinalityInNat
  <2>3. CASE r.user = u /\ r.kind = "download"
    <3>1. before + size <= limit
      BY <1>2, <1>4, <1>13, <2>3 DEF Fitting, Early
    <3>2. IsFiniteSet(busy(u)) /\ IsFiniteSet(r.got)
      BY <1>1, <1>8, SelectionAssumption, FS_Subset
    <3> DEFINE S == busy(u)
               T == busy(u)'
    <3>3. T \in SUBSET (S \cup r.got)
      BY <1>8
    <3>4. Cardinality(S \cap r.got) \in Nat
      BY <1>1, CardinalityInNat
    <3>5. IsFiniteSet(S) /\ Cardinality(S) = before /\ Cardinality(T) = after
      BY <3>2
    <3> HIDE DEF S, T
    <3>6. IsFiniteSet(S \cup r.got)
          /\ Cardinality(S \cup r.got) = before + size - Cardinality(S \cap r.got)
      BY <3>2, <3>5, FS_Union
    <3>7. after <= Cardinality(S \cup r.got)
      BY <3>3, <3>5, <3>6, FS_Subset
    <3> HIDE DEF before, after, size
    <3> QED BY <2>1, <2>2, <3>1, <3>4, <3>6, <3>7 DEF after
  <2>4. CASE ~ (r.user = u /\ r.kind = "download")
    <3>1. r.user = u => r.kind # "assign"
      BY <1>1, <1>13 DEF Counted
    <3>2. after <= before
      BY <1>8, <1>9, <2>4, <3>1
    <3> HIDE DEF before, after, limit
    <3>3. after <= limit
      BY <2>1, <2>2, <3>2
    <3> QED BY <3>3 DEF after, limit
  <2> QED BY <2>3, <2>4
<1>14. ProcessingWithinLimit'
  BY <1>13 DEF ProcessingWithinLimit
<1> QED BY <1>11, <1>12, <1>14 DEF LimInv

-----------------------------------------------------------------------------
(* The import of a file, and the clock *)

(* An import puts no ticket in anybody's hands.                              *)
LEMMA ImportCounts ==
  ASSUME IInv, LimInv, NEW f \in Files, ImportFile(f)
  PROVE  LimInv'
<1>1. \A u : ProcessingOf(u)' = ProcessingOf(u)
  <2>1. \A t \in Tickets : FileOf[t] = f => tickets[t].status = "absent"
    BY DEF ImportFile, IInv, TablesOK, TicketsHaveFiles
  <2>2. \A t \in Tickets : FileOf[t] = f => tickets'[t].status \in {"pending", "expired"}
    BY DEF ImportFile, Lifecycle!Absent
  <2>3. \A t \in Tickets : FileOf[t] # f => tickets'[t] = tickets[t]
    BY DEF ImportFile
  <2> QED BY <2>1, <2>2, <2>3 DEF ProcessingOf
<1>2. txn' = txn
  BY DEF ImportFile
<1> QED BY <1>1, <1>2 DEF LimInv, Counted, Fitting, UserLocksExclusive, ProcessingWithinLimit

(* The clock, and a step of nobody, change neither tickets nor transactions. *)
LEMMA StillCounts ==
  ASSUME LimInv, UNCHANGED <<tickets, txn>>
  PROVE  LimInv'
BY DEF LimInv, Counted, Fitting, UserLocksExclusive, ProcessingWithinLimit, ProcessingOf

-----------------------------------------------------------------------------
(* The theorem *)

(* Nobody works on a ticket of the empty tables.                             *)
LEMMA InitCounts == Init => LimInv
<1> SUFFICES ASSUME Init PROVE LimInv
  OBVIOUS
<1>1. /\ tickets = [t \in Tickets |-> Lifecycle!Absent] /\ txn = [w \in Workers |-> Idle]
      /\ Lifecycle!Absent.status = "absent"
  BY DEF Init, Lifecycle!Init, Lifecycle!Absent
<1>2. \A u : ProcessingOf(u) = {}
  BY <1>1 DEF ProcessingOf
<1>3. ProcessingWithinLimit
  <2>1. Cardinality({}) = 0
    BY FS_EmptySet
  <2>2. ASSUME NEW u \in Users, MaxProcessing[u] # None
        PROVE  0 <= MaxProcessing[u]
    BY <2>2, PoolAssumption
  <2> QED BY <1>2, <2>1, <2>2 DEF ProcessingWithinLimit
<1> QED BY <1>1, <1>3 DEF LimInv, Counted, UserLocksExclusive, Others, Idle

(* Every step keeps it.                                                      *)
LEMMA NextCounts == IInv /\ LimInv /\ [Next]_vars => LimInv'
<1> SUFFICES ASSUME IInv, LimInv, [Next]_vars PROVE LimInv'
  OBVIOUS
<1>1. CASE UNCHANGED vars
  BY <1>1, StillCounts DEF vars, tables
<1>2. CASE \E w \in Workers : Request(w)
  BY <1>2, RequestCounts
<1>3. CASE \E w \in Workers : Statement(w)
  <2>1. PICK w \in Workers : Statement(w)
    BY <1>3
  <2> QED BY <2>1, TakeUserLockCounts, TakeReserveLockCounts, CheckDailyCounts,
             CheckProcessingCounts, ChooseGroupCounts, PickBatchCounts, PickOneCounts,
             TryHintCounts, RowsGoOn, FilesGoOn, LateStepsCount, CommitCounts DEF Statement
<1>4. CASE \E w \in Workers : Abort(w)
  BY <1>4, IdleCounts DEF Abort
<1>5. CASE \E f \in Files : ImportFile(f)
  BY <1>5, ImportCounts
<1>6. CASE Tick
  BY <1>6, StillCounts DEF Tick, tables
<1> QED BY <1>1, <1>2, <1>3, <1>4, <1>5, <1>6 DEF Next

(* A mode-B user never works on more tickets than max_processing_b_mode,     *)
(* whatever its devices, other users, administrators and jobs do at once.    *)
THEOREM ProcessingIsLimited == Spec => []ProcessingWithinLimit
<1>1. LimInv => ProcessingWithinLimit
  BY DEF LimInv
<1> QED BY <1>1, InitCounts, NextCounts, InvariantHolds, PTL DEF Spec
-----------------------------------------------------------------------------
(***************************************************************************)
(* The reserve.  A download holds the reserve's lock from before it counts *)
(* the pool to its commit, so no other download is past its own count; if  *)
(* nothing else takes tickets out of the pool, it only grows meanwhile.    *)
(***************************************************************************)
Takers == {"assign", "next", "revoke", "expire"}

(* What a download has counted is still there: its batch and the reserve.    *)
Leaves(r) ==
  /\ r.pc = "pick" => Cardinality(Eligible(r.user, r.clock)) >= r.want + Reserve
  /\ r.pc \notin Early =>
       Cardinality(Eligible(r.user, r.clock)) >= Cardinality(r.got) + Reserve

Reserved(r) ==
  /\ r.kind \notin Takers
  /\ (r.kind = "download" /\ r.pc \notin {"user lock", "reserve lock"}) =>
       "reserve" \in r.advisory /\ Leaves(r)

(* pg_advisory_xact_lock(1002, 1) is held by one transaction at a time.      *)
ReserveLockExclusive ==
  \A w \in Workers : \A v \in Others(w) :
    ~ ("reserve" \in txn[w].advisory /\ "reserve" \in txn[v].advisory)

ResInv == ReserveLockExclusive /\ \A w \in Workers : Reserved(txn[w])

-----------------------------------------------------------------------------
(* Steps that change no row *)

(* A step that changes no row keeps it if the worker's record does, and the  *)
(* worker took the reserve's lock only when nobody had it.                   *)
LEMMA ContinueReserves ==
  ASSUME IInv, ResInv, NEW w \in Workers, NEW q, Continue(w, q), Reserved(q),
         "reserve" \in q.advisory => ("reserve" \in txn[w].advisory \/ ReserveLockFree(w))
  PROVE  ResInv'
<1>1. UNCHANGED <<tickets, files>>
  BY DEF Continue, tables
<1>2. \A v \in Workers : txn'[v] = IF v = w THEN q ELSE txn[v]
  BY DEF Continue, IInv
<1>3. ASSUME NEW v \in Workers
      PROVE  Reserved(txn[v])'
  <2>1. Reserved(txn'[v])
    BY <1>2 DEF ResInv
  <2> QED BY <1>1, <2>1 DEF Reserved, Leaves, Eligible, Pending
<1>4. ReserveLockExclusive'
  BY <1>2 DEF ResInv, ReserveLockExclusive, ReserveLockFree, Others
<1> QED BY <1>3, <1>4 DEF ResInv

(* So does a worker that gives up.                                           *)
LEMMA IdleReserves ==
  ASSUME IInv, ResInv, NEW w \in Workers, Continue(w, Idle)
  PROVE  ResInv'
<1>1. Reserved(Idle) /\ Idle.advisory = {}
  BY DEF Reserved, Idle, Takers
<1> QED BY <1>1, ContinueReserves

(* A request arrives without a lock.                                         *)
LEMMA RequestReserves ==
  ASSUME IInv, ResInv, NEW w \in Workers, Request(w), Kinds \cap Takers = {}
  PROVE  ResInv'
<1>1. PICK q : Continue(w, q) /\ Arrived(q)
  BY RequestsArrive DEF Received
<1>2. Reserved(q)
  BY <1>1 DEF Arrived, Reserved, Takers
<1> QED BY <1>1, <1>2, ContinueReserves DEF Arrived

(* Until it has counted the pool, a download promises nothing.               *)
LEMMA UncountedReserves ==
  ASSUME IInv, ResInv, NEW w \in Workers, NEW q, Continue(w, q), q.kind = txn[w].kind,
         q.pc \in Early \ {"pick"},
         q.pc \notin {"user lock", "reserve lock"} => "reserve" \in q.advisory,
         "reserve" \in q.advisory => ("reserve" \in txn[w].advisory \/ ReserveLockFree(w))
  PROVE  ResInv'
<1>1. Reserved(q)
  BY DEF ResInv, Reserved, Leaves
<1> QED BY <1>1, ContinueReserves

(* Rows and files are worked on without a look at the pool.                  *)
LEMMA LateStepsReserve ==
  ASSUME IInv, ResInv, NEW w \in Workers, GoesOn(w)
  PROVE  ResInv'
<1>1. CASE Continue(w, Idle)
  BY <1>1, IdleReserves
<1>2. CASE ~ Continue(w, Idle)
  <2>1. PICK q : /\ Continue(w, q) /\ SameBatch(q, txn[w]) /\ txn[w].pc \notin Early
                 /\ txn[w].kind = "download" => q.got = txn[w].got /\ q.pc \notin Early
    BY <1>2 DEF GoesOn
  <2>2. Reserved(txn[w])
    BY DEF ResInv
  <2>3. Reserved(q)
    BY <2>1, <2>2 DEF Reserved, Leaves, SameBatch, SameLocks, Early
  <2> QED BY <2>1, <2>3, ContinueReserves DEF SameBatch, SameLocks
<1> QED BY <1>1, <1>2

(* Nobody assigns single tickets here.                                       *)
LEMMA OnlyDownloads ==
  ASSUME IInv, ResInv, NEW w \in Workers, txn[w].pc \in Early
  PROVE  txn[w].kind = "download" /\ txn[w] \in Txn /\ txn[w].user \in Users
<1>1. txn[w].kind # "assign"
  BY DEF ResInv, Reserved, Takers
<1> QED BY <1>1, SoundFacts

(* The reserve's lock is taken only when free.                               *)
LEMMA AdvisoryReserves ==
  ASSUME IInv, ResInv, NEW w \in Workers, TakeUserLock(w) \/ TakeReserveLock(w)
  PROVE  ResInv'
<1> DEFINE r == txn[w]
<1>1. r \in Txn /\ r.kind = "download"
  BY OnlyDownloads DEF TakeUserLock, TakeReserveLock, Early
<1>2. CASE TakeUserLock(w)
  <2> DEFINE next == IF r.kind = "assign" THEN "daily" ELSE "reserve lock"
             q == [r EXCEPT !.advisory = @ \cup {"user"}, !.pc = next]
  <2>1. q.kind = r.kind /\ q.pc = "reserve lock" /\ q.advisory = r.advisory \cup {"user"}
    BY <1>1 DEF Txn
  <2>2. Continue(w, q)
    BY <1>2 DEF TakeUserLock
  <2> HIDE DEF q
  <2> QED BY <2>1, <2>2, UncountedReserves DEF Early
<1>3. CASE TakeReserveLock(w)
  <2> DEFINE q == [r EXCEPT !.advisory = @ \cup {"reserve"}, !.pc = "daily", !.clock = now]
  <2>1. q.kind = r.kind /\ q.pc = "daily" /\ q.advisory = r.advisory \cup {"reserve"}
    BY <1>1 DEF Txn
  <2>2. Continue(w, q) /\ ReserveLockFree(w)
    BY <1>3 DEF TakeReserveLock
  <2> HIDE DEF q
  <2> QED BY <2>1, <2>2, UncountedReserves DEF Early
<1> QED BY <1>2, <1>3

(* The user's limits say nothing about the pool.                             *)
LEMMA ChecksReserve ==
  ASSUME IInv, ResInv, NEW w \in Workers, CheckDaily(w) \/ CheckProcessing(w)
  PROVE  ResInv'
<1> DEFINE r == txn[w]
           q(n, p) == [r EXCEPT !.want = n, !.pc = p]
<1>1. r \in Txn /\ r.kind = "download" /\ r.pc \in {"daily", "processing"}
  BY OnlyDownloads DEF CheckDaily, CheckProcessing, Early
<1>2. "reserve" \in r.advisory
  BY <1>1 DEF ResInv, Reserved
<1>3. Continue(w, Idle) \/ \E n : \E p \in {"processing", "stats"} : Continue(w, q(n, p))
  <2>1. CASE CheckDaily(w)
    <3>1. Continue(w, Idle) \/ \E n : Continue(w, q(n, "processing"))
      BY <1>1, <2>1 DEF CheckDaily
    <3> HIDE DEF q
    <3> QED BY <3>1
  <2>2. CASE CheckProcessing(w)
    <3>1. Continue(w, Idle) \/ \E n : Continue(w, q(n, "stats"))
      BY <2>2 DEF CheckProcessing
    <3> HIDE DEF q
    <3> QED BY <3>1
  <2> QED BY <2>1, <2>2
<1>4. ASSUME NEW n, NEW p \in {"processing", "stats"}, Continue(w, q(n, p))
      PROVE  ResInv'
  <2> DEFINE y == q(n, p)
  <2>1. y.kind = r.kind /\ y.pc = p /\ y.advisory = r.advisory
    BY <1>1 DEF Txn
  <2>2. Continue(w, y)
    BY <1>4
  <2> HIDE DEF y, q
  <2> QED BY <1>2, <2>1, <2>2, UncountedReserves DEF Early
<1> HIDE DEF q
<1> QED BY <1>3, <1>4, IdleReserves

(* The count: the batch is at most what the pool has above the reserve.      *)
LEMMA ChooseGroupReserves ==
  ASSUME IInv, ResInv, NEW w \in Workers, ChooseGroup(w)
  PROVE  ResInv'
<1> DEFINE r == txn[w]
           size == Cardinality(Eligible(r.user, r.clock))
           actual == AtMost(r.want, Less(size, Reserve))
           q(ids) == [r EXCEPT !.ids = ids, !.want = actual, !.pc = "pick"]
<1>1. r \in Txn /\ r.pc = "stats" /\ r.kind = "download"
  BY OnlyDownloads DEF ChooseGroup, Early
<1>2. CASE actual = 0
  BY <1>2, IdleReserves DEF ChooseGroup
<1>3. CASE actual # 0
  <2>1. PICK ids : Continue(w, q(ids))
    BY <1>3 DEF ChooseGroup
  <2>2. size \in Nat /\ r.want \in Nat
    BY <1>1, CardinalityInNat DEF Eligible, Pending, Txn
  <2>3. size >= actual + Reserve
    <3> HIDE DEF size
    <3> QED BY <1>3, <2>2, PoolAssumption DEF AtMost, Less
  <2> HIDE DEF actual
  <2> DEFINE p == q(ids)
  <2>4. SameBatch(p, r) /\ p.pc = "pick" /\ p.want = actual
    BY <1>1 DEF Txn, SameBatch, SameLocks
  <2>5. Continue(w, p)
    BY <2>1
  <2> HIDE DEF p, q
  <2>6. Reserved(p)
    BY <1>1, <2>3, <2>4 DEF ResInv, Reserved, Leaves, SameBatch, SameLocks, Early
  <2> QED BY <2>4, <2>5, <2>6, ContinueReserves DEF SameBatch, SameLocks
<1> QED BY <1>2, <1>3

(* The query's LIMIT is the size the batch was cut down to.                  *)
LEMMA PickBatchReserves ==
  ASSUME IInv, ResInv, NEW w \in Workers, PickBatch(w)
  PROVE  ResInv'
<1> DEFINE r == txn[w]
           free == {t \in r.ids \cap Pending : RowFree(w, t)}
           S == LowestIds(free, r.want)
           q == [r EXCEPT !.held = @ \cup S, !.got = S, !.scope = FilesOf(S)]
           size == Cardinality(Eligible(r.user, r.clock))
<1>1. r \in Txn /\ r.pc = "pick" /\ r.kind = "download"
  BY OnlyDownloads DEF PickBatch, Early
<1>2. Continue(w, Idle) \/ Continue(w, Take(r, S))
  BY DEF PickBatch
<1>3. r.want \in Nat /\ free \in SUBSET Tickets
  BY <1>1 DEF Txn, Pending
<1>4. S \in SUBSET Tickets /\ Cardinality(S) \in Nat /\ Cardinality(S) <= r.want
  <2>1. S \in SUBSET free
    BY DEF LowestIds
  <2> HIDE DEF free
  <2> QED BY <1>3, <2>1, LimitIsKept
<1> HIDE DEF S
<1>5. q \in Txn /\ q.got = S
  <2>1. FilesOf(S) \in SUBSET Files
    BY <1>4, FilesOfType
  <2> QED BY <1>1, <1>4, <2>1 DEF Txn
<1>6. Take(r, S).got = S /\ Take(r, S).pc \notin Early /\ SameBatch(Take(r, S), r)
  <2> HIDE DEF q
  <2>1. ToFiles(q).got = S /\ ToFiles(q).pc \notin Early
    BY <1>5, ToFilesSame DEF SameWork
  <2> QED BY <1>1, <2>1, LocksStay DEF Take, q
<1>7. Reserved(r)
  BY DEF ResInv
<1>8. size >= Cardinality(S) + Reserve
  <2>1. size >= r.want + Reserve
    BY <1>1, <1>7 DEF Reserved, Leaves
  <2>2. size \in Nat
    BY CardinalityInNat DEF Eligible, Pending
  <2> HIDE DEF size
  <2> QED BY <1>3, <1>4, <2>1, <2>2, PoolAssumption
<1> DEFINE p == Take(r, S)
<1>9. p.got = S /\ p.pc \notin Early /\ SameBatch(p, r)
  BY <1>6
<1>10. CASE Continue(w, p)
  <2> HIDE DEF p
  <2>1. Reserved(p)
    BY <1>1, <1>7, <1>8, <1>9 DEF Reserved, Leaves, SameBatch, SameLocks, Early
  <2> QED BY <1>9, <1>10, <2>1, ContinueReserves DEF SameBatch, SameLocks
<1> QED BY <1>2, <1>10, IdleReserves

-----------------------------------------------------------------------------
(* Commits and imports *)

(* Sizes of pools: a larger one is no smaller.                               *)
LEMMA PoolsCompare ==
  ASSUME NEW P \in SUBSET Tickets, NEW S \in SUBSET Tickets, P \subseteq S
  PROVE  Cardinality(P) \in Nat /\ Cardinality(S) \in Nat /\ Cardinality(P) <= Cardinality(S)
<1>1. IsFiniteSet(S)
  BY SelectionAssumption, FS_Subset
<1> QED BY <1>1, FS_Subset, CardinalityInNat

(* Those who promised to leave the reserve still do when the pool has grown. *)
LEMMA GrownPoolReserves ==
  ASSUME NEW r \in Txn, Reserved(r), Reserve \in Nat,
         r.kind = "download" => Eligible(r.user, r.clock) \subseteq Eligible(r.user, r.clock)'
  PROVE  Reserved(r)'
<1> DEFINE before == Eligible(r.user, r.clock)
           after == Eligible(r.user, r.clock)'
           size == Cardinality(r.got)
<1>1. CASE r.kind = "download"
  <2>1. before \in SUBSET Tickets /\ after \in SUBSET Tickets /\ before \subseteq after
    BY <1>1 DEF Eligible, Pending
  <2>2. Cardinality(before) \in Nat /\ Cardinality(after) \in Nat
        /\ Cardinality(before) <= Cardinality(after)
    <3> HIDE DEF before, after
    <3> QED BY <2>1, PoolsCompare
  <2>3. size \in Nat /\ r.want \in Nat
    BY CardinalityInNat DEF Txn
  <2>4. \A n \in Nat : Cardinality(before) >= n => Cardinality(after) >= n
    <3> HIDE DEF before, after
    <3> QED BY <2>2
  <2>5. r.want + Reserve \in Nat /\ size + Reserve \in Nat
    <3> HIDE DEF size
    <3> QED BY <2>3
  <2>6. Leaves(r) => Leaves(r)'
    BY <2>4, <2>5 DEF Leaves
  <2> QED BY <2>6 DEF Reserved
<1>2. CASE r.kind # "download"
  BY <1>2 DEF Reserved
<1> QED BY <1>1, <1>2

(* A commit that is not a download's takes nothing out of the pool; a        *)
(* download's takes its batch.                                               *)
LEMMA CommitTakes ==
  ASSUME IInv, ResInv, NEW w \in Workers, Commit(w), NEW t \in Pending, t \notin Pending'
  PROVE  txn[w].kind = "download" /\ t \in txn[w].got
<1> DEFINE r == txn[w]
<1>1. Sound(r) /\ r.kind \notin Takers
  BY SoundFacts DEF ResInv, Reserved
<1>2. t \in Tickets /\ tickets[t].status = "pending"
  BY DEF Pending
<1>3. tickets' = [s \in Tickets |-> IF s \in r.got THEN NewTicket(r, s) ELSE tickets[s]]
  BY DEF Commit
<1> HIDE DEF r
<1>4. t \in r.got
  BY <1>2, <1>3 DEF Pending
<1>5. Fits(r, t)
  BY <1>1, <1>4 DEF Sound, WorkOK
<1> QED BY <1>1, <1>2, <1>4, <1>5 DEF Fits, Match, Mine, Takers, r

(* After its commit a worker is idle, for nobody assigns single tickets.     *)
LEMMA CommitReserves ==
  ASSUME IInv, ResInv, NEW w \in Workers, Commit(w)
  PROVE  ResInv'
<1>1. \A v \in Workers : txn'[v] = IF v = w THEN Idle ELSE txn[v]
  <2>1. txn[w].kind \notin Takers
    BY DEF ResInv, Reserved
  <2>2. AfterCommit(txn[w]) = Idle
    BY <2>1 DEF AfterCommit, TooLate, Takers
  <2> QED BY <2>2 DEF Commit, IInv
<1>2. Idle.kind = "none" /\ Idle.advisory = {}
  BY DEF Idle
<1>3. ASSUME NEW v \in Workers
      PROVE  Reserved(txn[v])'
  <2>1. CASE v = w
    <3>1. txn'[v] = Idle
      BY <1>1, <2>1
    <3> QED BY <1>2, <3>1 DEF Reserved, Takers
  <2>2. CASE v # w
    <3>1. txn'[v] = txn[v] /\ Reserved(txn[v]) /\ txn[v] \in Txn
      BY <1>1, <2>2, SoundFacts DEF ResInv
    <3>2. CASE txn[v].kind = "download" /\ txn[v].pc \notin {"user lock", "reserve lock"}
      <4>1. txn[w].kind # "download"
        <5>1. txn[w].pc = "commit"
          BY DEF Commit
        <5> QED BY <2>2, <3>2, <5>1 DEF ResInv, Reserved, ReserveLockExclusive, Others
      <4>2. Pending \subseteq Pending'
        BY <4>1, CommitTakes
      <4>3. Eligible(txn[v].user, txn[v].clock) \subseteq Eligible(txn[v].user, txn[v].clock)'
        BY <3>1, <4>2 DEF Eligible
      <4> DEFINE r == txn[v]
      <4>4. PICK x \in Txn : x = txn[v]
        BY <3>1
      <4>5. Eligible(x.user, x.clock) \subseteq Eligible(x.user, x.clock)'
        BY <4>2 DEF Eligible
      <4>6. Reserved(x)'
        BY <3>1, <4>4, <4>5, GrownPoolReserves, PoolAssumption
      <4> QED BY <3>1, <4>4, <4>6 DEF Reserved, Leaves, Eligible
    <3>3. CASE ~ (txn[v].kind = "download" /\ txn[v].pc \notin {"user lock", "reserve lock"})
      BY <3>1, <3>3 DEF Reserved
    <3> QED BY <3>2, <3>3
  <2> QED BY <2>1, <2>2
<1>4. ReserveLockExclusive'
  BY <1>1, <1>2 DEF ResInv, ReserveLockExclusive, Others
<1> QED BY <1>3, <1>4 DEF ResInv

(* An import only adds to the pool.                                          *)
LEMMA ImportReserves ==
  ASSUME IInv, ResInv, NEW f \in Files, ImportFile(f)
  PROVE  ResInv'
<1>1. txn' = txn
  BY DEF ImportFile
<1>2. Pending \subseteq Pending'
  <2>1. \A t \in Tickets : FileOf[t] = f => tickets[t].status = "absent"
    BY DEF ImportFile, IInv, TablesOK, TicketsHaveFiles
  <2>2. \A t \in Tickets : FileOf[t] # f => tickets'[t] = tickets[t]
    BY DEF ImportFile
  <2> QED BY <2>1, <2>2 DEF Pending
<1>3. ASSUME NEW v \in Workers
      PROVE  Reserved(txn[v])'
  <2>1. PICK x \in Txn : x = txn[v]
    BY SoundFacts
  <2>2. Eligible(x.user, x.clock) \subseteq Eligible(x.user, x.clock)'
    BY <1>2 DEF Eligible
  <2>3. Reserved(x)'
    BY <2>1, <2>2, GrownPoolReserves, PoolAssumption DEF ResInv
  <2> QED BY <1>1, <2>1, <2>3 DEF Reserved, Leaves, Eligible
<1> QED BY <1>1, <1>3 DEF ResInv, ReserveLockExclusive

(* Nobody downloads at the start.                                            *)
LEMMA InitReserves == Init => ResInv
<1>1. Idle.kind = "none" /\ Idle.advisory = {}
  BY DEF Idle
<1>2. Init => \A w \in Workers : txn[w] = Idle
  BY DEF Init
<1> QED BY <1>1, <1>2 DEF ResInv, Reserved, ReserveLockExclusive, Others, Takers

(* Every step keeps it.                                                      *)
LEMMA NextReserves ==
  ASSUME IInv, ResInv, [Next]_vars, Kinds \cap Takers = {}
  PROVE  ResInv'
<1>1. CASE UNCHANGED vars
  BY <1>1 DEF vars, tables, ResInv, Reserved, Leaves, Eligible, Pending, ReserveLockExclusive
<1>2. ASSUME NEW w \in Workers, Request(w) PROVE ResInv'
  BY <1>2, RequestReserves
<1>3. ASSUME NEW w \in Workers, Statement(w) PROVE ResInv'
  <2>1. ~ PickOne(w) /\ ~ TryHint(w)
    <3>1. txn[w].pc \in {"pick", "hint"} => txn[w].kind = "download"
      BY OnlyDownloads DEF Early
    <3>2. txn[w].pc # "hint"
      BY <3>1, SoundFacts DEF Sound
    <3> QED BY <3>1, <3>2 DEF PickOne, TryHint
  <2> QED BY <1>3, <2>1, AdvisoryReserves, ChecksReserve, ChooseGroupReserves,
             PickBatchReserves, RowsGoOn, FilesGoOn, LateStepsReserve, CommitReserves
          DEF Statement
<1>4. CASE \E w \in Workers : Abort(w)
  BY <1>4, IdleReserves DEF Abort
<1>5. CASE \E f \in Files : ImportFile(f)
  BY <1>5, ImportReserves
<1>6. CASE Tick
  BY <1>6 DEF Tick, tables, ResInv, Reserved, Leaves, Eligible, Pending, ReserveLockExclusive
<1> QED BY <1>1, <1>2, <1>3, <1>4, <1>5, <1>6 DEF Next

(* The commit of a download leaves the reserve where it counted it.          *)
LEMMA CommitLeavesReserve ==
  ASSUME IInv, ResInv, NEW w \in Workers, Commit(w), txn[w].kind = "download"
  PROVE  LeavesReserve(w)
<1> DEFINE r == txn[w]
           pool == Eligible(r.user, r.clock)
           left == {t \in Tickets : /\ tickets'[t].status = "pending"
                                    /\ HasDeadline(t) /\ DeadlineOf(t) > r.clock
                                    /\ TypeOf(t) \notin Blocked[r.user]}
<1>1. Sound(r) /\ r.got \in SUBSET Tickets /\ r.pc = "commit"
  BY SoundFacts DEF Txn, Commit
<1>2. Cardinality(pool) >= Cardinality(r.got) + Reserve
  BY <1>1 DEF ResInv, Reserved, Leaves, Early
<1>3. pool \in SUBSET (left \cup r.got)
  <2>1. \A t \in Pending : t \notin r.got => t \in Pending'
    BY CommitTakes
  <2> QED BY <2>1 DEF Eligible, Pending
<1>4. left \in SUBSET Tickets /\ pool \in SUBSET Tickets
  BY DEF Eligible, Pending
<1> HIDE DEF pool, left
<1>5. IsFiniteSet(left) /\ IsFiniteSet(r.got)
  BY <1>1, <1>4, SelectionAssumption, FS_Subset
<1> DEFINE m == Cardinality(left)
           n == Cardinality(r.got)
           both == Cardinality(left \cup r.got)
<1>6. /\ m \in Nat /\ n \in Nat /\ both \in Nat
      /\ Cardinality(left \cap r.got) \in Nat /\ Cardinality(pool) \in Nat
  <2>1. left \cup r.got \in SUBSET Tickets /\ left \cap r.got \in SUBSET Tickets
    BY <1>1, <1>4
  <2> QED BY <1>1, <1>4, <2>1, CardinalityInNat
<1>7. both = m + n - Cardinality(left \cap r.got)
  BY <1>5, FS_Union
<1>8. Cardinality(pool) <= both
  <2>1. left \cup r.got \in SUBSET Tickets
    BY <1>1, <1>4
  <2> QED BY <1>3, <1>4, <2>1, PoolsCompare
<1>9. m >= Reserve
  <2> HIDE DEF m, n, both
  <2> QED BY <1>2, <1>6, <1>7, <1>8, PoolAssumption DEF n
<1> QED BY <1>9 DEF LeavesReserve, left

(* A batch leaves the reserve in the pool, however many users download and   *)
(* return tickets at once, as long as nothing takes tickets out of the pool  *)
(* behind the reserve's lock.  Single assignments, revocations and the       *)
(* expiry job do: with each of them beside a download it does not hold (the  *)
(* job needs a recycling, too, since a batch has the earliest deadline).     *)
THEOREM ReserveIsLeft ==
  ASSUME Kinds \cap Takers = {}
  PROVE  Spec => BatchLeavesReserve
<1>1. Spec => []ResInv
  <2>1. IInv /\ ResInv /\ [Next]_vars => ResInv'
    BY NextReserves
  <2> QED BY <2>1, InitReserves, InvariantHolds, PTL DEF Spec
<1>2. ASSUME IInv, ResInv, [Next]_vars, NEW w \in Workers, txn'[w] # txn[w]
      PROVE  LeavesReserve(w)
  <2>1. CASE txn[w].kind = "download" /\ txn[w].pc = "commit" /\ tickets' # tickets
    <3>1. ASSUME NEW v \in Workers, Commit(v) PROVE v = w
      BY <1>2, <3>1 DEF Commit, IInv
    <3>2. \E v \in Workers : Commit(v)
      BY <1>2, <2>1, OtherStepsStutter DEF ImportFile, vars
    <3> QED BY <1>2, <2>1, <3>1, <3>2, CommitLeavesReserve
  <2>2. CASE ~ (txn[w].kind = "download" /\ txn[w].pc = "commit" /\ tickets' # tickets)
    BY <2>2 DEF LeavesReserve
  <2> QED BY <2>1, <2>2
<1>3. IInv /\ ResInv /\ [Next]_vars =>
        [\A w \in Workers : txn'[w] # txn[w] => LeavesReserve(w)]_vars
  BY <1>2
<1> QED BY <1>1, <1>3, InvariantHolds, PTL DEF Spec, BatchLeavesReserve
=============================================================================
