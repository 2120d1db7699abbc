--------------------------- MODULE AccountsProofs ---------------------------
(***************************************************************************)
(* Proofs about Accounts, for any number of users, devices, workers and    *)
(* tokens.  One inductive invariant, IInv, is kept by every action; the    *)
(* theorems at the end follow from it.                                     *)
(***************************************************************************)
EXTENDS AccountsProps, TLAPS

-----------------------------------------------------------------------------
(* The inductive invariant *)

WithToken == {"login user", "drop", "touch", "handle", "bind",
              "held", "conflict", "own row", "write"}
WithDevice == {"claim", "held", "conflict", "own row", "write"}

(* A request knows its user, its token and its device where it needs them.   *)
Fits(r) ==
  /\ r.pc # "idle" => r.user \in Users
  /\ r.pc \in WithToken => r.token \in Tokens
  /\ r.pc \in WithDevice => r.device \in Devices
  /\ r.pc = "save" => /\ r.loaded.status \in {"active", "disabled"}
                      /\ r.edited.status \in {"active", "disabled"}
  /\ r.pc \in {"save", "reload"} => r.op = "edit"
  /\ r.pc = "delete" => r.op = "delete"

(* The rows of the registry it has found are its user's or gone, and so is   *)
(* the session a login has made.                                             *)
Holds(r) ==
  /\ r.row # None => registry[r.row] = NoRow \/ registry[r.row].user = r.user
  /\ r.own # None => registry[r.own] = NoRow \/ registry[r.own].user = r.user
  /\ r.pc = "login user" =>
       sessions[r.token] = NoSession \/ sessions[r.token].user = r.user

(* device_id is unique in the registry. *)
DevicesUnique ==
  \A x, y \in RowIds : registry[x] # NoRow /\ registry[x].device = registry[y].device => x = y

(* A cookie was given to the user its session is of, who exists or existed.  *)
CookiesAgree ==
  \A k \in Tokens : cookies[k] # None =>
    /\ sessions[k] = NoSession \/ sessions[k].user = cookies[k]
    /\ users[cookies[k]].status # "absent"

IInv ==
  /\ AccountsTypeOK
  /\ \A w \in Workers : Fits(txn[w]) /\ Holds(txn[w])
  /\ DevicesUnique
  /\ CookiesAgree
  /\ DisabledStaysOut

-----------------------------------------------------------------------------
(* Rows and records *)

(* No row is the row of nobody. *)
LEMMA NoRowIsNone ==
  /\ NoRow \notin DeviceRow
  /\ NoSession \notin SessionRow
  /\ Idle \in Txn /\ Fits(Idle) /\ Holds(Idle)
BY AccountsAssumption
   DEF NoRow, DeviceRow, NoSession, SessionRow, Idle, Txn, PCs, AllOps, UserRow, NoUser, Status,
       Fits, Holds, WithToken, WithDevice

(* The invariant holds at the start.                                         *)
LEMMA InitHolds == Init => IInv
<1> SUFFICES ASSUME Init PROVE IInv
  OBVIOUS
<1>1. AccountsTypeOK
  BY NoRowIsNone, AccountsAssumption DEF Init, AccountsTypeOK, UserRow, NoUser, Status
<1>2. \A w \in Workers : Fits(txn[w]) /\ Holds(txn[w])
  BY NoRowIsNone DEF Init
<1>3. DevicesUnique
  BY DEF Init, DevicesUnique
<1>4. CookiesAgree
  BY DEF Init, CookiesAgree
<1>5. DisabledStaysOut
  BY DEF Init, DisabledStaysOut
<1> QED BY <1>1, <1>2, <1>3, <1>4, <1>5 DEF IInv

-----------------------------------------------------------------------------
(* What a step leaves alone *)

(* The request of w is not one that is still to log out a user it disabled,  *)
(* or q still is, or the user was enabled again.                             *)
Relieved(w, q) ==
  \/ txn[w].op # "edit"
  \/ txn[w].pc \notin {"reload", "kick"}
  \/ users[txn[w].user].status # "disabled"
  \/ q.op = "edit" /\ q.pc = "kick" /\ q.user = txn[w].user

(* Such a step keeps disabled users out if no session appears.               *)
LEMMA StayOut ==
  ASSUME IInv, NEW w \in Workers, NEW q \in Txn, Relieved(w, q),
         txn' = [txn EXCEPT ![w] = q], users' = users, cookies' = cookies,
         \A k \in Tokens : cookies[k] # None /\ sessions[k] = NoSession => sessions'[k] = NoSession
  PROVE  DisabledStaysOut'
<1> SUFFICES ASSUME NEW u \in Users, users[u].status = "disabled", ~ Disabling(u)',
                    NEW k \in Tokens, cookies[k] = u
             PROVE  sessions'[k] = NoSession
  BY DEF DisabledStaysOut
<1>1. ~ Disabling(u)
  <2> SUFFICES ASSUME NEW v \in Workers, txn[v].user = u, txn[v].op = "edit",
                      txn[v].pc \in {"reload", "kick"}
               PROVE  FALSE
    BY DEF Disabling
  <2>1. txn \in [Workers -> Txn]
    BY DEF IInv, AccountsTypeOK
  <2>2. CASE v = w
    <3>1. q.op = "edit" /\ q.pc = "kick" /\ q.user = u
      BY <2>2 DEF Relieved
    <3>2. txn'[w] = q
      BY <2>1
    <3> QED BY <3>1, <3>2 DEF Disabling
  <2>3. CASE v # w
    <3>1. txn'[v] = txn[v]
      BY <2>1, <2>3
    <3> QED BY <3>1 DEF Disabling
  <2> QED BY <2>2, <2>3
<1>2. u # None
  BY AccountsAssumption
<1> QED BY <1>1, <1>2 DEF IInv, DisabledStaysOut

(* A step that changes no row. *)
LEMMA QuietStep ==
  ASSUME IInv, NEW w \in Workers, NEW q \in Txn,
         Continue(w, q), Fits(q), Holds(q), Relieved(w, q)
  PROVE  IInv'
<1>1. /\ txn' = [txn EXCEPT ![w] = q]
      /\ UNCHANGED <<users, registry, sessions, cookies, history, hours, now>>
  BY DEF Continue, Goto, tables
<1>2. AccountsTypeOK'
  BY <1>1 DEF IInv, AccountsTypeOK
<1>3. \A v \in Workers : Fits(txn'[v]) /\ Holds(txn'[v])
  BY <1>1 DEF IInv, AccountsTypeOK
<1>4. (\A v \in Workers : Fits(txn[v]) /\ Holds(txn[v]))'
  BY <1>1, <1>3 DEF Fits, Holds
<1>5. DevicesUnique' /\ CookiesAgree'
  BY <1>1 DEF IInv, DevicesUnique, CookiesAgree
<1>6. DisabledStaysOut'
  BY <1>1, StayOut
<1> QED BY <1>2, <1>4, <1>5, <1>6 DEF IInv

-----------------------------------------------------------------------------
(* Steps that write sessions *)

(* No session appears, and none changes its user.                            *)
Shrinks(new) ==
  /\ new \in [Tokens -> SessionRow \cup {NoSession}]
  /\ \A k \in Tokens : new[k] # NoSession =>
       sessions[k] # NoSession /\ new[k].user = sessions[k].user

LEMMA ShrinkKeeps ==
  ASSUME IInv, Shrinks(sessions'),
         UNCHANGED <<users, registry, cookies, history, hours, now>>
  PROVE  /\ \A r : (r.pc \in WithToken => r.token \in Tokens) /\ Holds(r) => Holds(r)'
         /\ DevicesUnique' /\ CookiesAgree'
         /\ txn' \in [Workers -> Txn] => AccountsTypeOK'
<1>1. \A r : (r.pc \in WithToken => r.token \in Tokens) /\ Holds(r) => Holds(r)'
  BY DEF Holds, Shrinks, WithToken
<1>2. DevicesUnique'
  BY DEF IInv, DevicesUnique
<1>3. CookiesAgree'
  BY DEF IInv, CookiesAgree, Shrinks
<1>4. txn' \in [Workers -> Txn] => AccountsTypeOK'
  BY DEF IInv, AccountsTypeOK, Shrinks
<1> QED BY <1>1, <1>2, <1>3, <1>4

(* A request that writes its own sessions. *)
LEMMA SessionStep ==
  ASSUME IInv, NEW w \in Workers, NEW q \in Txn, NEW new,
         WriteSessions(new), Shrinks(new), Goto(w, q),
         Fits(q), Holds(q), Relieved(w, q)
  PROVE  IInv'
<1>1. txn \in [Workers -> Txn] /\ txn' = [txn EXCEPT ![w] = q] /\ sessions' = new
  BY DEF IInv, AccountsTypeOK, Goto, WriteSessions
<1>2. txn' \in [Workers -> Txn]
  BY <1>1
<1>3. /\ \A r : (r.pc \in WithToken => r.token \in Tokens) /\ Holds(r) => Holds(r)'
      /\ DevicesUnique' /\ CookiesAgree' /\ AccountsTypeOK'
  BY <1>1, <1>2, ShrinkKeeps DEF WriteSessions
<1>4. ASSUME NEW v \in Workers PROVE (Fits(txn[v]) /\ Holds(txn[v]))'
  <2>1. Fits(txn'[v]) /\ Holds(txn'[v])
    BY <1>1 DEF IInv
  <2> QED BY <1>3, <2>1 DEF Fits, Holds
<1>5. DisabledStaysOut'
  <2>1. \A k \in Tokens : cookies[k] # None /\ sessions[k] = NoSession => sessions'[k] = NoSession
    BY <1>1 DEF Shrinks
  <2> QED BY <1>1, <2>1, StayOut DEF WriteSessions
<1> QED BY <1>3, <1>4, <1>5 DEF IInv

(* Deleting sessions is a step of that kind.                                 *)
LEMMA WithoutShrinks ==
  ASSUME IInv, NEW K PROVE Shrinks(Without(K))
BY DEF IInv, AccountsTypeOK, Shrinks, Without

(* Sessions are deleted by a job. *)
LEMMA JobStep ==
  ASSUME IInv, NEW K, WriteSessions(Without(K)), UNCHANGED txn
  PROVE  IInv'
<1>1. Shrinks(sessions') /\ UNCHANGED <<users, registry, cookies, history, hours, now>>
  BY WithoutShrinks DEF WriteSessions
<1>2. /\ \A r : (r.pc \in WithToken => r.token \in Tokens) /\ Holds(r) => Holds(r)'
      /\ DevicesUnique' /\ CookiesAgree' /\ AccountsTypeOK'
  BY <1>1, ShrinkKeeps DEF IInv, AccountsTypeOK
<1>3. (\A w \in Workers : Fits(txn[w]) /\ Holds(txn[w]))'
  BY <1>2 DEF IInv, Fits
<1>4. DisabledStaysOut'
  BY <1>1, AccountsAssumption DEF IInv, DisabledStaysOut, Disabling, Shrinks
<1> QED BY <1>2, <1>3, <1>4 DEF IInv

(* One session is written, if it is still there.                             *)
LEMMA OneSessionShrinks ==
  ASSUME IInv, NEW k \in Tokens, NEW row \in SessionRow \cup {NoSession},
         row # NoSession => sessions[k] # NoSession /\ row.user = sessions[k].user
  PROVE  Shrinks([sessions EXCEPT ![k] = row])
BY DEF IInv, AccountsTypeOK, Shrinks

-----------------------------------------------------------------------------
(* Requests and login *)

LEMMA LoginKeeps ==
  ASSUME IInv, NEW w \in Workers, NEW u \in Users, Login(w, u)
  PROVE  IInv'
<1> DEFINE q == [Idle EXCEPT !.pc = "count", !.user = u, !.max = users[u].max, !.op = "login"]
<1>1. Continue(w, q) /\ txn[w].pc = "idle"
  BY DEF Login, Receive, At, Idle
<1>2. q \in Txn
  BY NoRowIsNone DEF IInv, AccountsTypeOK, UserRow, Txn, PCs, AllOps, ClientOps
<1>3. Fits(q) /\ Holds(q)
  BY NoRowIsNone DEF Fits, Holds, WithToken, WithDevice, Idle
<1>4. Relieved(w, q)
  BY <1>1 DEF Relieved
<1> HIDE DEF q
<1> QED BY <1>1, <1>2, <1>3, <1>4, QuietStep

LEMMA EnterKeeps ==
  ASSUME IInv, NEW w \in Workers, NEW k \in Tokens, Enter(w, k)
  PROVE  IInv'
<1> DEFINE pc == IF now > sessions[k].expires THEN "drop" ELSE "touch"
           q == [Idle EXCEPT !.user = cookies[k], !.token = k, !.pc = pc,
                             !.seen = now, !.expires = now + hours, !.op = "request"]
<1>1. Continue(w, q) /\ txn[w].pc = "idle"
  BY DEF Enter, Receive, At, Idle
<1>2. cookies[k] \in Users /\ now \in Nat /\ now + hours \in Nat
  BY AccountsAssumption DEF Enter, IInv, AccountsTypeOK
<1>3. q \in Txn
  <2>1. pc \in PCs /\ "request" \in {"none", "request"} \cup AllOps
    BY DEF PCs
  <2> HIDE DEF pc
  <2> QED BY <1>2, <2>1, NoRowIsNone DEF Txn
<1>4. Fits(q) /\ Holds(q)
  BY <1>2 DEF Fits, Holds, WithToken, WithDevice, Idle
<1>5. Relieved(w, q)
  BY <1>1 DEF Relieved
<1> HIDE DEF q
<1> QED BY <1>1, <1>3, <1>4, <1>5, QuietStep

(* What the invariant says of one request. *)
LEMMA OneRequest ==
  ASSUME IInv, NEW w \in Workers
  PROVE  txn[w] \in Txn /\ Fits(txn[w]) /\ Holds(txn[w])
BY DEF IInv, AccountsTypeOK

(* A request that ends is a request no more. *)
LEMMA EndsQuietly ==
  ASSUME IInv, NEW w \in Workers, Continue(w, Idle), txn[w].pc \notin {"reload", "kick"}
  PROVE  IInv'
BY NoRowIsNone, QuietStep DEF Relieved

LEMMA CountSessionsKeeps ==
  ASSUME IInv, NEW w \in Workers, NEW d \in Devices \cup {None}, CountSessions(w, d)
  PROVE  IInv'
<1> DEFINE r == txn[w]
           pc == IF d = None THEN "session" ELSE "purge"
           q == [r EXCEPT !.device = d, !.max = 0, !.pc = pc]
<1>1. r \in Txn /\ Fits(r) /\ Holds(r) /\ r.pc = "count"
  BY OneRequest DEF CountSessions, At
<1>2. q \in Txn
  <2>1. pc \in PCs
    BY DEF PCs
  <2> HIDE DEF pc
  <2> QED BY <1>1, <2>1 DEF Txn
<1>3. Fits(q) /\ Holds(q) /\ Relieved(w, q)
  BY <1>1 DEF Fits, Holds, WithToken, WithDevice, Txn, Relieved
<1>4. CASE Continue(w, Idle)
  BY <1>1, <1>4, EndsQuietly
<1>5. CASE Continue(w, q)
  <2> HIDE DEF q
  <2> QED BY <1>2, <1>3, <1>5, QuietStep
<1> QED BY <1>4, <1>5 DEF CountSessions

LEMMA PurgeDeviceKeeps ==
  ASSUME IInv, NEW w \in Workers, PurgeDevice(w)
  PROVE  IInv'
<1> DEFINE r == txn[w]
           q == [r EXCEPT !.pc = "session"]
           K == {k \in SessionsOf(r.user) : sessions[k].device = r.device}
<1>1. r \in Txn /\ Fits(r) /\ Holds(r) /\ r.pc = "purge"
  BY OneRequest DEF PurgeDevice, At
<1>2. q \in Txn
  BY <1>1 DEF Txn, PCs
<1>3. Fits(q) /\ Holds(q) /\ Relieved(w, q)
  BY <1>1 DEF Fits, Holds, WithToken, WithDevice, Txn, Relieved
<1>4. WriteSessions(Without(K)) /\ Goto(w, q)
  BY DEF PurgeDevice
<1> HIDE DEF q, K
<1> QED BY <1>2, <1>3, <1>4, WithoutShrinks, SessionStep

(* A new session's token is nobody's, so that it opens no old cookie.        *)
LEMMA CreateSessionKeeps ==
  ASSUME IInv, NEW w \in Workers, CreateSession(w)
  PROVE  IInv'
<1> DEFINE r == txn[w]
           row == [user |-> r.user, device |-> r.device, seen |-> now, expires |-> now + hours]
<1>1. r \in Txn /\ Fits(r) /\ Holds(r) /\ r.pc = "session"
  BY OneRequest DEF CreateSession, At
<1>2. CASE Continue(w, Idle)
  BY <1>1, <1>2, EndsQuietly
<1>3. ASSUME NEW k \in FreshTokens, WriteSessions([sessions EXCEPT ![k] = row]),
             Goto(w, [r EXCEPT !.pc = "login user", !.token = k])
      PROVE  IInv'
  <2> DEFINE q == [r EXCEPT !.pc = "login user", !.token = k]
  <2>1. /\ k \in Tokens /\ sessions[k] = NoSession /\ cookies[k] = None
        /\ \A v \in Workers : txn[v].token # k
    BY DEF FreshTokens
  <2>2. row \in SessionRow /\ row.user = r.user
    <3>1. r.user \in Users /\ r.device \in Devices \cup {None}
      BY <1>1 DEF Fits, Txn
    <3>2. now \in Nat /\ now + hours \in Nat
      BY AccountsAssumption DEF IInv, AccountsTypeOK
    <3> QED BY <3>1, <3>2 DEF SessionRow
  <2>3. q \in Txn /\ Fits(q) /\ Relieved(w, q)
    <3> k \in Tokens
      BY <2>1
    <3> HIDE DEF row
    <3>1. q \in Txn
      BY <1>1 DEF Txn, PCs
    <3>2. q.pc = "login user" /\ q.token = k /\ q.user = r.user
      BY <1>1 DEF Txn
    <3> QED BY <1>1, <2>1, <3>1, <3>2 DEF Fits, WithDevice, Relieved
  <2>4. /\ txn' = [txn EXCEPT ![w] = q] /\ sessions' = [sessions EXCEPT ![k] = row]
        /\ UNCHANGED <<users, registry, cookies, history, hours, now>>
    BY <1>3 DEF Goto, WriteSessions
  <2>5. q.row = r.row /\ q.own = r.own /\ q.user = r.user /\ q.token = k
    BY <1>1 DEF Txn
  <2> HIDE DEF q, row
  <2>6. AccountsTypeOK'
    BY <2>1, <2>2, <2>3, <2>4 DEF IInv, AccountsTypeOK
  <2>7. ASSUME NEW v \in Workers PROVE (Fits(txn[v]) /\ Holds(txn[v]))'
    <3>1. CASE v = w
      <4>1. txn'[w] = q /\ sessions'[k] = row
        BY <2>1, <2>4 DEF IInv, AccountsTypeOK
      <4> QED BY <1>1, <2>2, <2>3, <2>4, <2>5, <3>1, <4>1 DEF Fits, Holds
    <3>2. CASE v # w
      <4>1. txn'[v] = txn[v] /\ txn[v].token # k /\ Fits(txn[v]) /\ Holds(txn[v])
        BY <2>1, <2>4, <3>2 DEF IInv, AccountsTypeOK
      <4>2. txn[v].token \in Tokens => sessions'[txn[v].token] = sessions[txn[v].token]
        BY <2>4, <4>1 DEF IInv, AccountsTypeOK
      <4> QED BY <2>4, <4>1, <4>2 DEF Fits, Holds, WithToken
    <3> QED BY <3>1, <3>2
  <2>8. DevicesUnique' /\ CookiesAgree'
    BY <2>1, <2>4 DEF IInv, AccountsTypeOK, DevicesUnique, CookiesAgree
  <2>9. DisabledStaysOut'
    <3>1. \A x \in Tokens : cookies[x] # None => sessions'[x] = sessions[x]
      BY <2>1, <2>4 DEF IInv, AccountsTypeOK
    <3> QED BY <2>3, <2>4, <3>1, StayOut
  <2> QED BY <2>6, <2>7, <2>8, <2>9 DEF IInv
<1> QED BY <1>2, <1>3 DEF CreateSession

(* The cookie is given only to a user that is still active. *)
LEMMA LoginUserKeeps ==
  ASSUME IInv, NEW w \in Workers, LoginUser(w)
  PROVE  IInv'
<1> DEFINE r == txn[w]
<1>1. r \in Txn /\ Fits(r) /\ Holds(r) /\ r.pc = "login user"
  BY OneRequest DEF LoginUser, At
<1>2. r.token \in Tokens /\ r.user \in Users
  BY <1>1 DEF Fits, WithToken
<1>3. /\ txn' = [txn EXCEPT ![w] = Idle]
      /\ UNCHANGED <<users, registry, sessions, hours, now>>
      /\ cookies' = IF Active(r.user) THEN [cookies EXCEPT ![r.token] = r.user] ELSE cookies
      /\ history' = IF Exists(r.user) THEN history \cup {r.user} ELSE history
  BY DEF LoginUser, Goto
<1>4. AccountsTypeOK'
  BY <1>2, <1>3, NoRowIsNone DEF IInv, AccountsTypeOK
<1>5. (\A v \in Workers : Fits(txn[v]) /\ Holds(txn[v]))'
  BY <1>3, NoRowIsNone DEF IInv, AccountsTypeOK, Fits, Holds
<1>6. DevicesUnique'
  BY <1>3 DEF IInv, DevicesUnique
<1>7. CookiesAgree'
  BY <1>1, <1>2, <1>3 DEF IInv, AccountsTypeOK, CookiesAgree, Holds, Active
<1>8. DisabledStaysOut'
  <2>1. ASSUME NEW u \in Users PROVE Disabling(u) => Disabling(u)'
    BY <1>1, <1>3 DEF Disabling, IInv, AccountsTypeOK
  <2> QED BY <1>2, <1>3, <2>1 DEF IInv, AccountsTypeOK, DisabledStaysOut, Active
<1> QED BY <1>4, <1>5, <1>6, <1>7, <1>8 DEF IInv

-----------------------------------------------------------------------------
(* The check before a request, and the handlers of a session                 *)

LEMMA DropExpiredKeeps ==
  ASSUME IInv, NEW w \in Workers, DropExpired(w)
  PROVE  IInv'
BY NoRowIsNone, WithoutShrinks, SessionStep DEF DropExpired, At, Relieved

LEMMA TouchKeeps ==
  ASSUME IInv, NEW w \in Workers, Touch(w)
  PROVE  IInv'
<1> DEFINE r == txn[w]
           s == sessions[r.token]
           row == IF s = NoSession THEN s ELSE [s EXCEPT !.seen = r.seen, !.expires = r.expires]
           q == [r EXCEPT !.pc = "handle", !.seen = 0, !.expires = 0]
<1>1. r \in Txn /\ Fits(r) /\ Holds(r) /\ r.pc = "touch"
  BY OneRequest DEF Touch, At
<1>2. r.token \in Tokens /\ s \in SessionRow \cup {NoSession}
  BY <1>1 DEF Fits, WithToken, IInv, AccountsTypeOK
<1>3. row \in SessionRow \cup {NoSession}
  BY <1>1, <1>2 DEF SessionRow, Txn
<1>4. row # NoSession => s # NoSession /\ row.user = s.user
  BY <1>2 DEF SessionRow
<1>5. q \in Txn
  BY <1>1 DEF Txn, PCs
<1>6. Fits(q) /\ Holds(q) /\ Relieved(w, q)
  BY <1>1 DEF Fits, Holds, WithToken, WithDevice, Txn, Relieved
<1>7. WriteSessions([sessions EXCEPT ![r.token] = row]) /\ Goto(w, q)
  BY DEF Touch
<1> HIDE DEF q, row
<1>8. Shrinks([sessions EXCEPT ![r.token] = row])
  BY <1>2, <1>3, <1>4, OneSessionShrinks
<1> QED BY <1>5, <1>6, <1>7, <1>8, SessionStep

LEMMA RefuseKeeps ==
  ASSUME IInv, NEW w \in Workers, Refuse(w)
  PROVE  IInv'
BY EndsQuietly DEF Refuse, At

LEMMA LogoutKeeps ==
  ASSUME IInv, NEW w \in Workers, Logout(w)
  PROVE  IInv'
BY NoRowIsNone, WithoutShrinks, SessionStep DEF Logout, Handling, At, Relieved

LEMMA HeartbeatKeeps ==
  ASSUME IInv, NEW w \in Workers, NEW d \in Devices \cup {None}, Heartbeat(w, d)
  PROVE  IInv'
<1> DEFINE r == txn[w]
           s == sessions[r.token]
           device == IF d = None THEN s.device ELSE d
           row == IF s = NoSession THEN s
                  ELSE [s EXCEPT !.device = device, !.seen = now, !.expires = now + hours]
<1>1. r \in Txn /\ Fits(r) /\ r.pc = "handle"
  BY OneRequest DEF Heartbeat, Handling, At
<1>2. r.token \in Tokens /\ s \in SessionRow \cup {NoSession}
  BY <1>1 DEF Fits, WithToken, IInv, AccountsTypeOK
<1>3. now \in Nat /\ now + hours \in Nat
  BY AccountsAssumption DEF IInv, AccountsTypeOK
<1>4. row \in SessionRow \cup {NoSession}
  BY <1>2, <1>3 DEF SessionRow
<1>5. row # NoSession => s # NoSession /\ row.user = s.user
  BY <1>2 DEF SessionRow
<1>6. WriteSessions([sessions EXCEPT ![r.token] = row]) /\ Goto(w, Idle)
  BY DEF Heartbeat
<1> HIDE DEF row
<1>7. Shrinks([sessions EXCEPT ![r.token] = row])
  BY <1>2, <1>4, <1>5, OneSessionShrinks
<1>8. Relieved(w, Idle)
  BY <1>1 DEF Relieved
<1> QED BY <1>6, <1>7, <1>8, NoRowIsNone, SessionStep

LEMMA EnforceDeviceKeeps ==
  ASSUME IInv, NEW w \in Workers, NEW d \in Devices, EnforceDevice(w, d)
  PROVE  IInv'
<1> DEFINE r == txn[w]
           q == [r EXCEPT !.op = "mode b", !.device = d, !.pc = "bind"]
<1>1. r \in Txn /\ Fits(r) /\ Holds(r) /\ r.pc = "handle"
  BY OneRequest DEF EnforceDevice, Handling, At
<1>2. q \in Txn
  BY <1>1 DEF Txn, PCs, AllOps, ClientOps
<1>3. Fits(q) /\ Holds(q) /\ Relieved(w, q)
  BY <1>1 DEF Fits, Holds, WithToken, WithDevice, Txn, Relieved
<1>4. CASE Continue(w, Idle)
  BY <1>1, <1>4, EndsQuietly
<1>5. CASE Continue(w, q)
  <2> HIDE DEF q
  <2> QED BY <1>2, <1>3, <1>5, QuietStep
<1> QED BY <1>4, <1>5 DEF EnforceDevice

LEMMA BindKeeps ==
  ASSUME IInv, NEW w \in Workers, Bind(w)
  PROVE  IInv'
<1> DEFINE r == txn[w]
           s == sessions[r.token]
           row == IF s = NoSession THEN s ELSE [s EXCEPT !.device = r.device]
<1>1. r \in Txn /\ Fits(r) /\ r.pc = "bind"
  BY OneRequest DEF Bind, At
<1>2. r.token \in Tokens /\ s \in SessionRow \cup {NoSession}
  BY <1>1 DEF Fits, WithToken, IInv, AccountsTypeOK
<1>3. row \in SessionRow \cup {NoSession}
  BY <1>1, <1>2 DEF SessionRow, Txn
<1>4. row # NoSession => s # NoSession /\ row.user = s.user
  BY <1>2 DEF SessionRow
<1>5. WriteSessions([sessions EXCEPT ![r.token] = row]) /\ Goto(w, Idle)
  BY DEF Bind
<1> HIDE DEF row
<1>6. Shrinks([sessions EXCEPT ![r.token] = row])
  BY <1>2, <1>3, <1>4, OneSessionShrinks
<1>7. Relieved(w, Idle)
  BY <1>1 DEF Relieved
<1> QED BY <1>5, <1>6, <1>7, NoRowIsNone, SessionStep

-----------------------------------------------------------------------------
(* Devices *)

LEMMA FindDeviceFits ==
  ASSUME IInv, NEW r \in Txn, Holds(r), r.pc # "login user",
         r.user \in Users, r.token \in Tokens, r.device \in Devices
  PROVE  /\ FindDevice(r) \in Txn
         /\ \/ FindDevice(r) = Idle
            \/ /\ FindDevice(r).pc = "claim" /\ Holds(FindDevice(r))
               /\ FindDevice(r).op = r.op /\ FindDevice(r).user = r.user
               /\ FindDevice(r).token = r.token /\ FindDevice(r).device = r.device
<1>1. CASE RowsOf(r.device) = {}
  <2> DEFINE q == [r EXCEPT !.pc = "claim"]
  <2>1. FindDevice(r) = q
    BY <1>1 DEF FindDevice
  <2>2. q \in Txn
    BY DEF Txn, PCs
  <2>3. /\ q.pc = "claim" /\ q.row = r.row /\ q.own = r.own /\ q.op = r.op /\ q.user = r.user
        /\ q.token = r.token /\ q.device = r.device
    BY DEF Txn
  <2> HIDE DEF q
  <2>4. Holds(q)
    BY <2>3 DEF Holds
  <2> QED BY <2>1, <2>2, <2>3, <2>4
<1>2. CASE RowsOf(r.device) # {}
  <2> DEFINE x == CHOOSE y \in RowsOf(r.device) : TRUE
  <2>1. x \in RowIds
    BY <1>2 DEF RowsOf
  <2> HIDE DEF x
  <2>2. FindDevice(r) = IF registry[x].user # r.user THEN Idle
                        ELSE [r EXCEPT !.pc = "claim", !.row = x]
    BY <1>2 DEF FindDevice, x
  <2> DEFINE q == [r EXCEPT !.pc = "claim", !.row = x]
  <2>3. q \in Txn
    BY <2>1 DEF Txn, PCs
  <2>4. /\ q.pc = "claim" /\ q.row = x /\ q.own = r.own /\ q.op = r.op /\ q.user = r.user
        /\ q.token = r.token /\ q.device = r.device
    BY DEF Txn
  <2> HIDE DEF q
  <2>5. CASE registry[x].user # r.user
    BY <2>2, <2>5, NoRowIsNone
  <2>6. CASE registry[x].user = r.user
    <3>1. FindDevice(r) = q
      BY <2>2, <2>6 DEF q
    <3>2. Holds(q)
      BY <2>4, <2>6 DEF Holds
    <3> QED BY <2>3, <2>4, <3>1, <3>2
  <2> QED BY <2>5, <2>6
<1> QED BY <1>1, <1>2

LEMMA RegisterDeviceKeeps ==
  ASSUME IInv, NEW w \in Workers, NEW d \in Devices, RegisterDevice(w, d)
  PROVE  IInv'
<1> DEFINE r == [txn[w] EXCEPT !.op = "register", !.device = d]
<1>1. txn[w] \in Txn /\ Fits(txn[w]) /\ Holds(txn[w]) /\ txn[w].pc = "handle"
  BY OneRequest DEF RegisterDevice, Handling, At
<1>2. r \in Txn
  BY <1>1 DEF Txn, AllOps, ClientOps
<1>3. /\ r.pc # "login user" /\ r.user \in Users /\ r.token \in Tokens /\ r.device \in Devices
      /\ Holds(r)
  BY <1>1 DEF Txn, Fits, Holds, WithToken
<1>4. Continue(w, FindDevice(r))
  BY DEF RegisterDevice
<1> HIDE DEF r
<1>5. FindDevice(r) \in Txn /\ Fits(FindDevice(r)) /\ Holds(FindDevice(r))
  BY <1>2, <1>3, FindDeviceFits, NoRowIsNone DEF Fits
<1>6. Relieved(w, FindDevice(r))
  BY <1>1 DEF Relieved
<1> QED BY <1>4, <1>5, <1>6, QuietStep

LEMMA FindTargetKeeps ==
  ASSUME IInv, NEW w \in Workers, NEW current \in Devices \cup {None}, NEW d \in Devices,
         FindTarget(w, current, d)
  PROVE  IInv'
<1> DEFINE r == [txn[w] EXCEPT !.op = "update", !.device = d]
           bound == sessions[r.token].device
           old == IF bound = None THEN current ELSE bound
           found == FindDevice(r)
           pc == IF old \in {None, d} THEN "conflict" ELSE "held"
           q == [found EXCEPT !.bound = bound, !.old = old, !.pc = pc]
<1>1. txn[w] \in Txn /\ Fits(txn[w]) /\ Holds(txn[w]) /\ txn[w].pc = "handle"
  BY OneRequest DEF FindTarget, Handling, At
<1>2. r \in Txn
  BY <1>1 DEF Txn, AllOps, ClientOps
<1>3. /\ r.pc # "login user" /\ r.user \in Users /\ r.token \in Tokens /\ r.device \in Devices
      /\ Holds(r)
  BY <1>1 DEF Txn, Fits, Holds, WithToken
<1>4. \/ Continue(w, Idle)
      \/ found # Idle /\ Continue(w, q)
  BY DEF FindTarget
<1> HIDE DEF r
<1>5. CASE Continue(w, Idle)
  BY <1>1, <1>5, EndsQuietly
<1>6. CASE found # Idle /\ Continue(w, q)
  <2>1. /\ found \in Txn /\ found.pc = "claim" /\ Holds(found)
        /\ found.user = r.user /\ found.token = r.token /\ found.device = r.device
    BY <1>2, <1>3, <1>6, FindDeviceFits
  <2>2. bound \in Devices \cup {None}
    <3>1. sessions[r.token] \in SessionRow \cup {NoSession}
      BY <1>3 DEF IInv, AccountsTypeOK
    <3> QED BY <3>1 DEF SessionRow, NoSession
  <2>3. pc \in {"conflict", "held"} /\ old \in Devices \cup {None}
    BY <2>2
  <2> HIDE DEF found, bound, old, pc
  <2>4. q \in Txn
    BY <2>1, <2>2, <2>3 DEF Txn, PCs
  <2>5. /\ q.pc = pc /\ q.user = found.user /\ q.token = found.token
        /\ q.device = found.device /\ q.row = found.row /\ q.own = found.own
    BY <2>1 DEF Txn
  <2> HIDE DEF q
  <2>6. Fits(q) /\ Holds(q)
    BY <1>3, <2>1, <2>3, <2>5 DEF Fits, Holds
  <2>7. Relieved(w, q)
    BY <1>1 DEF Relieved
  <2> QED BY <1>6, <2>4, <2>6, <2>7, QuietStep
<1> QED BY <1>4, <1>5, <1>6

LEMMA CountHeldKeeps ==
  ASSUME IInv, NEW w \in Workers, CountHeld(w)
  PROVE  IInv'
<1> DEFINE r == txn[w]
           q == [r EXCEPT !.pc = "conflict"]
<1>1. r \in Txn /\ Fits(r) /\ Holds(r) /\ r.pc = "held"
  BY OneRequest DEF CountHeld, At
<1>2. q \in Txn
  BY <1>1 DEF Txn, PCs
<1>3. Fits(q) /\ Holds(q) /\ Relieved(w, q)
  BY <1>1 DEF Fits, Holds, WithToken, WithDevice, Txn, Relieved
<1>4. Continue(w, Idle) \/ Continue(w, q)
  BY DEF CountHeld
<1> HIDE DEF q
<1> QED BY <1>1, <1>2, <1>3, <1>4, EndsQuietly, QuietStep

LEMMA CheckConflictKeeps ==
  ASSUME IInv, NEW w \in Workers, CheckConflict(w)
  PROVE  IInv'
<1> DEFINE r == txn[w]
           q == [r EXCEPT !.pc = "own row"]
<1>1. r \in Txn /\ Fits(r) /\ Holds(r) /\ r.pc = "conflict"
  BY OneRequest DEF CheckConflict, At
<1>2. q \in Txn
  BY <1>1 DEF Txn, PCs
<1>3. Fits(q) /\ Holds(q) /\ Relieved(w, q)
  BY <1>1 DEF Fits, Holds, WithToken, WithDevice, Txn, Relieved
<1>4. Continue(w, Idle) \/ Continue(w, q)
  BY DEF CheckConflict
<1> HIDE DEF q
<1> QED BY <1>1, <1>2, <1>3, <1>4, EndsQuietly, QuietStep

LEMMA FindOwnRowKeeps ==
  ASSUME IInv, NEW w \in Workers, FindOwnRow(w)
  PROVE  IInv'
<1> DEFINE r == txn[w]
           mine == {x \in RowsOf(r.old) : registry[x].user = r.user}
           own == IF r.old = None \/ mine = {} THEN None ELSE CHOOSE x \in mine : TRUE
           q == [r EXCEPT !.pc = "write", !.old = None, !.own = own]
<1>1. r \in Txn /\ Fits(r) /\ Holds(r) /\ r.pc = "own row"
  BY OneRequest DEF FindOwnRow, At
<1>2. own \in RowIds \cup {None} /\ (own # None => registry[own].user = r.user)
  BY DEF RowsOf
<1>3. Continue(w, q)
  BY DEF FindOwnRow
<1> HIDE DEF own
<1>4. q \in Txn
  BY <1>1, <1>2 DEF Txn, PCs
<1>5. /\ q.pc = "write" /\ q.user = r.user /\ q.token = r.token /\ q.device = r.device
      /\ q.row = r.row /\ q.own = own
  BY <1>1 DEF Txn
<1> HIDE DEF q
<1>6. Fits(q) /\ Holds(q) /\ Relieved(w, q)
  BY <1>1, <1>2, <1>5 DEF Fits, Holds, WithToken, WithDevice, Relieved
<1> QED BY <1>3, <1>4, <1>6, QuietStep

(* A commit that writes the registry: it deletes rows, changes rows without  *)
(* changing their user, or adds one under a key no request has found.        *)
LEMMA RegistryStep ==
  ASSUME IInv, NEW w \in Workers, txn[w].pc \notin {"reload", "kick"},
         Goto(w, Idle), UNCHANGED <<users, cookies, history, hours, now>>,
         registry' \in [RowIds -> DeviceRow \cup {NoRow}], DevicesUnique', Shrinks(sessions'),
         \A x \in RowIds : \/ registry'[x] = NoRow
                           \/ registry[x] # NoRow /\ registry'[x].user = registry[x].user
                           \/ x \in FreshRows
  PROVE  IInv'
<1>1. txn \in [Workers -> Txn] /\ txn' = [txn EXCEPT ![w] = Idle] /\ txn' \in [Workers -> Txn]
  BY NoRowIsNone DEF IInv, AccountsTypeOK, Goto
<1>2. AccountsTypeOK'
  BY <1>1 DEF IInv, AccountsTypeOK, Shrinks
<1>3. ASSUME NEW v \in Workers PROVE (Fits(txn[v]) /\ Holds(txn[v]))'
  <2>1. CASE v = w
    BY <1>1, <2>1, NoRowIsNone DEF Fits, Holds, Idle, WithToken, WithDevice
  <2>2. CASE v # w
    <3>1. txn'[v] = txn[v] /\ txn[v] \in Txn /\ Fits(txn[v]) /\ Holds(txn[v])
      BY <1>1, <2>2 DEF IInv
    <3>2. txn[v].row \in RowIds \cup {None} /\ txn[v].own \in RowIds \cup {None}
      BY <3>1 DEF Txn
    <3>3. \A x \in FreshRows : txn[v].row # x /\ txn[v].own # x
      BY DEF FreshRows
    <3>4. ASSUME NEW x \in RowIds, x = txn[v].row \/ x = txn[v].own
          PROVE  registry'[x] = NoRow \/ registry'[x].user = txn[v].user
      BY <3>1, <3>3, <3>4, AccountsAssumption DEF Holds
    <3>5. txn[v].pc = "login user" =>
            sessions'[txn[v].token] = NoSession \/ sessions'[txn[v].token].user = txn[v].user
      BY <3>1 DEF Fits, Holds, WithToken, Shrinks
    <3> QED BY <3>1, <3>2, <3>4, <3>5 DEF Fits, Holds
  <2> QED BY <2>1, <2>2
<1>4. CookiesAgree'
  BY DEF IInv, CookiesAgree, Shrinks
<1>5. DisabledStaysOut'
  <2>1. \A k \in Tokens : cookies[k] # None /\ sessions[k] = NoSession => sessions'[k] = NoSession
    BY DEF Shrinks
  <2> QED BY <1>1, <2>1, NoRowIsNone, StayOut DEF Relieved
<1> QED BY <1>2, <1>3, <1>4, <1>5 DEF IInv

(* A row is added for a device that has none. *)
LEMMA NewRow ==
  ASSUME IInv, NEW u \in Users, NEW d \in Devices, NEW x \in FreshRows, RowsOf(d) = {},
         registry' = [registry EXCEPT ![x] = [device |-> d, user |-> u]]
  PROVE  /\ registry' \in [RowIds -> DeviceRow \cup {NoRow}]
         /\ DevicesUnique'
         /\ \A y \in RowIds : \/ registry[y] # NoRow /\ registry'[y].user = registry[y].user
                              \/ registry'[y] = NoRow
                              \/ y \in FreshRows
<1>1. x \in RowIds /\ registry \in [RowIds -> DeviceRow \cup {NoRow}]
  BY DEF FreshRows, IInv, AccountsTypeOK
<1>2. \A y \in RowIds : registry[y].device # d
  BY DEF RowsOf
<1>3. [device |-> d, user |-> u] \in DeviceRow
  BY DEF DeviceRow
<1> QED BY <1>1, <1>2, <1>3 DEF IInv, DevicesUnique

LEMMA ClaimDeviceKeeps ==
  ASSUME IInv, NEW w \in Workers, ClaimDevice(w)
  PROVE  IInv'
<1> DEFINE r == txn[w]
<1>1. r \in Txn /\ Fits(r) /\ Holds(r) /\ r.pc = "claim"
  BY OneRequest DEF ClaimDevice, At
<1>2. r.user \in Users /\ r.device \in Devices /\ r.row \in RowIds \cup {None}
  BY <1>1 DEF Fits, WithDevice, Txn
<1>3. registry \in [RowIds -> DeviceRow \cup {NoRow}] /\ sessions \in [Tokens -> SessionRow \cup {NoSession}]
  BY DEF IInv, AccountsTypeOK
<1>4. Shrinks(sessions)
  BY <1>3 DEF Shrinks
<1>5. CASE Continue(w, Idle)
  BY <1>1, <1>5, EndsQuietly
<1>6. CASE /\ ~ ClaimFails(r) /\ r.row # None
           /\ WriteRegistry([registry EXCEPT ![r.row].user = r.user])
           /\ Goto(w, Idle) /\ UNCHANGED sessions
  <2>1. registry[r.row] \in DeviceRow /\ registry[r.row].user = r.user
    BY <1>1, <1>2, <1>3, <1>6 DEF ClaimFails, Holds
  <2>2. [registry[r.row] EXCEPT !.user = r.user] = registry[r.row]
    BY <2>1 DEF DeviceRow
  <2>3. registry' = registry
    BY <1>2, <1>3, <1>6, <2>2 DEF WriteRegistry
  <2>4. DevicesUnique'
    BY <2>3 DEF IInv, DevicesUnique
  <2> QED BY <1>1, <1>3, <1>4, <1>6, <2>3, <2>4, RegistryStep DEF WriteRegistry
<1>7. ASSUME NEW x \in FreshRows, ~ ClaimFails(r), r.row = None,
             WriteRegistry([registry EXCEPT ![x] = [device |-> r.device, user |-> r.user]]),
             Goto(w, Idle), UNCHANGED sessions
      PROVE  IInv'
  <2>1. RowsOf(r.device) = {}
    BY <1>7 DEF ClaimFails
  <2> QED BY <1>1, <1>2, <1>4, <1>7, <2>1, NewRow, RegistryStep DEF WriteRegistry
<1> QED BY <1>5, <1>6, <1>7 DEF ClaimDevice

LEMMA ChangeDeviceKeeps ==
  ASSUME IInv, NEW w \in Workers, ChangeDevice(w)
  PROVE  IInv'
<1> DEFINE r == txn[w]
           new == [device |-> r.device, user |-> r.user]
<1>1. r \in Txn /\ Fits(r) /\ Holds(r) /\ r.pc = "write"
  BY OneRequest DEF ChangeDevice, At
<1>2. /\ r.user \in Users /\ r.device \in Devices /\ r.token \in Tokens
      /\ r.row \in RowIds \cup {None} /\ r.own \in RowIds \cup {None}
  BY <1>1 DEF Fits, WithDevice, WithToken, Txn
<1>3. registry \in [RowIds -> DeviceRow \cup {NoRow}] /\ DevicesUnique
  BY DEF IInv, AccountsTypeOK
<1>4. /\ Goto(w, Idle) /\ sessions' = Rebound(r) /\ ~ ChangeFails(r)
      /\ UNCHANGED <<users, cookies, history, hours, now>>
  BY DEF ChangeDevice, WriteRegistry
<1>5. Shrinks(sessions')
  <2> DEFINE s == sessions[r.token]
             device == IF r.bound = r.device THEN s.device ELSE r.device
             row == [s EXCEPT !.device = device, !.seen = now]
  <2>1. s \in SessionRow /\ now \in Nat
    BY <1>2, <1>4 DEF IInv, AccountsTypeOK, ChangeFails
  <2>2. device \in Devices \cup {None}
    BY <1>2, <2>1 DEF SessionRow
  <2>3. Rebound(r) = [sessions EXCEPT ![r.token] = row]
    BY <1>2 DEF IInv, AccountsTypeOK, Rebound
  <2> HIDE DEF device
  <2>4. row \in SessionRow /\ row.user = s.user /\ s # NoSession
    BY <2>1, <2>2, NoRowIsNone DEF SessionRow
  <2> HIDE DEF row
  <2>5. Shrinks([sessions EXCEPT ![r.token] = row])
    BY <1>2, <2>4, OneSessionShrinks
  <2> QED BY <1>4, <2>3, <2>5
<1>6. CASE r.row # None /\ registry' = registry
  <2>1. DevicesUnique'
    BY <1>3, <1>6 DEF DevicesUnique
  <2> QED BY <1>1, <1>3, <1>4, <1>5, <1>6, <2>1, RegistryStep
<1>7. CASE r.own # None /\ registry' = [registry EXCEPT ![r.own] = NoRow]
  <2>1. DevicesUnique'
    BY <1>2, <1>3, <1>7, AccountsAssumption DEF DevicesUnique, NoRow, DeviceRow
  <2>2. registry' \in [RowIds -> DeviceRow \cup {NoRow}]
    BY <1>2, <1>3, <1>7
  <2>3. \A x \in RowIds : \/ registry'[x] = NoRow
                          \/ registry[x] # NoRow /\ registry'[x].user = registry[x].user
    BY <1>2, <1>3, <1>7
  <2> QED BY <1>1, <1>4, <1>5, <2>1, <2>2, <2>3, RegistryStep
<1>8. CASE /\ r.row = None /\ r.own # None
           /\ registry' = [registry EXCEPT ![r.own].device = r.device]
  <2>1. registry[r.own] \in DeviceRow /\ \A x \in RowIds : registry[x].device = r.device => x = r.own
    BY <1>2, <1>3, <1>4, <1>8 DEF ChangeFails, RowsOf
  <2> DEFINE row == [registry[r.own] EXCEPT !.device = r.device]
  <2>2. row \in DeviceRow /\ row.device = r.device /\ row.user = registry[r.own].user
    BY <1>2, <2>1 DEF DeviceRow
  <2>3. registry' = [registry EXCEPT ![r.own] = row]
    BY <1>8
  <2> HIDE DEF row
  <2>4. DevicesUnique'
    BY <1>2, <1>3, <2>1, <2>2, <2>3 DEF DevicesUnique
  <2>5. registry' \in [RowIds -> DeviceRow \cup {NoRow}]
    BY <1>2, <1>3, <2>2, <2>3
  <2>6. \A x \in RowIds : \/ registry'[x] = NoRow
                          \/ registry[x] # NoRow /\ registry'[x].user = registry[x].user
    BY <1>2, <1>3, <2>1, <2>2, <2>3, NoRowIsNone
  <2> QED BY <1>1, <1>4, <1>5, <2>4, <2>5, <2>6, RegistryStep
<1>9. ASSUME NEW x \in FreshRows, r.row = None, r.own = None,
             registry' = [registry EXCEPT ![x] = new]
      PROVE  IInv'
  <2>1. RowsOf(r.device) = {}
    BY <1>4, <1>9, AccountsAssumption DEF ChangeFails, RowsOf
  <2> QED BY <1>1, <1>2, <1>4, <1>5, <1>9, <2>1, NewRow, RegistryStep
<1> QED BY <1>6, <1>7, <1>8, <1>9 DEF ChangeDevice, WriteRegistry

LEMMA FailChangeKeeps ==
  ASSUME IInv, NEW w \in Workers, FailChange(w)
  PROVE  IInv'
BY EndsQuietly DEF FailChange, At

-----------------------------------------------------------------------------
(* The administrator's operations *)

(* Rows of users appear where there was none, so no cookie is for them.      *)
LEMMA UsersAppear ==
  ASSUME IInv, NEW new \in [Users -> UserRow], WriteUsers(new), UNCHANGED txn,
         \A u \in Users : new[u] = users[u] \/ users[u].status = "absent"
  PROVE  IInv'
<1>1. users' = new /\ UNCHANGED <<registry, sessions, cookies, history, hours, now, txn>>
  BY DEF WriteUsers
<1>2. AccountsTypeOK' /\ DevicesUnique'
  BY <1>1 DEF IInv, AccountsTypeOK, DevicesUnique
<1>3. (\A w \in Workers : Fits(txn[w]) /\ Holds(txn[w]))'
  <2>1. \A w \in Workers : Fits(txn'[w]) /\ Holds(txn'[w])
    BY <1>1 DEF IInv
  <2> QED BY <1>1, <2>1 DEF Fits, Holds
<1>4. CookiesAgree'
  BY <1>1 DEF IInv, AccountsTypeOK, CookiesAgree
<1>5. DisabledStaysOut'
  BY <1>1, AccountsAssumption DEF IInv, CookiesAgree, DisabledStaysOut, Disabling
<1> QED BY <1>2, <1>3, <1>4, <1>5 DEF IInv

LEMMA CreateUserKeeps ==
  ASSUME IInv, NEW u \in Users, NEW n \in Limits, CreateUser(u, n)
  PROVE  IInv'
<1> DEFINE new == [users EXCEPT ![u] = [status |-> "active", max |-> n]]
<1>1. [status |-> "active", max |-> n] \in UserRow
  BY AccountsAssumption DEF UserRow, Status
<1>2. new \in [Users -> UserRow]
  BY <1>1 DEF IInv, AccountsTypeOK
<1>3. \A v \in Users : new[v] = users[v] \/ users[v].status = "absent"
  BY DEF CreateUser, IInv, AccountsTypeOK, NoUser
<1>4. WriteUsers(new) /\ UNCHANGED txn
  BY DEF CreateUser
<1> HIDE DEF new
<1> QED BY <1>2, <1>3, <1>4, UsersAppear

(* Every row a sheet may have makes a user. *)
LEMMA ImportedIsRow ==
  ASSUME NEW sheet \in ValidSheets, NEW i \in DOMAIN sheet
  PROVE  /\ Imported(sheet, i) \in UserRow
         /\ Imported(sheet, i).status \in {"active", "disabled"}
         /\ sheet[i].user \in Users
<1>1. PICK n \in 1..Cardinality(Users) : sheet \in [1..n -> SheetRow]
  BY DEF ValidSheets
<1>2. sheet[i] \in SheetRow /\ sheet[i].status # None
  BY <1>1 DEF ValidSheets, ValidRow
<1>3. sheet[i].user \in Users /\ sheet[i].status \in {"active", "disabled"}
  BY <1>2 DEF SheetRow
<1>4. sheet[i].max \in Nat
  <2>1. sheet[i].max \in Limits \/ sheet[i].max = 0 \/ sheet[i].max = 11
    BY <1>2 DEF SheetRow, MostDevices
  <2>2. \A m \in Limits : m \in Nat
    BY AccountsAssumption
  <2>3. 0 \in Nat /\ 11 \in Nat
    OBVIOUS
  <2> QED BY <2>1, <2>2, <2>3, Zenon
<1> QED BY <1>3, <1>4 DEF Imported, UserRow, Status

LEMMA ImportUsersKeeps ==
  ASSUME IInv, NEW sheet \in ValidSheets, ImportUsers(sheet)
  PROVE  IInv'
<1> DEFINE rows(u) == {i \in DOMAIN sheet : sheet[i].user = u}
           new == [u \in Users |-> IF rows(u) = {} THEN users[u]
                                   ELSE Imported(sheet, CHOOSE i \in rows(u) : TRUE)]
<1>1. \A u \in Users : rows(u) # {} => Imported(sheet, CHOOSE i \in rows(u) : TRUE) \in UserRow
  BY ImportedIsRow
<1>2. \A u \in Users : rows(u) # {} => users[u] = NoUser
  BY DEF ImportUsers
<1>3. WriteUsers(new) /\ UNCHANGED txn
  BY DEF ImportUsers
<1> HIDE DEF rows
<1>4. new \in [Users -> UserRow]
  BY <1>1 DEF IInv, AccountsTypeOK
<1>5. \A u \in Users : new[u] = users[u] \/ users[u].status = "absent"
  BY <1>2 DEF NoUser
<1> HIDE DEF new
<1> QED BY <1>3, <1>4, <1>5, UsersAppear

LEMMA EditUserKeeps ==
  ASSUME IInv, NEW w \in Workers, NEW u \in Users, NEW st \in {"active", "disabled"},
         NEW n \in Limits, EditUser(w, u, [status |-> st, max |-> n])
  PROVE  IInv'
<1> DEFINE row == [status |-> st, max |-> n]
           q == [Idle EXCEPT !.pc = "save", !.user = u, !.loaded = users[u],
                             !.edited = row, !.op = "edit"]
<1>1. Continue(w, q) /\ txn[w].pc = "idle" /\ Exists(u)
  BY DEF EditUser, Receive, At, Idle
<1>2. row \in UserRow /\ row.status \in {"active", "disabled"}
  BY AccountsAssumption DEF UserRow, Status
<1>3. users[u] \in UserRow /\ users[u].status \in {"active", "disabled"}
  BY <1>1 DEF IInv, AccountsTypeOK, Exists
<1> HIDE DEF row
<1>4. q \in Txn
  BY <1>2, <1>3, NoRowIsNone DEF Txn, PCs, AllOps, AdminOps
<1>5. Fits(q) /\ Holds(q)
  BY <1>2, <1>3 DEF Fits, Holds, WithToken, WithDevice, Idle
<1>6. Relieved(w, q)
  BY <1>1 DEF Relieved
<1> HIDE DEF q
<1> QED BY <1>1, <1>4, <1>5, <1>6, QuietStep

(* Who has disabled a user has yet to read it again. *)
LEMMA SaveUserKeeps ==
  ASSUME IInv, NEW w \in Workers, SaveUser(w)
  PROVE  IInv'
<1> DEFINE r == txn[w]
           row == users[r.user]
           status == IF r.edited.status = r.loaded.status THEN row.status ELSE r.edited.status
           max == IF r.edited.max = r.loaded.max THEN row.max ELSE r.edited.max
           saved == [status |-> status, max |-> max]
           q == IF r.loaded.status = "active" THEN [r EXCEPT !.pc = "reload"] ELSE Idle
<1>1. r \in Txn /\ Fits(r) /\ Holds(r) /\ r.pc = "save" /\ r.op = "edit" /\ r.user \in Users
  BY OneRequest DEF SaveUser, At, Fits
<1>2. CASE Continue(w, Idle)
  BY <1>1, <1>2, EndsQuietly
<1>3. CASE Exists(r.user) /\ WriteUsers([users EXCEPT ![r.user] = saved]) /\ Goto(w, q)
  <2>1. /\ row \in UserRow /\ row.status \in {"active", "disabled"}
        /\ r.loaded \in UserRow /\ r.edited \in UserRow
        /\ r.loaded.status \in {"active", "disabled"} /\ r.edited.status \in {"active", "disabled"}
    BY <1>1, <1>3 DEF IInv, AccountsTypeOK, Exists, Txn, Fits
  <2>2. status \in {"active", "disabled"} /\ max \in Nat
    BY <2>1 DEF UserRow
  <2>3. status = "disabled" => row.status = "disabled" \/ r.loaded.status = "active"
    BY <2>1
  <2> HIDE DEF status, max
  <2>4. saved \in UserRow /\ saved.status = status
    BY <2>2 DEF UserRow, Status
  <2> HIDE DEF saved
  <2>5. q \in Txn /\ Fits(q) /\ Holds(q)
    <3>1. CASE r.loaded.status = "active"
      <4> DEFINE p == [r EXCEPT !.pc = "reload"]
      <4>1. p \in Txn
        BY <1>1 DEF Txn, PCs
      <4>2. p.pc = "reload" /\ p.op = r.op /\ p.user = r.user /\ p.row = r.row /\ p.own = r.own
        BY <1>1 DEF Txn
      <4> HIDE DEF p
      <4>3. Fits(p) /\ Holds(p)
        BY <1>1, <4>2 DEF Fits, Holds, WithToken, WithDevice
      <4> QED BY <3>1, <4>1, <4>3 DEF p
    <3>2. CASE r.loaded.status # "active"
      BY <3>2, NoRowIsNone
    <3> QED BY <3>1, <3>2
  <2>6. r.loaded.status = "active" => q.pc = "reload" /\ q.op = "edit" /\ q.user = r.user
    BY <1>1 DEF Txn
  <2> HIDE DEF q
  <2>7. /\ users' = [users EXCEPT ![r.user] = saved] /\ txn' = [txn EXCEPT ![w] = q]
        /\ UNCHANGED <<registry, sessions, cookies, history, hours, now>>
    BY <1>3 DEF WriteUsers, Goto
  <2>8. /\ users \in [Users -> UserRow] /\ txn \in [Workers -> Txn]
        /\ \A v \in Workers : v # w => txn'[v] = txn[v]
        /\ txn'[w] = q
    BY <2>7 DEF IInv, AccountsTypeOK
  <2>9. AccountsTypeOK' /\ DevicesUnique'
    BY <1>1, <2>4, <2>5, <2>7 DEF IInv, AccountsTypeOK, DevicesUnique
  <2>10. (\A v \in Workers : Fits(txn[v]) /\ Holds(txn[v]))'
    <3>1. \A v \in Workers : Fits(txn'[v]) /\ Holds(txn'[v])
      BY <2>5, <2>8 DEF IInv
    <3> QED BY <2>7, <3>1 DEF Fits, Holds
  <2>11. CookiesAgree'
    BY <1>1, <2>2, <2>4, <2>7, <2>8 DEF IInv, CookiesAgree
  <2>12. DisabledStaysOut'
    <3> SUFFICES ASSUME NEW u \in Users, users'[u].status = "disabled", ~ Disabling(u)',
                        NEW k \in Tokens, cookies[k] = u
                 PROVE  sessions[k] = NoSession
      BY <2>7 DEF DisabledStaysOut
    <3>1. Disabling(u) => Disabling(u)'
      BY <1>1, <2>8 DEF Disabling
    <3>2. CASE u = r.user /\ r.loaded.status = "active"
      BY <2>6, <2>8, <3>2 DEF Disabling
    <3>3. CASE ~ (u = r.user /\ r.loaded.status = "active")
      <4>1. users[u].status = "disabled"
        BY <1>1, <2>3, <2>4, <2>7, <2>8, <3>3
      <4> QED BY <3>1, <4>1 DEF IInv, DisabledStaysOut
    <3> QED BY <3>2, <3>3
  <2> QED BY <2>9, <2>10, <2>11, <2>12 DEF IInv
<1> QED BY <1>2, <1>3 DEF SaveUser

LEMMA ReloadUserKeeps ==
  ASSUME IInv, NEW w \in Workers, ReloadUser(w)
  PROVE  IInv'
<1> DEFINE r == txn[w]
           q == [r EXCEPT !.pc = "kick"]
<1>1. r \in Txn /\ Fits(r) /\ Holds(r) /\ r.pc = "reload" /\ r.op = "edit" /\ r.user \in Users
  BY OneRequest DEF ReloadUser, At, Fits
<1>2. CASE users[r.user].status = "disabled"
  <2>1. Continue(w, q)
    BY <1>2 DEF ReloadUser
  <2>2. q \in Txn
    BY <1>1 DEF Txn, PCs
  <2>3. Fits(q) /\ Holds(q) /\ Relieved(w, q)
    BY <1>1 DEF Fits, Holds, WithToken, WithDevice, Txn, Relieved
  <2> HIDE DEF q
  <2> QED BY <2>1, <2>2, <2>3, QuietStep
<1>3. CASE users[r.user].status # "disabled"
  BY <1>3, NoRowIsNone, QuietStep DEF ReloadUser, Relieved
<1> QED BY <1>2, <1>3

LEMMA ForceLogoutKeeps ==
  ASSUME IInv, NEW w \in Workers, NEW u \in Users, ForceLogout(w, u)
  PROVE  IInv'
<1> DEFINE q == [Idle EXCEPT !.pc = "kick", !.user = u, !.op = "kick"]
<1>1. Continue(w, q) /\ txn[w].pc = "idle"
  BY DEF ForceLogout, Receive, At, Idle
<1>2. q \in Txn
  BY NoRowIsNone DEF Txn, PCs, AllOps, AdminOps
<1>3. Fits(q) /\ Holds(q) /\ Relieved(w, q)
  BY <1>1 DEF Fits, Holds, WithToken, WithDevice, Idle, Relieved
<1> HIDE DEF q
<1> QED BY <1>1, <1>2, <1>3, QuietStep

(* A cookie of the user opens only sessions of the user, and all are gone.   *)
LEMMA EndSessionsKeeps ==
  ASSUME IInv, NEW w \in Workers, EndSessions(w)
  PROVE  IInv'
<1> DEFINE r == txn[w]
           K == SessionsOf(r.user)
<1>1. /\ r.pc = "kick" /\ WriteSessions(Without(K)) /\ Goto(w, Idle)
      /\ txn \in [Workers -> Txn]
  BY DEF EndSessions, At, IInv, AccountsTypeOK
<1>2. /\ txn' = [txn EXCEPT ![w] = Idle] /\ sessions' = Without(K)
      /\ UNCHANGED <<users, registry, cookies, history, hours, now>>
  BY <1>1 DEF WriteSessions, Goto
<1>3. /\ \A p : (p.pc \in WithToken => p.token \in Tokens) /\ Holds(p) => Holds(p)'
      /\ DevicesUnique' /\ CookiesAgree' /\ AccountsTypeOK'
  BY <1>1, <1>2, NoRowIsNone, WithoutShrinks, ShrinkKeeps
<1>4. ASSUME NEW v \in Workers PROVE (Fits(txn[v]) /\ Holds(txn[v]))'
  <2>1. Fits(txn'[v]) /\ Holds(txn'[v])
    BY <1>1, <1>2, NoRowIsNone DEF IInv
  <2> QED BY <1>3, <2>1 DEF Fits, Holds
<1>5. DisabledStaysOut'
  <2> SUFFICES ASSUME NEW u \in Users, users[u].status = "disabled", ~ Disabling(u)',
                      NEW k \in Tokens, cookies[k] = u
               PROVE  Without(K)[k] = NoSession
    BY <1>2 DEF DisabledStaysOut
  <2>1. u # None
    BY AccountsAssumption
  <2>2. CASE u = r.user
    BY <2>1, <2>2 DEF IInv, CookiesAgree, SessionsOf, Without
  <2>3. CASE u # r.user
    <3>1. ~ Disabling(u)
      BY <1>1, <1>2, <2>3 DEF Disabling
    <3> QED BY <3>1 DEF IInv, DisabledStaysOut, Without
  <2> QED BY <2>2, <2>3
<1> QED BY <1>3, <1>4, <1>5 DEF IInv

LEMMA DeleteUserKeeps ==
  ASSUME IInv, NEW w \in Workers, NEW u \in Users, NEW force \in BOOLEAN, DeleteUser(w, u, force)
  PROVE  IInv'
<1> DEFINE found == u \in history
           q == [Idle EXCEPT !.pc = "delete", !.user = u, !.erase = found, !.op = "delete"]
<1>1. Continue(w, q) /\ txn[w].pc = "idle"
  BY DEF DeleteUser, Receive, At, Idle
<1>2. found \in BOOLEAN
  OBVIOUS
<1> HIDE DEF found
<1>3. q \in Txn
  BY <1>2, NoRowIsNone DEF Txn, PCs, AllOps, AdminOps
<1>4. Fits(q) /\ Holds(q) /\ Relieved(w, q)
  BY <1>1 DEF Fits, Holds, WithToken, WithDevice, Idle, Relieved
<1> HIDE DEF q
<1> QED BY <1>1, <1>3, <1>4, QuietStep

LEMMA EraseUserKeeps ==
  ASSUME IInv, NEW w \in Workers, EraseUser(w)
  PROVE  IInv'
<1> DEFINE u == txn[w].user
<1>1. txn[w].pc = "delete" /\ u \in Users
  BY OneRequest DEF EraseUser, At, Fits
<1>2. CASE Continue(w, Idle)
  BY <1>1, <1>2, EndsQuietly
<1>3. CASE ~ Continue(w, Idle)
  <2>1. /\ users' = [users EXCEPT ![u].status = "deleted"]
        /\ registry' = [x \in RowIds |-> IF registry[x].user = u THEN NoRow ELSE registry[x]]
        /\ sessions' = Without(SessionsOf(u))
        /\ history' = history \ {u}
        /\ txn' = [txn EXCEPT ![w] = Idle]
        /\ UNCHANGED <<cookies, hours, now>>
    BY <1>3 DEF EraseUser, Goto
  <2>2. /\ txn \in [Workers -> Txn] /\ users \in [Users -> UserRow]
        /\ registry \in [RowIds -> DeviceRow \cup {NoRow}]
    BY DEF IInv, AccountsTypeOK
  <2>3. /\ users'[u].status = "deleted" /\ users' \in [Users -> UserRow]
        /\ \A v \in Users : v # u => users'[v] = users[v]
    BY <1>1, <2>1, <2>2 DEF UserRow, Status
  <2>4. Shrinks(sessions')
    BY <2>1, WithoutShrinks
  <2>5. AccountsTypeOK'
    BY <1>1, <2>1, <2>2, <2>3, <2>4, NoRowIsNone DEF IInv, AccountsTypeOK, Shrinks
  <2>6. ASSUME NEW v \in Workers PROVE (Fits(txn[v]) /\ Holds(txn[v]))'
    <3>1. txn'[v] \in Txn /\ Fits(txn'[v]) /\ Holds(txn'[v])
      BY <2>1, <2>2, NoRowIsNone DEF IInv
    <3>2. txn'[v].row \in RowIds \cup {None} /\ txn'[v].own \in RowIds \cup {None}
      BY <3>1 DEF Txn
    <3>3. \A x \in RowIds : registry'[x] = NoRow \/ registry'[x] = registry[x]
      BY <2>1
    <3>4. txn'[v].pc = "login user" =>
            sessions'[txn'[v].token] = NoSession \/ sessions'[txn'[v].token].user = txn'[v].user
      BY <2>4, <3>1 DEF Fits, Holds, WithToken, Shrinks
    <3> QED BY <3>1, <3>2, <3>3, <3>4 DEF Fits, Holds
  <2>7. DevicesUnique'
    <3> SUFFICES ASSUME NEW x \in RowIds, NEW y \in RowIds, registry'[x] # NoRow,
                        registry'[x].device = registry'[y].device
                 PROVE  x = y
      BY DEF DevicesUnique
    <3>1. registry'[x] = registry[x] /\ registry[x] \in DeviceRow
      BY <2>1, <2>2
    <3>2. registry'[y] # NoRow
      BY <3>1, AccountsAssumption DEF NoRow, DeviceRow
    <3>3. registry'[y] = registry[y]
      BY <2>1, <3>2
    <3> QED BY <3>1, <3>3, NoRowIsNone DEF IInv, DevicesUnique
  <2>8. CookiesAgree'
    BY <2>1, <2>3, <2>4 DEF IInv, AccountsTypeOK, CookiesAgree, Shrinks
  <2>9. DisabledStaysOut'
    <3> SUFFICES ASSUME NEW v \in Users, users'[v].status = "disabled", ~ Disabling(v)',
                        NEW k \in Tokens, cookies[k] = v
                 PROVE  sessions'[k] = NoSession
      BY <2>1 DEF DisabledStaysOut
    <3>1. v # u /\ users[v].status = "disabled"
      BY <2>3
    <3>2. ~ Disabling(v)
      BY <2>1, <2>2, <3>1 DEF Disabling
    <3> QED BY <2>4, <3>1, <3>2 DEF IInv, DisabledStaysOut, Shrinks
  <2> QED BY <2>5, <2>6, <2>7, <2>8, <2>9 DEF IInv
<1> QED BY <1>2, <1>3

-----------------------------------------------------------------------------
(* Settings, jobs and time *)

LEMMA ClockKeeps ==
  ASSUME IInv, UNCHANGED <<tables, txn>>, hours' \in Lifetimes, now' \in Nat
  PROVE  IInv'
<1>1. UNCHANGED <<users, registry, sessions, cookies, history, txn>>
  BY DEF tables
<1>2. AccountsTypeOK' /\ DevicesUnique' /\ CookiesAgree'
  BY <1>1 DEF IInv, AccountsTypeOK, DevicesUnique, CookiesAgree
<1>3. (\A w \in Workers : Fits(txn[w]) /\ Holds(txn[w]))'
  <2>1. \A w \in Workers : Fits(txn'[w]) /\ Holds(txn'[w])
    BY <1>1 DEF IInv
  <2> QED BY <1>1, <2>1 DEF Fits, Holds
<1>4. DisabledStaysOut'
  BY <1>1 DEF IInv, DisabledStaysOut, Disabling
<1> QED BY <1>2, <1>3, <1>4 DEF IInv

LEMMA BackgroundKeeps == IInv /\ Background => IInv'
<1> SUFFICES ASSUME IInv, Background PROVE IInv'
  OBVIOUS
<1>1. hours \in Lifetimes /\ now \in Nat
  BY DEF IInv, AccountsTypeOK
<1>2. ASSUME NEW h \in Lifetimes, SetLifetime(h) PROVE IInv'
  BY <1>1, <1>2, ClockKeeps DEF SetLifetime
<1>3. CASE CleanInactive
  BY <1>3, JobStep DEF CleanInactive
<1>4. CASE DailyReset
  BY <1>4, JobStep DEF DailyReset
<1>5. CASE Tick
  BY <1>1, <1>5, ClockKeeps DEF Tick
<1> QED BY <1>2, <1>3, <1>4, <1>5, CreateUserKeeps, ImportUsersKeeps DEF Background

-----------------------------------------------------------------------------
(* Every step keeps the invariant. *)

LEMMA SessionWorkKeeps ==
  ASSUME IInv, NEW w \in Workers, Request(w) \/ Session(w)
  PROVE  IInv'
BY LoginKeeps, EnterKeeps, CountSessionsKeeps, PurgeDeviceKeeps, CreateSessionKeeps,
   LoginUserKeeps, DropExpiredKeeps, TouchKeeps, RefuseKeeps, LogoutKeeps, HeartbeatKeeps
   DEF Request, Session

LEMMA DeviceWorkKeeps ==
  ASSUME IInv, NEW w \in Workers, Work(w)
  PROVE  IInv'
BY EnforceDeviceKeeps, BindKeeps, RegisterDeviceKeeps, ClaimDeviceKeeps, FindTargetKeeps,
   CountHeldKeeps, CheckConflictKeeps, FindOwnRowKeeps, ChangeDeviceKeeps, FailChangeKeeps
   DEF Work

LEMMA AdministerKeeps ==
  ASSUME IInv, NEW w \in Workers, Administer(w)
  PROVE  IInv'
BY EditUserKeeps, ForceLogoutKeeps, DeleteUserKeeps, SaveUserKeeps, ReloadUserKeeps,
   EndSessionsKeeps, EraseUserKeeps
   DEF Administer

LEMMA NextKeeps == IInv /\ [Next]_vars => IInv'
<1> SUFFICES ASSUME IInv, [Next]_vars PROVE IInv'
  OBVIOUS
<1>1. CASE UNCHANGED vars
  <2>1. UNCHANGED <<tables, txn>> /\ hours' = hours /\ now' = now
    BY <1>1 DEF vars, tables
  <2> QED BY <2>1, ClockKeeps DEF IInv, AccountsTypeOK
<1>2. CASE Background
  BY <1>2, BackgroundKeeps
<1>3. ASSUME NEW w \in Workers, Request(w) \/ Session(w) \/ Work(w) \/ Administer(w)
      PROVE  IInv'
  BY <1>3, SessionWorkKeeps, DeviceWorkKeeps, AdministerKeeps
<1> QED BY <1>1, <1>2, <1>3 DEF Next

LEMMA InvariantHolds == Spec => []IInv
BY InitHolds, NextKeeps, PTL DEF Spec

(* Every row and record keeps its shape.                                     *)
THEOREM AccountsTypeCorrect == Spec => []AccountsTypeOK
<1>1. IInv => AccountsTypeOK
  BY DEF IInv
<1> QED BY <1>1, InvariantHolds, PTL

(* Once disabling a user is done, no cookie opens a session of that user,    *)
(* whatever logins and requests were under way.                              *)
THEOREM DisabledUsersStayOut == Spec => []DisabledStaysOut
<1>1. IInv => DisabledStaysOut
  BY DEF IInv
<1> QED BY <1>1, InvariantHolds, PTL

-----------------------------------------------------------------------------
(* What a step may do *)

(* The steps that write a table of rows *)
Writes(w) ==
  \/ PurgeDevice(w) \/ CreateSession(w) \/ LoginUser(w) \/ DropExpired(w) \/ Touch(w)
  \/ Logout(w) \/ (\E d \in Devices \cup {None} : Heartbeat(w, d)) \/ Bind(w)
  \/ ClaimDevice(w) \/ ChangeDevice(w) \/ SaveUser(w) \/ EndSessions(w) \/ EraseUser(w)

LEMMA StepKinds ==
  ASSUME [Next]_vars
  PROVE  \/ UNCHANGED tables
         \/ \E w \in Workers : Writes(w)
         \/ \E u \in Users, n \in Limits : CreateUser(u, n)
         \/ \E sheet \in ValidSheets : ImportUsers(sheet)
         \/ CleanInactive \/ DailyReset
<1>1. CASE UNCHANGED vars
  BY <1>1 DEF vars, tables
<1>2. CASE Background
  BY <1>2 DEF Background, SetLifetime, Tick
<1>3. ASSUME NEW w \in Workers, Request(w) \/ Session(w) \/ Work(w) \/ Administer(w)
      PROVE  UNCHANGED tables \/ Writes(w)
  <2>1. CASE Request(w)
    BY <2>1 DEF Request, Login, Enter, Receive, Continue
  <2>2. CASE Session(w)
    BY <2>2 DEF Session, Writes, CountSessions, Refuse, Continue
  <2>3. CASE Work(w)
    BY <2>3 DEF Work, Writes, EnforceDevice, RegisterDevice, FindTarget, CountHeld, CheckConflict,
               FindOwnRow, FailChange, Continue
  <2>4. CASE Administer(w)
    BY <2>4 DEF Administer, Writes, EditUser, ForceLogout, DeleteUser, ReloadUser, Receive, Continue
  <2> QED BY <1>3, <2>1, <2>2, <2>3, <2>4
<1> QED BY <1>1, <1>2, <1>3 DEF Next

(* Nothing brings back a session that ended. *)
LEMMA StepsEndSessions ==
  ASSUME IInv, [Next]_vars, NEW k \in Tokens, cookies[k] # None, sessions[k] = NoSession
  PROVE  sessions'[k] = NoSession
<1>1. CASE UNCHANGED sessions
  BY <1>1
<1>2. ASSUME NEW K, sessions' = Without(K) PROVE sessions'[k] = NoSession
  BY <1>2 DEF Without
<1>3. ASSUME NEW w \in Workers, Writes(w) PROVE sessions'[k] = NoSession
  <2> DEFINE r == txn[w]
  <2>1. CASE PurgeDevice(w) \/ DropExpired(w) \/ Logout(w) \/ EndSessions(w)
    BY <1>2, <2>1 DEF PurgeDevice, DropExpired, Logout, EndSessions, WriteSessions
  <2>2. CASE CreateSession(w)
    <3>1. CASE Continue(w, Idle)
      BY <1>1, <3>1 DEF Continue, tables
    <3>2. ASSUME NEW x \in FreshTokens, NEW row, WriteSessions([sessions EXCEPT ![x] = row])
          PROVE  sessions'[k] = NoSession
      BY <3>2 DEF FreshTokens, WriteSessions, IInv, AccountsTypeOK
    <3> QED BY <2>2, <3>1, <3>2 DEF CreateSession
  <2>3. ASSUME NEW row, sessions' = [sessions EXCEPT ![r.token] = row],
               sessions[r.token] = NoSession => row = NoSession
        PROVE  sessions'[k] = NoSession
    BY <2>3 DEF IInv, AccountsTypeOK
  <2>4. CASE Touch(w)
    BY <2>3, <2>4 DEF Touch, WriteSessions
  <2>5. ASSUME NEW d \in Devices \cup {None}, Heartbeat(w, d) PROVE sessions'[k] = NoSession
    BY <2>3, <2>5 DEF Heartbeat, WriteSessions
  <2>6. CASE Bind(w)
    BY <2>3, <2>6 DEF Bind, WriteSessions
  <2>7. CASE ClaimDevice(w) \/ LoginUser(w) \/ SaveUser(w)
    BY <1>1, <2>7 DEF ClaimDevice, LoginUser, SaveUser, WriteUsers, Continue, tables
  <2>8. CASE ChangeDevice(w)
    <3>1. r.token # k
      BY <2>8 DEF ChangeDevice, ChangeFails
    <3>2. Rebound(r)[k] = sessions[k]
      BY <3>1 DEF Rebound, IInv, AccountsTypeOK
    <3> QED BY <2>8, <3>2 DEF ChangeDevice
  <2>9. CASE EraseUser(w)
    BY <1>1, <1>2, <2>9 DEF EraseUser, Continue, tables
  <2> QED BY <1>3, <2>1, <2>2, <2>4, <2>5, <2>6, <2>7, <2>8, <2>9 DEF Writes
<1>4. CASE CleanInactive \/ DailyReset
  BY <1>2, <1>4 DEF CleanInactive, DailyReset, WriteSessions
<1>5. CASE \/ \E u \in Users, n \in Limits : CreateUser(u, n)
           \/ \E sheet \in ValidSheets : ImportUsers(sheet)
  BY <1>1, <1>5 DEF CreateUser, ImportUsers, WriteUsers
<1> QED BY <1>1, <1>3, <1>4, <1>5, StepKinds DEF tables

(* A session that ended never comes back, whatever requests with its cookie  *)
(* were under way.                                                           *)
THEOREM EndedSessionsStayEnded == Spec => EndedStaysEnded
<1>1. IInv /\ [Next]_vars =>
        \A k \in Tokens : cookies[k] # None /\ sessions[k] = NoSession => sessions'[k] = NoSession
  BY StepsEndSessions
<1> QED BY <1>1, InvariantHolds, PTL DEF Spec, EndedStaysEnded

-----------------------------------------------------------------------------
(* The registry implements DeviceOwners. *)

(* Device ids being unique, the owner of a device is the user of its row.    *)
LEMMA OwnerNow ==
  IInv => \A d \in Devices :
    /\ Owner(d) = None <=> \A x \in RowIds : registry[x].device # d
    /\ Owner(d) \in Users \cup {None}
    /\ \A x \in RowIds : registry[x].device = d => Owner(d) = registry[x].user
<1> SUFFICES ASSUME IInv, NEW d \in Devices
             PROVE  /\ Owner(d) = None <=> \A x \in RowIds : registry[x].device # d
                    /\ Owner(d) \in Users \cup {None}
                    /\ \A x \in RowIds : registry[x].device = d => Owner(d) = registry[x].user
  OBVIOUS
<1>1. CASE RowsOf(d) = {}
  BY <1>1 DEF Owner, RowsOf
<1>2. CASE RowsOf(d) # {}
  <2> DEFINE y == CHOOSE x \in RowsOf(d) : TRUE
  <2>1. y \in RowsOf(d) /\ Owner(d) = registry[y].user
    BY <1>2 DEF Owner
  <2> HIDE DEF y
  <2>2. y \in RowIds /\ registry[y].device = d /\ registry[y] \in DeviceRow \cup {NoRow}
    BY <2>1 DEF RowsOf, IInv, AccountsTypeOK
  <2>3. registry[y] # NoRow /\ registry[y].user \in Users
    BY <2>2, AccountsAssumption DEF NoRow, DeviceRow
  <2>4. Owner(d) # None
    BY <2>1, <2>3, AccountsAssumption
  <2>5. ASSUME NEW x \in RowIds, registry[x].device = d PROVE x = y
    BY <2>2, <2>3, <2>5 DEF IInv, DevicesUnique
  <2> QED BY <2>1, <2>2, <2>3, <2>4, <2>5
<1> QED BY <1>1, <1>2

LEMMA OwnerNext ==
  IInv' => (\A d \in Devices :
    /\ Owner(d) = None <=> \A x \in RowIds : registry[x].device # d
    /\ Owner(d) \in Users \cup {None}
    /\ \A x \in RowIds : registry[x].device = d => Owner(d) = registry[x].user)'
BY OwnerNow, PTL

(* The owners, as DeviceOwners sees them *)
Owned == [d \in Devices |-> Owner(d)]

LEMMA SameOwners ==
  ASSUME registry' = registry
  PROVE  Owned' = Owned
BY DEF Owned, Owner, RowsOf

(* A row for a device that had none is a claim. *)
LEMMA NewRowClaims ==
  ASSUME IInv, IInv', NEW u \in Users, NEW d \in Devices, NEW x \in FreshRows, RowsOf(d) = {},
         registry' = [registry EXCEPT ![x] = [device |-> d, user |-> u]]
  PROVE  Owners!Claim(u, d)
<1>1. x \in RowIds /\ registry \in [RowIds -> DeviceRow \cup {NoRow}] /\ registry[x] = NoRow
  BY DEF FreshRows, IInv, AccountsTypeOK
<1>2. Owner(d) = None
  BY DEF Owner
<1>3. Owner(d)' = u
  BY <1>1, OwnerNext
<1>4. ASSUME NEW e \in Devices, e # d PROVE Owner(e)' = Owner(e)
  <2>1. \A y \in RowIds : registry'[y].device = e <=> registry[y].device = e
    BY <1>1, <1>4, AccountsAssumption DEF NoRow
  <2>2. \A y \in RowIds : registry[y].device = e => registry'[y] = registry[y]
    BY <1>1, AccountsAssumption DEF NoRow
  <2> QED BY <2>1, <2>2, OwnerNow, OwnerNext
<1>5. Owned' = [Owned EXCEPT ![d] = u]
  BY <1>3, <1>4 DEF Owned
<1> QED BY <1>2, <1>5 DEF Owners!Claim, Owned

LEMMA ClaimImplements ==
  ASSUME IInv, IInv', NEW w \in Workers, ClaimDevice(w)
  PROVE  Owners!Next \/ Owned' = Owned
<1> DEFINE r == txn[w]
<1>1. r \in Txn /\ Fits(r) /\ Holds(r) /\ r.pc = "claim"
  BY OneRequest DEF ClaimDevice, At
<1>2. r.user \in Users /\ r.device \in Devices /\ r.row \in RowIds \cup {None}
  BY <1>1 DEF Fits, WithDevice, Txn
<1>3. CASE Continue(w, Idle)
  BY <1>3, SameOwners DEF Continue, tables
<1>4. CASE ~ ClaimFails(r) /\ r.row # None /\ registry' = [registry EXCEPT ![r.row].user = r.user]
  <2>1. registry \in [RowIds -> DeviceRow \cup {NoRow}]
    BY DEF IInv, AccountsTypeOK
  <2>2. registry[r.row] \in DeviceRow /\ registry[r.row].user = r.user
    BY <1>1, <1>2, <1>4, <2>1 DEF ClaimFails, Holds
  <2>3. [registry[r.row] EXCEPT !.user = r.user] = registry[r.row]
    BY <2>2 DEF DeviceRow
  <2>4. registry' = registry
    BY <1>2, <1>4, <2>1, <2>3
  <2> QED BY <2>4, SameOwners
<1>5. ASSUME NEW x \in FreshRows, ~ ClaimFails(r), r.row = None,
             registry' = [registry EXCEPT ![x] = [device |-> r.device, user |-> r.user]]
      PROVE  Owners!Next
  <2>1. RowsOf(r.device) = {}
    BY <1>5 DEF ClaimFails
  <2>2. Owners!Claim(r.user, r.device)
    BY <1>2, <1>5, <2>1, NewRowClaims
  <2> QED BY <1>2, <2>2 DEF Owners!Next
<1> QED BY <1>3, <1>4, <1>5 DEF ClaimDevice, WriteRegistry

LEMMA ChangeImplements ==
  ASSUME IInv, IInv', NEW w \in Workers, ChangeDevice(w)
  PROVE  Owners!Next \/ Owned' = Owned
<1> DEFINE r == txn[w]
           u == r.user
<1>1. r \in Txn /\ Fits(r) /\ Holds(r) /\ r.pc = "write" /\ ~ ChangeFails(r)
  BY OneRequest DEF ChangeDevice, At
<1>2. /\ u \in Users /\ r.device \in Devices
      /\ r.row \in RowIds \cup {None} /\ r.own \in RowIds \cup {None}
  BY <1>1 DEF Fits, WithDevice, Txn
<1>3. registry \in [RowIds -> DeviceRow \cup {NoRow}] /\ DevicesUnique
  BY DEF IInv, AccountsTypeOK
<1>4. \A x \in RowIds : registry[x].device \in Devices => registry[x] \in DeviceRow
  BY <1>3, AccountsAssumption DEF NoRow
<1>5. CASE registry' = registry
  BY <1>5, SameOwners
<1>6. CASE /\ r.row # None /\ r.own \notin {None, r.row}
           /\ registry' = [registry EXCEPT ![r.own] = NoRow]
  <2>1. CASE registry[r.own] = NoRow
    <3>1. registry' = registry
      BY <1>2, <1>3, <1>6, <2>1
    <3> QED BY <3>1, SameOwners
  <2>2. CASE registry[r.own] # NoRow
    <3>1. /\ registry[r.own] \in DeviceRow /\ registry[r.row] \in DeviceRow
          /\ registry[r.own].user = u /\ registry[r.row].user = u
      BY <1>1, <1>2, <1>3, <1>6, <2>2 DEF ChangeFails, Holds
    <3> PICK d \in Devices : d = registry[r.own].device
      BY <3>1 DEF DeviceRow
    <3> PICK e \in Devices : e = registry[r.row].device
      BY <3>1 DEF DeviceRow
    <3>2. d # e
      BY <1>2, <1>3, <1>6, <2>2 DEF DevicesUnique
    <3>3. Owner(d) = u /\ Owner(e) = u
      BY <1>2, <1>6, <3>1, OwnerNow
    <3>4. Owner(d)' = None
      <4>1. \A x \in RowIds : registry'[x].device # d
        BY <1>2, <1>3, <1>6, <2>2, AccountsAssumption DEF DevicesUnique, NoRow
      <4> QED BY <4>1, OwnerNext
    <3>5. ASSUME NEW f \in Devices, f # d PROVE Owner(f)' = Owner(f)
      <4>1. \A x \in RowIds : registry'[x].device = f <=> registry[x].device = f
        BY <1>2, <1>3, <1>6, <3>5, AccountsAssumption DEF NoRow
      <4>2. \A x \in RowIds : registry'[x].device = f => registry'[x] = registry[x]
        BY <1>2, <1>3, <1>6, AccountsAssumption DEF NoRow
      <4> QED BY <4>1, <4>2, OwnerNow, OwnerNext
    <3>6. Owned' = [Owned EXCEPT ![d] = None, ![e] = u]
      BY <3>2, <3>3, <3>4, <3>5 DEF Owned
    <3>7. Owners!Change(u, d, e)
      BY <3>3, <3>6 DEF Owners!Change, Owned
    <3> QED BY <1>2, <3>7 DEF Owners!Next
  <2> QED BY <2>1, <2>2
<1>7. CASE /\ r.row = None /\ r.own # None
           /\ registry' = [registry EXCEPT ![r.own].device = r.device]
  <2> PICK e \in Devices : e = r.device
    BY <1>2
  <2> DEFINE row == [registry[r.own] EXCEPT !.device = e]
  <2>1. /\ registry[r.own] \in DeviceRow /\ registry[r.own].user = u
        /\ \A x \in RowIds : registry[x].device = e => x = r.own
    BY <1>1, <1>2, <1>3, <1>7 DEF ChangeFails, RowsOf, Holds
  <2> PICK d \in Devices : d = registry[r.own].device
    BY <2>1 DEF DeviceRow
  <2>3. row.device = e /\ row.user = u
    BY <2>1 DEF DeviceRow
  <2>4. registry' = [registry EXCEPT ![r.own] = row]
    BY <1>7
  <2> HIDE DEF row
  <2>5. Owner(d) = u
    BY <1>2, <1>7, <2>1, OwnerNow
  <2>6. Owner(e) \in {None, u}
    BY <1>2, <1>7, <2>1, OwnerNow
  <2>7. Owner(e)' = u
    <3>1. registry'[r.own] = row /\ r.own \in RowIds
      BY <1>2, <1>3, <1>7, <2>4
    <3> QED BY <2>3, <3>1, OwnerNext
  <2>8. d # e => Owner(d)' = None
    <3>1. \A x \in RowIds : registry[x].device = d => x = r.own
      BY <1>2, <1>3, <1>7, <2>1, NoRowIsNone DEF DevicesUnique
    <3>2. d # e => \A x \in RowIds : registry'[x].device # d
      BY <1>2, <1>3, <1>7, <2>3, <2>4, <3>1
    <3> QED BY <3>2, OwnerNext
  <2>9. ASSUME NEW f \in Devices, f # d, f # e PROVE Owner(f)' = Owner(f)
    <3>1. \A x \in RowIds : registry'[x].device = f <=> registry[x].device = f
      BY <1>2, <1>3, <1>7, <2>3, <2>4, <2>9
    <3>2. \A x \in RowIds : registry'[x].device = f => registry'[x] = registry[x]
      BY <1>2, <1>3, <1>7, <2>3, <2>4, <2>9
    <3> QED BY <3>1, <3>2, OwnerNow, OwnerNext
  <2>10. Owned' = [Owned EXCEPT ![d] = None, ![e] = u]
    BY <2>7, <2>8, <2>9 DEF Owned
  <2>11. Owners!Change(u, d, e)
    BY <2>5, <2>6, <2>10 DEF Owners!Change, Owned
  <2> QED BY <1>2, <2>11 DEF Owners!Next
<1>8. ASSUME NEW x \in FreshRows, r.row = None, r.own = None,
             registry' = [registry EXCEPT ![x] = [device |-> r.device, user |-> u]]
      PROVE  Owners!Next
  <2>1. RowsOf(r.device) = {}
    BY <1>1, <1>8, AccountsAssumption DEF ChangeFails, RowsOf
  <2>2. Owners!Claim(u, r.device)
    BY <1>2, <1>8, <2>1, NewRowClaims
  <2> QED BY <1>2, <2>2 DEF Owners!Next
<1> QED BY <1>5, <1>6, <1>7, <1>8 DEF ChangeDevice, WriteRegistry

LEMMA EraseImplements ==
  ASSUME IInv, IInv', NEW w \in Workers, EraseUser(w)
  PROVE  Owners!Next \/ Owned' = Owned
<1>1. CASE Continue(w, Idle)
  BY <1>1, SameOwners DEF Continue, tables
<1>2. CASE ~ Continue(w, Idle)
  <2>1. txn[w].user \in Users
    BY OneRequest DEF EraseUser, At, Fits
  <2> PICK u \in Users : u = txn[w].user
    BY <2>1
  <2>2. registry' = [x \in RowIds |-> IF registry[x].user = u THEN NoRow ELSE registry[x]]
    BY <1>2 DEF EraseUser
  <2>3. registry \in [RowIds -> DeviceRow \cup {NoRow}] /\ u # None
    BY AccountsAssumption DEF IInv, AccountsTypeOK
  <2>4. ASSUME NEW d \in Devices PROVE Owner(d)' = IF Owner(d) = u THEN None ELSE Owner(d)
    <3>1. CASE Owner(d) = u
      <4>1. \A x \in RowIds : registry'[x].device # d
        BY <2>2, <3>1, OwnerNow, AccountsAssumption DEF NoRow
      <4> QED BY <3>1, <4>1, OwnerNext
    <3>2. CASE Owner(d) # u
      <4>1. \A x \in RowIds : registry[x].device = d => registry'[x] = registry[x]
        BY <2>2, <3>2, OwnerNow
      <4>2. \A x \in RowIds : registry'[x].device = d => registry[x].device = d
        BY <2>2, AccountsAssumption DEF NoRow
      <4> QED BY <3>2, <4>1, <4>2, OwnerNow, OwnerNext
    <3> QED BY <3>1, <3>2
  <2>5. Owners!Leave(u)
    BY <2>4 DEF Owners!Leave
  <2> QED BY <2>5 DEF Owners!Next
<1> QED BY <1>1, <1>2

(* Every step of the registry is a step of its owners, or none.              *)
LEMMA StepsImplement ==
  ASSUME IInv, IInv', [Next]_vars
  PROVE  Owners!Next \/ Owned' = Owned
<1>1. CASE registry' = registry
  BY <1>1, SameOwners
<1>2. ASSUME NEW w \in Workers, Writes(w)
      PROVE  registry' = registry \/ ClaimDevice(w) \/ ChangeDevice(w) \/ EraseUser(w)
  BY <1>2 DEF Writes, PurgeDevice, CreateSession, LoginUser, DropExpired, Touch, Logout,
     Heartbeat, Bind, SaveUser, EndSessions, WriteSessions, WriteUsers, Continue, tables
<1>3. CASE \/ \E u \in Users, n \in Limits : CreateUser(u, n)
           \/ \E sheet \in ValidSheets : ImportUsers(sheet)
           \/ CleanInactive \/ DailyReset
  <2>1. registry' = registry
    BY <1>3 DEF CreateUser, ImportUsers, CleanInactive, DailyReset, WriteSessions, WriteUsers
  <2> QED BY <2>1, SameOwners
<1>4. CASE UNCHANGED tables
  BY <1>1, <1>4 DEF tables
<1> QED BY <1>1, <1>2, <1>3, <1>4, StepKinds, ClaimImplements, ChangeImplements, EraseImplements

(* A device id passes from one user to another only by becoming free in      *)
(* between, whatever registrations, changes and deletions interleave.        *)
THEOREM AccountsImplementOwners == Spec => ImplementsOwners
<1>1. Init => Owners!Init
  BY AccountsAssumption DEF Init, Owners!Init, Owner, RowsOf, NoRow
<1>2. IInv /\ IInv' /\ [Next]_vars => [Owners!Next]_Owned
  BY StepsImplement
<1> QED BY <1>1, <1>2, InvariantHolds, PTL DEF Spec, ImplementsOwners, Owners!Spec, Owned
=============================================================================
