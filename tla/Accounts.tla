------------------------------ MODULE Accounts ------------------------------
(***************************************************************************)
(* Users, their sessions and their devices on PostgreSQL (READ COMMITTED): *)
(* login, the check before every request, the requests that bind a session *)
(* to a device, the administrator's operations on users, and the jobs that *)
(* end sessions.  A worker runs one request at a time, one statement or    *)
(* commit per step; a statement that waits for a row starts when it gets   *)
(* it.  The tickets themselves are the module TicketPool's.                *)
(***************************************************************************)
EXTENDS Naturals, FiniteSets

CONSTANTS
  Users, Devices, Workers,
  Tokens,      \* session tokens
  RowIds,      \* primary keys of device_registry
  None,        \* NULL, and the empty device id
  Limits,      \* the values an administrator gives to User.max_devices
  Lifetimes,   \* the values of SystemSettings.session_lifetime_hours
  MaxNow,      \* bound: the last hour of the clock
  Requests     \* the operations this instance runs

ClientOps == {"login", "logout", "heartbeat", "register", "update", "mode b"}
AdminOps == {"create", "edit", "kick", "delete"}
AllOps == ClientOps \cup AdminOps

ASSUME AccountsAssumption ==
  /\ None \notin Users \cup Devices \cup Tokens \cup RowIds
  /\ Limits \subseteq Nat \ {0}
  /\ Lifetimes \subseteq Nat \ {0} /\ Lifetimes # {}
  /\ MaxNow \in Nat
  /\ Requests \subseteq AllOps

VARIABLES
  users,     \* rows of users
  registry,  \* rows of device_registry, by primary key
  sessions,  \* rows of user_sessions, by token
  cookies,   \* the user a signed cookie with this token was given to
  history,   \* the users that rows of other tables refer to
  hours,     \* SystemSettings.session_lifetime_hours
  now,       \* beijing_now(), in hours
  txn        \* what each worker is doing

vars == <<users, registry, sessions, cookies, history, hours, now, txn>>
tables == <<users, registry, sessions, cookies, history>>

-----------------------------------------------------------------------------
(* Rows *)

Status == {"absent", "active", "disabled", "deleted"}
UserRow == [status : Status, max : Nat]
NoUser == [status |-> "absent", max |-> 0]
MostDevices == 10   \* what a sheet may give to max_devices
Exists(u) == users[u].status \in {"active", "disabled"}
Active(u) == users[u].status = "active"

DeviceRow == [device : Devices, user : Users]
NoRow == [device |-> None, user |-> None]
RowsOf(d) == {r \in RowIds : registry[r].device = d}

SessionRow == [user : Users, device : Devices \cup {None}, seen : Nat, expires : Nat]
NoSession == [user |-> None, device |-> None, seen |-> 0, expires |-> 0]
SessionsOf(u) == {k \in Tokens : sessions[k].user = u}
Live(k) == sessions[k].seen + hours >= now   \* last_seen >= cutoff

(* The sessions left after those with the tokens K are deleted. *)
Without(K) == [k \in Tokens |-> IF k \in K THEN NoSession ELSE sessions[k]]

-----------------------------------------------------------------------------
(* Requests *)

PCs == {"idle", "count", "purge", "session", "login user",
        "drop", "touch", "handle", "bind", "claim",
        "held", "conflict", "own row", "write",
        "save", "reload", "kick", "delete"}

(***************************************************************************)
(* One worker's request.  What a client asks for is chosen where the code  *)
(* first looks at it: until then a request with a cookie is of the kind    *)
(* "request".  device is the device id it sends; old, bound, row and own   *)
(* are update_device_id's; row is register_device's too; seen and expires  *)
(* are the values the session check is about to write; loaded and edited   *)
(* are the row of users an edit read and wants; erase says that a deletion *)
(* also clears what refers to the user.                                    *)
(***************************************************************************)
Txn == [op : {"none", "request"} \cup AllOps, pc : PCs,
        user : Users \cup {None}, token : Tokens \cup {None},
        device : Devices \cup {None}, old : Devices \cup {None},
        bound : Devices \cup {None},
        row : RowIds \cup {None}, own : RowIds \cup {None},
        max : Nat, seen : Nat, expires : Nat,
        loaded : UserRow, edited : UserRow, erase : BOOLEAN]

Idle == [op |-> "none", pc |-> "idle", user |-> None, token |-> None,
         device |-> None, old |-> None, bound |-> None, row |-> None, own |-> None,
         max |-> 0, seen |-> 0, expires |-> 0,
         loaded |-> NoUser, edited |-> NoUser, erase |-> FALSE]

At(w, pc) == txn[w].pc = pc
Goto(w, r) == txn' = [txn EXCEPT ![w] = r]

(* The worker goes on, and no row changes. *)
Continue(w, r) == Goto(w, r) /\ UNCHANGED <<tables, hours, now>>

Receive(w, op, r) ==
  /\ op \in Requests \cup {"request"}
  /\ At(w, "idle")
  /\ Continue(w, [r EXCEPT !.op = op])

(* Only the table of sessions changes. *)
WriteSessions(new) ==
  /\ sessions' = new
  /\ UNCHANGED <<users, registry, cookies, history, hours, now>>

(* One that nothing refers to stands for a token or a key not used before.   *)
FreshTokens ==
  {k \in Tokens : /\ sessions[k] = NoSession /\ cookies[k] = None
                  /\ \A w \in Workers : txn[w].token # k}
FreshRows ==
  {r \in RowIds : /\ registry[r] = NoRow
                  /\ \A w \in Workers : txn[w].row # r /\ txn[w].own # r}

-----------------------------------------------------------------------------
(* Login *)

(* Bound: a login starts only while a token is left for it. *)
TokenLeft ==
  Cardinality({w \in Workers : txn[w].op = "login" /\ txn[w].token = None})
    < Cardinality(FreshTokens)

(* The user is read once; a disabled one is refused here. *)
Login(w, u) ==
  /\ Active(u) /\ TokenLeft
  /\ Receive(w, "login", [Idle EXCEPT !.pc = "count", !.user = u, !.max = users[u].max])

(* Sessions seen within the lifetime count; the device's own makes room.     *)
CountSessions(w, d) ==
  LET r == txn[w]
      live == {k \in SessionsOf(r.user) : Live(k)}
      existing == d # None /\ \E k \in live : sessions[k].device = d
  IN /\ At(w, "count")
     /\ Continue(w, IF ~ existing /\ Cardinality(live) >= r.max THEN Idle
                    ELSE [r EXCEPT !.device = d, !.max = 0,
                                   !.pc = IF d = None THEN "session" ELSE "purge"])

(* The device's earlier sessions are deleted by a transaction of its own.    *)
PurgeDevice(w) ==
  LET r == txn[w]
  IN /\ At(w, "purge")
     /\ WriteSessions(Without({k \in SessionsOf(r.user) : sessions[k].device = r.device}))
     /\ Goto(w, [r EXCEPT !.pc = "session"])

(* create_session *)
CreateSession(w) ==
  LET r == txn[w]
      row == [user |-> r.user, device |-> r.device, seen |-> now, expires |-> now + hours]
  IN /\ At(w, "session")
     /\ \/ Exists(r.user) /\ \E k \in FreshTokens :
             /\ WriteSessions([sessions EXCEPT ![k] = row])
             /\ Goto(w, [r EXCEPT !.pc = "login user", !.token = k])
        \/ ~ Exists(r.user) /\ Continue(w, Idle)   \* foreign key

(* Mutant: the cookie goes to the user the request began with. *)
LoginReadUser(w) ==
  LET r == txn[w]
  IN /\ At(w, "login user")
     /\ cookies' = [cookies EXCEPT ![r.token] = r.user]
     /\ history' = history \cup {r.user}
     /\ Goto(w, Idle)
     /\ UNCHANGED <<users, registry, sessions, hours, now>>

(* login_user reads the user again, and refuses one disabled meanwhile.      *)
LoginUser(w) ==
  LET r == txn[w]
  IN /\ At(w, "login user")
     /\ cookies' = IF Active(r.user) THEN [cookies EXCEPT ![r.token] = r.user] ELSE cookies
     /\ history' = IF Exists(r.user) THEN history \cup {r.user} ELSE history
     /\ Goto(w, Idle)
     /\ UNCHANGED <<users, registry, sessions, hours, now>>

-----------------------------------------------------------------------------
(* update_last_seen, before every request *)

(***************************************************************************)
(* A request with the cookie of token k.  Without an active user it is not *)
(* authenticated, without a row its session has ended: nothing changes.    *)
(***************************************************************************)
Enter(w, k) ==
  /\ cookies[k] # None /\ Active(cookies[k])
  /\ sessions[k] # NoSession
  /\ Receive(w, "request",
       [Idle EXCEPT !.user = cookies[k], !.token = k,
                    !.pc = IF now > sessions[k].expires THEN "drop" ELSE "touch",
                    !.seen = now, !.expires = now + hours])

DropExpired(w) ==
  /\ At(w, "drop")
  /\ WriteSessions(Without({txn[w].token}))
  /\ Goto(w, Idle)

(* Mutant: the session is written whether or not its row is there. *)
TouchAnyway(w) ==
  LET r == txn[w]
  IN /\ At(w, "touch")
     /\ WriteSessions([sessions EXCEPT ![r.token].seen = r.seen,
                                       ![r.token].expires = r.expires])
     /\ Goto(w, [r EXCEPT !.pc = "handle", !.seen = 0, !.expires = 0])

(* A row deleted meanwhile makes the commit fail, and the request goes on.   *)
Touch(w) ==
  LET r == txn[w]
      s == sessions[r.token]
      touched == [s EXCEPT !.seen = r.seen, !.expires = r.expires]
  IN /\ At(w, "touch")
     /\ WriteSessions([sessions EXCEPT ![r.token] = IF s = NoSession THEN s ELSE touched])
     /\ Goto(w, [r EXCEPT !.pc = "handle", !.seen = 0, !.expires = 0])

(* login_required_json reads the user again, since the commit expired it.    *)
Refuse(w) == At(w, "handle") /\ ~ Active(txn[w].user) /\ Continue(w, Idle)

Handling(w, op) == op \in Requests /\ At(w, "handle") /\ Active(txn[w].user)

-----------------------------------------------------------------------------
(* Handlers of a session's own row *)

Logout(w) ==
  /\ Handling(w, "logout")
  /\ WriteSessions(Without({txn[w].token}))
  /\ Goto(w, Idle)

(***************************************************************************)
(* A heartbeat names a device, which the session is bound to from then on, *)
(* whoever registered it and whatever else is bound to it.                 *)
(***************************************************************************)
Heartbeat(w, d) ==
  LET r == txn[w]
      s == sessions[r.token]
      renewed == [s EXCEPT !.device = IF d = None THEN @ ELSE d,
                           !.seen = now, !.expires = now + hours]
  IN /\ Handling(w, "heartbeat")
     /\ WriteSessions([sessions EXCEPT ![r.token] = IF s = NoSession THEN s ELSE renewed])
     /\ Goto(w, Idle)

(***************************************************************************)
(* _enforce_bound_session_device: a mode-B request is served on the device *)
(* of its session, which the first such request chooses (mode A is served  *)
(* on any device).  Serving it changes no row of this module.              *)
(***************************************************************************)
EnforceDevice(w, d) ==
  LET s == sessions[txn[w].token]
  IN /\ Handling(w, "mode b")
     /\ Continue(w, IF s = NoSession \/ s.device # None THEN Idle
                    ELSE [txn[w] EXCEPT !.op = "mode b", !.device = d, !.pc = "bind"])

Bind(w) ==
  LET r == txn[w]
      s == sessions[r.token]
  IN /\ At(w, "bind")
     /\ WriteSessions([sessions EXCEPT ![r.token] =
                         IF s = NoSession THEN s ELSE [s EXCEPT !.device = r.device]])
     /\ Goto(w, Idle)

-----------------------------------------------------------------------------
(* register_device *)

WriteRegistry(new) ==
  /\ registry' = new
  /\ UNCHANGED <<users, cookies, history, hours, now>>

(* Mutant: a device registered by another user is taken over. *)
TakesOver(r) == [r EXCEPT !.pc = "claim",
                          !.row = IF RowsOf(r.device) = {} THEN None
                                  ELSE CHOOSE x \in RowsOf(r.device) : TRUE]

(* The row of the device, or nothing if it belongs to another user.          *)
FindDevice(r) ==
  IF RowsOf(r.device) = {} THEN [r EXCEPT !.pc = "claim"]
  ELSE LET x == CHOOSE x \in RowsOf(r.device) : TRUE
       IN IF registry[x].user # r.user THEN Idle ELSE [r EXCEPT !.pc = "claim", !.row = x]

RegisterDevice(w, d) ==
  /\ Handling(w, "register")
  /\ Continue(w, FindDevice([txn[w] EXCEPT !.op = "register", !.device = d]))

(* Its commit: the row is gone, the id taken or the user deleted meanwhile,  *)
(* or the row is written.                                                    *)
ClaimFails(r) ==
  \/ ~ Exists(r.user)
  \/ r.row # None /\ registry[r.row] = NoRow
  \/ r.row = None /\ RowsOf(r.device) # {}

ClaimDevice(w) ==
  LET r == txn[w]
  IN /\ At(w, "claim")
     /\ \/ ClaimFails(r) /\ Continue(w, Idle)
        \/ /\ ~ ClaimFails(r) /\ r.row # None
           /\ WriteRegistry([registry EXCEPT ![r.row].user = r.user])
           /\ Goto(w, Idle) /\ UNCHANGED sessions
        \/ /\ ~ ClaimFails(r) /\ r.row = None
           /\ \E x \in FreshRows :
                WriteRegistry([registry EXCEPT ![x] =
                                 [device |-> r.device, user |-> r.user]])
           /\ Goto(w, Idle) /\ UNCHANGED sessions

-----------------------------------------------------------------------------
(* update_device_id: one query after another, then one commit *)

(* The session, whose device wins over the one the client sends, and the     *)
(* row of the new id.                                                        *)
FindTarget(w, current, d) ==
  LET r == [txn[w] EXCEPT !.op = "update", !.device = d]
      bound == sessions[r.token].device
      mismatch == bound # None /\ current \notin {None, bound}
      old == IF bound = None THEN current ELSE bound
      found == FindDevice(r)
  IN /\ Handling(w, "update")
     /\ Continue(w, IF sessions[r.token] = NoSession \/ mismatch \/ found = Idle THEN Idle
                    ELSE [found EXCEPT !.bound = bound, !.old = old,
                                       !.pc = IF old \in {None, d} THEN "conflict"
                                                                          ELSE "held"])

(* Tickets in work on the old device are to be finished first; there may be  *)
(* some or none.                                                             *)
CountHeld(w) ==
  /\ At(w, "held")
  /\ Continue(w, Idle) \/ Continue(w, [txn[w] EXCEPT !.pc = "conflict"])

(* Another live session of the user may be using the new id.                 *)
CheckConflict(w) ==
  LET r == txn[w]
      conflict == \E k \in SessionsOf(r.user) \ {r.token} :
                    sessions[k].device = r.device /\ Live(k)
  IN /\ At(w, "conflict")
     /\ Continue(w, IF conflict THEN Idle ELSE [r EXCEPT !.pc = "own row"])

FindOwnRow(w) ==
  LET r == txn[w]
      mine == {x \in RowsOf(r.old) : registry[x].user = r.user}
  IN /\ At(w, "own row")
     /\ Continue(w, [r EXCEPT !.pc = "write", !.old = None,
                              !.own = IF r.old = None \/ mine = {} THEN None
                                      ELSE CHOOSE x \in mine : TRUE])

(* A row it writes is gone, the new id is taken, or the user is deleted.     *)
ChangeFails(r) ==
  \/ ~ Exists(r.user) \/ sessions[r.token] = NoSession
  \/ r.row # None /\ registry[r.row] = NoRow
  \/ r.row = None /\ r.own # None /\ registry[r.own] = NoRow
  \/ r.row = None /\ \E x \in RowsOf(r.device) : x # r.own

(* The session moves to the new id, unless it had it when it was read.       *)
Rebound(r) ==
  [sessions EXCEPT ![r.token].device = IF r.bound = r.device THEN @ ELSE r.device,
                   ![r.token].seen = now]

(* The new id was the user's already, and the old one's row goes; or the old *)
(* one's row gets the new id; or the new id gets a row.                      *)
ChangeDevice(w) ==
  LET r == txn[w]
  IN /\ At(w, "write") /\ ~ ChangeFails(r)
     /\ \/ /\ r.row # None
           /\ WriteRegistry(IF r.own \in {None, r.row} THEN registry
                            ELSE [registry EXCEPT ![r.own] = NoRow])
        \/ /\ r.row = None /\ r.own # None
           /\ WriteRegistry([registry EXCEPT ![r.own].device = r.device])
        \/ /\ r.row = None /\ r.own = None
           /\ \E x \in FreshRows :
                WriteRegistry([registry EXCEPT ![x] =
                                 [device |-> r.device, user |-> r.user]])
     /\ sessions' = Rebound(r)
     /\ Goto(w, Idle)

FailChange(w) == At(w, "write") /\ ChangeFails(txn[w]) /\ Continue(w, Idle)

-----------------------------------------------------------------------------
(* Administrator operations *)

WriteUsers(new) ==
  /\ users' = new
  /\ UNCHANGED <<registry, sessions, cookies, history, hours, now>>

(* api_create_user: a new user is active.                                    *)
CreateUser(u, n) ==
  /\ "create" \in Requests
  /\ users[u] = NoUser
  /\ WriteUsers([users EXCEPT ![u] = [status |-> "active", max |-> n]])
  /\ UNCHANGED txn

(* A row of an import sheet: None is a status that is none, 0 an empty cell.  *)
SheetRow == [user : Users, status : {"active", "disabled", None},
             max : Limits \cup {0, MostDevices + 1}]

(* validate_user_row, but for the names that are taken already.              *)
ValidRow(sheet, i) ==
  LET r == sheet[i]
  IN /\ r.max <= MostDevices /\ r.status # None
     /\ \A j \in 1..(i - 1) : sheet[j].user # r.user

(* Bound: a sheet has no more rows than there are users.                     *)
ValidSheets ==
  {sheet \in UNION {[1..n -> SheetRow] : n \in 1..Cardinality(Users)} :
     \A i \in DOMAIN sheet : ValidRow(sheet, i)}

(* import_users: all rows of the sheet or none; an empty cell is one device. *)
Imported(sheet, i) ==
  [status |-> sheet[i].status, max |-> IF sheet[i].max = 0 THEN 1 ELSE sheet[i].max]

ImportUsers(sheet) ==
  LET rows(u) == {i \in DOMAIN sheet : sheet[i].user = u}
  IN /\ "create" \in Requests
     /\ \A i \in DOMAIN sheet : users[sheet[i].user] = NoUser
     /\ WriteUsers([u \in Users |-> IF rows(u) = {} THEN users[u]
                                    ELSE Imported(sheet, CHOOSE i \in rows(u) : TRUE)])
     /\ UNCHANGED txn

(* api_update_user reads the row it edits, *)
EditUser(w, u, row) ==
  /\ Exists(u)
  /\ Receive(w, "edit", [Idle EXCEPT !.pc = "save", !.user = u,
                                     !.loaded = users[u], !.edited = row])

(* writes the columns it changed, *)
SaveUser(w) ==
  LET r == txn[w]
      row == users[r.user]
      saved == [status |-> IF r.edited.status = r.loaded.status THEN row.status
                                                                ELSE r.edited.status,
                max |-> IF r.edited.max = r.loaded.max THEN row.max ELSE r.edited.max]
  IN /\ At(w, "save")
     /\ \/ /\ Exists(r.user)
           /\ WriteUsers([users EXCEPT ![r.user] = saved])
           /\ Goto(w, IF r.loaded.status = "active" THEN [r EXCEPT !.pc = "reload"] ELSE Idle)
        \/ ~ Exists(r.user) /\ Continue(w, Idle)

(* and, the commit having expired it, reads it again: who was active and is  *)
(* not any more is logged out by a second transaction.                       *)
ReloadUser(w) ==
  LET r == txn[w]
  IN /\ At(w, "reload")
     /\ Continue(w, IF users[r.user].status = "disabled" THEN [r EXCEPT !.pc = "kick"] ELSE Idle)

(* api_force_logout *)
ForceLogout(w, u) ==
  Exists(u) /\ Receive(w, "kick", [Idle EXCEPT !.pc = "kick", !.user = u])

(* force_logout_user *)
EndSessions(w) ==
  /\ At(w, "kick")
  /\ WriteSessions(Without(SessionsOf(txn[w].user)))
  /\ Goto(w, Idle)

(* api_delete_user looks for rows that refer to the user, and refuses        *)
(* without force.                                                            *)
DeleteUser(w, u, force) ==
  /\ Exists(u)
  /\ u \in history => force
  /\ Receive(w, "delete", [Idle EXCEPT !.pc = "delete", !.user = u, !.erase = u \in history])

(* One transaction: clear the references, if some were found (and then force *)
(* was given), delete the user's devices and sessions, delete the user.  By  *)
(* the foreign keys a reference left, or one that appears while it runs,     *)
(* makes it fail as a whole.                                                 *)
EraseUser(w) ==
  LET r == txn[w]
      u == r.user
  IN /\ At(w, "delete")
     /\ \/ /\ Exists(u) /\ (u \in history => r.erase)
           /\ users' = [users EXCEPT ![u].status = "deleted"]
           /\ registry' = [x \in RowIds |-> IF registry[x].user = u THEN NoRow
                                            ELSE registry[x]]
           /\ sessions' = Without(SessionsOf(u))
           /\ history' = history \ {u}
           /\ Goto(w, Idle)
           /\ UNCHANGED <<cookies, hours, now>>
        \/ Continue(w, Idle)

(* api_update_settings *)
SetLifetime(h) ==
  /\ hours' = h /\ h # hours
  /\ UNCHANGED <<tables, now, txn>>

-----------------------------------------------------------------------------
(* Jobs *)

(* clean_inactive_sessions *)
CleanInactive ==
  /\ WriteSessions(Without({k \in Tokens : ~ Live(k) \/ sessions[k].expires < now}))
  /\ UNCHANGED txn

(* daily_reset_sessions *)
DailyReset == WriteSessions(Without(Tokens)) /\ UNCHANGED txn

Tick ==
  /\ now < MaxNow
  /\ now' = now + 1
  /\ UNCHANGED <<tables, hours, txn>>

-----------------------------------------------------------------------------
Init ==
  /\ users = [u \in Users |-> NoUser]
  /\ registry = [r \in RowIds |-> NoRow]
  /\ sessions = [k \in Tokens |-> NoSession]
  /\ cookies = [k \in Tokens |-> None]
  /\ history = {}
  /\ hours \in Lifetimes
  /\ now = 0
  /\ txn = [w \in Workers |-> Idle]

Request(w) == (\E u \in Users : Login(w, u)) \/ (\E k \in Tokens : Enter(w, k))

Session(w) ==
  \/ \E d \in Devices \cup {None} : CountSessions(w, d)
  \/ PurgeDevice(w) \/ CreateSession(w) \/ LoginUser(w)
  \/ DropExpired(w) \/ Touch(w) \/ Refuse(w) \/ Logout(w)
  \/ \E d \in Devices \cup {None} : Heartbeat(w, d)

Work(w) ==
  \/ \E d \in Devices : EnforceDevice(w, d)
  \/ Bind(w)
  \/ \E d \in Devices : RegisterDevice(w, d)
  \/ ClaimDevice(w)
  \/ \E current \in Devices \cup {None}, d \in Devices : FindTarget(w, current, d)
  \/ CountHeld(w) \/ CheckConflict(w) \/ FindOwnRow(w)
  \/ ChangeDevice(w) \/ FailChange(w)

Administer(w) ==
  \/ \E u \in Users :
       \/ \E st \in {"active", "disabled"}, n \in Limits :
            EditUser(w, u, [status |-> st, max |-> n])
       \/ ForceLogout(w, u)
       \/ \E force \in BOOLEAN : DeleteUser(w, u, force)
  \/ SaveUser(w) \/ ReloadUser(w) \/ EndSessions(w) \/ EraseUser(w)

(* What runs beside the requests, in one transaction *)
Background ==
  \/ \E u \in Users, n \in Limits : CreateUser(u, n)
  \/ \E sheet \in ValidSheets : ImportUsers(sheet)
  \/ \E h \in Lifetimes : SetLifetime(h)
  \/ CleanInactive \/ DailyReset \/ Tick

Next ==
  \/ \E w \in Workers : Request(w) \/ Session(w) \/ Work(w) \/ Administer(w)
  \/ Background

Spec == Init /\ [][Next]_vars
=============================================================================
