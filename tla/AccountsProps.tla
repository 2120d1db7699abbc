---------------------------- MODULE AccountsProps ----------------------------
(***************************************************************************)
(* What must be true of users, sessions and devices.                       *)
(***************************************************************************)
EXTENDS Accounts

(* Every row and every worker's record keeps its shape; in particular no     *)
(* session, device or request is without its user.                           *)
AccountsTypeOK ==
  /\ users \in [Users -> UserRow]
  /\ registry \in [RowIds -> DeviceRow \cup {NoRow}]
  /\ sessions \in [Tokens -> SessionRow \cup {NoSession}]
  /\ cookies \in [Tokens -> Users \cup {None}]
  /\ history \subseteq Users
  /\ hours \in Lifetimes
  /\ now \in Nat
  /\ txn \in [Workers -> Txn]

(* The user a device id is registered to *)
Owner(d) == IF RowsOf(d) = {} THEN None
            ELSE registry[CHOOSE x \in RowsOf(d) : TRUE].user

Owners == INSTANCE DeviceOwners WITH owner <- [d \in Devices |-> Owner(d)]

(* Whatever registrations, changes of device id and deletions of users       *)
(* interleave, a device id passes from one user to another only by becoming  *)
(* free in between (register_device and update_device_id check the owner     *)
(* first and write later).                                                   *)
ImplementsOwners == Owners!Spec

(* An administrator is still to log the user out. *)
Disabling(u) ==
  \E w \in Workers : txn[w].user = u /\ txn[w].op = "edit" /\ txn[w].pc \in {"reload", "kick"}

(* Once disabling a user is done, no cookie opens a session of that user, so *)
(* that after being enabled again it has to log in: neither a login that     *)
(* began before (auth.login) nor a request under way leaves one behind.      *)
DisabledStaysOut ==
  \A u \in Users : users[u].status = "disabled" /\ ~ Disabling(u) =>
    \A k \in Tokens : cookies[k] = u => sessions[k] = NoSession

(* A session that ended - logout, forced logout, expiry, daily reset - never *)
(* comes back, whatever requests with its cookie were under way.             *)
EndedStaysEnded ==
  [][\A k \in Tokens :
       cookies[k] # None /\ sessions[k] = NoSession => sessions'[k] = NoSession]_vars
=============================================================================
