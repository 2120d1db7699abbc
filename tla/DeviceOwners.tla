---------------------------- MODULE DeviceOwners ----------------------------
(***************************************************************************)
(* What the device registry promises, with no rows, keys or transactions:  *)
(* a device id belongs to at most one user, who gets it while it is free   *)
(* and keeps it until that user gives it up, for another id or for good.   *)
(* Accounts, the model of src/routes/device.py and of the requests it runs *)
(* beside, is shown to implement this module.                              *)
(***************************************************************************)
CONSTANTS Users, Devices, None

VARIABLE owner   \* the user a device id belongs to, or None

Init == owner = [d \in Devices |-> None]

(* A user registers a free device id. *)
Claim(u, d) ==
  /\ owner[d] = None
  /\ owner' = [owner EXCEPT ![d] = u]

(* A user changes one of its device ids for a free one or another of its own. *)
Change(u, d, e) ==
  /\ owner[d] = u /\ owner[e] \in {None, u}
  /\ owner' = [owner EXCEPT ![d] = None, ![e] = u]

(* A user leaves: its device ids are free again. *)
Leave(u) == owner' = [d \in Devices |-> IF owner[d] = u THEN None ELSE owner[d]]

Next ==
  \E u \in Users :
    \/ \E d \in Devices : Claim(u, d)
    \/ \E d, e \in Devices : Change(u, d, e)
    \/ Leave(u)

Spec == Init /\ [][Next]_owner
=============================================================================
