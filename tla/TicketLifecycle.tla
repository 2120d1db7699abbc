--------------------------- MODULE TicketLifecycle ---------------------------
(***************************************************************************)
(* What the platform promises about its tickets, with no transactions, no  *)
(* locks and no counters: a ticket enters the pool when its file is        *)
(* imported, circulates between the pool and one device of one user, and   *)
(* ends in exactly one of three final states.  TicketPool, the model of    *)
(* the PostgreSQL path of src/services/ticket_pool.py and of the jobs and  *)
(* administrator operations beside it, is shown to implement this module.  *)
(***************************************************************************)
EXTENDS FiniteSets

CONSTANTS
  Tickets,   \* rows of lottery_tickets
  Users,
  Devices,
  None       \* the NULL of an owner column

VARIABLE tickets   \* the committed rows: status and owner columns

ActiveStatus == {"pending", "assigned"}
FinalStatus == {"completed", "expired", "revoked"}
TicketStatus == {"absent"} \cup ActiveStatus \cup FinalStatus

TicketRow == [status : TicketStatus,
              user   : Users \cup {None},
              device : Devices \cup {None}]

Absent == [status |-> "absent", user |-> None, device |-> None]

With(status) == {t \in Tickets : tickets[t].status = status}

Init == tickets = [t \in Tickets |-> Absent]

(***************************************************************************)
(* Replace the rows of a non-empty set S of tickets.                       *)
(***************************************************************************)
Move(S, NewRow(_)) ==
  /\ S # {}
  /\ tickets' = [t \in Tickets |-> IF t \in S THEN NewRow(t) ELSE tickets[t]]

(* A file's tickets appear together, waiting or already past the deadline. *)
Import(S, status) ==
  /\ S \subseteq With("absent")
  /\ status \in {"pending", "expired"}
  /\ Move(S, LAMBDA t : [Absent EXCEPT !.status = status])

(* Tickets leave the pool for one device of one user, never from another. *)
HandOut(S, u, d) ==
  /\ S \subseteq With("pending")
  /\ Move(S, LAMBDA t : [status |-> "assigned", user |-> u, device |-> d])

(* The user who holds the tickets closes them: done or given up. *)
Close(S, done, u) ==
  /\ \A t \in S : tickets[t].status = "assigned" /\ tickets[t].user = u
  /\ Move(S, LAMBDA t : [tickets[t] EXCEPT
                           !.status = IF t \in done THEN "completed" ELSE "expired"])

(* An administrator puts assigned tickets back into the pool, ownerless. *)
Recycle(S) ==
  /\ S \subseteq With("assigned")
  /\ Move(S, LAMBDA t : [Absent EXCEPT !.status = "pending"])

(* An administrator withdraws every ticket that is not final. *)
Revoke(S) ==
  /\ S \subseteq With("pending") \cup With("assigned")
  /\ Move(S, LAMBDA t : [tickets[t] EXCEPT !.status = "revoked"])

(* Only a ticket nobody holds runs out of time. *)
Expire(S) ==
  /\ S \subseteq With("pending")
  /\ Move(S, LAMBDA t : [tickets[t] EXCEPT !.status = "expired"])

Next ==
  \E S \in SUBSET Tickets :
    \/ \E status \in TicketStatus : Import(S, status)
    \/ \E u \in Users, d \in Devices : HandOut(S, u, d)
    \/ \E done \in SUBSET S, u \in Users : Close(S, done, u)
    \/ Recycle(S)
    \/ Revoke(S)
    \/ Expire(S)

Spec == Init /\ [][Next]_tickets
=============================================================================
