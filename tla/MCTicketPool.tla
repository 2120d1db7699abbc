---------------------------- MODULE MCTicketPool ----------------------------
(***************************************************************************)
(* Instances of TicketPool for TLC.                                        *)
(***************************************************************************)
EXTENDS TicketPoolProps, TLC

CONSTANTS f1, f2,   \* files
          u1, u2    \* users

(* Tickets 1 and 2 came with f1, the others with f2. *)
MCFileOf == [t \in Tickets |-> IF t <= 2 THEN f1 ELSE f2]

SameDeadline == [f \in Files |-> 1]
LateDeadline == [f \in Files |-> MaxNow + 1]

OneType == [f \in Files |-> 0]
TwoTypes == [f \in Files |-> IF f = f1 THEN 0 ELSE 1]

TwoTypesReversed == [f \in Files |-> IF f = f1 THEN 1 ELSE 0]

AllModeA == [u \in Users |-> "mode_a"]
AllModeB == [u \in Users |-> "mode_b"]
MixedModes == [u \in Users |-> IF u = u1 THEN "mode_a" ELSE "mode_b"]

NothingBlocked == [u \in Users |-> {}]
FirstBlocks0 == [u \in Users |-> IF u = u1 THEN {0} ELSE {}]

NoLimit == [u \in Users |-> None]
LimitOne == [u \in Users |-> 1]
LimitTwo == [u \in Users |-> 2]

(* Workers are interchangeable, and so are devices. *)
WorkerSymmetry == Permutations(Workers)
WorkerDeviceSymmetry == Permutations(Workers) \cup Permutations(Devices)
=============================================================================
