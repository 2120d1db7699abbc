---------------------------- MODULE MCWinningCalc ----------------------------
(***************************************************************************)
(* Instances of WinningCalc for TLC.                                       *)
(***************************************************************************)
EXTENDS WinningCalcProps, TLC

CONSTANTS won, lost   \* results of a match

At(res) == [result |-> res, sp |-> 1]
NoSP(res) == [result |-> res, sp |-> None]

(* A line with one play, and one with an SF result as well *)
Fields(slot) == [q \in Plays \ {"SF"} |-> slot]
Plain(n, slot) == [seq |-> n, fields |-> Fields(slot), sf |-> NoSlot, label |-> None]
WithSF(n, slot, m, sf) == [seq |-> n, fields |-> Fields(slot), sf |-> sf, label |-> m]

(* Both tickets bet on the play SPF of match 1. *)
MCBets == [t \in Tickets |-> [play |-> "SPF", options |-> [s \in {1} |-> {won}]]]

(* SPF and SF won; only SPF is known, and it is lost *)
BothWon == <<WithSF(1, At(won), None, At(won))>>
SPFLost == <<Plain(1, At(lost))>>
MCSheets == {BothWon, SPFLost}

(* SPF has a result but no SP yet, or is postponed. *)
SPFOpen == <<WithSF(1, NoSP(won), None, At(won))>>
SPFPostponed == <<WithSF(1, NoSP(Dash), None, At(won))>>
MoreSheets == MCSheets \cup {SPFOpen, SPFPostponed}

(* The SF numbers run over the same range as the match numbers. *)
CrossedSF == <<WithSF(1, At(won), 2, At(lost)), Plain(2, At(won))>>
OwnSF == <<WithSF(1, At(won), 1, At(lost)), WithSF(2, At(won), None, At(won))>>
SFSheets == {CrossedSF, OwnSF}

(* Workers are interchangeable, and so are the tickets, which bet alike. *)
WorkerTicketSymmetry == Permutations(Workers) \cup Permutations(Tickets)
=============================================================================
