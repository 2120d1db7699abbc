----------------------------- MODULE MatchData -----------------------------
(***************************************************************************)
(* Match results: how an uploaded sheet is read and merged into the stored *)
(* result_data (result_parser.py), and what a ticket wins under them       *)
(* (winning_calculator.py, winning_calc_service.py).  Predicted and final  *)
(* results live side by side in one table of entries, one per match number *)
(* and play.  SP values are positive, amounts are left out: a ticket wins  *)
(* or it does not.                                                         *)
(***************************************************************************)
EXTENDS SequencesExt

CONSTANTS
  Seqs,      \* match numbers
  Plays,     \* play codes; "SF" is numbered by a column of its own
  Results,   \* what a match may end in
  SPs,       \* SP values
  Dash,      \* the result "-"
  Postponed, \* any other keyword for a postponed match
  None       \* a missing value

ASSUME MatchAssumption ==
  /\ "SF" \in Plays
  /\ {Dash, Postponed} \subseteq Results
  /\ None \notin Seqs \cup Results \cup SPs

UploadKinds == {"predicted", "final"}
Keys == Seqs \X Plays

(* A result and its SP; an SP alone is never stored. *)
NoSlot == [result |-> None, sp |-> None]
Slot == {NoSlot} \cup [result : Results, sp : SPs \cup {None}]

Entry == [UploadKinds -> Slot]
NoEntry == [k \in UploadKinds |-> NoSlot]

ResultData == [Keys -> Entry]
NoData == [key \in Keys |-> NoEntry]

-----------------------------------------------------------------------------
(* Reading a sheet *)

(* A line has its match number, the results of the plays and, apart from     *)
(* them, the result of SF with its own number, if it has one.                *)
Line == [seq : Seqs, fields : [Plays \ {"SF"} -> Slot],
         sf : Slot, label : Seqs \cup {None}]

ParsedData == [Keys -> Slot]
NothingParsed == [key \in Keys |-> NoSlot]

(* The plays of a line replace everything read for its match number so far.  *)
PutFields(parsed, line) ==
  IF \A q \in DOMAIN line.fields : line.fields[q] = NoSlot THEN parsed
  ELSE [key \in Keys |->
          IF key[1] # line.seq THEN parsed[key]
          ELSE IF key[2] = "SF" THEN NoSlot ELSE line.fields[key[2]]]

SFSeq(line) == IF line.label = None THEN line.seq ELSE line.label

PutSF(parsed, line) ==
  IF line.sf = NoSlot THEN parsed
  ELSE [parsed EXCEPT ![<<SFSeq(line), "SF">>] = line.sf]

ParseLines(lines) ==
  FoldLeft(LAMBDA parsed, line : PutSF(PutFields(parsed, line), line),
           NothingParsed, lines)

-----------------------------------------------------------------------------
(* Merging it into the stored data *)

ClearUploadKind(data, kind) == [key \in Keys |-> [data[key] EXCEPT ![kind] = NoSlot]]

MergeResultData(data, parsed, kind) ==
  [key \in Keys |-> IF parsed[key] = NoSlot THEN data[key]
                    ELSE [data[key] EXCEPT ![kind] = parsed[key]]]

Uploaded(data, parsed, kind) ==
  MergeResultData(ClearUploadKind(data, kind), parsed, kind)

CollectUploadKindKeys(data, kind) == {key \in Keys : data[key][kind].sp # None}
CollectParsedKeys(parsed) == {key \in Keys : parsed[key] # NoSlot}

(* Mutant: the file is compared with the other kind's entries. *)
IncompleteOfOtherKind(data, parsed, kind) ==
  \E other \in UploadKinds \ {kind} :
    ~ (CollectUploadKindKeys(data, other) \subseteq CollectParsedKeys(parsed))

(* A sheet that misses an entry known by SP is refused. *)
IsIncomplete(data, parsed, kind) ==
  ~ (CollectUploadKindKeys(data, kind) \subseteq CollectParsedKeys(parsed))

-----------------------------------------------------------------------------
(* What a ticket wins *)

(* A ticket bets on one play: for each of its matches, a set of options. *)
Bet == [play : Plays,
        options : UNION {[S -> SUBSET (Results \ {Dash, Postponed}) \ {{}}] :
                           S \in SUBSET Seqs \ {{}}}]

HasResults(data, kind) == \E key \in Keys : data[key][kind].sp # None

(* A predicted result that is missing falls back to the final one. *)
ResultValue(entry, kind) ==
  IF entry[kind].result # None THEN entry[kind].result
  ELSE entry["final"].result

(* The calculator strips dashes from these two plays' results first. *)
CountsAsPostponed(play, value) ==
  \/ value = Postponed
  \/ value = Dash /\ play \notin {"CBF", "BQC"}

Combinations(bet) ==
  {c \in [DOMAIN bet.options -> Results] : \A s \in DOMAIN c : c[s] \in bet.options[s]}

Hits(entry, kind, play, option) ==
  LET value == ResultValue(entry, kind)
  IN /\ entry # NoEntry
     /\ \/ CountsAsPostponed(play, value)
        \/ value = option /\ entry[kind].sp # None

CalculateWinning(bet, data, kind) ==
  \E c \in Combinations(bet) : \A s \in DOMAIN c :
    Hits(data[<<s, bet.play>>], kind, bet.play, c[s])

HasCompleteResultData(bet, data, kind) ==
  \A s \in DOMAIN bet.options :
    LET entry == data[<<s, bet.play>>]
        value == ResultValue(entry, kind)
    IN /\ entry # NoEntry /\ value # None
       /\ value \in {Dash, Postponed} \/ entry[kind].sp # None

Wins(bet, data, kind) == HasResults(data, kind) /\ CalculateWinning(bet, data, kind)
Decided(bet, data, kind) ==
  HasResults(data, kind) /\ HasCompleteResultData(bet, data, kind)

(* Mutant: final results decide a ticket even when they miss one of its matches. *)
FinalDecidesAlone(bet, data) ==
  IF HasResults(data, "final") THEN Wins(bet, data, "final")
  ELSE Wins(bet, data, "predicted")

(* Final results come first, unless they cannot decide the ticket yet. *)
SelectActiveOutcome(bet, data) ==
  IF Wins(bet, data, "final") THEN TRUE
  ELSE IF Decided(bet, data, "final") THEN FALSE
  ELSE Wins(bet, data, "predicted")
=============================================================================
