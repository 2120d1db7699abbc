-------------------------- MODULE WinningCalcProps --------------------------
(***************************************************************************)
(* What must be true of match results and winning records.                 *)
(***************************************************************************)
EXTENDS WinningCalc

(* Every row and transaction record keeps its shape.                         *)
CalcTypeOK ==
  /\ result \in ResultRow
  /\ tix \in [Tickets -> TicketRow]
  /\ records \in [RecordIds -> RecordRow]
  /\ fileSeq \in Nat
  /\ txn \in [Workers -> Txn]
  /\ latest \in [UploadKinds -> ParsedData]

(* No accepted sheet is lost: the stored data hold the last accepted sheet   *)
(* of each kind, entry by entry, however uploads of the two kinds interleave *)
(* (parse_result_file merges into a row it read before).                     *)
NoSheetLost ==
  \A k \in UploadKinds : \A key \in Keys :
    result.data[key][k] = latest[k][key]

(* An entry known by SP still has a result of that kind after any later      *)
(* upload: an incomplete sheet never takes one away.                         *)
EntriesStay ==
  [][\A k \in UploadKinds :
       \A key \in CollectUploadKindKeys(result.data, k) :
         result'.data[key][k].result # None]_vars

(* A ticket is decided by the final results as soon as they know all of its  *)
(* matches, whatever was predicted; until then the prediction stands         *)
(* (_select_active_winning_outcome).                                         *)
FinalDecidesFirst ==
  \A t \in Tickets :
    SelectActiveOutcome(Bets[t], result.data) =
      IF Decided(Bets[t], result.data, "final")
      THEN CalculateWinning(Bets[t], result.data, "final")
      ELSE Wins(Bets[t], result.data, "predicted")

(* A calculation that gets past its second check worked on the data of the   *)
(* file it was started for: one overtaken by a newer upload gives up, and a  *)
(* newer sheet is never calculated under an older token.                     *)
CalculatesItsOwnFile ==
  \A w \in Workers :
    txn[w].pc \in {"cleanup", "commit"} => txn[w].row.file = txn[w].token

(* A ticket shows an image exactly when it has a record, and it is the       *)
(* record's, whatever calculations and checks run (while no image is being   *)
(* uploaded).                                                                *)
ImagesInSync ==
  \A t \in Tickets :
    IF RecordsOf(t) = {} THEN tix[t].image = None
    ELSE \A r \in RecordsOf(t) : tix[t].image = records[r].image

(* Nobody has read the record before it was checked and is still to write.   *)
Settled(r) ==
  /\ records[r].state = "live" /\ records[r].checked
  /\ \A w \in Workers : r \notin txn[w].targets /\
                        (txn[w].pc = "image" => txn[w].record # r)

(* Checked evidence that no request had already chosen to delete or replace  *)
(* is never deleted or replaced, nor chosen later.                           *)
SettledEvidenceStays ==
  [][\A r \in RecordIds :
       Settled(r) => Settled(r)' /\ records'[r].image = records[r].image]_vars

(* Every result on an accepted sheet is in the stored data: each line's plays *)
(* under its match number, and its SF result under the SF number.            *)
SheetFullyStored ==
  [][\A w \in Workers, lines \in Sheets, kind \in UploadKinds :
       UploadResult(w, lines, kind) =>
         \A i \in DOMAIN lines :
           lines[i].sf # NoSlot =>
             txn'[w].parsed[<<SFSeq(lines[i]), "SF">>] # NoSlot]_vars
=============================================================================
