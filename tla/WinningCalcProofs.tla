-------------------------- MODULE WinningCalcProofs --------------------------
(***************************************************************************)
(* Safety of result uploads and winning calculations, for any number of    *)
(* workers, tickets, sheets and records.                                   *)
(***************************************************************************)
EXTENDS WinningCalcProps, FiniteSetTheorems, TLAPS

-----------------------------------------------------------------------------
(* Merging and deciding: what an upload does to the stored results, and what *)
(* decides a ticket.                                                         *)

LEMMA UploadedSlots ==
  ASSUME NEW data \in ResultData, NEW parsed \in ParsedData, NEW kind \in UploadKinds,
         NEW key \in Keys, NEW k \in UploadKinds
  PROVE  Uploaded(data, parsed, kind)[key][k] =
           IF k = kind THEN parsed[key] ELSE data[key][k]
<1>1. ClearUploadKind(data, kind)[key] = [data[key] EXCEPT ![kind] = NoSlot]
  BY DEF ClearUploadKind
<1>2. data[key] \in [UploadKinds -> Slot]
  BY DEF ResultData, Entry
<1> DEFINE cleared == [data[key] EXCEPT ![kind] = NoSlot]
<1>3. Uploaded(data, parsed, kind)[key] =
        IF parsed[key] = NoSlot THEN cleared ELSE [cleared EXCEPT ![kind] = parsed[key]]
  BY <1>1 DEF Uploaded, MergeResultData
<1>4. cleared[k] = IF k = kind THEN NoSlot ELSE data[key][k]
  BY <1>2
<1>5. [cleared EXCEPT ![kind] = parsed[key]][k] =
        IF k = kind THEN parsed[key] ELSE data[key][k]
  BY <1>2
<1> QED BY <1>3, <1>4, <1>5

LEMMA UploadedType ==
  ASSUME NEW data \in ResultData, NEW parsed \in ParsedData, NEW kind \in UploadKinds
  PROVE  Uploaded(data, parsed, kind) \in ResultData
<1> DEFINE cleared == ClearUploadKind(data, kind)
<1>1. NoSlot \in Slot
  BY DEF Slot
<1>2. ASSUME NEW key \in Keys PROVE cleared[key] \in Entry
  BY <1>1 DEF ClearUploadKind, ResultData, Entry
<1>3. ASSUME NEW key \in Keys
      PROVE  [cleared[key] EXCEPT ![kind] = parsed[key]] \in Entry
  BY <1>2 DEF ParsedData, Entry
<1> QED BY <1>2, <1>3 DEF Uploaded, MergeResultData, ResultData

(* An upload of one kind leaves the other kind's results as they are, and    *)
(* stores exactly what the sheet says of its own (parse_result_file, which   *)
(* promises to "preserve predicted/final SP independently").                 *)
THEOREM KindsAreIndependent ==
  \A data \in ResultData, parsed \in ParsedData, kind \in UploadKinds, key \in Keys :
    /\ Uploaded(data, parsed, kind)[key][kind] = parsed[key]
    /\ \A other \in UploadKinds \ {kind} :
         Uploaded(data, parsed, kind)[key][other] = data[key][other]
BY UploadedSlots

(* A predicted and a final sheet give the same data in either order.         *)
THEOREM UploadsCommute ==
  \A data \in ResultData, p, f \in ParsedData :
    Uploaded(Uploaded(data, p, "predicted"), f, "final") =
      Uploaded(Uploaded(data, f, "final"), p, "predicted")
<1> SUFFICES ASSUME NEW data \in ResultData, NEW p \in ParsedData, NEW f \in ParsedData
             PROVE  Uploaded(Uploaded(data, p, "predicted"), f, "final") =
                      Uploaded(Uploaded(data, f, "final"), p, "predicted")
  OBVIOUS
<1> DEFINE A == Uploaded(data, p, "predicted")
           B == Uploaded(data, f, "final")
           AB == Uploaded(A, f, "final")
           BA == Uploaded(B, p, "predicted")
<1>1. "predicted" \in UploadKinds /\ "final" \in UploadKinds
  BY DEF UploadKinds
<1>2. A \in ResultData /\ B \in ResultData
  BY <1>1, UploadedType
<1>3. AB \in ResultData /\ BA \in ResultData
  BY <1>1, <1>2, UploadedType
<1>4. ASSUME NEW key \in Keys, NEW k \in UploadKinds PROVE AB[key][k] = BA[key][k]
  <2>1. AB[key][k] = IF k = "final" THEN f[key] ELSE A[key][k]
    BY <1>1, <1>2, UploadedSlots
  <2>2. A[key][k] = IF k = "predicted" THEN p[key] ELSE data[key][k]
    BY <1>1, UploadedSlots
  <2>3. BA[key][k] = IF k = "predicted" THEN p[key] ELSE B[key][k]
    BY <1>1, <1>2, UploadedSlots
  <2>4. B[key][k] = IF k = "final" THEN f[key] ELSE data[key][k]
    BY <1>1, UploadedSlots
  <2> HIDE DEF A, B, AB, BA
  <2> QED BY <2>1, <2>2, <2>3, <2>4 DEF UploadKinds
<1> HIDE DEF A, B, AB, BA
<1>5. ASSUME NEW key \in Keys PROVE AB[key] = BA[key]
  BY <1>3, <1>4 DEF ResultData, Entry
<1>6. AB = BA
  BY <1>3, <1>5 DEF ResultData
<1> QED BY <1>6 DEF A, B, AB, BA

(* An accepted sheet leaves a result of its kind in every entry that was     *)
(* known by SP before.                                                       *)
THEOREM AcceptedSheetsAreComplete ==
  \A data \in ResultData, parsed \in ParsedData, kind \in UploadKinds :
    ~ IsIncomplete(data, parsed, kind) =>
      \A k \in UploadKinds : \A key \in CollectUploadKindKeys(data, k) :
        Uploaded(data, parsed, kind)[key][k].result # None
<1> SUFFICES ASSUME NEW data \in ResultData, NEW parsed \in ParsedData,
                    NEW kind \in UploadKinds, ~ IsIncomplete(data, parsed, kind),
                    NEW k \in UploadKinds, NEW key \in CollectUploadKindKeys(data, k)
             PROVE  Uploaded(data, parsed, kind)[key][k].result # None
  OBVIOUS
<1>1. key \in Keys /\ data[key][k].sp # None
  BY DEF CollectUploadKindKeys
<1>2. ASSUME NEW s \in Slot, s # NoSlot PROVE s.result # None
  BY <1>2, MatchAssumption DEF Slot
<1>3. CASE k = kind
  <2>1. key \in CollectParsedKeys(parsed)
    BY <1>3 DEF IsIncomplete
  <2>2. parsed[key] \in Slot /\ parsed[key] # NoSlot
    BY <1>1, <2>1 DEF CollectParsedKeys, ParsedData
  <2> QED BY <1>1, <1>2, <1>3, <2>2, UploadedSlots
<1>4. CASE k # kind
  <2>1. data[key][k] \in Slot
    BY <1>1 DEF ResultData, Entry
  <2>2. data[key][k] # NoSlot
    BY <1>1 DEF NoSlot
  <2> QED BY <1>1, <1>2, <1>4, <2>1, <2>2, UploadedSlots
<1> QED BY <1>3, <1>4

-----------------------------------------------------------------------------
(* A ticket never wins under results that miss one of its matches.           *)
THEOREM WinsAreDecided ==
  \A bet \in Bet, data \in ResultData, kind \in UploadKinds :
    CalculateWinning(bet, data, kind) => HasCompleteResultData(bet, data, kind)
<1> SUFFICES ASSUME NEW bet \in Bet, NEW data \in ResultData, NEW kind \in UploadKinds,
                    CalculateWinning(bet, data, kind), NEW s \in DOMAIN bet.options
             PROVE  LET entry == data[<<s, bet.play>>]
                        value == ResultValue(entry, kind)
                    IN /\ entry # NoEntry /\ value # None
                       /\ value \in {Dash, Postponed} \/ entry[kind].sp # None
  BY DEF HasCompleteResultData
<1> DEFINE entry == data[<<s, bet.play>>]
           value == ResultValue(entry, kind)
<1>1. PICK c \in Combinations(bet) :
        \A x \in DOMAIN c : Hits(data[<<x, bet.play>>], kind, bet.play, c[x])
  BY DEF CalculateWinning
<1>2. s \in DOMAIN c /\ c[s] \in Results
  BY <1>1 DEF Combinations
<1>3. Hits(entry, kind, bet.play, c[s])
  BY <1>1, <1>2
<1> HIDE DEF entry
<1>4. entry # NoEntry
  BY <1>3 DEF Hits
<1>5. CASE CountsAsPostponed(bet.play, value)
  <2>1. value \in {Dash, Postponed}
    BY <1>5 DEF CountsAsPostponed
  <2> QED BY <1>4, <2>1, MatchAssumption DEF entry
<1>6. CASE value = c[s] /\ entry[kind].sp # None
  BY <1>2, <1>4, <1>6, MatchAssumption DEF entry
<1> QED BY <1>3, <1>5, <1>6 DEF Hits

(* Once the final results know all matches of a ticket they alone decide it, *)
(* and until then the prediction stands.                                     *)
THEOREM FinalResultsDecide ==
  \A bet \in Bet, data \in ResultData :
    SelectActiveOutcome(bet, data) =
      IF Decided(bet, data, "final") THEN CalculateWinning(bet, data, "final")
      ELSE Wins(bet, data, "predicted")
<1> SUFFICES ASSUME NEW bet \in Bet, NEW data \in ResultData
             PROVE  SelectActiveOutcome(bet, data) =
                      IF Decided(bet, data, "final") THEN CalculateWinning(bet, data, "final")
                      ELSE Wins(bet, data, "predicted")
  OBVIOUS
<1>1. Wins(bet, data, "final") => Decided(bet, data, "final")
  BY WinsAreDecided DEF Wins, Decided, UploadKinds
<1>2. Wins(bet, data, "final") \in BOOLEAN /\ CalculateWinning(bet, data, "final") \in BOOLEAN
  BY DEF Wins, CalculateWinning
<1>3. Decided(bet, data, "final") =>
        Wins(bet, data, "final") = CalculateWinning(bet, data, "final")
  BY DEF Wins, Decided, CalculateWinning
<1> QED BY <1>1, <1>2, <1>3 DEF SelectActiveOutcome

-----------------------------------------------------------------------------
(* The inductive invariant *)

Uploading == {"lock", "store"}

(***************************************************************************)
(* Files: an upload's file id is nobody else's, is not in the row yet and  *)
(* is no calculation's token.                                              *)
(***************************************************************************)
FilesOK ==
  /\ result.file <= fileSeq
  /\ \A w \in Workers :
       txn[w].pc \in Uploading =>
         /\ txn[w].kind \in UploadKinds
         /\ txn[w].file <= fileSeq
         /\ txn[w].file # result.file
         /\ \A v \in Workers \ {w} : txn[v].pc \in Uploading => txn[v].file # txn[w].file
         /\ \A v \in Workers : txn[v].pc \in CalcPCs => txn[v].token # txn[w].file
  /\ \A w \in Workers : txn[w].pc \in CalcPCs => txn[w].token <= fileSeq

(* The period's lock: the row is still as the upload read it. *)
LockOK ==
  \A w \in Workers :
    txn[w].pc = "store" =>
      /\ txn[w].row.data = result.data
      /\ txn[w].row.file = result.file
      /\ ~ IsIncomplete(txn[w].row.data, txn[w].parsed, txn[w].kind)
      /\ \A v \in Workers \ {w} : txn[v].pc # "store"

(* A calculation that loaded another file's data will not find its token. *)
TokensOK ==
  \A w \in Workers :
    /\ txn[w].pc \in {"tickets", "flush"} /\ txn[w].row.file # txn[w].token =>
         result.file # txn[w].token
    /\ txn[w].pc \in {"cleanup", "commit"} => txn[w].row.file = txn[w].token

IInv == CalcTypeOK /\ FilesOK /\ LockOK /\ TokensOK /\ NoSheetLost

-----------------------------------------------------------------------------
(* Types *)

LEMMA IdleType == Idle \in Txn
BY DEF Idle, Txn, PCs, CalcPCs, NothingParsed, ParsedData, Slot, NoResult, ResultRow,
       NoData, ResultData, Entry, NoEntry, NotWinning, TicketRow

LEMMA WinningType ==
  ASSUME NEW S \in SUBSET Tickets
  PROVE  Cardinality(S) \in Nat
BY FS_Subset, FS_CardinalityType, CalcAssumption

LEMMA OutcomeType ==
  ASSUME NEW bet, NEW data, NEW image \in Images \cup {None}
  PROVE  Outcome(bet, data, image) \in TicketRow
<1>1. Wins(bet, data, "predicted") \in BOOLEAN /\ Wins(bet, data, "final") \in BOOLEAN
  BY DEF Wins
<1>2. SelectActiveOutcome(bet, data) \in BOOLEAN
  BY <1>1 DEF SelectActiveOutcome
<1> QED BY <1>1, <1>2 DEF Outcome, TicketRow

LEMMA ChangedType ==
  ASSUME NEW loaded \in ResultRow, NEW object \in ResultRow, NEW row \in ResultRow
  PROVE  Changed(loaded, object, row) \in ResultRow
BY DEF Changed, Written, ResultRow

LEMMA FlushedType ==
  ASSUME NEW wrote, NEW object \in TicketRow, NEW row \in TicketRow
  PROVE  Flushed(wrote, object, row) \in TicketRow
BY DEF Flushed, TicketRow

(* Only the worker's record changes, and it keeps its type. *)
LEMMA ContinueType ==
  ASSUME CalcTypeOK, NEW w \in Workers, NEW r \in Txn, Continue(w, r)
  PROVE  CalcTypeOK'
BY DEF CalcTypeOK, Continue

LEMMA InitType == Init => CalcTypeOK
<1>1. NoSlot \in Slot
  BY DEF Slot
<1>2. NoData \in ResultData /\ NothingParsed \in ParsedData
  BY <1>1 DEF NoData, ResultData, Entry, NoEntry, NothingParsed, ParsedData
<1>3. ASSUME NothingYet
      PROVE  /\ result \in ResultRow /\ tix \in [Tickets -> TicketRow]
             /\ records \in [RecordIds -> RecordRow] /\ latest \in [UploadKinds -> ParsedData]
  BY <1>2, <1>3 DEF NothingYet, NoResult, ResultRow, NotWinning, TicketRow, Unused, RecordRow
<1>4. ASSUME Calculated
      PROVE  /\ result \in ResultRow /\ tix \in [Tickets -> TicketRow]
             /\ records \in [RecordIds -> RecordRow] /\ latest \in [UploadKinds -> ParsedData]
  <2>1. PICK lines \in Sheets, kind \in UploadKinds, S \in SUBSET Tickets,
             image \in Images, of \in [RecordIds -> Tickets \cup {None}] :
          CalculatedFrom(ParseLines(lines), kind, S, image, of)
    BY <1>4 DEF Calculated
  <2> DEFINE data == Uploaded(NoData, ParseLines(lines), kind)
             Winning == {t \in Tickets : SelectActiveOutcome(Bets[t], data)}
  <2>2. ParseLines(lines) \in ParsedData
    BY CalcAssumption
  <2>3. data \in ResultData
    BY <1>2, <2>2, UploadedType
  <2>4. Cardinality(Winning) \in Nat
    BY WinningType
  <2>5. ASSUME NEW t \in Tickets PROVE tix[t] \in TicketRow
    BY <2>1, OutcomeType DEF CalculatedFrom
  <2>6. ASSUME NEW r \in RecordIds PROVE records[r] \in RecordRow
    BY <2>1 DEF CalculatedFrom, Unused, RecordRow
  <2>7. result \in ResultRow
    BY <2>1, <2>3, <2>4 DEF CalculatedFrom, ResultRow
  <2>8. latest \in [UploadKinds -> ParsedData]
    BY <1>2, <2>1, <2>2 DEF CalculatedFrom
  <2>9. /\ DOMAIN tix = Tickets /\ tix = [t \in Tickets |-> tix[t]]
        /\ DOMAIN records = RecordIds /\ records = [r \in RecordIds |-> records[r]]
    BY <2>1 DEF CalculatedFrom
  <2> QED BY <2>9, <2>5, <2>6, <2>7, <2>8
<1> QED BY <1>3, <1>4, IdleType DEF Init, CalcTypeOK
-----------------------------------------------------------------------------
(* Steps keep the types *)

(* Most steps write the row of results back: same type, whatever the object. *)
LEMMA RowType ==
  ASSUME CalcTypeOK, NEW loaded \in ResultRow, NEW object \in ResultRow,
         result' = Changed(loaded, object, result),
         NEW w \in Workers, NEW r \in Txn, txn' = [txn EXCEPT ![w] = r],
         tix' \in [Tickets -> TicketRow], records' \in [RecordIds -> RecordRow],
         fileSeq' \in Nat, latest' \in [UploadKinds -> ParsedData]
  PROVE  CalcTypeOK'
<1>1. result' \in ResultRow
  BY ChangedType DEF CalcTypeOK
<1> QED BY <1>1 DEF CalcTypeOK

LEMMA UploadType ==
  ASSUME CalcTypeOK, NEW w \in Workers, Upload(w)
  PROVE  CalcTypeOK'
<1>1. PICK lines \in Sheets, kind \in UploadKinds : UploadResult(w, lines, kind)
  BY DEF Upload
<1>2. ParseLines(lines) \in ParsedData
  BY CalcAssumption
<1>3. [Idle EXCEPT !.pc = "lock", !.kind = kind, !.parsed = ParseLines(lines),
                   !.file = fileSeq + 1] \in Txn
  <2>1. fileSeq + 1 \in Nat
    BY DEF CalcTypeOK
  <2>2. \A n \in Nat, p \in ParsedData :
          [Idle EXCEPT !.pc = "lock", !.kind = kind, !.parsed = p, !.file = n] \in Txn
    BY IdleType DEF Txn, PCs
  <2> QED BY <1>2, <2>1, <2>2
<1> QED BY <1>1, <1>3 DEF UploadResult, CalcTypeOK

LEMMA RequestType ==
  ASSUME CalcTypeOK, NEW w \in Workers,
         \/ LockPeriod(w) \/ Recalculate(w) \/ ReadToken(w)
         \/ StartCalc(w) \/ LoadTickets(w) \/ CheckNewest(w) \/ FailCalc(w) \/ Killed(w)
         \/ ReadRecord(w)
         \/ \E t \in Tickets, image \in Images : UploadImage(w, t, image)
  PROVE  CalcTypeOK'
<1>1. txn[w] \in Txn /\ result \in ResultRow /\ tix \in [Tickets -> TicketRow]
  BY DEF CalcTypeOK
<1> SUFFICES \E r \in Txn : Continue(w, r)
  BY ContinueType
<1>2. CASE LockPeriod(w) \/ StartCalc(w) \/ CheckNewest(w)
  BY <1>1, <1>2, IdleType DEF LockPeriod, StartCalc, CheckNewest, Txn, PCs, CalcPCs
<1>3. CASE Recalculate(w) \/ ReadToken(w)
  <2>1. [Idle EXCEPT !.pc = "reset", !.row = result] \in Txn
    BY <1>1, IdleType DEF Txn, PCs
  <2>2. result.file \in Nat
    BY <1>1 DEF ResultRow
  <2>3. [txn[w] EXCEPT !.pc = "start", !.token = result.file] \in Txn
    BY <1>1, <2>2 DEF Txn, PCs, CalcPCs
  <2> QED BY <1>3, <2>1, <2>3 DEF Recalculate, ReadToken
<1>4. CASE LoadTickets(w)
  <2>1. [txn[w] EXCEPT !.pc = "tickets", !.row = result, !.seen = tix, !.new = tix,
                       !.todo = Tickets] \in Txn
    BY <1>1 DEF Txn, PCs, CalcPCs
  <2> QED BY <1>4, <2>1 DEF LoadTickets
<1>5. CASE FailCalc(w) \/ Killed(w)
  BY <1>1, <1>5, IdleType DEF FailCalc, Killed, Txn, PCs, CalcPCs
<1>6. CASE ReadRecord(w)
  <2>1. PICK rec \in FirstRecord(txn[w].ticket) :
          Continue(w, IF rec # None /\ records[rec].checked THEN Idle
                      ELSE [txn[w] EXCEPT !.pc = "image", !.record = rec])
    BY <1>6 DEF ReadRecord
  <2>2. rec \in RecordIds \cup {None}
    BY DEF FirstRecord, RecordsOf
  <2>3. [txn[w] EXCEPT !.pc = "image", !.record = rec] \in Txn
    BY <1>1, <2>2 DEF Txn, PCs
  <2> QED BY <2>1, <2>3, IdleType
<1>7. CASE \E t \in Tickets, image \in Images : UploadImage(w, t, image)
  <2>1. PICK t \in Tickets, image \in Images : UploadImage(w, t, image)
    BY <1>7
  <2>2. [Idle EXCEPT !.pc = "record", !.ticket = t, !.image = image] \in Txn
    BY IdleType DEF Txn, PCs
  <2> QED BY <2>1, <2>2 DEF UploadImage
<1> QED BY <1>2, <1>3, <1>4, <1>5, <1>6, <1>7

LEMMA StoreResultType ==
  ASSUME CalcTypeOK, NEW w \in Workers, StoreResult(w), txn[w].kind \in UploadKinds
  PROVE  CalcTypeOK'
<1> DEFINE r == txn[w]
           object == [status |-> "pending", file |-> r.file, winning |-> 0,
                      data |-> Uploaded(r.row.data, r.parsed, r.kind)]
<1>1. r \in Txn
  BY DEF CalcTypeOK
<1>2. r.row \in ResultRow /\ r.parsed \in ParsedData /\ r.file \in Nat
  BY <1>1 DEF Txn
<1>3. Uploaded(r.row.data, r.parsed, r.kind) \in ResultData
  BY <1>2, UploadedType DEF ResultRow
<1>4. object \in ResultRow
  BY <1>2, <1>3 DEF ResultRow
<1>5. [Idle EXCEPT !.pc = "start", !.token = r.file] \in Txn
  BY <1>2, IdleType DEF Txn, PCs, CalcPCs
<1>6. latest' \in [UploadKinds -> ParsedData]
  BY <1>2 DEF StoreResult, CalcTypeOK
<1>7. /\ result' = Changed(r.row, object, result)
      /\ txn' = [txn EXCEPT ![w] = [Idle EXCEPT !.pc = "start", !.token = r.file]]
      /\ UNCHANGED <<tix, records, fileSeq>>
  BY DEF StoreResult
<1> HIDE DEF object, r
<1>8. tix' \in [Tickets -> TicketRow] /\ records' \in [RecordIds -> RecordRow]
      /\ fileSeq' \in Nat
  BY <1>7 DEF CalcTypeOK
<1> QED BY <1>2, <1>4, <1>5, <1>6, <1>7, <1>8, RowType

LEMMA StatusType ==
  ASSUME CalcTypeOK, NEW w \in Workers,
         ResetResult(w) \/ BeginCalc(w) \/ MarkError(w)
  PROVE  CalcTypeOK'
<1>1. txn[w] \in Txn /\ txn[w].row \in ResultRow
  BY DEF CalcTypeOK, Txn
<1>2. /\ tix' \in [Tickets -> TicketRow] /\ records' \in [RecordIds -> RecordRow]
      /\ fileSeq' \in Nat /\ latest' \in [UploadKinds -> ParsedData]
  BY DEF ResetResult, BeginCalc, MarkError, CalcTypeOK
<1>3. CASE ResetResult(w)
  <2>1. [txn[w].row EXCEPT !.status = "pending", !.winning = 0] \in ResultRow
    BY <1>1 DEF ResultRow
  <2>2. [Idle EXCEPT !.pc = "token"] \in Txn
    BY IdleType DEF Txn, PCs
  <2> QED BY <1>1, <1>2, <1>3, <2>1, <2>2, RowType DEF ResetResult
<1>4. CASE BeginCalc(w)
  <2>1. [txn[w].row EXCEPT !.status = "processing"] \in ResultRow
    BY <1>1 DEF ResultRow
  <2>2. [txn[w] EXCEPT !.pc = "load"] \in Txn
    BY <1>1 DEF Txn, PCs, CalcPCs
  <2> QED BY <1>1, <1>2, <1>4, <2>1, <2>2, RowType DEF BeginCalc
<1>5. CASE MarkError(w)
  <2>1. [txn[w].row EXCEPT !.status = "error"] \in ResultRow
    BY <1>1 DEF ResultRow
  <2> QED BY <1>1, <1>2, <1>5, <2>1, IdleType, RowType DEF MarkError
<1> QED BY <1>3, <1>4, <1>5

LEMMA ImageKeptType ==
  ASSUME CalcTypeOK, NEW t, NEW image \in Images \cup {None}, NEW wins,
         NEW rec \in RecordIds \cup {None}
  PROVE  ImageKept(t, image, wins, rec) \in Images \cup {None}
BY DEF ImageKept, CalcTypeOK, RecordRow

LEMMA CalculateTicketType ==
  ASSUME CalcTypeOK, NEW w \in Workers, NEW t \in Tickets, CalculateTicket(w, t)
  PROVE  CalcTypeOK'
<1> DEFINE r == txn[w]
           wins == SelectActiveOutcome(Bets[t], r.row.data)
           Row(rec) == Outcome(Bets[t], r.row.data, ImageKept(t, r.seen[t].image, wins, rec))
           Doomed(rec) == IF wins \/ rec = None THEN {}
                          ELSE {x \in {rec} : ~ records[x].checked}
           Pc(rec) == IF Row(rec) = r.seen[t] THEN "tickets" ELSE "flush"
           R(rec) == [r EXCEPT !.new[t] = Row(rec), !.todo = @ \ {t},
                               !.targets = @ \cup Doomed(rec), !.record = rec,
                               !.pc = Pc(rec), !.ticket = t]
<1>1. r \in Txn /\ r.seen[t].image \in Images \cup {None}
  BY DEF CalcTypeOK, Txn, TicketRow
<1>2. PICK rec \in FirstRecord(t) : Continue(w, R(rec))
  BY DEF CalculateTicket
<1>3. rec \in RecordIds \cup {None}
  BY <1>2 DEF FirstRecord, RecordsOf
<1>4. Row(rec) \in TicketRow
  BY <1>1, <1>3, ImageKeptType, OutcomeType
<1>5. Pc(rec) \in PCs
  BY DEF PCs, CalcPCs
<1>6. Doomed(rec) \in SUBSET RecordIds
  BY <1>3
<1> HIDE DEF r, Row, Pc, Doomed
<1>7. R(rec) \in Txn
  <2>1. [r.new EXCEPT ![t] = Row(rec)] \in [Tickets -> TicketRow]
    BY <1>1, <1>4 DEF Txn
  <2>2. r.todo \ {t} \in SUBSET Tickets /\ r.targets \cup Doomed(rec) \in SUBSET RecordIds
    BY <1>1, <1>6 DEF Txn
  <2>3. \A n \in [Tickets -> TicketRow], todo \in SUBSET Tickets, g \in SUBSET RecordIds,
           pc \in PCs :
          [r EXCEPT !.new = n, !.todo = todo, !.targets = g, !.record = rec, !.pc = pc,
                    !.ticket = t] \in Txn
    BY <1>1, <1>3 DEF Txn
  <2>4. R(rec) = [r EXCEPT !.new = [r.new EXCEPT ![t] = Row(rec)], !.todo = r.todo \ {t},
                           !.targets = r.targets \cup Doomed(rec), !.record = rec,
                           !.pc = Pc(rec), !.ticket = t]
    BY <1>1 DEF Txn
  <2> QED BY <1>5, <2>1, <2>2, <2>3, <2>4
<1> QED BY <1>2, <1>7, ContinueType

LEMMA FlushTicketType ==
  ASSUME CalcTypeOK, NEW w \in Workers, FlushTicket(w)
  PROVE  CalcTypeOK'
<1> DEFINE r == txn[w]
           changes == Difference(r.new[r.ticket], r.seen[r.ticket])
<1>1. r \in Txn /\ changes \in SUBSET Columns
  BY DEF CalcTypeOK, Difference
<1>2. Continue(w, [r EXCEPT !.pc = "tickets", !.wrote[r.ticket] = changes])
  BY DEF FlushTicket
<1> HIDE DEF r, changes
<1>3. [r EXCEPT !.pc = "tickets", !.wrote[r.ticket] = changes] \in Txn
  <2>1. [r.wrote EXCEPT ![r.ticket] = changes] \in [Tickets -> SUBSET Columns]
    BY <1>1 DEF Txn
  <2>2. \A c \in [Tickets -> SUBSET Columns] :
          [r EXCEPT !.pc = "tickets", !.wrote = c] \in Txn
    BY <1>1 DEF Txn, PCs, CalcPCs
  <2>3. [r EXCEPT !.pc = "tickets", !.wrote[r.ticket] = changes]
          = [r EXCEPT !.pc = "tickets", !.wrote = [r.wrote EXCEPT ![r.ticket] = changes]]
    BY <1>1 DEF Txn
  <2> QED BY <2>1, <2>2, <2>3
<1> QED BY <1>2, <1>3, ContinueType

LEMMA CleanupType ==
  ASSUME CalcTypeOK, NEW w \in Workers, Cleanup(w)
  PROVE  CalcTypeOK'
<1> DEFINE r == txn[w]
           found == {x \in r.targets : x = r.record \/ records[x].state = "live"}
           kept == {x \in found : x # r.record /\ records[x].checked}
           Restored(t) == {x \in kept : records[x].ticket = t}
           image == [t \in Tickets |-> IF Restored(t) = {} THEN r.new[t].image
                                       ELSE records[CHOOSE x \in Restored(t) : TRUE].image]
           wrote == [t \in Tickets |-> IF image[t] # r.new[t].image
                                       THEN r.wrote[t] \cup {"image"} ELSE r.wrote[t]]
           new == [t \in Tickets |-> [r.new[t] EXCEPT !.image = image[t]]]
<1>1. r \in Txn /\ records \in [RecordIds -> RecordRow]
  BY DEF CalcTypeOK
<1>2. kept \subseteq RecordIds /\ found \ kept \in SUBSET RecordIds
  BY <1>1 DEF Txn
<1>3. ASSUME NEW t \in Tickets PROVE image[t] \in Images \cup {None}
  <2>1. CASE Restored(t) = {}
    BY <1>1, <2>1 DEF Txn, TicketRow
  <2>2. CASE Restored(t) # {}
    <3>1. (CHOOSE x \in Restored(t) : TRUE) \in RecordIds
      BY <1>2, <2>2
    <3> QED BY <1>1, <2>2, <3>1 DEF RecordRow
  <2> QED BY <2>1, <2>2
<1>4. wrote \in [Tickets -> SUBSET Columns]
  BY <1>1 DEF Txn, Columns
<1>5. new \in [Tickets -> TicketRow]
  <2>1. ASSUME NEW t \in Tickets, NEW i \in Images \cup {None}
        PROVE  [r.new[t] EXCEPT !.image = i] \in TicketRow
    BY <1>1 DEF Txn, TicketRow
  <2> QED BY <1>3, <2>1
<1>6. Continue(w, [r EXCEPT !.pc = "commit", !.targets = found \ kept, !.wrote = wrote,
                            !.new = [t \in Tickets |-> [@[t] EXCEPT !.image = image[t]]]])
  BY DEF Cleanup, RestoredImage
<1>7. \A c \in [Tickets -> SUBSET Columns], n \in [Tickets -> TicketRow],
         g \in SUBSET RecordIds :
        [r EXCEPT !.pc = "commit", !.targets = g, !.wrote = c, !.new = n] \in Txn
  BY <1>1 DEF Txn, PCs, CalcPCs
<1>8. Continue(w, [r EXCEPT !.pc = "commit", !.targets = found \ kept, !.wrote = wrote,
                            !.new = new])
  BY <1>6
<1> HIDE DEF r, found, kept, wrote, new, image
<1> QED BY <1>2, <1>4, <1>5, <1>7, <1>8, ContinueType

LEMMA CommitCalcType ==
  ASSUME CalcTypeOK, NEW w \in Workers, CommitCalc(w)
  PROVE  CalcTypeOK'
<1> DEFINE r == txn[w]
           won == {t \in Tickets : r.new[t].winning}
           object == [r.row EXCEPT !.status = "done", !.winning = Cardinality(won)]
<1>1. r \in Txn /\ r.row \in ResultRow /\ r.new \in [Tickets -> TicketRow]
  BY DEF CalcTypeOK, Txn
<1>2. object \in ResultRow
  <2>1. Cardinality(won) \in Nat
    BY WinningType
  <2> HIDE DEF won
  <2> QED BY <1>1, <2>1 DEF ResultRow
<1>3. tix' \in [Tickets -> TicketRow]
  <2>1. ASSUME NEW t \in Tickets PROVE Flushed(r.wrote[t], r.new[t], tix[t]) \in TicketRow
    BY <1>1, FlushedType DEF CalcTypeOK
  <2> QED BY <2>1 DEF CommitCalc
<1>4. records' \in [RecordIds -> RecordRow]
  BY DEF CommitCalc, CalcTypeOK, RecordRow
<1>5. /\ result' = Changed(r.row, object, result)
      /\ txn' = [txn EXCEPT ![w] = Idle]
      /\ fileSeq' \in Nat /\ latest' \in [UploadKinds -> ParsedData]
  BY DEF CommitCalc, CalcTypeOK
<1> HIDE DEF r, object
<1> QED BY <1>1, <1>2, <1>3, <1>4, <1>5, IdleType, RowType

LEMMA StoreImageType ==
  ASSUME CalcTypeOK, NEW w \in Workers, StoreImage(w)
  PROVE  CalcTypeOK'
<1> DEFINE r == txn[w]
           Put(rec, row) == /\ records' = [records EXCEPT ![rec] = row]
                            /\ tix' = [tix EXCEPT ![r.ticket].image = r.image]
                            /\ txn' = [txn EXCEPT ![w] = Idle]
                            /\ UNCHANGED <<result, fileSeq, latest>>
<1>1. r \in Txn
  BY DEF CalcTypeOK
<1>2. ASSUME NEW rec, NEW row \in RecordRow, Put(rec, row) PROVE CalcTypeOK'
  <2>1. r.image \in Images \cup {None} /\ tix \in [Tickets -> TicketRow]
    BY <1>1 DEF Txn, CalcTypeOK
  <2>2. tix' \in [Tickets -> TicketRow]
    <3>1. ASSUME NEW t \in Tickets PROVE [tix[t] EXCEPT !.image = r.image] \in TicketRow
      BY <2>1 DEF TicketRow
    <3>2. tix' = [tix EXCEPT ![r.ticket] = [tix[r.ticket] EXCEPT !.image = r.image]]
      BY <1>2
    <3> QED BY <2>1, <3>1, <3>2
  <2>3. records' \in [RecordIds -> RecordRow]
    BY <1>2 DEF CalcTypeOK
  <2>4. txn' \in [Workers -> Txn]
    BY <1>2, IdleType DEF CalcTypeOK
  <2> QED BY <1>2, <2>2, <2>3, <2>4 DEF CalcTypeOK
<1>3. CASE Continue(w, Idle)
  BY <1>3, IdleType, ContinueType
<1>4. CASE r.record # None /\ Put(r.record, [records[r.record] EXCEPT !.image = r.image])
  <2>1. r.record \in RecordIds /\ r.image \in Images \cup {None}
    BY <1>1, <1>4 DEF Txn
  <2>2. [records[r.record] EXCEPT !.image = r.image] \in RecordRow
    BY <2>1 DEF CalcTypeOK, RecordRow
  <2> HIDE DEF Put
  <2> QED BY <1>2, <1>4, <2>2
<1>5. CASE \E rec \in RecordIds :
             Put(rec, [state |-> "live", ticket |-> r.ticket, checked |-> FALSE,
                       image |-> r.image])
  <2>1. [state |-> "live", ticket |-> r.ticket, checked |-> FALSE, image |-> r.image]
          \in RecordRow
    BY <1>1 DEF Txn, RecordRow
  <2> HIDE DEF Put
  <2> QED BY <1>2, <1>5, <2>1
<1> QED BY <1>3, <1>4, <1>5 DEF StoreImage

(* Only the kind of a sheet being stored is not a matter of types.           *)
LEMMA NextType ==
  ASSUME CalcTypeOK, FilesOK, [Next]_vars
  PROVE  CalcTypeOK'
<1>1. ASSUME NEW w \in Workers, Upload(w) \/ Recalculate(w) \/ Statement(w)
      PROVE  CalcTypeOK'
  <2>1. CASE Upload(w)
    BY <2>1, UploadType
  <2>2. CASE \/ LockPeriod(w) \/ Recalculate(w) \/ ReadToken(w)
             \/ StartCalc(w) \/ LoadTickets(w) \/ CheckNewest(w) \/ FailCalc(w) \/ Killed(w)
             \/ ReadRecord(w)
    BY <2>2, RequestType
  <2>3. CASE StoreResult(w)
    BY <2>3, StoreResultType DEF FilesOK, Uploading, StoreResult
  <2>4. CASE ResetResult(w) \/ BeginCalc(w) \/ MarkError(w)
    BY <2>4, StatusType
  <2>5. CASE \E t \in Tickets : CalculateTicket(w, t)
    BY <2>5, CalculateTicketType
  <2>6. CASE FlushTicket(w) \/ Cleanup(w) \/ CommitCalc(w) \/ StoreImage(w)
    BY <2>6, FlushTicketType, CleanupType, CommitCalcType, StoreImageType
  <2> QED BY <1>1, <2>1, <2>2, <2>3, <2>4, <2>5, <2>6 DEF Statement
<1>2. ASSUME NEW w \in Workers, NEW t \in Tickets, NEW image \in Images,
             UploadImage(w, t, image)
      PROVE  CalcTypeOK'
  BY <1>2, RequestType
<1>3. ASSUME NEW rec \in RecordIds, MarkChecked(rec) PROVE CalcTypeOK'
  BY <1>3 DEF MarkChecked, CalcTypeOK, RecordRow
<1>4. CASE UNCHANGED vars
  BY <1>4 DEF vars, CalcTypeOK
<1> QED BY <1>1, <1>2, <1>3, <1>4 DEF Next

-----------------------------------------------------------------------------
(* Steps keep the invariant *)

(***************************************************************************)
(* A quiet step leaves file and data of the row alone, and its worker is   *)
(* not uploading afterwards; a calculation's token is the one it had or    *)
(* the file in the row.                                                    *)
(***************************************************************************)
LEMMA QuietKeeps ==
  ASSUME IInv, NEW w \in Workers, NEW r \in Txn,
         UNCHANGED <<latest, fileSeq>>,
         result'.file = result.file, result'.data = result.data,
         txn' = [txn EXCEPT ![w] = r],
         r.pc \notin Uploading,
         r.pc \in CalcPCs => \/ r.token = result.file
                             \/ txn[w].pc \in CalcPCs /\ r.token = txn[w].token,
         r.pc \in {"tickets", "flush"} /\ r.row.file # r.token => result.file # r.token,
         r.pc \in {"cleanup", "commit"} => r.row.file = r.token
  PROVE  FilesOK' /\ LockOK' /\ TokensOK' /\ NoSheetLost'
<1>1. txn'[w] = r /\ \A v \in Workers \ {w} : txn'[v] = txn[v]
  BY DEF IInv, CalcTypeOK
<1>2. FilesOK'
  <2>1. ASSUME NEW v \in Workers, txn'[v].pc \in Uploading
        PROVE  /\ txn'[v].kind \in UploadKinds
               /\ txn'[v].file <= fileSeq'
               /\ txn'[v].file # result'.file
               /\ \A u \in Workers \ {v} :
                    txn'[u].pc \in Uploading => txn'[u].file # txn'[v].file
               /\ \A u \in Workers : txn'[u].pc \in CalcPCs => txn'[u].token # txn'[v].file
    <3>1. v # w /\ txn'[v] = txn[v]
      BY <1>1, <2>1
    <3>2. /\ txn[v].pc \in Uploading
          /\ txn[v].file # result.file
          /\ \A u \in Workers : txn[u].pc \in CalcPCs => txn[u].token # txn[v].file
      BY <2>1, <3>1 DEF IInv, FilesOK
    <3>3. r.pc \in CalcPCs => r.token # txn[v].file
      BY <3>2
    <3> QED BY <1>1, <3>1, <3>2, <3>3 DEF IInv, FilesOK
  <2>2. ASSUME NEW v \in Workers, txn'[v].pc \in CalcPCs PROVE txn'[v].token <= fileSeq'
    BY <1>1, <2>2 DEF IInv, FilesOK
  <2> QED BY <2>1, <2>2 DEF IInv, FilesOK
<1>3. LockOK'
  BY <1>1 DEF IInv, LockOK, Uploading
<1>4. TokensOK'
  BY <1>1 DEF IInv, TokensOK
<1>5. NoSheetLost'
  BY DEF IInv, NoSheetLost
<1> QED BY <1>2, <1>3, <1>4, <1>5

LEMMA UploadKeeps ==
  ASSUME IInv, NEW w \in Workers, Upload(w)
  PROVE  FilesOK' /\ LockOK' /\ TokensOK' /\ NoSheetLost'
<1>1. PICK lines \in Sheets, kind \in UploadKinds : UploadResult(w, lines, kind)
  BY DEF Upload
<1>2. /\ txn'[w] = [Idle EXCEPT !.pc = "lock", !.kind = kind, !.parsed = ParseLines(lines),
                                !.file = fileSeq + 1]
      /\ \A v \in Workers \ {w} : txn'[v] = txn[v]
      /\ fileSeq' = fileSeq + 1 /\ result' = result /\ latest' = latest
  BY <1>1 DEF UploadResult, IInv, CalcTypeOK
<1>3. txn'[w].pc = "lock" /\ txn'[w].kind = kind /\ txn'[w].file = fileSeq + 1
  BY <1>2, IdleType DEF Txn
<1>4. /\ fileSeq \in Nat /\ result.file \in Nat
      /\ \A v \in Workers : txn[v].file \in Nat /\ txn[v].token \in Nat
  BY DEF IInv, CalcTypeOK, ResultRow, Txn
<1>5. FilesOK'
  <2>1. result'.file <= fileSeq'
    BY <1>2, <1>4 DEF IInv, FilesOK
  <2>2. ASSUME NEW v \in Workers \ {w}, txn[v].pc \in Uploading
        PROVE  txn[v].file <= fileSeq /\ txn[v].file < fileSeq'
    BY <1>2, <1>4, <2>2 DEF IInv, FilesOK
  <2>3. ASSUME NEW v \in Workers, txn'[v].pc \in CalcPCs
        PROVE  /\ v # w /\ txn'[v] = txn[v]
               /\ txn[v].token <= fileSeq' /\ txn[v].token < fileSeq'
    <3>1. v # w
      BY <1>3, <2>3 DEF CalcPCs
    <3>2. txn'[v] = txn[v] /\ txn[v].token <= fileSeq
      BY <1>2, <2>3, <3>1 DEF IInv, FilesOK
    <3> QED BY <1>2, <1>4, <3>1, <3>2
  <2>4. ASSUME NEW v \in Workers, txn'[v].pc \in Uploading
        PROVE  /\ txn'[v].kind \in UploadKinds
               /\ txn'[v].file <= fileSeq'
               /\ txn'[v].file # result'.file
               /\ \A u \in Workers \ {v} :
                    txn'[u].pc \in Uploading => txn'[u].file # txn'[v].file
               /\ \A u \in Workers : txn'[u].pc \in CalcPCs => txn'[u].token # txn'[v].file
    <3>1. CASE v = w
      <4>1. result'.file # fileSeq'
        BY <1>2, <1>4 DEF IInv, FilesOK
      <4>2. \A u \in Workers \ {w} : txn'[u].pc \in Uploading => txn'[u].file # fileSeq'
        BY <1>2, <1>4, <2>2
      <4>3. \A u \in Workers : txn'[u].pc \in CalcPCs => txn'[u].token # fileSeq'
        BY <1>2, <1>4, <2>3
      <4>4. fileSeq' <= fileSeq'
        BY <1>2, <1>4
      <4>5. txn'[v].file = fileSeq' /\ txn'[v].kind \in UploadKinds
        BY <1>2, <1>3, <3>1
      <4> QED BY <3>1, <4>1, <4>2, <4>3, <4>4, <4>5
    <3>2. CASE v # w
      <4>1. /\ txn'[v] = txn[v] /\ txn[v].file <= fileSeq' /\ txn[v].file # fileSeq'
        BY <1>2, <1>4, <2>2, <2>4, <3>2
      <4>2. /\ txn[v].kind \in UploadKinds /\ txn[v].file # result.file
            /\ \A u \in Workers \ {v} : txn[u].pc \in Uploading => txn[u].file # txn[v].file
            /\ \A u \in Workers : txn[u].pc \in CalcPCs => txn[u].token # txn[v].file
        BY <2>4, <4>1 DEF IInv, FilesOK
      <4>3. \A u \in Workers : txn'[u].pc \in CalcPCs => txn'[u].token # txn'[v].file
        BY <2>3, <4>1, <4>2
      <4>4. \A u \in Workers \ {v} : txn'[u].pc \in Uploading => txn'[u].file # txn'[v].file
        BY <1>2, <1>3, <4>1, <4>2
      <4> QED BY <1>2, <4>1, <4>2, <4>3, <4>4
    <3> QED BY <3>1, <3>2
  <2> QED BY <2>1, <2>3, <2>4 DEF FilesOK
<1>6. LockOK'
  BY <1>2, <1>3 DEF IInv, LockOK
<1>7. TokensOK'
  BY <1>2, <1>3 DEF IInv, TokensOK
<1>8. NoSheetLost'
  BY <1>2 DEF IInv, NoSheetLost
<1> QED BY <1>5, <1>6, <1>7, <1>8

LEMMA LockPeriodKeeps ==
  ASSUME IInv, NEW w \in Workers, LockPeriod(w)
  PROVE  FilesOK' /\ LockOK' /\ TokensOK' /\ NoSheetLost'
<1>1. CASE IsIncomplete(result.data, txn[w].parsed, txn[w].kind)
  <2>1. Continue(w, Idle)
    BY <1>1 DEF LockPeriod
  <2> QED BY <2>1, IdleType, QuietKeeps DEF Continue, Idle, Uploading, CalcPCs
<1>2. CASE ~ IsIncomplete(result.data, txn[w].parsed, txn[w].kind)
  <2>1. /\ txn'[w] = [txn[w] EXCEPT !.pc = "store", !.row = result]
        /\ \A v \in Workers \ {w} : txn'[v] = txn[v]
        /\ fileSeq' = fileSeq /\ result' = result /\ latest' = latest
    BY <1>2 DEF LockPeriod, Continue, IInv, CalcTypeOK
  <2>2. /\ txn'[w].pc = "store" /\ txn'[w].row = result
        /\ txn'[w].kind = txn[w].kind /\ txn'[w].file = txn[w].file
        /\ txn'[w].parsed = txn[w].parsed
    BY <2>1 DEF IInv, CalcTypeOK, Txn
  <2>3. txn[w].pc \in Uploading /\ txn'[w].pc \notin CalcPCs
    BY <2>2 DEF LockPeriod, Uploading, CalcPCs
  <2>4. FilesOK'
    <3>1. \A v \in Workers : /\ txn'[v].file = txn[v].file /\ txn'[v].kind = txn[v].kind
                             /\ txn'[v].pc \in Uploading => txn[v].pc \in Uploading
                             /\ txn'[v].pc \in CalcPCs =>
                                  txn[v].pc \in CalcPCs /\ txn'[v].token = txn[v].token
      BY <2>1, <2>2, <2>3
    <3> QED BY <2>1, <3>1 DEF IInv, FilesOK
  <2>5. LockOK'
    <3>1. \A v \in Workers \ {w} : txn[v].pc # "store"
      BY DEF LockPeriod, PeriodLockFree
    <3> QED BY <1>2, <2>1, <2>2, <3>1 DEF LockOK
  <2>6. TokensOK'
    BY <2>1, <2>2 DEF IInv, TokensOK
  <2>7. NoSheetLost'
    BY <2>1 DEF IInv, NoSheetLost
  <2> QED BY <2>4, <2>5, <2>6, <2>7
<1> QED BY <1>1, <1>2

(* What an upload that holds the lock writes *)
LEMMA StoreResultWrites ==
  ASSUME IInv, NEW w \in Workers, StoreResult(w)
  PROVE  /\ result'.file = txn[w].file
         /\ result'.data = Uploaded(result.data, txn[w].parsed, txn[w].kind)
         /\ txn[w].kind \in UploadKinds /\ txn[w].parsed \in ParsedData
         /\ ~ IsIncomplete(result.data, txn[w].parsed, txn[w].kind)
<1> DEFINE r == txn[w]
           object == [status |-> "pending", file |-> r.file, winning |-> 0,
                      data |-> Uploaded(r.row.data, r.parsed, r.kind)]
<1>1. r.row.data = result.data /\ r.row.file = result.file
      /\ ~ IsIncomplete(result.data, r.parsed, r.kind)
  BY DEF IInv, LockOK, StoreResult
<1>2. result' = Changed(r.row, object, result)
  BY DEF StoreResult
<1>3. result'.file = r.file /\ result'.data = Uploaded(result.data, r.parsed, r.kind)
  BY <1>1, <1>2 DEF Changed, Written
<1>4. r.kind \in UploadKinds
  BY DEF IInv, FilesOK, StoreResult, Uploading
<1>5. r.parsed \in ParsedData
  BY DEF IInv, CalcTypeOK, Txn
<1> QED BY <1>1, <1>3, <1>4, <1>5

LEMMA StoreResultKeeps ==
  ASSUME IInv, NEW w \in Workers, StoreResult(w)
  PROVE  FilesOK' /\ LockOK' /\ TokensOK' /\ NoSheetLost'
<1> DEFINE r == txn[w]
<1>1. /\ txn'[w] = [Idle EXCEPT !.pc = "start", !.token = r.file]
      /\ \A v \in Workers \ {w} : txn'[v] = txn[v]
      /\ fileSeq' = fileSeq /\ latest' = [latest EXCEPT ![r.kind] = r.parsed]
      /\ r.pc = "store"
  BY DEF StoreResult, IInv, CalcTypeOK
<1>2. txn'[w].pc = "start" /\ txn'[w].token = r.file
  BY <1>1, IdleType DEF Txn
<1>3. result'.file = r.file /\ result'.data = Uploaded(result.data, r.parsed, r.kind)
  BY StoreResultWrites
<1>4. /\ r.file <= fileSeq
      /\ \A v \in Workers \ {w} : txn[v].pc \in Uploading => txn[v].file # r.file
      /\ \A v \in Workers : txn[v].pc \in CalcPCs => txn[v].token # r.file
  BY <1>1 DEF IInv, FilesOK, Uploading
<1>5. FilesOK'
  <2>1. ASSUME NEW v \in Workers, txn'[v].pc \in Uploading
        PROVE  /\ txn'[v].kind \in UploadKinds
               /\ txn'[v].file <= fileSeq'
               /\ txn'[v].file # result'.file
               /\ \A u \in Workers \ {v} :
                    txn'[u].pc \in Uploading => txn'[u].file # txn'[v].file
               /\ \A u \in Workers : txn'[u].pc \in CalcPCs => txn'[u].token # txn'[v].file
    <3>1. v # w /\ txn'[v] = txn[v]
      BY <1>1, <1>2, <2>1 DEF Uploading
    <3>2. ASSUME NEW u \in Workers \ {v}, txn'[u].pc \in Uploading
          PROVE  txn'[u].file # txn'[v].file
      <4>1. u # w /\ txn'[u] = txn[u]
        BY <1>1, <1>2, <3>2 DEF Uploading
      <4> QED BY <2>1, <3>1, <3>2, <4>1 DEF IInv, FilesOK
    <3>3. \A u \in Workers : txn'[u].pc \in CalcPCs => txn'[u].token # txn'[v].file
      <4>1. txn[v].file # r.file
        BY <1>4, <2>1, <3>1
      <4>2. \A u \in Workers : txn[u].pc \in CalcPCs => txn[u].token # txn[v].file
        BY <2>1, <3>1 DEF IInv, FilesOK
      <4> QED BY <1>1, <1>2, <3>1, <4>1, <4>2
    <3> QED BY <1>1, <1>3, <1>4, <2>1, <3>1, <3>2, <3>3 DEF IInv, FilesOK
  <2>2. ASSUME NEW v \in Workers, txn'[v].pc \in CalcPCs PROVE txn'[v].token <= fileSeq'
    BY <1>1, <1>2, <1>4, <2>2 DEF IInv, FilesOK
  <2> QED BY <1>1, <1>3, <1>4, <2>1, <2>2 DEF FilesOK
<1>6. LockOK'
  <2>1. \A v \in Workers \ {w} : txn[v].pc # "store"
    BY <1>1 DEF IInv, LockOK
  <2>2. ASSUME NEW v \in Workers PROVE txn'[v].pc # "store"
    <3>1. CASE v = w
      BY <1>2, <3>1
    <3>2. CASE v # w
      BY <1>1, <2>1, <3>2
    <3> QED BY <3>1, <3>2
  <2> QED BY <2>2 DEF LockOK
<1>7. TokensOK'
  BY <1>1, <1>2, <1>3, <1>4 DEF IInv, TokensOK, CalcPCs
<1>8. NoSheetLost'
  <2>1. result.data \in ResultData
    BY DEF IInv, CalcTypeOK, ResultRow
  <2>2. ASSUME NEW k \in UploadKinds, NEW key \in Keys
        PROVE  result'.data[key][k] = latest'[k][key]
    <3>1. result'.data[key][k] = IF k = r.kind THEN r.parsed[key] ELSE result.data[key][k]
      BY <1>3, <2>1, StoreResultWrites, UploadedSlots
    <3>2. latest'[k] = IF k = r.kind THEN r.parsed ELSE latest[k]
      BY <1>1 DEF IInv, CalcTypeOK
    <3> QED BY <3>1, <3>2 DEF IInv, NoSheetLost
  <2> QED BY <2>2 DEF NoSheetLost
<1> QED BY <1>5, <1>6, <1>7, <1>8

(* A calculation goes on, and what it loaded is not touched.                 *)
LEMMA CalcGoesOn ==
  ASSUME IInv, NEW w \in Workers, NEW r \in Txn, UNCHANGED <<latest, fileSeq>>,
         result'.file = result.file, result'.data = result.data,
         txn' = [txn EXCEPT ![w] = r],
         txn[w].pc \in CalcPCs, r.pc \in CalcPCs,
         r.token = txn[w].token,
         r.pc \in {"tickets", "flush"} =>
           txn[w].pc \in {"tickets", "flush"} /\ r.row = txn[w].row,
         r.pc \in {"cleanup", "commit"} => r.row.file = r.token
  PROVE  FilesOK' /\ LockOK' /\ TokensOK' /\ NoSheetLost'
<1>1. r.pc \notin Uploading
  BY DEF CalcPCs, Uploading
<1>2. r.pc \in {"tickets", "flush"} /\ r.row.file # r.token => result.file # r.token
  BY DEF IInv, TokensOK
<1> QED BY <1>1, <1>2, QuietKeeps

(* Whoever ends, ends quietly. *)
LEMMA EndKeeps ==
  ASSUME IInv, NEW w \in Workers, UNCHANGED <<latest, fileSeq>>,
         result'.file = result.file, result'.data = result.data,
         NEW r \in Txn, r.pc \notin CalcPCs \cup Uploading, txn' = [txn EXCEPT ![w] = r]
  PROVE  FilesOK' /\ LockOK' /\ TokensOK' /\ NoSheetLost'
<1>1. r.pc \notin Uploading /\ r.pc \notin CalcPCs /\ r.pc \notin {"tickets", "flush"}
      /\ r.pc \notin {"cleanup", "commit"}
  BY DEF CalcPCs
<1> QED BY <1>1, QuietKeeps

(* Writing the row back without a new file or new data *)
LEMMA SameFile ==
  ASSUME NEW loaded, NEW object, result' = Changed(loaded, object, result),
         object.file = loaded.file, object.data = loaded.data
  PROVE  result'.file = result.file /\ result'.data = result.data
BY DEF Changed, Written

LEMMA RecalcKeeps ==
  ASSUME IInv, NEW w \in Workers, Recalculate(w) \/ ResetResult(w) \/ ReadToken(w)
  PROVE  FilesOK' /\ LockOK' /\ TokensOK' /\ NoSheetLost'
<1>1. txn[w] \in Txn /\ txn[w].row \in ResultRow /\ result \in ResultRow
  BY DEF IInv, CalcTypeOK, Txn
<1>2. CASE Recalculate(w)
  <2> DEFINE r == [Idle EXCEPT !.pc = "reset", !.row = result]
  <2>1. r \in Txn /\ r.pc = "reset"
    BY <1>1, IdleType DEF Txn, PCs
  <2>2. r.pc \notin CalcPCs \cup Uploading
    BY <2>1 DEF CalcPCs, Uploading
  <2>3. /\ txn' = [txn EXCEPT ![w] = r] /\ UNCHANGED <<latest, fileSeq>>
        /\ result'.file = result.file /\ result'.data = result.data
    BY <1>2 DEF Recalculate, Continue
  <2> HIDE DEF r
  <2> QED BY <2>1, <2>2, <2>3, EndKeeps
<1>3. CASE ResetResult(w)
  <2> DEFINE r == [Idle EXCEPT !.pc = "token"]
             object == [txn[w].row EXCEPT !.status = "pending", !.winning = 0]
  <2>1. r \in Txn /\ r.pc = "token"
    BY IdleType DEF Txn, PCs
  <2>2. r.pc \notin CalcPCs \cup Uploading
    BY <2>1 DEF CalcPCs, Uploading
  <2>3. object.file = txn[w].row.file /\ object.data = txn[w].row.data
    BY <1>1 DEF ResultRow
  <2>4. txn' = [txn EXCEPT ![w] = r] /\ UNCHANGED <<latest, fileSeq>>
        /\ result' = Changed(txn[w].row, object, result)
    BY <1>3 DEF ResetResult
  <2> HIDE DEF r, object
  <2> QED BY <2>1, <2>2, <2>3, <2>4, SameFile, EndKeeps
<1>4. CASE ReadToken(w)
  <2> DEFINE r == [txn[w] EXCEPT !.pc = "start", !.token = result.file]
  <2>1. result.file \in Nat
    BY <1>1 DEF ResultRow
  <2>2. r \in Txn /\ r.pc = "start" /\ r.token = result.file
    BY <1>1, <2>1 DEF Txn, PCs, CalcPCs
  <2>3. txn' = [txn EXCEPT ![w] = r] /\ UNCHANGED <<latest, fileSeq, result>>
    BY <1>4 DEF ReadToken, Continue
  <2>4. r.pc \notin Uploading
    BY <2>2 DEF Uploading
  <2> HIDE DEF r
  <2> QED BY <2>2, <2>3, <2>4, QuietKeeps
<1> QED BY <1>2, <1>3, <1>4

LEMMA CalculationKeeps ==
  ASSUME IInv, NEW w \in Workers,
         \/ StartCalc(w) \/ BeginCalc(w) \/ LoadTickets(w) \/ CheckNewest(w) \/ Cleanup(w)
         \/ FlushTicket(w) \/ \E t \in Tickets : CalculateTicket(w, t)
  PROVE  FilesOK' /\ LockOK' /\ TokensOK' /\ NoSheetLost'
<1> DEFINE r == txn'[w]
<1>1. txn[w] \in Txn /\ txn[w].row \in ResultRow
  BY DEF IInv, CalcTypeOK, Txn
<1>2. r \in Txn
  <2>1. [Next]_vars
    BY DEF Next, Statement
  <2> QED BY <2>1, NextType DEF IInv, CalcTypeOK
<1>3. UNCHANGED <<latest, fileSeq>> /\ txn' = [txn EXCEPT ![w] = r]
  BY DEF StartCalc, BeginCalc, LoadTickets, CheckNewest, Cleanup, CalculateTicket,
         FlushTicket, Continue, IInv, CalcTypeOK
<1>4. result'.file = result.file /\ result'.data = result.data
  <2>1. CASE BeginCalc(w)
    <3>1. /\ [txn[w].row EXCEPT !.status = "processing"].file = txn[w].row.file
          /\ [txn[w].row EXCEPT !.status = "processing"].data = txn[w].row.data
      BY <1>1 DEF ResultRow
    <3> QED BY <2>1, <3>1, SameFile DEF BeginCalc
  <2>2. CASE result' = result
    BY <2>2
  <2> QED BY <2>1, <2>2
          DEF StartCalc, LoadTickets, CheckNewest, Cleanup, CalculateTicket, FlushTicket,
              Continue
<1>5. txn[w].pc \in CalcPCs
  BY DEF StartCalc, BeginCalc, LoadTickets, CheckNewest, Cleanup, CalculateTicket, FlushTicket,
         CalcPCs
<1>6. CASE r = Idle
  <2>1. r.pc \notin CalcPCs \cup Uploading
    BY <1>6 DEF Idle, CalcPCs, Uploading
  <2> HIDE DEF r
  <2> QED BY <1>2, <1>3, <1>4, <2>1, EndKeeps
<1>7. CASE r # Idle /\ (StartCalc(w) \/ BeginCalc(w))
  <2>1. r.pc \in {"begin", "load"} /\ r.token = txn[w].token
    <3>1. CASE StartCalc(w)
      <4>1. r = [txn[w] EXCEPT !.pc = "begin", !.row = result]
        BY <1>7, <3>1 DEF StartCalc, Continue, IInv, CalcTypeOK
      <4> QED BY <1>1, <4>1 DEF Txn
    <3>2. CASE BeginCalc(w)
      <4>1. r = [txn[w] EXCEPT !.pc = "load"]
        BY <3>2 DEF BeginCalc, IInv, CalcTypeOK
      <4> QED BY <1>1, <4>1 DEF Txn
    <3> QED BY <1>7, <3>1, <3>2
  <2>2. r.pc \in CalcPCs /\ r.pc \notin {"tickets", "flush"}
        /\ r.pc \notin {"cleanup", "commit"}
    BY <2>1 DEF CalcPCs
  <2> HIDE DEF r
  <2> QED BY <1>2, <1>3, <1>4, <1>5, <2>1, <2>2, CalcGoesOn
<1>8. CASE LoadTickets(w)
  <2>1. r.pc = "tickets" /\ r.token = txn[w].token /\ r.row = result
    BY <1>1, <1>8 DEF LoadTickets, Continue, IInv, CalcTypeOK, Txn
  <2>2. r.pc \notin Uploading
    BY <2>1 DEF Uploading
  <2> HIDE DEF r
  <2> QED BY <1>2, <1>3, <1>4, <1>5, <2>1, <2>2, QuietKeeps
<1>9. CASE FlushTicket(w) \/ \E t \in Tickets : CalculateTicket(w, t)
  <2>1. /\ r.pc \in {"tickets", "flush"} /\ txn[w].pc \in {"tickets", "flush"}
        /\ r.token = txn[w].token /\ r.row = txn[w].row
    <3>1. CASE FlushTicket(w)
      <4>1. /\ txn[w].pc = "flush"
            /\ \E changes : r = [txn[w] EXCEPT !.pc = "tickets", !.wrote[txn[w].ticket] = changes]
        BY <3>1 DEF FlushTicket, Continue, IInv, CalcTypeOK
      <4> HIDE DEF r
      <4> QED BY <1>1, <4>1 DEF Txn
    <3>2. CASE \E t \in Tickets : CalculateTicket(w, t)
      <4>1. PICK t \in Tickets : CalculateTicket(w, t)
        BY <3>2
      <4> DEFINE Step(row, pc, doomed, rec) ==
                   [txn[w] EXCEPT !.new[t] = row, !.todo = @ \ {t},
                                  !.targets = @ \cup doomed, !.record = rec, !.pc = pc,
                                  !.ticket = t]
      <4>2. \E row, doomed, rec : \E pc \in {"tickets", "flush"} :
              Continue(w, Step(row, pc, doomed, rec))
        <5> DEFINE wins == SelectActiveOutcome(Bets[t], txn[w].row.data)
                   Row(rec) == Outcome(Bets[t], txn[w].row.data,
                                       ImageKept(t, txn[w].seen[t].image, wins, rec))
                   Doomed(rec) == IF wins \/ rec = None THEN {}
                                  ELSE {x \in {rec} : ~ records[x].checked}
                   Pc(rec) == IF Row(rec) = txn[w].seen[t] THEN "tickets" ELSE "flush"
        <5>1. PICK rec \in FirstRecord(t) :
                Continue(w, Step(Row(rec), Pc(rec), Doomed(rec), rec))
          BY <4>1 DEF CalculateTicket
        <5>2. Pc(rec) \in {"tickets", "flush"}
          OBVIOUS
        <5> HIDE DEF Row, Doomed, Step, Pc
        <5> QED BY <5>1, <5>2
      <4>3. PICK row, doomed, rec, pc :
              pc \in {"tickets", "flush"} /\ r = Step(row, pc, doomed, rec)
        <5> HIDE DEF Step
        <5> QED BY <4>2 DEF Continue, IInv, CalcTypeOK
      <4>4. txn[w].pc = "tickets"
        BY <4>1 DEF CalculateTicket
      <4> HIDE DEF r
      <4>5. r.pc = pc /\ r.token = txn[w].token /\ r.row = txn[w].row
        BY <1>1, <4>3 DEF Txn
      <4> QED BY <4>3, <4>4, <4>5
    <3> QED BY <1>9, <3>1, <3>2
  <2>2. r.pc \in CalcPCs /\ r.pc \notin {"cleanup", "commit"}
    BY <2>1 DEF CalcPCs
  <2> HIDE DEF r
  <2> QED BY <1>2, <1>3, <1>4, <1>5, <2>1, <2>2, CalcGoesOn
<1>10. CASE r # Idle /\ CheckNewest(w)
  <2>1. /\ r.pc = "cleanup" /\ r.token = txn[w].token /\ r.row = txn[w].row
        /\ result.file = txn[w].token /\ txn[w].pc = "tickets"
    BY <1>1, <1>10 DEF CheckNewest, Continue, IInv, CalcTypeOK, Txn
  <2>2. r.row.file = r.token
    BY <2>1 DEF IInv, TokensOK
  <2>3. r.pc \in CalcPCs /\ r.pc \notin {"tickets", "flush"}
    BY <2>1 DEF CalcPCs
  <2> HIDE DEF r
  <2> QED BY <1>2, <1>3, <1>4, <1>5, <2>1, <2>2, <2>3, CalcGoesOn
<1>11. CASE Cleanup(w)
  <2>1. /\ r.pc = "commit" /\ r.token = txn[w].token /\ r.row = txn[w].row
        /\ txn[w].pc = "cleanup"
    BY <1>1, <1>11 DEF Cleanup, Continue, IInv, CalcTypeOK, Txn
  <2>2. r.row.file = r.token
    BY <2>1 DEF IInv, TokensOK
  <2>3. r.pc \in CalcPCs /\ r.pc \notin {"tickets", "flush"}
    BY <2>1 DEF CalcPCs
  <2> HIDE DEF r
  <2> QED BY <1>2, <1>3, <1>4, <1>5, <2>1, <2>2, <2>3, CalcGoesOn
<1> QED BY <1>6, <1>7, <1>8, <1>9, <1>10, <1>11

LEMMA EndingsKeep ==
  ASSUME IInv, NEW w \in Workers,
         CommitCalc(w) \/ FailCalc(w) \/ MarkError(w) \/ Killed(w)
  PROVE  FilesOK' /\ LockOK' /\ TokensOK' /\ NoSheetLost'
<1>1. txn[w] \in Txn /\ txn[w].row \in ResultRow /\ result \in ResultRow
  BY DEF IInv, CalcTypeOK, Txn
<1>2. Idle.pc \notin CalcPCs \cup Uploading
  BY DEF Idle, CalcPCs, Uploading
<1>3. CASE CommitCalc(w)
  <2> DEFINE n == Cardinality({t \in Tickets : txn[w].new[t].winning})
             object == [txn[w].row EXCEPT !.status = "done", !.winning = n]
  <2>1. /\ result' = Changed(txn[w].row, object, result)
        /\ txn' = [txn EXCEPT ![w] = Idle] /\ UNCHANGED <<fileSeq, latest>>
    BY <1>3 DEF CommitCalc
  <2>2. object.file = txn[w].row.file /\ object.data = txn[w].row.data
    <3> HIDE DEF n
    <3> QED BY <1>1 DEF ResultRow
  <2> HIDE DEF object
  <2> QED BY <1>2, <2>1, <2>2, IdleType, SameFile, EndKeeps
<1>4. CASE Continue(w, Idle)
  BY <1>2, <1>4, IdleType, EndKeeps DEF Continue
<1>5. CASE Continue(w, [Idle EXCEPT !.pc = "failed", !.row = result])
  <2> DEFINE r == [Idle EXCEPT !.pc = "failed", !.row = result]
  <2>1. r \in Txn /\ r.pc = "failed"
    BY <1>1, IdleType DEF Txn, PCs
  <2>2. r.pc \notin CalcPCs \cup Uploading
    BY <2>1 DEF CalcPCs, Uploading
  <2>3. Continue(w, r)
    BY <1>5
  <2> HIDE DEF r
  <2> QED BY <2>1, <2>2, <2>3, EndKeeps DEF Continue
<1>6. CASE MarkError(w)
  <2>1. /\ [txn[w].row EXCEPT !.status = "error"].file = txn[w].row.file
        /\ [txn[w].row EXCEPT !.status = "error"].data = txn[w].row.data
    BY <1>1 DEF ResultRow
  <2>2. result'.file = result.file /\ result'.data = result.data
    BY <1>6, <2>1, SameFile DEF MarkError
  <2> QED BY <1>2, <1>6, <2>2, IdleType, EndKeeps DEF MarkError
<1> QED BY <1>3, <1>4, <1>5, <1>6 DEF FailCalc, Killed

LEMMA RecordsKeep ==
  ASSUME IInv, NEW w \in Workers,
         \/ ReadRecord(w) \/ StoreImage(w)
         \/ \E t \in Tickets, image \in Images : UploadImage(w, t, image)
  PROVE  FilesOK' /\ LockOK' /\ TokensOK' /\ NoSheetLost'
<1> DEFINE r == txn'[w]
<1>1. txn[w] \in Txn
  BY DEF IInv, CalcTypeOK
<1>2. r \in Txn
  <2>1. [Next]_vars
    BY DEF Next, Statement
  <2> QED BY <2>1, NextType DEF IInv, CalcTypeOK
<1>3. UNCHANGED <<result, latest, fileSeq>> /\ txn' = [txn EXCEPT ![w] = r]
  BY DEF ReadRecord, StoreImage, UploadImage, Continue, IInv, CalcTypeOK
<1>4. r.pc \in {"idle", "record", "image"}
  <2>1. Idle.pc = "idle"
    BY DEF Idle
  <2>2. CASE ReadRecord(w)
    <3>1. PICK rec : r = IF rec # None /\ records[rec].checked THEN Idle
                         ELSE [txn[w] EXCEPT !.pc = "image", !.record = rec]
      BY <2>2 DEF ReadRecord, Continue, IInv, CalcTypeOK
    <3>2. [txn[w] EXCEPT !.pc = "image", !.record = rec].pc = "image"
      BY <1>1 DEF Txn
    <3> QED BY <2>1, <3>1, <3>2
  <2>3. CASE StoreImage(w)
    BY <2>1, <2>3 DEF StoreImage, Continue, IInv, CalcTypeOK
  <2>4. CASE \E t \in Tickets, image \in Images : UploadImage(w, t, image)
    <3>1. PICK t \in Tickets, image \in Images :
            r = [Idle EXCEPT !.pc = "record", !.ticket = t, !.image = image]
      BY <2>4 DEF UploadImage, Continue, IInv, CalcTypeOK
    <3> QED BY <3>1, IdleType DEF Txn
  <2> QED BY <2>2, <2>3, <2>4
<1>5. r.pc \notin CalcPCs \cup Uploading
  BY <1>4 DEF CalcPCs, Uploading
<1> HIDE DEF r
<1> QED BY <1>2, <1>3, <1>5, EndKeeps

(* Every step keeps it.                                                      *)
LEMMA NextInv ==
  ASSUME IInv, [Next]_vars
  PROVE  IInv'
<1>1. CalcTypeOK'
  BY NextType DEF IInv
<1> SUFFICES FilesOK' /\ LockOK' /\ TokensOK' /\ NoSheetLost'
  BY <1>1 DEF IInv
<1>2. ASSUME NEW w \in Workers, Upload(w) \/ Recalculate(w) \/ Statement(w)
      PROVE  FilesOK' /\ LockOK' /\ TokensOK' /\ NoSheetLost'
  <2>1. CASE Upload(w)
    BY <2>1, UploadKeeps
  <2>2. CASE LockPeriod(w)
    BY <2>2, LockPeriodKeeps
  <2>3. CASE StoreResult(w)
    BY <2>3, StoreResultKeeps
  <2>4. CASE Recalculate(w) \/ ResetResult(w) \/ ReadToken(w)
    BY <2>4, RecalcKeeps
  <2>5. CASE \/ StartCalc(w) \/ BeginCalc(w) \/ LoadTickets(w) \/ CheckNewest(w) \/ Cleanup(w)
             \/ FlushTicket(w) \/ \E t \in Tickets : CalculateTicket(w, t)
    BY <2>5, CalculationKeeps
  <2>6. CASE CommitCalc(w) \/ FailCalc(w) \/ MarkError(w) \/ Killed(w)
    BY <2>6, EndingsKeep
  <2>7. CASE ReadRecord(w) \/ StoreImage(w)
    BY <2>7, RecordsKeep
  <2> QED BY <1>2, <2>1, <2>2, <2>3, <2>4, <2>5, <2>6, <2>7 DEF Statement
<1>3. ASSUME NEW w \in Workers, NEW t \in Tickets, NEW image \in Images,
             UploadImage(w, t, image)
      PROVE  FilesOK' /\ LockOK' /\ TokensOK' /\ NoSheetLost'
  BY <1>3, RecordsKeep
<1>4. CASE UNCHANGED <<result, fileSeq, txn, latest>>
  BY <1>4 DEF IInv, FilesOK, LockOK, TokensOK, NoSheetLost
<1>5. UNCHANGED vars \/ (\E rec \in RecordIds : MarkChecked(rec)) =>
        UNCHANGED <<result, fileSeq, txn, latest>>
  BY DEF vars, MarkChecked
<1> QED BY <1>2, <1>3, <1>4, <1>5 DEF Next

(* The inductive invariant holds at first.                                   *)
LEMMA InitInv == Init => IInv
<1> SUFFICES ASSUME Init PROVE IInv
  OBVIOUS
<1>1. CalcTypeOK
  BY InitType
<1>2. \A w \in Workers : txn[w] = Idle /\ txn[w].pc = "idle"
  BY DEF Init, Idle
<1>3. result.file = 0 /\ fileSeq = 0
  <2>1. CASE NothingYet
    BY <2>1 DEF Init, NothingYet, NoResult
  <2>2. CASE Calculated
    BY <2>2 DEF Init, Calculated, CalculatedFrom
  <2> QED BY <2>1, <2>2 DEF Init
<1>4. FilesOK /\ LockOK /\ TokensOK
  BY <1>2, <1>3 DEF FilesOK, LockOK, TokensOK, Uploading, CalcPCs
<1>5. NoSheetLost
  <2>1. CASE NothingYet
    BY <2>1 DEF NothingYet, NoResult, NoData, NoEntry, NothingParsed, NoSheetLost
  <2>2. CASE Calculated
    <3>1. PICK lines \in Sheets, kind \in UploadKinds, S \in SUBSET Tickets,
               image \in Images, of \in [RecordIds -> Tickets \cup {None}] :
            CalculatedFrom(ParseLines(lines), kind, S, image, of)
      BY <2>2 DEF Calculated
    <3> DEFINE parsed == ParseLines(lines)
    <3>2. parsed \in ParsedData
      BY CalcAssumption
    <3>3. result.data = Uploaded(NoData, parsed, kind)
          /\ latest = [[k \in UploadKinds |-> NothingParsed] EXCEPT ![kind] = parsed]
      BY <3>1 DEF CalculatedFrom
    <3> HIDE DEF parsed
    <3>4. NoData \in ResultData
      BY DEF NoData, ResultData, Entry, NoEntry, Slot
    <3>5. ASSUME NEW k \in UploadKinds, NEW key \in Keys
          PROVE  result.data[key][k] = latest[k][key]
      <4>1. result.data[key][k] = IF k = kind THEN parsed[key] ELSE NoData[key][k]
        BY <3>2, <3>3, <3>4, UploadedSlots
      <4>2. NoData[key][k] = NothingParsed[key]
        BY DEF NoData, NoEntry, NothingParsed
      <4> QED BY <3>3, <4>1, <4>2
    <3> QED BY <3>5 DEF NoSheetLost
  <2> QED BY <2>1, <2>2 DEF Init
<1> QED BY <1>1, <1>4, <1>5 DEF IInv

-----------------------------------------------------------------------------
(* Steps and data *)

(* Only the store of an upload changes the data of the row.                  *)
LEMMA DataChanges ==
  ASSUME IInv, [Next]_vars
  PROVE  result'.data = result.data \/ \E w \in Workers : StoreResult(w)
<1>1. ASSUME NEW w \in Workers, ResetResult(w) \/ BeginCalc(w) \/ CommitCalc(w) \/ MarkError(w)
      PROVE  result'.data = result.data
  <2>1. txn[w].row \in ResultRow
    BY DEF IInv, CalcTypeOK, Txn
  <2>2. CASE CommitCalc(w)
    <3> DEFINE n == Cardinality({t \in Tickets : txn[w].new[t].winning})
               object == [txn[w].row EXCEPT !.status = "done", !.winning = n]
    <3>1. result' = Changed(txn[w].row, object, result)
      BY <2>2 DEF CommitCalc
    <3>2. object.file = txn[w].row.file /\ object.data = txn[w].row.data
      <4> HIDE DEF n
      <4> QED BY <2>1 DEF ResultRow
    <3> HIDE DEF object
    <3> QED BY <3>1, <3>2, SameFile
  <2>3. ASSUME NEW status, NEW winning,
               \/ result' = Changed(txn[w].row, [txn[w].row EXCEPT !.status = status], result)
               \/ result' = Changed(txn[w].row, [txn[w].row EXCEPT !.status = status,
                                                    !.winning = winning], result)
        PROVE  result'.data = result.data
    <3>1. /\ [txn[w].row EXCEPT !.status = status].data = txn[w].row.data
          /\ [txn[w].row EXCEPT !.status = status, !.winning = winning].data
               = txn[w].row.data
      BY <2>1 DEF ResultRow
    <3> QED BY <2>3, <3>1 DEF Changed, Written
  <2> QED BY <1>1, <2>2, <2>3 DEF ResetResult, BeginCalc, MarkError
<1>2. CASE result' = result
  BY <1>2
<1>3. ASSUME NEW w \in Workers, Statement(w), result' # result
      PROVE  StoreResult(w) \/ ResetResult(w) \/ BeginCalc(w) \/ CommitCalc(w) \/ MarkError(w)
  BY <1>3 DEF Statement, LockPeriod, ReadToken, StartCalc, LoadTickets, CalculateTicket,
              FlushTicket, CheckNewest, Cleanup, FailCalc, Killed, ReadRecord, StoreImage, Continue
<1>4. ASSUME NEW w \in Workers, Upload(w) \/ Recalculate(w)
                \/ \E t \in Tickets, image \in Images : UploadImage(w, t, image)
      PROVE  result' = result
  BY <1>4 DEF Upload, UploadResult, Recalculate, UploadImage, Continue
<1>5. (\E rec \in RecordIds : MarkChecked(rec)) \/ UNCHANGED vars => result' = result
  BY DEF MarkChecked, vars
<1> QED BY <1>1, <1>2, <1>3, <1>4, <1>5 DEF Next

LEMMA EntriesStayStep ==
  ASSUME IInv, [Next]_vars, NEW k \in UploadKinds,
         NEW key \in CollectUploadKindKeys(result.data, k)
  PROVE  result'.data[key][k].result # None
<1>1. key \in Keys /\ result.data \in ResultData /\ result.data[key][k].sp # None
  BY DEF CollectUploadKindKeys, IInv, CalcTypeOK, ResultRow
<1>2. CASE result'.data = result.data
  <2>1. result.data[key][k] \in Slot
    BY <1>1 DEF ResultData, Entry
  <2>2. \A s \in Slot : s.sp # None => s.result # None
    BY MatchAssumption DEF Slot, NoSlot
  <2> QED BY <1>1, <1>2, <2>1, <2>2
<1>3. CASE \E w \in Workers : StoreResult(w)
  <2>1. PICK w \in Workers : StoreResult(w)
    BY <1>3
  <2> QED BY <1>1, <2>1, StoreResultWrites, AcceptedSheetsAreComplete
<1> QED BY <1>2, <1>3, DataChanges

-----------------------------------------------------------------------------
(* Checked evidence *)

(* Records change only where a calculation or an image upload put its mark.  *)
LEMMA SettledRecordStays ==
  ASSUME CalcTypeOK, [Next]_vars, NEW r \in RecordIds, Settled(r)
  PROVE  records'[r] = records[r]
<1>1. r # None /\ records \in [RecordIds -> RecordRow]
  BY CalcAssumption DEF CalcTypeOK
<1>2. ASSUME NEW w \in Workers, CommitCalc(w) PROVE records'[r] = records[r]
  BY <1>2 DEF CommitCalc, Settled
<1>3. ASSUME NEW w \in Workers, StoreImage(w) PROVE records'[r] = records[r]
  <2>1. txn[w].pc = "image" /\ txn[w].record # r
    BY <1>3 DEF StoreImage, Settled
  <2>2. \/ UNCHANGED records
        \/ \E row : records' = [records EXCEPT ![txn[w].record] = row]
        \/ \E rec, row : records[rec].state = "unused"
                         /\ records' = [records EXCEPT ![rec] = row]
    BY <1>3 DEF StoreImage, Continue
  <2>3. records[r].state # "unused"
    BY DEF Settled
  <2> QED BY <1>1, <2>1, <2>2, <2>3
<1>4. ASSUME NEW rec \in RecordIds, MarkChecked(rec) PROVE records'[r] = records[r]
  <2>1. rec # r
    BY <1>4 DEF MarkChecked, Settled
  <2> QED BY <1>1, <1>4, <2>1 DEF MarkChecked
<1>5. ASSUME NEW w \in Workers, Statement(w), ~ CommitCalc(w), ~ StoreImage(w)
      PROVE  records' = records
  BY <1>5 DEF Statement, LockPeriod, StoreResult, ResetResult, ReadToken, StartCalc,
              BeginCalc, LoadTickets, CalculateTicket, FlushTicket, CheckNewest, Cleanup, FailCalc,
              MarkError, Killed, ReadRecord, Continue
<1>6. ASSUME NEW w \in Workers, Upload(w) \/ Recalculate(w)
                \/ \E t \in Tickets, image \in Images : UploadImage(w, t, image)
      PROVE  records' = records
  BY <1>6 DEF Upload, UploadResult, Recalculate, UploadImage, Continue
<1>7. UNCHANGED vars => records' = records
  BY DEF vars
<1> QED BY <1>2, <1>3, <1>4, <1>5, <1>6, <1>7 DEF Next

(* Nobody chooses a checked record to delete it or to replace its image.     *)
LEMMA SettledIsLeftAlone ==
  ASSUME CalcTypeOK, FilesOK, [Next]_vars, NEW r \in RecordIds, Settled(r), NEW v \in Workers
  PROVE  r \notin txn'[v].targets /\ (txn'[v].pc = "image" => txn'[v].record # r)
<1> DEFINE Safe(t) == r \notin t.targets /\ (t.pc = "image" => t.record # r)
<1> SUFFICES Safe(txn'[v])
  OBVIOUS
<1>1. Safe(txn[v]) /\ txn[v] \in Txn
  BY DEF Settled, CalcTypeOK
<1>2. Safe(Idle) /\ r # None
  BY CalcAssumption DEF Idle
<1>3. CASE txn'[v] = txn[v] \/ txn'[v] = Idle
  BY <1>1, <1>2, <1>3
<1>4. ASSUME NEW w \in Workers, NEW x, txn' = [txn EXCEPT ![w] = x], Safe(x)
      PROVE  Safe(txn'[v])
  BY <1>1, <1>4 DEF CalcTypeOK
<1>5. ASSUME NEW w \in Workers PROVE txn[w] \in Txn /\ Safe(txn[w])
  BY DEF Settled, CalcTypeOK
<1>6. ASSUME NEW w \in Workers, Upload(w) PROVE Safe(txn'[v])
  <2>1. PICK lines, kind, n :
          txn' = [txn EXCEPT ![w] = [Idle EXCEPT !.pc = "lock", !.kind = kind,
                                       !.parsed = ParseLines(lines), !.file = n]]
    BY <1>6 DEF Upload, UploadResult
  <2>2. Safe([Idle EXCEPT !.pc = "lock", !.kind = kind, !.parsed = ParseLines(lines),
                          !.file = n])
    BY <1>2, IdleType DEF Txn
  <2> HIDE DEF Safe
  <2> QED BY <1>4, <2>1, <2>2
<1>7. ASSUME NEW w \in Workers, NEW t \in Tickets, NEW image \in Images,
             UploadImage(w, t, image)
      PROVE  Safe(txn'[v])
  <2>1. Safe([Idle EXCEPT !.pc = "record", !.ticket = t, !.image = image])
    BY <1>2, IdleType DEF Txn
  <2> HIDE DEF Safe
  <2> QED BY <1>4, <1>7, <2>1 DEF UploadImage, Continue
<1>8. ASSUME NEW w \in Workers, NEW pc, pc # "image", NEW row, NEW token
      PROVE  /\ Safe([txn[w] EXCEPT !.pc = pc])
             /\ Safe([txn[w] EXCEPT !.pc = pc, !.row = row])
             /\ Safe([txn[w] EXCEPT !.pc = pc, !.token = token])
             /\ Safe([Idle EXCEPT !.pc = pc])
             /\ Safe([Idle EXCEPT !.pc = pc, !.row = row])
             /\ Safe([Idle EXCEPT !.pc = pc, !.token = token])
  BY <1>2, <1>5, <1>8, IdleType DEF Txn
<1>9. ASSUME NEW w \in Workers,
             \/ Recalculate(w) \/ LockPeriod(w) \/ StoreResult(w) \/ ResetResult(w)
             \/ ReadToken(w) \/ StartCalc(w) \/ BeginCalc(w) \/ CheckNewest(w)
             \/ CommitCalc(w) \/ FailCalc(w) \/ MarkError(w) \/ Killed(w) \/ StoreImage(w)
      PROVE  Safe(txn'[v])
  <2>1. \E y : txn' = [txn EXCEPT ![w] = y] /\ Safe(y)
    <3> HIDE DEF Safe
    <3>1. CASE Recalculate(w) \/ LockPeriod(w) \/ StartCalc(w) \/ FailCalc(w)
      <4>1. /\ Safe([Idle EXCEPT !.pc = "reset", !.row = result])
            /\ Safe([txn[w] EXCEPT !.pc = "store", !.row = result])
            /\ Safe([txn[w] EXCEPT !.pc = "begin", !.row = result])
            /\ Safe([Idle EXCEPT !.pc = "failed", !.row = result])
        BY <1>8
      <4> QED BY <1>2, <3>1, <4>1 DEF Recalculate, LockPeriod, StartCalc, FailCalc, Continue
    <3>2. CASE StoreResult(w) \/ ResetResult(w) \/ ReadToken(w) \/ BeginCalc(w)
      <4>1. /\ Safe([Idle EXCEPT !.pc = "start", !.token = txn[w].file])
            /\ Safe([Idle EXCEPT !.pc = "token"])
            /\ Safe([txn[w] EXCEPT !.pc = "start", !.token = result.file])
            /\ Safe([txn[w] EXCEPT !.pc = "load"])
        BY <1>8
      <4> QED BY <3>2, <4>1 DEF StoreResult, ResetResult, ReadToken, BeginCalc, Continue
    <3>3. CASE CheckNewest(w) \/ CommitCalc(w) \/ MarkError(w) \/ Killed(w) \/ StoreImage(w)
      BY <1>2, <1>8, <3>3
         DEF CheckNewest, CommitCalc, MarkError, Killed, StoreImage, Continue
    <3> QED BY <1>9, <3>1, <3>2, <3>3
  <2> HIDE DEF Safe
  <2> QED BY <1>4, <2>1
<1>10. ASSUME NEW w \in Workers, LoadTickets(w) PROVE Safe(txn'[v])
  <2>1. Safe([txn[w] EXCEPT !.pc = "tickets", !.row = result, !.seen = tix, !.new = tix,
                            !.todo = Tickets])
    BY <1>5 DEF Txn
  <2> HIDE DEF Safe
  <2> QED BY <1>4, <1>10, <2>1 DEF LoadTickets, Continue
<1>11. ASSUME NEW w \in Workers, NEW t \in Tickets, CalculateTicket(w, t)
       PROVE  Safe(txn'[v])
  <2> DEFINE wins == SelectActiveOutcome(Bets[t], txn[w].row.data)
             Row(rec) == Outcome(Bets[t], txn[w].row.data,
                                 ImageKept(t, txn[w].seen[t].image, wins, rec))
             Doomed(rec) == IF wins \/ rec = None THEN {}
                            ELSE {x \in {rec} : ~ records[x].checked}
             Pc(rec) == IF Row(rec) = txn[w].seen[t] THEN "tickets" ELSE "flush"
             Step(row, pc, doomed, rec) ==
               [txn[w] EXCEPT !.new[t] = row, !.todo = @ \ {t}, !.targets = @ \cup doomed,
                              !.record = rec, !.pc = pc, !.ticket = t]
  <2>1. PICK rec \in FirstRecord(t) : Continue(w, Step(Row(rec), Pc(rec), Doomed(rec), rec))
    BY <1>11 DEF CalculateTicket
  <2>2. r \notin Doomed(rec)
    BY DEF Settled
  <2>3. Pc(rec) # "image"
    OBVIOUS
  <2> HIDE DEF Row, Doomed, Pc
  <2>4. ASSUME NEW row, NEW pc, pc # "image" PROVE Safe(Step(row, pc, Doomed(rec), rec))
    BY <1>5, <2>2, <2>4 DEF Txn
  <2> HIDE DEF Safe, Step
  <2> QED BY <1>4, <2>1, <2>3, <2>4 DEF Continue
<1>12. ASSUME NEW w \in Workers, Cleanup(w) PROVE Safe(txn'[v])
  <2>1. PICK targets, wrote, new :
          /\ targets \subseteq txn[w].targets
          /\ Continue(w, [txn[w] EXCEPT !.pc = "commit", !.targets = targets,
                                        !.wrote = wrote, !.new = new])
    BY <1>12, Zenon DEF Cleanup
  <2>2. Safe([txn[w] EXCEPT !.pc = "commit", !.targets = targets, !.wrote = wrote,
                            !.new = new])
    BY <1>5, <2>1 DEF Txn
  <2> HIDE DEF Safe
  <2> QED BY <1>4, <2>1, <2>2 DEF Continue
<1>13. ASSUME NEW w \in Workers, ReadRecord(w) PROVE Safe(txn'[v])
  <2>1. PICK rec \in FirstRecord(txn[w].ticket) :
          Continue(w, IF rec # None /\ records[rec].checked THEN Idle
                      ELSE [txn[w] EXCEPT !.pc = "image", !.record = rec])
    BY <1>13 DEF ReadRecord
  <2>2. CASE Continue(w, Idle)
    BY <1>2, <1>4, <2>2 DEF Continue
  <2>3. CASE /\ ~ (rec # None /\ records[rec].checked)
             /\ Continue(w, [txn[w] EXCEPT !.pc = "image", !.record = rec])
    <3>1. rec # r
      BY <1>2, <2>3 DEF Settled
    <3>2. Safe([txn[w] EXCEPT !.pc = "image", !.record = rec])
      BY <1>5, <3>1 DEF Txn
    <3> HIDE DEF Safe
    <3> QED BY <1>4, <2>3, <3>2 DEF Continue
  <2> QED BY <2>1, <2>2, <2>3
<1>14. (\E rec \in RecordIds : MarkChecked(rec)) \/ UNCHANGED vars => txn' = txn
  BY DEF MarkChecked, vars
<1>15. ASSUME NEW w \in Workers, FlushTicket(w) PROVE Safe(txn'[v])
  <2>1. PICK changes :
          Continue(w, [txn[w] EXCEPT !.pc = "tickets", !.wrote[txn[w].ticket] = changes])
    BY <1>15 DEF FlushTicket
  <2>2. Safe([txn[w] EXCEPT !.pc = "tickets", !.wrote[txn[w].ticket] = changes])
    BY <1>5 DEF Txn
  <2> HIDE DEF Safe
  <2> QED BY <1>4, <2>1, <2>2 DEF Continue
<1> HIDE DEF Safe
<1> QED BY <1>3, <1>6, <1>7, <1>9, <1>10, <1>11, <1>12, <1>13, <1>14, <1>15
        DEF Next, Statement

-----------------------------------------------------------------------------
(* Theorems *)

(* The inductive invariant holds in every reachable state.                   *)
THEOREM CalcInvariant == Spec => []IInv
BY InitInv, NextInv, PTL DEF Spec

(* Every row and transaction record keeps its shape.                         *)
THEOREM CalcTypeCorrect == Spec => []CalcTypeOK
<1>1. IInv => CalcTypeOK
  BY DEF IInv
<1> QED BY <1>1, CalcInvariant, PTL

(* No accepted sheet is lost, however uploads of either kind interleave:     *)
(* parse_result_file reads the row it merges into under the period's lock.   *)
THEOREM UploadsAreKept == Spec => []NoSheetLost
<1>1. IInv => NoSheetLost
  BY DEF IInv
<1> QED BY <1>1, CalcInvariant, PTL

(* A calculation past its second check works on the file it was started for. *)
THEOREM OwnFile == Spec => []CalculatesItsOwnFile
<1>1. IInv => CalculatesItsOwnFile
  BY DEF IInv, TokensOK, CalculatesItsOwnFile
<1> QED BY <1>1, CalcInvariant, PTL

(* An entry known by SP never loses its result of that kind.                 *)
THEOREM EntriesAreKept == Spec => EntriesStay
<1>1. IInv /\ [Next]_vars =>
        [\A k \in UploadKinds : \A key \in CollectUploadKindKeys(result.data, k) :
           result'.data[key][k].result # None]_vars
  BY EntriesStayStep
<1> QED BY <1>1, CalcInvariant, PTL DEF Spec, EntriesStay

(* A ticket is decided by the final results once they are complete for it,   *)
(* and by the prediction until then, in every state of the stored data.      *)
THEOREM FinalFirst == Spec => []FinalDecidesFirst
<1>1. IInv => FinalDecidesFirst
  <2>1. IInv => result.data \in ResultData
    BY DEF IInv, CalcTypeOK, ResultRow
  <2>2. \A t \in Tickets : Bets[t] \in Bet
    BY CalcAssumption
  <2> QED BY <2>1, <2>2, FinalResultsDecide DEF FinalDecidesFirst
<1> QED BY <1>1, CalcInvariant, PTL

(* Checked evidence that no request had chosen before is never deleted or    *)
(* replaced.                                                                 *)
THEOREM EvidenceIsKept == Spec => SettledEvidenceStays
<1>1. ASSUME IInv, [Next]_vars, NEW r \in RecordIds, Settled(r)
      PROVE  Settled(r)' /\ records'[r].image = records[r].image
  <2>1. records'[r] = records[r]
    BY <1>1, SettledRecordStays DEF IInv
  <2>2. \A v \in Workers :
          r \notin txn'[v].targets /\ (txn'[v].pc = "image" => txn'[v].record # r)
    BY <1>1, SettledIsLeftAlone DEF IInv
  <2> QED BY <1>1, <2>1, <2>2 DEF Settled
<1>2. IInv /\ [Next]_vars =>
        [\A r \in RecordIds :
           Settled(r) => Settled(r)' /\ records'[r].image = records[r].image]_vars
  BY <1>1
<1> QED BY <1>2, CalcInvariant, PTL DEF Spec, SettledEvidenceStays
-----------------------------------------------------------------------------
(***************************************************************************)
(* Images, while no image is uploaded.  What a calculation will write is   *)
(* right for the records there are: a ticket whose image it leaves has no  *)
(* record among its targets, and a row whose image it changes is locked by *)
(* it, so no other calculation deletes that ticket's record.  Only the     *)
(* ticket it has not flushed yet is not locked: its image can but go.      *)
(***************************************************************************)
Writing == {"tickets", "flush", "cleanup", "commit"}

RecordsOK ==
  /\ \A x \in RecordIds :
       records[x].state = "live" => records[x].ticket \in Tickets /\ records[x].image \in Images
  /\ \A t \in Tickets : \A x, y \in RecordsOf(t) : x = y

RowsExclusive ==
  \A w \in Workers : \A v \in Workers \ {w} : \A t \in Tickets :
    txn[w].wrote[t] = {} \/ txn[v].wrote[t] = {}

Quiet(r) == r.targets = {} /\ \A t \in Tickets : r.wrote[t] = {}

Writes(r, t) == IF r.pc = "flush" /\ t = r.ticket THEN Difference(r.new[t], r.seen[t])
                ELSE r.wrote[t]

ImageOK(r, t) ==
  IF "image" \in Writes(r, t)
  THEN /\ RecordsOf(t) = {} => r.new[t].image = None
       /\ \A x \in RecordsOf(t) :
            r.new[t].image = IF x \in r.targets THEN None ELSE records[x].image
  ELSE RecordsOf(t) \cap r.targets = {}

CalculationOK(r) ==
  /\ r.pc \notin {"record", "image"}
  /\ r.pc \notin Writing => Quiet(r)
  /\ r.pc \in {"tickets", "flush"} =>
       /\ \A t \in r.todo : r.wrote[t] = {}
       /\ \A t \in Tickets : \A x \in RecordsOf(t) : r.seen[t].image = records[x].image
  /\ \A t \in Tickets : ImageOK(r, t)
  /\ r.pc = "flush" => r.ticket \notin r.todo
  /\ \A t \in Tickets : r.pc = "flush" /\ t = r.ticket /\ "image" \in Writes(r, t) =>
                         r.new[t].image = None

SyncInv ==
  ImagesInSync /\ RecordsOK /\ RowsExclusive /\ \A w \in Workers : CalculationOK(txn[w])

(* Who has neither read tickets nor written any is no danger to the images.  *)
LEMMA QuietIsOK ==
  ASSUME NEW r, Quiet(r), r.pc \notin Writing \cup {"record", "image"}
  PROVE  CalculationOK(r)
BY DEF CalculationOK, Quiet, ImageOK, Writing, Writes

(* A step that changes neither rows nor records, but one worker's record.    *)
LEMMA LocalStep ==
  ASSUME CalcTypeOK, SyncInv, NEW w \in Workers, NEW y, CalculationOK(y),
         txn' = [txn EXCEPT ![w] = y], UNCHANGED <<tix, records>>,
         \A t \in Tickets : y.wrote[t] # {} => RowFree(w, t)
  PROVE  SyncInv'
<1>1. \A t \in Tickets : RecordsOf(t)' = RecordsOf(t)
  BY DEF RecordsOf
<1>2. ImagesInSync' /\ RecordsOK'
  BY <1>1 DEF SyncInv, ImagesInSync, RecordsOK
<1>3. \A v \in Workers : txn'[v] = IF v = w THEN y ELSE txn[v]
  BY DEF CalcTypeOK
<1>4. RowsExclusive'
  BY <1>3 DEF RowsExclusive, RowFree, SyncInv
<1>5. ASSUME NEW v \in Workers PROVE CalculationOK(txn[v])'
  <2>1. CalculationOK(txn'[v])
    BY <1>3 DEF SyncInv
  <2> QED BY <2>1, <1>1 DEF CalculationOK, ImageOK, Quiet, Writes
<1> QED BY <1>2, <1>4, <1>5 DEF SyncInv

(* Nor is a step to such a place.                                            *)
LEMMA QuietStep ==
  ASSUME CalcTypeOK, SyncInv, NEW w \in Workers, NEW y,
         Quiet(y), y.pc \notin Writing \cup {"record", "image"},
         txn' = [txn EXCEPT ![w] = y], UNCHANGED <<tix, records>>
  PROVE  SyncInv'
<1>1. CalculationOK(y)
  BY QuietIsOK
<1>2. \A t \in Tickets : y.wrote[t] # {} => RowFree(w, t)
  BY DEF Quiet
<1> QED BY <1>1, <1>2, LocalStep

(* An idle worker is there.                                                  *)
LEMMA IdleIsQuiet == Quiet(Idle) /\ Idle.pc \notin Writing \cup {"record", "image"}
BY DEF Quiet, Idle, Writing

(* The steps before a calculation has read its tickets, and those that end it. *)
LEMMA RequestsAreQuiet ==
  ASSUME IInv, SyncInv, NEW w \in Workers,
         \/ Upload(w) \/ Recalculate(w) \/ LockPeriod(w) \/ StoreResult(w) \/ ResetResult(w)
         \/ ReadToken(w) \/ StartCalc(w) \/ BeginCalc(w) \/ FailCalc(w) \/ MarkError(w)
         \/ Killed(w)
  PROVE  SyncInv'
<1>1. txn[w] \in Txn /\ CalcTypeOK /\ Quiet(Idle) /\ Idle \in Txn
  BY IdleType, IdleIsQuiet DEF IInv, CalcTypeOK
<1>2. txn[w].pc \notin Writing => Quiet(txn[w])
  BY DEF SyncInv, CalculationOK
<1> DEFINE Good(y) == Quiet(y) /\ y.pc \notin Writing \cup {"record", "image"}
<1>3. Good(Idle)
  BY IdleIsQuiet
<1> SUFFICES \E y : Good(y) /\ txn' = [txn EXCEPT ![w] = y] /\ UNCHANGED <<tix, records>>
  BY <1>1, QuietStep
<1>4. ASSUME NEW pc, pc \notin Writing \cup {"record", "image"}, NEW row, NEW token
      PROVE  /\ Good([Idle EXCEPT !.pc = pc])
             /\ Good([Idle EXCEPT !.pc = pc, !.row = row])
             /\ Good([Idle EXCEPT !.pc = pc, !.token = token])
             /\ Quiet(txn[w]) => Good([txn[w] EXCEPT !.pc = pc])
             /\ Quiet(txn[w]) => Good([txn[w] EXCEPT !.pc = pc, !.row = row])
             /\ Quiet(txn[w]) => Good([txn[w] EXCEPT !.pc = pc, !.token = token])
  BY <1>1, <1>4 DEF Quiet, Txn
<1>5. CASE Upload(w)
  <2>1. PICK lines, kind, n :
          /\ txn' = [txn EXCEPT ![w] = [Idle EXCEPT !.pc = "lock", !.kind = kind,
                                          !.parsed = ParseLines(lines), !.file = n]]
          /\ UNCHANGED <<tix, records>>
    BY <1>5 DEF Upload, UploadResult
  <2>2. Good([Idle EXCEPT !.pc = "lock", !.kind = kind, !.parsed = ParseLines(lines),
                          !.file = n])
    BY <1>1 DEF Quiet, Txn, Writing
  <2> HIDE DEF Good
  <2> QED BY <2>1, <2>2
<1>6. CASE Recalculate(w) \/ LockPeriod(w) \/ StartCalc(w) \/ FailCalc(w)
  <2>1. /\ Good([Idle EXCEPT !.pc = "reset", !.row = result])
        /\ Quiet(txn[w]) => Good([txn[w] EXCEPT !.pc = "store", !.row = result])
        /\ Quiet(txn[w]) => Good([txn[w] EXCEPT !.pc = "begin", !.row = result])
        /\ Good([Idle EXCEPT !.pc = "failed", !.row = result])
    BY <1>4 DEF Writing
  <2>2. LockPeriod(w) \/ StartCalc(w) => Quiet(txn[w])
    BY <1>2 DEF LockPeriod, StartCalc, Writing
  <2> HIDE DEF Good
  <2> QED BY <1>3, <1>6, <2>1, <2>2 DEF Recalculate, LockPeriod, StartCalc, FailCalc, Continue
<1>7. CASE StoreResult(w) \/ ResetResult(w) \/ ReadToken(w) \/ BeginCalc(w)
  <2>1. /\ Good([Idle EXCEPT !.pc = "start", !.token = txn[w].file])
        /\ Good([Idle EXCEPT !.pc = "token"])
        /\ Quiet(txn[w]) => Good([txn[w] EXCEPT !.pc = "start", !.token = result.file])
        /\ Quiet(txn[w]) => Good([txn[w] EXCEPT !.pc = "load"])
    BY <1>4 DEF Writing
  <2>2. ReadToken(w) \/ BeginCalc(w) => Quiet(txn[w])
    BY <1>2 DEF ReadToken, BeginCalc, Writing
  <2> HIDE DEF Good
  <2> QED BY <1>7, <2>1, <2>2 DEF StoreResult, ResetResult, ReadToken, BeginCalc, Continue
<1>8. CASE MarkError(w) \/ Killed(w)
  <2> HIDE DEF Good
  <2> QED BY <1>3, <1>8 DEF MarkError, Killed, Continue
<1> HIDE DEF Good
<1> QED BY <1>5, <1>6, <1>7, <1>8

(* A calculation loads tickets that agree with their records.                *)
LEMMA LoadingIsOK ==
  ASSUME IInv, SyncInv, NEW w \in Workers, LoadTickets(w)
  PROVE  SyncInv'
<1> DEFINE y == [txn[w] EXCEPT !.pc = "tickets", !.row = result, !.seen = tix, !.new = tix,
                               !.todo = Tickets]
<1>1. txn[w] \in Txn /\ CalcTypeOK
  BY DEF IInv, CalcTypeOK
<1>2. txn' = [txn EXCEPT ![w] = y] /\ UNCHANGED <<tix, records>>
  BY DEF LoadTickets, Continue
<1>3. Quiet(txn[w])
  BY DEF LoadTickets, SyncInv, CalculationOK, Writing
<1>4. y.pc = "tickets" /\ y.seen = tix /\ y.wrote = txn[w].wrote /\ y.targets = txn[w].targets
      /\ y.todo = Tickets
  BY <1>1 DEF Txn
<1> HIDE DEF y
<1>5. \A t \in Tickets : y.wrote[t] = {} /\ RecordsOf(t) \cap y.targets = {}
  BY <1>3, <1>4 DEF Quiet
<1>6. \A t \in Tickets : \A x \in RecordsOf(t) : y.seen[t].image = records[x].image
  BY <1>4 DEF SyncInv, ImagesInSync
<1>7. CalculationOK(y)
  BY <1>4, <1>5, <1>6 DEF CalculationOK, ImageOK, Writing, Writes
<1> QED BY <1>1, <1>2, <1>5, <1>7, LocalStep

(* Its second check leaves what it has loaded and will write alone.          *)
LEMMA NewestIsOK ==
  ASSUME IInv, SyncInv, NEW w \in Workers, CheckNewest(w)
  PROVE  SyncInv'
<1> DEFINE y == [txn[w] EXCEPT !.pc = "cleanup"]
<1>1. txn[w] \in Txn /\ CalcTypeOK /\ Quiet(Idle)
  BY IdleIsQuiet DEF IInv, CalcTypeOK
<1>2. CASE Continue(w, Idle)
  BY <1>1, <1>2, IdleIsQuiet, QuietStep DEF Continue
<1>3. CASE Continue(w, y)
  <2>1. y.pc = "cleanup" /\ y.wrote = txn[w].wrote /\ y.targets = txn[w].targets
        /\ y.new = txn[w].new
    BY <1>1 DEF Txn
  <2> HIDE DEF y
  <2>2. CalculationOK(y)
    BY <2>1 DEF SyncInv, CalculationOK, ImageOK, Writing, Writes, CheckNewest
  <2>3. \A t \in Tickets : y.wrote[t] # {} => RowFree(w, t)
    BY <2>1 DEF SyncInv, RowsExclusive, RowFree
  <2> QED BY <1>1, <1>3, <2>2, <2>3, LocalStep DEF Continue
<1> QED BY <1>2, <1>3 DEF CheckNewest

(* A ticket whose image the calculation changes loses it with its only       *)
(* record, which becomes a target.                                           *)
LEMMA CalculatingIsOK ==
  ASSUME IInv, SyncInv, NEW w \in Workers, NEW t \in Tickets, CalculateTicket(w, t)
  PROVE  SyncInv'
<1> DEFINE r == txn[w]
           wins == SelectActiveOutcome(Bets[t], r.row.data)
           Row(rec) == Outcome(Bets[t], r.row.data, ImageKept(t, r.seen[t].image, wins, rec))
           Changes(rec) == Difference(Row(rec), r.seen[t])
           Doomed(rec) == IF wins \/ rec = None THEN {}
                          ELSE {x \in {rec} : ~ records[x].checked}
           Pc(rec) == IF Row(rec) = r.seen[t] THEN "tickets" ELSE "flush"
           R(rec) == [r EXCEPT !.new[t] = Row(rec), !.todo = @ \ {t},
                               !.targets = @ \cup Doomed(rec), !.record = rec,
                               !.pc = Pc(rec), !.ticket = t]
<1>1. r \in Txn /\ CalcTypeOK /\ r.pc = "tickets" /\ t \in r.todo
  BY DEF IInv, CalcTypeOK, CalculateTicket
<1>2. PICK rec \in FirstRecord(t) : Continue(w, R(rec))
  BY DEF CalculateTicket
<1> DEFINE y == R(rec)
<1>3. /\ y.pc = Pc(rec) /\ y.ticket = t /\ y.seen = r.seen /\ y.todo = r.todo \ {t}
      /\ y.targets = r.targets \cup Doomed(rec)
      /\ y.new = [r.new EXCEPT ![t] = Row(rec)] /\ y.wrote = r.wrote
      /\ y.new[t] = Row(rec)
  <2> HIDE DEF Row, Pc, Doomed
  <2> QED BY <1>1 DEF Txn
<1>15. r.wrote[t] = {} /\ y.pc \in {"tickets", "flush"}
  <2>1. r.wrote[t] = {}
    BY <1>1 DEF SyncInv, CalculationOK
  <2> HIDE DEF Row, r, y
  <2> QED BY <1>3, <2>1
<1>16. Writes(y, t) = Changes(rec)
  <2>1. CASE Row(rec) = r.seen[t]
    <3>1. Changes(rec) = {} /\ Pc(rec) = "tickets"
      BY <2>1 DEF Difference
    <3> HIDE DEF Row, r, y, Pc, Changes
    <3> QED BY <1>3, <1>15, <3>1 DEF Writes
  <2>2. CASE Row(rec) # r.seen[t]
    <3>1. Pc(rec) = "flush"
      BY <2>2
    <3> HIDE DEF Row, r, y, Pc
    <3> QED BY <1>3, <3>1 DEF Writes
  <2> QED BY <2>1, <2>2
<1>0. None \notin RecordIds /\ None \notin Images
  BY CalcAssumption
<1>4. (rec = None /\ RecordsOf(t) = {}) \/ (rec \in RecordsOf(t) /\ rec # None)
  <2>1. RecordsOf(t) \subseteq RecordIds
    BY DEF RecordsOf
  <2>2. rec \in FirstRecord(t)
    BY <1>2
  <2> QED BY <1>0, <2>1, <2>2 DEF FirstRecord
<1>5. Doomed(rec) \subseteq RecordsOf(t) /\ (rec = None => Doomed(rec) = {})
  BY <1>4
<1>6. Row(rec).image = ImageKept(t, r.seen[t].image, wins, rec)
  <2> HIDE DEF wins
  <2> QED BY DEF Outcome
<1>7. "image" \in Changes(rec) <=> Row(rec).image # r.seen[t].image
  BY DEF Difference, Columns
<1>8. rec # None => r.seen[t].image = records[rec].image /\ records[rec].image # None
  <2>1. ASSUME rec \in RecordsOf(t) PROVE records[rec].image \in Images
    BY <2>1 DEF SyncInv, RecordsOK, RecordsOf
  <2>2. CalculationOK(r)
    BY DEF SyncInv
  <2>3. \A x \in RecordsOf(t) : r.seen[t].image = records[x].image
    BY <1>1, <2>2 DEF CalculationOK
  <2> QED BY <1>0, <1>4, <2>1, <2>3
<1> HIDE DEF Changes, Row, Pc, y, r
<1>9. ImageOK(y, t)
  <2>1. y.new[t] = Row(rec) /\ Writes(y, t) = Changes(rec)
    BY <1>3, <1>16
  <2>2. RecordsOf(t) \cap r.targets = {}
    BY <1>1, <1>15 DEF SyncInv, CalculationOK, ImageOK, Writes, r
  <2>3. \A x \in RecordsOf(t) : x = rec
    BY <1>4 DEF SyncInv, RecordsOK
  <2>4. CASE wins
    BY <1>3, <1>6, <1>7, <2>1, <2>2, <2>4 DEF ImageKept, ImageOK
  <2>5. CASE ~ wins /\ rec = None
    BY <1>3, <1>4, <1>6, <1>7, <2>1, <2>2, <2>5 DEF ImageKept, ImageOK
  <2>6. CASE ~ wins /\ rec # None /\ records[rec].checked
    BY <1>3, <1>4, <1>6, <1>7, <1>8, <2>1, <2>2, <2>6 DEF ImageKept, ImageOK
  <2>7. CASE ~ wins /\ rec # None /\ ~ records[rec].checked
    BY <1>3, <1>4, <1>6, <1>7, <1>8, <2>1, <2>2, <2>3, <2>7 DEF ImageKept, ImageOK
  <2> QED BY <2>4, <2>5, <2>6, <2>7
<1>10. ASSUME NEW s \in Tickets, s # t PROVE ImageOK(y, s)
  <2>1. y.new[s] = r.new[s] /\ Writes(y, s) = Writes(r, s)
    BY <1>1, <1>3, <1>10 DEF Txn, Writes
  <2>2. ImageOK(r, s)
    BY DEF SyncInv, CalculationOK, r
  <2>3. Doomed(rec) \cap RecordsOf(s) = {}
    BY <1>5, <1>10 DEF RecordsOf
  <2> HIDE DEF Doomed
  <2> QED BY <1>3, <2>1, <2>2, <2>3 DEF ImageOK
<1>11. "image" \in Changes(rec) => Row(rec).image = None
  <2>1. CASE wins \/ (rec # None /\ records[rec].checked)
    BY <1>6, <1>7, <1>8, <2>1 DEF ImageKept
  <2>2. CASE ~ wins /\ ~ (rec # None /\ records[rec].checked)
    BY <1>6, <2>2 DEF ImageKept
  <2> QED BY <2>1, <2>2
<1>12. CalculationOK(y)
  <2>1. \A s \in y.todo : y.wrote[s] = {}
    BY <1>1, <1>3 DEF SyncInv, CalculationOK, r
  <2>2. \A s \in Tickets : \A x \in RecordsOf(s) : y.seen[s].image = records[x].image
    BY <1>1, <1>3 DEF SyncInv, CalculationOK, r
  <2>3. \A s \in Tickets : y.pc = "flush" /\ s = y.ticket /\ "image" \in Writes(y, s) =>
                           y.new[s].image = None
    BY <1>3, <1>11, <1>16
  <2>4. y.ticket \notin y.todo
    BY <1>3
  <2> QED BY <1>9, <1>10, <1>15, <2>1, <2>2, <2>3, <2>4 DEF CalculationOK, Writing
<1>13. \A s \in Tickets : y.wrote[s] # {} => RowFree(w, s)
  BY <1>3 DEF SyncInv, RowsExclusive, RowFree, r
<1>14. Continue(w, y)
  BY <1>2 DEF y
<1> QED BY <1>1, <1>12, <1>13, <1>14, LocalStep DEF Continue

(* The flush locks the row of the ticket; what will be written stays.        *)
LEMMA FlushIsOK ==
  ASSUME IInv, SyncInv, NEW w \in Workers, FlushTicket(w)
  PROVE  SyncInv'
<1> DEFINE r == txn[w]
           changes == Difference(r.new[r.ticket], r.seen[r.ticket])
           y == [r EXCEPT !.pc = "tickets", !.wrote[r.ticket] = changes]
<1>1. r \in Txn /\ CalcTypeOK /\ r.pc = "flush" /\ RowFree(w, r.ticket)
  BY DEF IInv, CalcTypeOK, FlushTicket
<1>2. Continue(w, y)
  BY DEF FlushTicket
<1>3. /\ y.pc = "tickets" /\ y.seen = r.seen /\ y.new = r.new /\ y.todo = r.todo
      /\ y.targets = r.targets
      /\ \A t \in Tickets : y.wrote[t] = IF t = r.ticket THEN changes ELSE r.wrote[t]
  <2> HIDE DEF changes
  <2> QED BY <1>1 DEF Txn
<1>4. \A t \in Tickets : Writes(y, t) = y.wrote[t] /\ y.wrote[t] = Writes(r, t)
  <2> HIDE DEF y, r
  <2> QED BY <1>1, <1>3 DEF Writes
<1>5. CalculationOK(r) /\ r.ticket \notin r.todo
  BY <1>1 DEF SyncInv, CalculationOK
<1> HIDE DEF y, r, changes
<1>6. CalculationOK(y)
  <2>1. \A t \in y.todo : y.wrote[t] = {}
    BY <1>1, <1>3, <1>5 DEF CalculationOK, Txn
  <2>2. \A t \in Tickets : \A x \in RecordsOf(t) : y.seen[t].image = records[x].image
    BY <1>1, <1>3, <1>5 DEF CalculationOK
  <2>3. ASSUME NEW t \in Tickets PROVE ImageOK(y, t)
    <3>1. ImageOK(r, t) /\ Writes(y, t) = Writes(r, t)
      BY <1>4, <1>5 DEF CalculationOK
    <3> QED BY <1>3, <3>1 DEF ImageOK
  <2> QED BY <1>3, <2>1, <2>2, <2>3 DEF CalculationOK, Writing
<1>7. \A t \in Tickets : y.wrote[t] # {} => RowFree(w, t)
  BY <1>1, <1>3 DEF SyncInv, RowsExclusive, RowFree, r
<1> QED BY <1>1, <1>2, <1>6, <1>7, LocalStep DEF Continue

(* A target that was checked meanwhile is no target any more, and its image  *)
(* is the ticket's again.                                                    *)
LEMMA CleanupIsOK ==
  ASSUME IInv, SyncInv, NEW w \in Workers, Cleanup(w)
  PROVE  SyncInv'
<1> DEFINE r == txn[w]
           found == {x \in r.targets : x = r.record \/ records[x].state = "live"}
           kept == {x \in found : x # r.record /\ records[x].checked}
           Restored(t) == {x \in kept : records[x].ticket = t}
           image == [t \in Tickets |-> IF Restored(t) = {} THEN r.new[t].image
                                       ELSE records[CHOOSE x \in Restored(t) : TRUE].image]
           wrote == [t \in Tickets |-> IF image[t] # r.new[t].image
                                       THEN r.wrote[t] \cup {"image"} ELSE r.wrote[t]]
           y == [r EXCEPT !.pc = "commit", !.targets = found \ kept, !.wrote = wrote,
                          !.new = [t \in Tickets |-> [@[t] EXCEPT !.image = image[t]]]]
<1>1. r \in Txn /\ CalcTypeOK
  BY DEF IInv, CalcTypeOK
<1>2. Continue(w, y) /\ \A t \in Tickets : wrote[t] # {} => RowFree(w, t)
  BY DEF Cleanup, RestoredImage
<1>3. /\ y.pc = "commit" /\ y.targets = found \ kept /\ y.wrote = wrote
      /\ \A t \in Tickets : y.new[t].image = image[t]
  <2> HIDE DEF image, found, kept, wrote
  <2> QED BY <1>1 DEF Txn, TicketRow
<1>4. ASSUME NEW t \in Tickets PROVE ImageOK(y, t)
  <2>1. ImageOK(r, t) /\ Writes(r, t) = r.wrote[t] /\ Writes(y, t) = y.wrote[t]
    BY <1>3 DEF SyncInv, CalculationOK, Cleanup, Writes
  <2>2. Restored(t) \subseteq RecordsOf(t) \cap r.targets
    BY <1>1 DEF RecordsOf, Txn
  <2>3. \A x \in RecordsOf(t) \cap r.targets : x \in kept <=> x \in Restored(t)
    <3>1. \A x \in RecordsOf(t) \cap r.targets : records[x].state = "live" /\ records[x].ticket = t
      BY DEF RecordsOf
    <3> QED BY <3>1
  <2>4. \A x \in RecordsOf(t) \cap r.targets : x \in found
    BY DEF RecordsOf
  <2>5. \A x, z \in RecordsOf(t) : x = z
    BY DEF SyncInv, RecordsOK
  <2>6. image[t] = IF Restored(t) = {} THEN r.new[t].image
                   ELSE records[CHOOSE x \in Restored(t) : TRUE].image
    OBVIOUS
  <2>7. wrote[t] = IF image[t] # r.new[t].image THEN r.wrote[t] \cup {"image"} ELSE r.wrote[t]
    OBVIOUS
  <2>8. \A x \in Restored(t) : image[t] = records[x].image
    <3>1. Restored(t) # {} => (CHOOSE x \in Restored(t) : TRUE) \in Restored(t)
      OBVIOUS
    <3> HIDE DEF Restored, image
    <3> QED BY <2>2, <2>5, <2>6, <3>1
  <2>9. y.targets = found \ kept /\ y.wrote[t] = wrote[t] /\ y.new[t].image = image[t]
        /\ found \subseteq r.targets
    BY <1>3
  <2> HIDE DEF found, kept, Restored, image, wrote, y, r
  <2>10. CASE Restored(t) = {}
    <3>1. image[t] = r.new[t].image /\ wrote[t] = r.wrote[t]
      BY <2>6, <2>7, <2>10
    <3>2. \A x \in RecordsOf(t) : x \in y.targets <=> x \in r.targets
      BY <2>3, <2>4, <2>9, <2>10
    <3> QED BY <2>1, <2>9, <3>1, <3>2 DEF ImageOK
  <2>11. CASE Restored(t) # {}
    <3>1. PICK z \in Restored(t) : TRUE
      BY <2>11
    <3>2. z \in RecordsOf(t) /\ z \in r.targets /\ z \in kept /\ z \notin y.targets
      BY <2>2, <2>3, <2>9, <3>1
    <3>3. "image" \in r.wrote[t]
      BY <2>1, <3>2 DEF ImageOK
    <3>4. "image" \in y.wrote[t]
      BY <2>7, <2>9, <3>3
    <3>5. \A x \in RecordsOf(t) : x = z
      BY <2>5, <3>2
    <3> QED BY <2>8, <2>9, <3>1, <3>2, <3>4, <3>5 DEF ImageOK
  <2> QED BY <2>10, <2>11
<1> HIDE DEF wrote, found, kept, image, y
<1>5. CalculationOK(y)
  BY <1>3, <1>4 DEF CalculationOK, Writing
<1> QED BY <1>1, <1>2, <1>3, <1>5, LocalStep DEF Continue

(* The commit deletes the targets and writes the images of the locked rows.  *)
LEMMA CommittingIsOK ==
  ASSUME IInv, SyncInv, NEW w \in Workers, CommitCalc(w)
  PROVE  SyncInv'
<1> DEFINE r == txn[w]
<1>1. /\ r \in Txn /\ tix \in [Tickets -> TicketRow] /\ records \in [RecordIds -> RecordRow]
      /\ txn \in [Workers -> Txn]
  BY DEF IInv, CalcTypeOK
<1>2. \A v \in Workers : txn'[v] = IF v = w THEN Idle ELSE txn[v]
  BY <1>1 DEF CommitCalc
<1>3. \A x \in RecordIds :
        /\ records'[x].state = IF x \in r.targets THEN "deleted" ELSE records[x].state
        /\ records'[x].ticket = records[x].ticket /\ records'[x].image = records[x].image
  BY <1>1 DEF CommitCalc, RecordRow
<1>4. \A t \in Tickets :
        tix'[t].image = IF "image" \in r.wrote[t] THEN r.new[t].image ELSE tix[t].image
  BY DEF CommitCalc, Flushed
<1>5. \A t \in Tickets : RecordsOf(t)' = RecordsOf(t) \ r.targets
  BY <1>3 DEF RecordsOf
<1>6. \A t \in Tickets : RecordsOf(t) \subseteq RecordIds
  BY DEF RecordsOf
<1>7. \A v \in Workers : CalculationOK(txn[v])
  BY DEF SyncInv
<1> HIDE DEF r
<1>8. ImagesInSync'
  <2>1. ASSUME NEW t \in Tickets
        PROVE  IF RecordsOf(t)' = {} THEN tix'[t].image = None
               ELSE \A x \in RecordsOf(t)' : tix'[t].image = records'[x].image
    <3>1. ImageOK(r, t) /\ Writes(r, t) = r.wrote[t]
      BY <1>7 DEF CalculationOK, CommitCalc, Writes, r
    <3>2. IF RecordsOf(t) = {} THEN tix[t].image = None
          ELSE \A x \in RecordsOf(t) : tix[t].image = records[x].image
      BY DEF SyncInv, ImagesInSync
    <3>3. \A x, z \in RecordsOf(t) : x = z
      BY DEF SyncInv, RecordsOK
    <3>4. \A x \in RecordsOf(t) : records'[x].image = records[x].image
      BY <1>3, <1>6
    <3>5. CASE "image" \in r.wrote[t]
      BY <1>4, <1>5, <3>1, <3>3, <3>4, <3>5 DEF ImageOK
    <3>6. CASE "image" \notin r.wrote[t]
      BY <1>4, <1>5, <3>1, <3>2, <3>4, <3>6 DEF ImageOK
    <3> QED BY <3>5, <3>6
  <2> QED BY <2>1 DEF ImagesInSync
<1>9. RecordsOK'
  <2>1. \A x \in RecordIds : records'[x].state = "live" =>
           records'[x].ticket \in Tickets /\ records'[x].image \in Images
    BY <1>3 DEF SyncInv, RecordsOK
  <2>2. \A t \in Tickets : \A x, z \in RecordsOf(t)' : x = z
    BY <1>5 DEF SyncInv, RecordsOK
  <2> QED BY <2>1, <2>2 DEF RecordsOK
<1>10. RowsExclusive'
  BY <1>2, IdleIsQuiet DEF SyncInv, RowsExclusive, Quiet
<1>11. ASSUME NEW v \in Workers PROVE CalculationOK(txn[v])'
  <2>1. CASE v = w
    <3>1. txn'[v] = Idle
      BY <1>2, <2>1
    <3> QED BY <3>1, IdleIsQuiet DEF CalculationOK, ImageOK, Quiet, Writing, Writes
  <2>2. CASE v # w
    <3>1. txn'[v] = txn[v] /\ CalculationOK(txn[v])
      BY <1>2, <1>7, <2>2
    <3>2. ASSUME NEW t \in Tickets PROVE ImageOK(txn[v], t)'
      <4>1. ImageOK(txn[v], t) /\ ImageOK(r, t)
        BY <1>7 DEF CalculationOK, r
      <4>2. \A x \in RecordsOf(t) : records'[x].image = records[x].image
        BY <1>3, <1>6
      <4>3. CASE txn[v].pc = "flush" /\ t = txn[v].ticket
        <5>1. "image" \in Writes(txn[v], t) => txn[v].new[t].image = None
          BY <3>1, <4>3 DEF CalculationOK
        <5> QED BY <1>5, <3>1, <4>1, <4>2, <5>1 DEF ImageOK, Writes
      <4>4. CASE ~ (txn[v].pc = "flush" /\ t = txn[v].ticket)
        <5>1. Writes(txn[v], t) = txn[v].wrote[t] /\ Writes(r, t) = r.wrote[t]
          BY <4>4 DEF Writes, CommitCalc, r
        <5>2. "image" \in txn[v].wrote[t] => r.wrote[t] = {}
          BY <2>2 DEF SyncInv, RowsExclusive, r
        <5>3. "image" \in txn[v].wrote[t] => RecordsOf(t) \cap r.targets = {}
          BY <4>1, <5>1, <5>2 DEF ImageOK
        <5> QED BY <1>5, <3>1, <4>1, <4>2, <5>1, <5>3 DEF ImageOK, Writes
      <4> QED BY <4>3, <4>4
    <3>3. \A t \in Tickets : \A x \in RecordsOf(t)' :
            x \in RecordsOf(t) /\ records'[x].image = records[x].image
      BY <1>3, <1>5, <1>6
    <3> QED BY <3>1, <3>2, <3>3 DEF CalculationOK, Quiet, Writes
  <2> QED BY <2>1, <2>2
<1> QED BY <1>8, <1>9, <1>10, <1>11 DEF SyncInv

(* A check of a record changes neither its ticket nor its image.             *)
LEMMA CheckingIsOK ==
  ASSUME IInv, SyncInv, NEW rec \in RecordIds, MarkChecked(rec)
  PROVE  SyncInv'
<1>1. records \in [RecordIds -> RecordRow] /\ txn' = txn /\ tix' = tix
  BY DEF IInv, CalcTypeOK, MarkChecked
<1>2. \A x \in RecordIds :
        /\ records'[x].state = records[x].state
        /\ records'[x].ticket = records[x].ticket /\ records'[x].image = records[x].image
  BY <1>1 DEF MarkChecked, RecordRow
<1>3. \A t \in Tickets : RecordsOf(t)' = RecordsOf(t) /\ RecordsOf(t) \subseteq RecordIds
  BY <1>2 DEF RecordsOf
<1>4. ImagesInSync' /\ RecordsOK' /\ RowsExclusive'
  BY <1>1, <1>2, <1>3 DEF SyncInv, ImagesInSync, RecordsOK, RowsExclusive
<1>5. ASSUME NEW v \in Workers PROVE CalculationOK(txn[v])'
  <2>1. CalculationOK(txn[v]) /\ txn'[v] = txn[v]
    BY <1>1 DEF SyncInv
  <2> QED BY <1>2, <1>3, <2>1 DEF CalculationOK, ImageOK, Quiet, Writes
<1> QED BY <1>4, <1>5 DEF SyncInv

(* Without uploads of images every step keeps it.                            *)
LEMMA SyncStep ==
  ASSUME IInv, SyncInv, [Next]_vars, "image" \notin Requests
  PROVE  SyncInv'
<1>1. ASSUME NEW w \in Workers PROVE ~ ReadRecord(w) /\ ~ StoreImage(w)
  BY DEF SyncInv, CalculationOK, ReadRecord, StoreImage
<1>2. ASSUME NEW w \in Workers, NEW t \in Tickets, NEW image \in Images
      PROVE  ~ UploadImage(w, t, image)
  BY DEF UploadImage
<1>3. CASE UNCHANGED vars
  BY <1>3 DEF vars, SyncInv, ImagesInSync, RecordsOK, RowsExclusive, CalculationOK, ImageOK,
              Quiet, RecordsOf, Writes
<1>4. CASE Next
  BY <1>1, <1>2, <1>4, RequestsAreQuiet, LoadingIsOK, NewestIsOK, CalculatingIsOK, FlushIsOK,
     CleanupIsOK, CommittingIsOK, CheckingIsOK DEF Next, Statement
<1> QED BY <1>3, <1>4

(* The records of the initial states are the ones their tickets show.        *)
LEMMA SyncInit == Init => SyncInv
<1> SUFFICES ASSUME Init PROVE SyncInv
  OBVIOUS
<1>1. \A w \in Workers : txn[w] = Idle
  BY DEF Init
<1>2. RowsExclusive /\ \A w \in Workers : CalculationOK(txn[w])
  BY <1>1, IdleIsQuiet, QuietIsOK DEF RowsExclusive, Quiet
<1>3. ASSUME NothingYet PROVE ImagesInSync /\ RecordsOK
  <2>1. \A t \in Tickets : RecordsOf(t) = {} /\ tix[t].image = None
    BY <1>3 DEF NothingYet, RecordsOf, Unused, NotWinning
  <2>2. \A x \in RecordIds : records[x].state # "live"
    BY <1>3 DEF NothingYet, Unused
  <2> QED BY <2>1, <2>2 DEF ImagesInSync, RecordsOK
<1>4. ASSUME Calculated PROVE ImagesInSync /\ RecordsOK
  <2>1. PICK lines \in Sheets, kind \in UploadKinds, S \in SUBSET Tickets,
             image \in Images, of \in [RecordIds -> Tickets \cup {None}] :
          CalculatedFrom(ParseLines(lines), kind, S, image, of)
    BY <1>4 DEF Calculated
  <2> DEFINE data == Uploaded(NoData, ParseLines(lines), kind)
  <2>2. /\ \A t \in S : \E x \in RecordIds : of[x] = t
        /\ \A x \in RecordIds : of[x] \in S \cup {None}
        /\ \A x, z \in RecordIds : of[x] = of[z] /\ of[x] # None => x = z
        /\ tix = [t \in Tickets |-> Outcome(Bets[t], data, IF t \in S THEN image ELSE None)]
        /\ records = [x \in RecordIds |->
                        IF of[x] = None THEN Unused
                        ELSE [state |-> "live", ticket |-> of[x], checked |-> FALSE,
                              image |-> image]]
    BY <2>1 DEF CalculatedFrom
  <2> HIDE DEF data
  <2>3. \A t \in Tickets : tix[t].image = IF t \in S THEN image ELSE None
    BY <2>2 DEF Outcome
  <2>4. \A x \in RecordIds :
          IF of[x] = None THEN records[x].state = "unused"
          ELSE records[x].state = "live" /\ records[x].ticket = of[x] /\ records[x].image = image
    BY <2>2 DEF Unused
  <2>5. None \notin Tickets
    BY CalcAssumption
  <2>6. \A t \in Tickets : RecordsOf(t) = {x \in RecordIds : of[x] = t}
    BY <2>4, <2>5 DEF RecordsOf
  <2>7. ImagesInSync
    <3>1. \A t \in Tickets : RecordsOf(t) = {} <=> t \notin S
      BY <2>2, <2>5, <2>6
    <3>2. \A t \in Tickets : \A x \in RecordsOf(t) : records[x].image = image
      BY <2>4, <2>5, <2>6
    <3> QED BY <2>3, <3>1, <3>2 DEF ImagesInSync
  <2>8. \A t \in Tickets : \A x, z \in RecordsOf(t) : x = z
    BY <2>2, <2>5, <2>6
  <2>9. \A x \in RecordIds :
          records[x].state = "live" => records[x].ticket \in Tickets /\ records[x].image \in Images
    BY <2>2, <2>4
  <2> QED BY <2>7, <2>8, <2>9 DEF RecordsOK
<1> QED BY <1>2, <1>3, <1>4 DEF Init, SyncInv

(* While no image is uploaded, a ticket shows an image exactly when it has a *)
(* winning record, and it is the record's, whatever calculations and checks  *)
(* run at the same time.  With uploads it does not hold: an image stored     *)
(* between a calculation's read and its write leaves the two apart.          *)
THEOREM ImagesStayInSync ==
  ASSUME "image" \notin Requests
  PROVE  Spec => []ImagesInSync
<1>1. IInv /\ SyncInv /\ [Next]_vars => SyncInv'
  BY SyncStep
<1>2. Init => SyncInv
  BY SyncInit
<1>3. SyncInv => ImagesInSync
  BY DEF SyncInv
<1>4. Spec => []SyncInv
  BY <1>1, <1>2, CalcInvariant, PTL DEF Spec
<1> QED BY <1>3, <1>4, PTL
=============================================================================
