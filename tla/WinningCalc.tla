----------------------------- MODULE WinningCalc -----------------------------
(***************************************************************************)
(* Uploads of match results, the winning calculations they start, and the  *)
(* winning records with their images, on PostgreSQL (READ COMMITTED): one  *)
(* period and lottery type, so one row of match_results.  A worker is a    *)
(* request; the calculation runs in the request that started it, one       *)
(* database statement per step.  As in TicketPool a transaction's writes   *)
(* reach the tables when it commits; the ORM writes only the columns whose *)
(* value differs from the one it loaded.                                   *)
(***************************************************************************)
EXTENDS MatchData, Integers

CONSTANTS
  Tickets,      \* the completed and expired tickets of the period
  Bets,         \* what each of them bets on
  Workers,
  Sheets,       \* the result sheets an administrator may upload
  Images,       \* stored image files
  RecordIds,    \* bound: ids of winning_records
  MaxFiles,     \* bound: uploads of result files
  Requests      \* the requests this instance serves

AllRequests == {"upload", "recalc", "image", "check"}

ASSUME CalcAssumption ==
  /\ IsFiniteSet(Tickets)
  /\ Bets \in [Tickets -> Bet]
  /\ Sheets \subseteq Seq(Line)
  /\ \A lines \in Sheets : ParseLines(lines) \in ParsedData
  /\ RecordIds \subseteq Nat
  /\ MaxFiles \in Nat
  /\ Requests \subseteq AllRequests
  /\ None \notin Tickets \cup RecordIds \cup Images

VARIABLES
  result,    \* the committed row of match_results
  tix,       \* committed columns of lottery_tickets
  records,   \* committed rows of winning_records
  fileSeq,   \* ids given to result files so far
  txn,       \* what each worker is doing
  latest     \* history: the last accepted sheet of each kind

vars == <<result, tix, records, fileSeq, txn, latest>>

-----------------------------------------------------------------------------
(* Rows *)

ResultRow == [status : {"absent", "pending", "processing", "done", "error"},
              file : Nat, data : ResultData, winning : Nat]
NoResult == [status |-> "absent", file |-> 0, data |-> NoData, winning |-> 0]

Columns == {"predicted", "final", "winning", "image"}
TicketRow == [predicted : BOOLEAN, final : BOOLEAN, winning : BOOLEAN,
              image : Images \cup {None}]

RecordRow == [state : {"unused", "live", "deleted"}, ticket : Tickets \cup {None},
              checked : BOOLEAN, image : Images \cup {None}]
Unused == [state |-> "unused", ticket |-> None, checked |-> FALSE, image |-> None]

RecordsOf(t) == {r \in RecordIds : records[r].state = "live" /\ records[r].ticket = t}

(* WinningRecord.query.filter_by(...).first(): any of them, or none *)
FirstRecord(t) == IF RecordsOf(t) = {} THEN {None} ELSE RecordsOf(t)

-----------------------------------------------------------------------------
(* Transactions *)

CalcPCs == {"start", "begin", "load", "tickets", "flush", "cleanup", "commit"}
PCs == {"idle", "lock", "store", "reset", "token", "failed", "record", "image"}
         \cup CalcPCs

(***************************************************************************)
(* row, seen and record are the objects the session has loaded; parsed and *)
(* kind the sheet of an upload, token the file id a calculation expects.   *)
(* new are the tickets as calculated, wrote the columns it changes, todo   *)
(* the tickets it has not reached, targets the records it is going to      *)
(* delete.                                                                 *)
(***************************************************************************)
Txn == [pc : PCs,
        kind : UploadKinds \cup {None}, parsed : ParsedData,
        file : Nat, token : Nat, row : ResultRow,
        seen : [Tickets -> TicketRow], new : [Tickets -> TicketRow],
        wrote : [Tickets -> SUBSET Columns], todo : SUBSET Tickets,
        targets : SUBSET RecordIds,
        ticket : Tickets \cup {None}, record : RecordIds \cup {None},
        image : Images \cup {None}]

NotWinning == [predicted |-> FALSE, final |-> FALSE, winning |-> FALSE, image |-> None]

Idle == [pc |-> "idle", kind |-> None, parsed |-> NothingParsed, file |-> 0,
         token |-> 0, row |-> NoResult,
         seen |-> [t \in Tickets |-> NotWinning], new |-> [t \in Tickets |-> NotWinning],
         wrote |-> [t \in Tickets |-> {}], todo |-> {}, targets |-> {},
         ticket |-> None, record |-> None, image |-> None]

(* A changed ticket row is flushed, and so locked, by the next query. *)
RowFree(w, t) == \A v \in Workers \ {w} : txn[v].wrote[t] = {}

(* pg_advisory_xact_lock on the period, held until the upload commits *)
PeriodLockFree(w) == \A v \in Workers \ {w} : txn[v].pc # "store"

Continue(w, r) ==
  /\ txn' = [txn EXCEPT ![w] = r]
  /\ UNCHANGED <<result, tix, records, fileSeq, latest>>

(* The flush of an object: the columns in which it differs from what was     *)
(* loaded are written, the others stay as they are in the row by now.        *)
Written(loaded, value, current) == IF value # loaded THEN value ELSE current

Changed(loaded, object, row) ==
  [status |-> Written(loaded.status, object.status, row.status),
   file |-> Written(loaded.file, object.file, row.file),
   data |-> Written(loaded.data, object.data, row.data),
   winning |-> Written(loaded.winning, object.winning, row.winning)]

Flushed(wrote, object, row) ==
  LET Of(c) == IF c \in wrote THEN object[c] ELSE row[c]
  IN [predicted |-> Of("predicted"), final |-> Of("final"),
      winning |-> Of("winning"), image |-> Of("image")]

-----------------------------------------------------------------------------
(* admin.upload_match_result and result_parser.parse_result_file *)

UploadResult(w, lines, kind) ==
  /\ "upload" \in Requests
  /\ txn[w].pc = "idle"
  /\ fileSeq < MaxFiles
  /\ ParseLines(lines) # NothingParsed
  /\ fileSeq' = fileSeq + 1
  /\ txn' = [txn EXCEPT ![w] = [Idle EXCEPT !.pc = "lock", !.kind = kind,
                                  !.parsed = ParseLines(lines), !.file = fileSeq + 1]]
  /\ UNCHANGED <<result, tix, records, latest>>

(* Mutant: the row is read without the period's lock. *)
ReadUnlocked(w) ==
  LET r == txn[w]
  IN /\ r.pc = "lock"
     /\ Continue(w, IF IsIncomplete(result.data, r.parsed, r.kind) THEN Idle
                    ELSE [r EXCEPT !.pc = "store", !.row = result])

(* The lock is taken before the row is read; an incomplete sheet is refused. *)
LockPeriod(w) ==
  LET r == txn[w]
  IN /\ r.pc = "lock"
     /\ PeriodLockFree(w)
     /\ Continue(w, IF IsIncomplete(result.data, r.parsed, r.kind) THEN Idle
                    ELSE [r EXCEPT !.pc = "store", !.row = result])

(* Merge, flush and commit; then the calculation, which expects this file. *)
StoreResult(w) ==
  LET r == txn[w]
      object == [status |-> "pending", file |-> r.file, winning |-> 0,
                 data |-> Uploaded(r.row.data, r.parsed, r.kind)]
  IN /\ r.pc = "store"
     /\ result' = Changed(r.row, object, result)
     /\ latest' = [latest EXCEPT ![r.kind] = r.parsed]
     /\ txn' = [txn EXCEPT ![w] = [Idle EXCEPT !.pc = "start", !.token = r.file]]
     /\ UNCHANGED <<tix, records, fileSeq>>

-----------------------------------------------------------------------------
(* admin.api_recalc: reset the row, commit, then read the file id to expect *)

Recalculate(w) ==
  /\ "recalc" \in Requests
  /\ txn[w].pc = "idle"
  /\ result.status # "absent"
  /\ Continue(w, [Idle EXCEPT !.pc = "reset", !.row = result])

ResetResult(w) ==
  LET r == txn[w]
      object == [r.row EXCEPT !.status = "pending", !.winning = 0]
  IN /\ r.pc = "reset"
     /\ result' = Changed(r.row, object, result)
     /\ txn' = [txn EXCEPT ![w] = [Idle EXCEPT !.pc = "token"]]
     /\ UNCHANGED <<tix, records, fileSeq, latest>>

ReadToken(w) ==
  /\ txn[w].pc = "token"
  /\ Continue(w, [txn[w] EXCEPT !.pc = "start", !.token = result.file])

-----------------------------------------------------------------------------
(* winning_calc_service.process_match_result *)

StartCalc(w) ==
  LET r == txn[w]
  IN /\ r.pc = "start"
     /\ Continue(w, IF result.file # r.token THEN Idle
                    ELSE [r EXCEPT !.pc = "begin", !.row = result])

(* Mutant: a status the table does not know. *)
BeginCalcRunning(w) ==
  LET r == txn[w]
  IN /\ r.pc = "begin"
     /\ result' = Changed(r.row, [r.row EXCEPT !.status = "running"], result)
     /\ txn' = [txn EXCEPT ![w] = [r EXCEPT !.pc = "load"]]
     /\ UNCHANGED <<tix, records, fileSeq, latest>>

BeginCalc(w) ==
  LET r == txn[w]
  IN /\ r.pc = "begin"
     /\ result' = Changed(r.row, [r.row EXCEPT !.status = "processing"], result)
     /\ txn' = [txn EXCEPT ![w] = [r EXCEPT !.pc = "load"]]
     /\ UNCHANGED <<tix, records, fileSeq, latest>>

(* The commit expired the row, so it is loaded again, then the tickets. *)
LoadTickets(w) ==
  /\ txn[w].pc = "load"
  /\ Continue(w, [txn[w] EXCEPT !.pc = "tickets", !.row = result,
                                !.seen = tix, !.new = tix, !.todo = Tickets])

Outcome(bet, data, image) ==
  [predicted |-> Wins(bet, data, "predicted"), final |-> Wins(bet, data, "final"),
   winning |-> SelectActiveOutcome(bet, data), image |-> image]

Difference(row, other) == {c \in Columns : row[c] # other[c]}

(* A ticket that does not win keeps its image only with a checked record. *)
ImageKept(t, image, wins, rec) ==
  IF wins THEN image
  ELSE IF rec # None /\ records[rec].checked THEN records[rec].image
  ELSE None

(* The ticket's record is read and the ticket object changed; nothing is     *)
(* written, and so no row locked, before the next query.                     *)
CalculateTicket(w, t) ==
  LET r == txn[w]
  IN /\ r.pc = "tickets" /\ t \in r.todo
     /\ \E rec \in FirstRecord(t) :
          LET wins == SelectActiveOutcome(Bets[t], r.row.data)
              row == Outcome(Bets[t], r.row.data,
                             ImageKept(t, r.seen[t].image, wins, rec))
              doomed == IF wins \/ rec = None THEN {}
                        ELSE {x \in {rec} : ~ records[x].checked}
          IN Continue(w, [r EXCEPT !.new[t] = row, !.todo = @ \ {t},
                                   !.targets = @ \cup doomed, !.record = rec,
                                   !.pc = IF row = r.seen[t] THEN "tickets" ELSE "flush",
                                   !.ticket = t])

(* The next query flushes the ticket first, and waits for its row.           *)
FlushTicket(w) ==
  LET r == txn[w]
  IN /\ r.pc = "flush"
     /\ RowFree(w, r.ticket)
     /\ Continue(w, [r EXCEPT !.pc = "tickets",
                       !.wrote[r.ticket] = Difference(r.new[r.ticket], r.seen[r.ticket])])

(* Mutant: the file id is not read again. *)
GoOn(w) ==
  /\ txn[w].pc = "tickets" /\ txn[w].todo = {}
  /\ Continue(w, [txn[w] EXCEPT !.pc = "cleanup"])

(* Another file by now: everything is rolled back. *)
CheckNewest(w) ==
  LET r == txn[w]
  IN /\ r.pc = "tickets" /\ r.todo = {}
     /\ Continue(w, IF result.file # r.token THEN Idle ELSE [r EXCEPT !.pc = "cleanup"])

(* A ticket whose own record is kept after all shows its image again.        *)
NotRestored(r, own, t) == r.new[t].image   \* mutant
RestoredImage(r, own, t) ==
  IF own = {} THEN r.new[t].image ELSE records[CHOOSE x \in own : TRUE].image

(***************************************************************************)
(* The records to delete are fetched again.  The object of the last ticket *)
(* is still in the session and is returned as it was; the others are read. *)
(* One that was checked meanwhile is kept, and its image restored.         *)
(***************************************************************************)
Cleanup(w) ==
  LET r == txn[w]
      found == {x \in r.targets : x = r.record \/ records[x].state = "live"}
      kept == {x \in found : x # r.record /\ records[x].checked}
      Restored(t) == {x \in kept : records[x].ticket = t}
      image == [t \in Tickets |-> RestoredImage(r, Restored(t), t)]
      wrote == [t \in Tickets |-> IF image[t] # r.new[t].image
                                  THEN r.wrote[t] \cup {"image"} ELSE r.wrote[t]]
  IN /\ r.pc = "cleanup"
     /\ \A t \in Tickets : wrote[t] # {} => RowFree(w, t)
     /\ Continue(w, [r EXCEPT !.pc = "commit", !.targets = found \ kept, !.wrote = wrote,
                              !.new = [t \in Tickets |-> [@[t] EXCEPT !.image = image[t]]]])

CommitCalc(w) ==
  LET r == txn[w]
      object == [r.row EXCEPT !.status = "done",
                   !.winning = Cardinality({t \in Tickets : r.new[t].winning})]
  IN /\ r.pc = "commit"
     /\ result' = Changed(r.row, object, result)
     /\ tix' = [t \in Tickets |-> Flushed(r.wrote[t], r.new[t], tix[t])]
     /\ records' = [x \in RecordIds |-> IF x \in r.targets
                                        THEN [records[x] EXCEPT !.state = "deleted"]
                                        ELSE records[x]]
     /\ txn' = [txn EXCEPT ![w] = Idle]
     /\ UNCHANGED <<fileSeq, latest>>

(* An exception at any statement (a deadlock, a time-out): the work is       *)
(* rolled back, and the row marked unless it has another file by now.        *)
FailCalc(w) ==
  LET r == txn[w]
  IN /\ r.pc \in {"load", "tickets", "flush", "cleanup", "commit"}
     /\ Continue(w, IF result.file # r.token THEN Idle
                    ELSE [Idle EXCEPT !.pc = "failed", !.row = result])

MarkError(w) ==
  LET r == txn[w]
  IN /\ r.pc = "failed"
     /\ result' = Changed(r.row, [r.row EXCEPT !.status = "error"], result)
     /\ txn' = [txn EXCEPT ![w] = Idle]
     /\ UNCHANGED <<tix, records, fileSeq, latest>>

(* The worker is killed, or a request fails before its commit. *)
Killed(w) ==
  /\ txn[w].pc # "idle"
  /\ Continue(w, Idle)

-----------------------------------------------------------------------------
(* Winning records: winning.upload_winning_image and mark_checked *)

UploadImage(w, t, image) ==
  /\ "image" \in Requests
  /\ txn[w].pc = "idle"
  /\ tix[t].winning
  /\ Continue(w, [Idle EXCEPT !.pc = "record", !.ticket = t, !.image = image])

(* Mutant: the mark is not looked at. *)
ReadRecordAny(w) ==
  LET r == txn[w]
  IN /\ r.pc = "record"
     /\ \E rec \in FirstRecord(r.ticket) :
          Continue(w, [r EXCEPT !.pc = "image", !.record = rec])

(* A checked record refuses a new image. *)
ReadRecord(w) ==
  LET r == txn[w]
  IN /\ r.pc = "record"
     /\ \E rec \in FirstRecord(r.ticket) :
          Continue(w, IF rec # None /\ records[rec].checked THEN Idle
                      ELSE [r EXCEPT !.pc = "image", !.record = rec])

(* Ticket and record are written together; updating a record that is gone    *)
(* fails the request.  is_winning was TRUE when loaded and is not written.   *)
StoreImage(w) ==
  LET r == txn[w]
      Put(rec, row) == /\ records' = [records EXCEPT ![rec] = row]
                       /\ tix' = [tix EXCEPT ![r.ticket].image = r.image]
                       /\ txn' = [txn EXCEPT ![w] = Idle]
                       /\ UNCHANGED <<result, fileSeq, latest>>
  IN /\ r.pc = "image"
     /\ RowFree(w, r.ticket)
     /\ \/ /\ r.record # None
           /\ records[r.record].state = "live"
           /\ Put(r.record, [records[r.record] EXCEPT !.image = r.image])
        \/ /\ r.record # None
           /\ records[r.record].state # "live"
           /\ Continue(w, Idle)
        \/ /\ r.record = None
           /\ \E rec \in RecordIds :
                /\ records[rec].state = "unused"
                /\ \A x \in RecordIds : x < rec => records[x].state # "unused"
                /\ Put(rec, [state |-> "live", ticket |-> r.ticket, checked |-> FALSE,
                             image |-> r.image])

(* UPDATE ... WHERE id = :id AND NOT is_checked, and its commit *)
MarkChecked(rec) ==
  /\ "check" \in Requests
  /\ records[rec].state = "live" /\ ~ records[rec].checked
  /\ records' = [records EXCEPT ![rec].checked = TRUE]
  /\ UNCHANGED <<result, tix, fileSeq, txn, latest>>

-----------------------------------------------------------------------------
(* Specification *)

Upload(w) == \E lines \in Sheets, kind \in UploadKinds : UploadResult(w, lines, kind)
Statement(w) ==
  \/ LockPeriod(w) \/ StoreResult(w) \/ ResetResult(w) \/ ReadToken(w)
  \/ StartCalc(w) \/ BeginCalc(w) \/ LoadTickets(w)
  \/ \E t \in Tickets : CalculateTicket(w, t)
  \/ FlushTicket(w)
  \/ CheckNewest(w) \/ Cleanup(w) \/ CommitCalc(w) \/ FailCalc(w) \/ MarkError(w)
  \/ Killed(w) \/ ReadRecord(w) \/ StoreImage(w)

Next ==
  \/ \E w \in Workers : Upload(w) \/ Recalculate(w) \/ Statement(w)
  \/ \E w \in Workers, t \in Tickets, image \in Images : UploadImage(w, t, image)
  \/ \E rec \in RecordIds : MarkChecked(rec)

(***************************************************************************)
(* Nothing was uploaded yet, or one sheet was, and its calculation is done;*)
(* some winning tickets then have a record with an image.                  *)
(***************************************************************************)
NothingYet ==
  /\ result = NoResult
  /\ tix = [t \in Tickets |-> NotWinning]
  /\ records = [r \in RecordIds |-> Unused]
  /\ latest = [k \in UploadKinds |-> NothingParsed]

CalculatedFrom(parsed, kind, S, image, of) ==
  LET data == Uploaded(NoData, parsed, kind)
      Winning == {t \in Tickets : SelectActiveOutcome(Bets[t], data)}
  IN /\ parsed # NothingParsed
     /\ S \subseteq Winning
     /\ \A t \in S : \E r \in RecordIds : of[r] = t
     /\ \A r \in RecordIds : of[r] \in S \cup {None}
     /\ \A r, x \in RecordIds : of[r] = of[x] /\ of[r] # None => r = x
     /\ \A r, x \in RecordIds : r < x /\ of[r] = None => of[x] = None
     /\ result = [status |-> "done", file |-> 0, data |-> data,
                  winning |-> Cardinality(Winning)]
     /\ tix = [t \in Tickets |-> Outcome(Bets[t], data, IF t \in S THEN image ELSE None)]
     /\ records = [r \in RecordIds |->
                     IF of[r] = None THEN Unused
                     ELSE [state |-> "live", ticket |-> of[r], checked |-> FALSE,
                           image |-> image]]
     /\ latest = [[k \in UploadKinds |-> NothingParsed] EXCEPT ![kind] = parsed]

Calculated ==
  \E lines \in Sheets, kind \in UploadKinds, S \in SUBSET Tickets,
     image \in Images, of \in [RecordIds -> Tickets \cup {None}] :
    CalculatedFrom(ParseLines(lines), kind, S, image, of)

Init ==
  /\ NothingYet \/ Calculated
  /\ fileSeq = 0
  /\ txn = [w \in Workers |-> Idle]

Spec == Init /\ [][Next]_vars
=============================================================================
