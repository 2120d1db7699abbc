------------------------------ MODULE FileStore ------------------------------
(***************************************************************************)
(* The ticket files, from upload to deletion: the rows of uploaded_files   *)
(* and lottery_tickets, the text files and winning images stored beside    *)
(* the database, the requests that upload files and the jobs that delete   *)
(* what is past its retention.  Files on disk are outside of every         *)
(* transaction.  What becomes of a ticket in between is TicketPool's, and  *)
(* how it gets its winning record WinningCalc's.                           *)
(***************************************************************************)
EXTENDS BusinessTime, FiniteSets, Sequences

CONSTANTS
  Codes,      \* internal codes, the part of a file name that must be new
  Lines,      \* line numbers
  Uploaders,  \* workers that serve upload requests
  Runners,    \* processes that run the scheduler's jobs
  Senders,    \* workers that serve requests with a winning image
  FileIds,    \* primary keys of uploaded_files
  Retention,  \* days_ago, in hours
  MaxBatch,   \* bound: files in one request
  MaxFiles,   \* bound: no request starts while there are this many files
  MaxNow,     \* bound: the last hour
  MaxImages,  \* bound: images stored in all
  MaxFaults   \* bound: exceptions, kills and lost connections

ASSUME FileStoreAssumption ==
  /\ None \notin Codes \cup FileIds /\ None \notin [id : Nat, picture : Nat]
  /\ Lines # {}
  /\ {Retention, MaxBatch, MaxFiles, MaxNow, MaxImages, MaxFaults} \subseteq Nat

VARIABLES
  files,    \* rows of uploaded_files, by id
  tickets,  \* rows of lottery_tickets, by file and line, with their records
  disk,     \* the files whose text is stored
  images,   \* the winning images stored, by name
  taken,    \* the images stored so far: names are never used again
  now,      \* beijing_now()
  upload,   \* the request each uploader serves
  photo,    \* the image request each sender serves
  job,      \* the job each runner runs
  faults,   \* faults so far
  lost      \* ghost: the images a request had deleted when it failed

vars == <<files, tickets, disk, images, taken, now, upload, photo, job, faults, lost>>
tables == <<files, tickets>>
stored == <<disk, images, taken>>
photos == <<photo, lost>>

-----------------------------------------------------------------------------
(* Rows *)

(* open says whether the row's counters show a pending or assigned ticket.   *)
FileRow == [code : Codes, at : Nat, deadline : Int \cup {None}, open : BOOLEAN]
NoFile == [code |-> None, at |-> 0, deadline |-> None, open |-> FALSE]
Exists(f) == files[f] # NoFile

(* A ticket is open while it is pending or assigned; a closed one (completed, *)
(* revoked, expired) has its terminal time.  A record is identified by the    *)
(* image it was made with.                                                    *)
Slots == FileIds \X Lines
Record == [id : Nat, picture : Nat]
TicketRow == [status : {"open", "closed"}, at : Int, records : SUBSET Record]
NoTicket == [status |-> "none", at |-> 0, records |-> {}]
Open == [status |-> "open", at |-> 0, records |-> {}]
Closed(t) == [status |-> "closed", at |-> t, records |-> {}]
RecordsOf(S) == UNION {tickets[s].records : s \in S}
TicketsOf(f) == {s \in Slots : s[1] = f /\ tickets[s] # NoTicket}

-----------------------------------------------------------------------------
(* Requests and jobs *)

(* code, at and file are those of the file in hand; queue are the codes of   *)
(* the files still to come; locks are the advisory locks of the transaction. *)
Upload == [pc : {"idle", "next", "lock", "check", "parse", "remove"},
           queue : Seq(Codes), code : Codes \cup {None}, at : Nat,
           file : FileIds \cup {None}, locks : SUBSET (Int \X Codes)]
NoUpload == [pc |-> "idle", queue |-> <<>>, code |-> None, at |-> 0, file |-> None,
             locks |-> {}]

(* slot is the ticket and read its record, if there was one, as the request  *)
(* found them; new is the image it stored.                                   *)
Photo == [pc : {"idle", "delete", "commit"}, slot : Slots \cup {None},
          read : Record \cup {None}, new : Nat]
NoPhoto == [pc |-> "idle", slot |-> None, read |-> None, new |-> 0]

(* holds says that the lock of the job is still held.  Of archive_old_tickets, *)
(* old are the tickets to delete, read their records, shown the images still   *)
(* to be deleted; of archive_old_uploaded_txt_files, queue are the files still *)
(* to be looked at and empty those to delete.                                  *)
Jobs == {"tickets", "files"}
Job == [op : Jobs \cup {"none"}, holds : BOOLEAN,
        old : SUBSET Slots, read : SUBSET Nat, shown : SUBSET Nat,
        queue : SUBSET FileIds, empty : SUBSET FileIds]
NoJob == [op |-> "none", holds |-> FALSE,
          old |-> {}, read |-> {}, shown |-> {}, queue |-> {}, empty |-> {}]

Uploading(w, pc) == upload[w].pc = pc
Running(r, op) == job[r].op = op

(* The uploader goes on and changes nothing but its own record.              *)
Goto(w, u) == upload' = [upload EXCEPT ![w] = u] /\ UNCHANGED <<now, job, photos, faults>>
GotoJob(r, j) == job' = [job EXCEPT ![r] = j] /\ UNCHANGED <<now, upload, photos, faults>>
GotoPhoto(w, q) == photo' = [photo EXCEPT ![w] = q] /\ UNCHANGED <<now, upload, job, faults, lost>>

(* An id that nothing refers to stands for one not used before.              *)
InJobs == UNION {job[r].queue \cup job[r].empty \cup {s[1] : s \in job[r].old} : r \in Runners}
InPhotos == {f \in FileIds : \E w \in Senders, l \in Lines : photo[w].slot = <<f, l>>}
FreshIds ==
  {f \in FileIds : /\ ~ Exists(f) /\ f \notin disk \cup InJobs \cup InPhotos
                   /\ \A w \in Uploaders : upload[w].file # f}
NewId == CHOOSE f \in FreshIds : TRUE

-----------------------------------------------------------------------------
(* process_uploaded_file, for each file of a request *)

(* upload_files *)
StartUpload(w, q) ==
  /\ Uploading(w, "idle")
  /\ Cardinality({f \in FileIds : Exists(f)}) < MaxFiles
  /\ Goto(w, [NoUpload EXCEPT !.pc = "next", !.queue = q])
  /\ UNCHANGED <<tables, stored>>

(* The time of the upload, and with it the business day, is read here. *)
OpenFile(w) ==
  LET u == upload[w]
  IN /\ Uploading(w, "next") /\ u.queue # <<>>
     /\ Goto(w, [u EXCEPT !.pc = "lock", !.queue = Tail(@), !.code = Head(u.queue), !.at = now])
     /\ UNCHANGED <<tables, stored>>

(* Mutant: the locks outlive the request, as locks of a session would. *)
EndKeepsLocks(w) ==
  /\ Uploading(w, "next") /\ upload[w].queue = <<>>
  /\ Goto(w, [NoUpload EXCEPT !.locks = upload[w].locks])
  /\ UNCHANGED <<tables, stored>>

(* With the request its transaction ends, and the locks it kept are free.    *)
EndUpload(w) ==
  /\ Uploading(w, "next") /\ upload[w].queue = <<>>
  /\ Goto(w, NoUpload)
  /\ UNCHANGED <<tables, stored>>

Key(u) == <<BusinessDate(u.at), u.code>>
WaitsFor(w, v) == v # w /\ Uploading(w, "lock") /\ Key(upload[w]) \in upload[v].locks

(* Mutant: the check is made without the lock. *)
TakeNoLock(w) ==
  /\ Uploading(w, "lock")
  /\ Goto(w, [upload[w] EXCEPT !.pc = "check"])
  /\ UNCHANGED <<tables, stored>>

(* pg_advisory_xact_lock on the business day and the code *)
TakeLock(w) ==
  LET u == upload[w]
  IN /\ Uploading(w, "lock")
     /\ \A v \in Uploaders : ~ WaitsFor(w, v)
     /\ Goto(w, [u EXCEPT !.pc = "check", !.locks = @ \cup {Key(u)}])
     /\ UNCHANGED <<tables, stored>>

(* The file in hand is given up and the transaction rolled back.  What is    *)
(* stored stays stored.                                                      *)
GiveUp(u) == [NoUpload EXCEPT !.pc = "next", !.queue = u.queue]

(* Two requests that wait for each other's locks: one is chosen to fail.     *)
Deadlocked(w) ==
  \E S \in SUBSET Uploaders :
    /\ w \in S
    /\ \A v \in S : (\E x \in S : WaitsFor(v, x)) /\ (\E x \in S : WaitsFor(x, v))

BreakDeadlock(w) ==
  /\ Deadlocked(w)
  /\ Goto(w, GiveUp(upload[w]))
  /\ UNCHANGED <<tables, stored>>

(* The same name or the same code was uploaded in this business day.         *)
Duplicate(u) ==
  \E f \in FileIds : /\ Exists(f) /\ files[f].code = u.code
                     /\ files[f].at \in BusinessWindow(BusinessDate(u.at))

(* A duplicate is refused with the transaction left open; a new file is      *)
(* saved to disk and its row inserted, which others do not see yet.  Bound:  *)
(* it waits for an id.                                                       *)
CheckFile(w) ==
  LET u == upload[w]
  IN /\ Uploading(w, "check")
     /\ IF Duplicate(u)
          THEN Goto(w, [u EXCEPT !.pc = "next", !.code = None, !.at = 0]) /\ UNCHANGED stored
          ELSE /\ FreshIds # {}
               /\ disk' = disk \cup {NewId}
               /\ Goto(w, [u EXCEPT !.pc = "parse", !.file = NewId])
               /\ UNCHANGED <<images, taken>>
     /\ UNCHANGED tables

(* The row of the file and its tickets, all of them of status t              *)
Accept(f, row, lines, t) ==
  /\ files' = [files EXCEPT ![f] = row]
  /\ tickets' = [s \in Slots |-> IF s[1] = f /\ s[2] \in lines THEN t ELSE tickets[s]]

(* Mutant: the code is not stored with the file. *)
AcceptNameless(w, hour, lines) ==
  LET u == upload[w]
      row == [code |-> None, at |-> u.at, deadline |-> Deadline(hour, u.at), open |-> TRUE]
  IN /\ Uploading(w, "parse")
     /\ Accept(u.file, row, {}, Open)
     /\ Goto(w, GiveUp(u))
     /\ UNCHANGED stored

(* Its lines are as its name declares: the row and its tickets, all of them  *)
(* expired if there is a deadline and it has passed, are committed.          *)
AcceptFile(w, hour, lines) ==
  LET u == upload[w]
      due == Deadline(hour, u.at)
      late == due # None /\ due =< u.at
      row == [code |-> u.code, at |-> u.at, deadline |-> due, open |-> ~ late]
  IN /\ Uploading(w, "parse")
     /\ Accept(u.file, row, lines, IF late THEN Closed(due) ELSE Open)
     /\ Goto(w, GiveUp(u))
     /\ UNCHANGED stored

(* They are not (encoding, type, line, play, multiplier, count, amount):     *)
(* rollback, *)
RejectFile(w) ==
  LET u == upload[w]
  IN /\ Uploading(w, "parse")
     /\ Goto(w, [u EXCEPT !.pc = "remove", !.locks = {}])
     /\ UNCHANGED <<tables, stored>>

(* and the stored file is removed.                                           *)
RemoveRejected(w) ==
  LET u == upload[w]
  IN /\ Uploading(w, "remove")
     /\ disk' = disk \ {u.file}
     /\ Goto(w, GiveUp(u))
     /\ UNCHANGED <<tables, images, taken>>

-----------------------------------------------------------------------------
(* What happens to tickets elsewhere *)

(* A ticket is closed now, or counts from its deadline if it was revoked or  *)
(* expired (_ticket_terminal_at); one without a deadline is never handed out *)
(* nor expires, and counts from its upload once revoked.  What the counters  *)
(* then say need not be so (TicketPool's CountersExact).                     *)
CloseTicket(s) ==
  LET row == files[s[1]]
      times == IF row.deadline = None THEN {row.at} ELSE {now, row.deadline}
  IN /\ tickets[s] = Open
     /\ \E t \in times : tickets' = [tickets EXCEPT ![s] = Closed(t)]
     /\ \E open \in BOOLEAN : files' = [files EXCEPT ![s[1]].open = open]
     /\ UNCHANGED <<stored, now, upload, photos, job, faults>>

(* A calculation, or the deletion of a period's results, deletes a record    *)
(* and, after its commit, the image if it can.                               *)
DropRecord(s, r) ==
  /\ r \in tickets[s].records
  /\ tickets' = [tickets EXCEPT ![s].records = @ \ {r}]
  /\ images' \in {images, images \ {r.picture}}
  /\ UNCHANGED <<files, disk, taken, now, upload, photos, job, faults>>

-----------------------------------------------------------------------------
(* upload_winning_image, of the user or of the administrator *)

(* A record of the ticket is read, if there is any, and the new image stored *)
(* under a name of its own.                                                  *)
SendImage(w, s) ==
  LET found == IF tickets[s].records = {} THEN {None} ELSE tickets[s].records
  IN /\ photo[w] = NoPhoto
     /\ tickets[s].status = "closed" /\ taken < MaxImages
     /\ taken' = taken + 1 /\ images' = images \cup {taken'}
     /\ \E r \in found :
          GotoPhoto(w, [pc |-> IF r = None THEN "commit" ELSE "delete",
                        slot |-> s, read |-> r, new |-> taken'])
     /\ UNCHANGED <<tables, disk>>

(* The image of the record is deleted,                                       *)
DeleteReplaced(w) ==
  LET q == photo[w]
  IN /\ q.pc = "delete"
     /\ images' = images \ {q.read.picture}
     /\ GotoPhoto(w, [q EXCEPT !.pc = "commit"])
     /\ UNCHANGED <<tables, disk, taken>>

(* and the record then written, or added if there was none; the commit fails *)
(* if the record read, or the ticket, is gone.                               *)
CommitImage(w) ==
  LET q == photo[w]
      row == tickets[q.slot]
      old == {r \in row.records : q.read # None /\ r.id = q.read.id}
      id == IF q.read = None THEN q.new ELSE q.read.id
      written == (row.records \ old) \cup {[id |-> id, picture |-> q.new]}
  IN /\ q.pc = "commit"
     /\ tickets' = IF row # NoTicket /\ (q.read # None => old # {})
                     THEN [tickets EXCEPT ![q.slot].records = written] ELSE tickets
     /\ GotoPhoto(w, NoPhoto)
     /\ UNCHANGED <<files, stored>>

-----------------------------------------------------------------------------
(* Jobs.  One that another run holds the lock of is skipped, and one that    *)
(* finds nothing to delete changes nothing: these are left out.              *)

LockFree(op) == \A r \in Runners : ~ (job[r].op = op /\ job[r].holds)

Start(r, op, j) ==
  /\ job[r] = NoJob /\ LockFree(op)
  /\ GotoJob(r, [j EXCEPT !.op = op, !.holds = TRUE])
  /\ UNCHANGED <<tables, stored>>

Cutoff == now - Retention

(* Mutant: the age of a ticket is that of its file. *)
UploadedBefore(s, t) == tickets[s].status = "closed" /\ files[s[1]].at < t
(* A closed ticket whose terminal time is before t *)
ClosedBefore(s, t) == tickets[s].status = "closed" /\ tickets[s].at < t

(* archive_old_tickets reads the tickets past their retention and their      *)
(* records,                                                                  *)
ReadTickets(r) ==
  LET old == {s \in Slots : ClosedBefore(s, Cutoff)}
      records == RecordsOf(old)
  IN /\ old # {}
     /\ Start(r, "tickets", [NoJob EXCEPT !.old = old, !.read = {x.id : x \in records},
                                          !.shown = {x.picture : x \in records}])

(* deletes the image of each record,                                         *)
DeleteImage(r, p) ==
  /\ Running(r, "tickets") /\ p \in job[r].shown
  /\ images' = images \ {p}
  /\ GotoJob(r, [job[r] EXCEPT !.shown = @ \ {p}])
  /\ UNCHANGED <<tables, disk, taken>>

(* Mutant: the records stay, and make the commit fail. *)
Unread(j) == {x.id : x \in RecordsOf(j.old)}
(* Records that were not there when the job looked *)
NewRecords(j) == {x.id : x \in RecordsOf(j.old)} \ j.read

(* and deletes records and tickets; a record it does not know of makes the   *)
(* commit fail.                                                              *)
DeleteTickets(r) ==
  LET j == job[r]
  IN /\ Running(r, "tickets") /\ j.shown = {}
     /\ tickets' = IF NewRecords(j) # {} THEN tickets
                   ELSE [s \in Slots |-> IF s \in j.old THEN NoTicket ELSE tickets[s]]
     /\ GotoJob(r, NoJob)
     /\ UNCHANGED <<files, stored>>

(* archive_old_uploaded_txt_files reads the files past their retention whose *)
(* counters say that no ticket is open,                                      *)
ReadFiles(r) ==
  LET old == {f \in FileIds : Exists(f) /\ files[f].at < Cutoff /\ ~ files[f].open}
  IN old # {} /\ Start(r, "files", [NoJob EXCEPT !.queue = old])

(* Mutant: the tickets still there are not counted. *)
DeleteAnyText(r, f) ==
  /\ Running(r, "files") /\ f \in job[r].queue
  /\ disk' = disk \ {f}
  /\ GotoJob(r, [job[r] EXCEPT !.queue = @ \ {f}, !.empty = @ \cup {f}])
  /\ UNCHANGED <<tables, images, taken>>

(* passes over those that still have tickets and deletes the others' text,   *)
DeleteText(r, f) ==
  LET empty == TicketsOf(f) = {}
  IN /\ Running(r, "files") /\ f \in job[r].queue
     /\ disk' = IF empty THEN disk \ {f} ELSE disk
     /\ GotoJob(r, [job[r] EXCEPT !.queue = @ \ {f},
                                  !.empty = IF empty THEN @ \cup {f} ELSE @])
     /\ UNCHANGED <<tables, images, taken>>

(* and deletes their rows.                                                   *)
DeleteFiles(r) ==
  /\ Running(r, "files") /\ job[r].queue = {}
  /\ files' = [f \in FileIds |-> IF f \in job[r].empty THEN NoFile ELSE files[f]]
  /\ GotoJob(r, NoJob)
  /\ UNCHANGED <<tickets, stored>>

-----------------------------------------------------------------------------
(* Faults *)

Fault == faults < MaxFaults /\ faults' = faults + 1 /\ UNCHANGED <<tables, stored, now>>

(* An image request that fails when the image it replaces is gone leaves the *)
(* record without one.                                                       *)
FailPhoto(w) ==
  LET q == photo[w]
  IN /\ Fault /\ q # NoPhoto
     /\ photo' = [photo EXCEPT ![w] = NoPhoto]
     /\ lost' = IF q.pc = "commit" /\ q.read # None THEN lost \cup {q.read.picture} ELSE lost
     /\ UNCHANGED <<upload, job>>

(* An exception, which upload_files catches to go on with the next file, or  *)
(* the end of the worker: the database rolls back, the disk does not.        *)
FailUpload(w) ==
  /\ Fault /\ ~ Uploading(w, "idle")
  /\ \E u \in {GiveUp(upload[w]), NoUpload} : upload' = [upload EXCEPT ![w] = u]
  /\ UNCHANGED <<job, photos>>

FailJob(r) ==
  /\ Fault /\ job[r] # NoJob
  /\ job' = [job EXCEPT ![r] = NoJob]
  /\ UNCHANGED <<upload, photos>>

(* The connection that holds a job's lock is lost, and the job goes on.      *)
LoseLock(r) ==
  /\ Fault /\ job[r].holds
  /\ job' = [job EXCEPT ![r].holds = FALSE]
  /\ UNCHANGED <<upload, photos>>

Tick ==
  /\ now < MaxNow
  /\ now' = now + 1
  /\ UNCHANGED <<tables, stored, upload, photos, job, faults>>

-----------------------------------------------------------------------------
Init ==
  /\ files = [f \in FileIds |-> NoFile]
  /\ tickets = [s \in Slots |-> NoTicket]
  /\ disk = {} /\ images = {} /\ taken = 0
  /\ now = 0
  /\ upload = [w \in Uploaders |-> NoUpload]
  /\ photo = [w \in Senders |-> NoPhoto]
  /\ job = [r \in Runners |-> NoJob]
  /\ faults = 0 /\ lost = {}

Batches == UNION {[1 .. n -> Codes] : n \in 1 .. MaxBatch}

Serve(w) ==
  \/ OpenFile(w) \/ EndUpload(w) \/ TakeLock(w) \/ BreakDeadlock(w) \/ CheckFile(w)
  \/ \E hour \in (0 .. Hours - 1) \cup {None}, lines \in SUBSET Lines \ {{}} : AcceptFile(w, hour, lines)
  \/ RejectFile(w) \/ RemoveRejected(w)

UploadStep(w) == (\E q \in Batches : StartUpload(w, q)) \/ Serve(w)

Run(r) ==
  \/ (\E p \in 1 .. MaxImages : DeleteImage(r, p)) \/ DeleteTickets(r)
  \/ (\E f \in FileIds : DeleteText(r, f)) \/ DeleteFiles(r)

Next ==
  \/ \E w \in Uploaders : UploadStep(w) \/ FailUpload(w)
  \/ \E r \in Runners : ReadTickets(r) \/ ReadFiles(r) \/ Run(r) \/ FailJob(r) \/ LoseLock(r)
  \/ \E w \in Senders : DeleteReplaced(w) \/ CommitImage(w) \/ FailPhoto(w)
  \/ \E s \in Slots : \/ CloseTicket(s)
                      \/ \E w \in Senders : SendImage(w, s)
                      \/ \E r \in tickets[s].records : DropRecord(s, r)
  \/ Tick

Spec == Init /\ [][Next]_vars

(***************************************************************************)
(* A request or job under way goes on, PostgreSQL breaks deadlocks and     *)
(* gives a lock to those that wait in their order (so that a request that  *)
(* can go on again and again does), and the scheduler starts a job that    *)
(* has something to do.  Nobody has to upload or to close anything.        *)
(***************************************************************************)
Fairness ==
  /\ \A w \in Uploaders : SF_vars(Serve(w))
  /\ \A r \in Runners : WF_vars(Run(r))
  /\ WF_vars(\E r \in Runners : ReadTickets(r)) /\ WF_vars(\E r \in Runners : ReadFiles(r))

FairSpec == Spec /\ Fairness
=============================================================================
