-------------------------- MODULE FileStoreProofs --------------------------
(***************************************************************************)
(* Proofs about BusinessTime and FileStore.                                *)
(***************************************************************************)
EXTENDS FileStoreProps, TLAPS

-----------------------------------------------------------------------------
(* Business days *)

LEMMA DivMod ==
  ASSUME NEW t \in Int
  PROVE  /\ Day(t) \in Int /\ HourOf(t) \in 0 .. Hours - 1
         /\ t = Day(t) * Hours + HourOf(t)
<1>1. Hours \in Nat /\ Hours > 0
  BY BusinessTimeAssumption
<1> QED BY <1>1 DEF Day, HourOf

(* Different days are at least a day apart. *)
LEMMA DaysApart ==
  ASSUME NEW d \in Int, NEW e \in Int, d < e
  PROVE  d * Hours + Hours =< e * Hours
<1>1. Hours \in Nat /\ Hours > 0 /\ d + 1 =< e
  BY BusinessTimeAssumption
<1>2. (d + 1) * Hours =< e * Hours
  BY <1>1
<1> QED BY <1>1, <1>2

(* An hour is of one day only. *)
LEMMA DayIs ==
  ASSUME NEW d \in Int, NEW h \in 0 .. Hours - 1
  PROVE  Day(d * Hours + h) = d
<1> DEFINE t == d * Hours + h
<1>1. Hours \in Nat /\ d * Hours \in Int /\ t \in Int
  BY BusinessTimeAssumption
<1>2. /\ Day(t) \in Int /\ HourOf(t) \in 0 .. Hours - 1
      /\ t = Day(t) * Hours + HourOf(t)
  BY <1>1, DivMod
<1>3. Day(t) * Hours \in Int
  BY <1>1, <1>2
<1> HIDE DEF t
<1>4. ~ Day(t) < d
  BY <1>1, <1>2, <1>3, DaysApart DEF t
<1>5. ~ d < Day(t)
  BY <1>1, <1>2, <1>3, DaysApart DEF t
<1> QED BY <1>2, <1>4, <1>5 DEF t

LEMMA BusinessDateIsInt ==
  ASSUME NEW t \in Int PROVE BusinessDate(t) \in Int
BY DivMod DEF BusinessDate

(* The windows of the business days cover time without overlapping: an hour  *)
(* is in the window of its own business day and of no other.                 *)
THEOREM WindowsPartition ==
  ASSUME NEW d \in Int, NEW t \in Int
  PROVE  t \in BusinessWindow(d) <=> BusinessDate(t) = d
<1> DEFINE D == Day(t)
           h == HourOf(t)
           b == BusinessDate(t)
           start(x) == x * Hours + ResetHour
<1>1. /\ Hours \in Nat /\ Hours > 0 /\ ResetHour \in 0 .. Hours - 1
      /\ D \in Int /\ h \in 0 .. Hours - 1 /\ t = D * Hours + h
  BY BusinessTimeAssumption, DivMod
<1>2. b = IF h < ResetHour THEN D - 1 ELSE D
  BY DEF BusinessDate, BeforeReset
<1>3. b \in Int /\ b * Hours \in Int /\ D * Hours \in Int /\ d * Hours \in Int
  BY <1>1, <1>2
<1>4. (D - 1) * Hours = D * Hours - Hours
  BY <1>1
<1> HIDE DEF D, h, b
<1>5. b * Hours = IF h < ResetHour THEN D * Hours - Hours ELSE D * Hours
  BY <1>2, <1>4
<1>6. b * Hours + ResetHour =< t /\ t =< b * Hours + ResetHour + Hours - 1
  BY <1>1, <1>3, <1>5
<1>7. t \in BusinessWindow(d) <=> d * Hours + ResetHour =< t /\ t =< d * Hours + ResetHour + Hours - 1
  BY <1>1, <1>3 DEF BusinessWindow
<1>8. CASE d < b
  <2>1. d * Hours + Hours =< b * Hours
    BY <1>3, <1>8, DaysApart
  <2> QED BY <1>1, <1>3, <1>6, <1>7, <1>8, <2>1 DEF b
<1>9. CASE b < d
  <2>1. b * Hours + Hours =< d * Hours
    BY <1>3, <1>9, DaysApart
  <2> QED BY <1>1, <1>3, <1>6, <1>7, <1>9, <2>1 DEF b
<1>10. CASE d = b
  BY <1>6, <1>7, <1>10 DEF b
<1> QED BY <1>3, <1>8, <1>9, <1>10

(* A deadline is on the calendar day of an upload before the reset, and in   *)
(* the business day of one after it.                                         *)
LEMMA DeadlineFits ==
  ASSUME NEW hour \in 0 .. Hours - 1, NEW t \in Int
  PROVE  /\ Deadline(hour, t) \in Int
         /\ IF BeforeReset(t) THEN Day(Deadline(hour, t)) = Day(t)
            ELSE Deadline(hour, t) \in BusinessWindow(BusinessDate(t))
<1> DEFINE D == Day(t)
           due == Deadline(hour, t)
<1>1. /\ Hours \in Nat /\ Hours > 0 /\ ResetHour \in 0 .. Hours - 1
      /\ D \in Int /\ HourOf(t) \in 0 .. Hours - 1 /\ hour \in Int /\ 0 =< hour /\ hour =< Hours - 1
  BY BusinessTimeAssumption, DivMod
<1> hour # None
  BY <1>1, BusinessTimeAssumption
<1>2. D * Hours \in Int /\ (D - 1) * Hours = D * Hours - Hours
  BY <1>1
<1>3. CASE BeforeReset(t)
  <2>1. due = D * Hours + hour
    <3>1. Deadline(hour, t) = IF (D - 1) * Hours + hour < D * Hours + ResetHour
                              THEN (D - 1) * Hours + hour + Hours ELSE (D - 1) * Hours + hour
      BY <1>3 DEF Deadline
    <3> HIDE DEF D
    <3> QED BY <1>1, <1>2, <3>1
  <2>2. Day(D * Hours + hour) = D
    BY <1>1, DayIs
  <2> QED BY <1>1, <1>2, <1>3, <2>1, <2>2
<1>4. CASE ~ BeforeReset(t)
  <2>1. Deadline(hour, t) = IF D * Hours + hour < D * Hours + ResetHour
                            THEN D * Hours + hour + Hours ELSE D * Hours + hour
    BY <1>4 DEF Deadline
  <2>2. BusinessWindow(BusinessDate(t)) = D * Hours + ResetHour .. D * Hours + ResetHour + Hours - 1
    BY <1>4 DEF BusinessWindow, BusinessDate
  <2> HIDE DEF D
  <2> QED BY <1>1, <1>2, <1>4, <2>1, <2>2
<1> QED BY <1>3, <1>4

-----------------------------------------------------------------------------
(* The inductive invariant *)

WithFile == {"parse", "remove"}

(* A request has what its next step needs; from the check of a file until    *)
(* its commit it holds the lock of its business day and code.                *)
UploadFits(u) ==
  /\ u.pc \in {"lock", "check", "parse"} => u.code \in Codes
  /\ u.pc \in {"check", "parse"} => Key(u) \in u.locks
  /\ u.pc \in WithFile => u.file \in FileIds

(* Its new file is in no table and no job, on disk, and still no duplicate.  *)
InHand(u) ==
  /\ u.pc \in WithFile => ~ Exists(u.file) /\ u.file \notin InJobs
  /\ u.pc = "parse" => u.file \in disk /\ ~ Duplicate(u)

(* Requests share neither locks nor files. *)
Apart ==
  \A v, w \in Uploaders : v # w =>
    /\ upload[v].locks \cap upload[w].locks = {}
    /\ upload[v].pc \in WithFile /\ upload[w].pc \in WithFile => upload[v].file # upload[w].file

(* A job deletes only what is old, or gone already, and files that have no   *)
(* tickets.                                                                  *)
JobFits(j) ==
  /\ \A s \in j.old : tickets[s] = NoTicket \/ ClosedBefore(s, Cutoff)
  /\ \A f \in j.queue : Exists(f) => files[f].at < Cutoff
  /\ \A f \in j.empty, s \in Slots : s[1] = f => tickets[s] = NoTicket

(* The two parts of EvidenceKept *)
TextKept ==
  \A f \in FileIds : Exists(f) /\ f \notin disk =>
    files[f].at < now - Retention /\ \A l \in Lines : tickets[<<f, l>>] = NoTicket

Excused(s, r) ==
  \/ ClosedBefore(s, Cutoff)
  \/ \E w \in Senders : photo[w].pc = "commit" /\ photo[w].slot = s /\ photo[w].read = r
  \/ r.picture \in lost

ImagesKept ==
  \A s \in Slots : \A r \in tickets[s].records : r.picture \in images \/ Excused(s, r)

(* An image is of one record, which is the one that read it if it was read.  *)
OwnImages ==
  \A s, t \in Slots : \A r \in tickets[s].records, q \in tickets[t].records :
    /\ r.picture \in 1 .. taken
    /\ r.picture = q.picture => s = t /\ r = q

Busy == {"delete", "commit"}

(* The image a request brings is stored, and nobody knows of it yet.         *)
PhotoFits(p) ==
  /\ p.pc \in Busy => p.slot \in Slots /\ p.new \in images
  /\ p.pc = "delete" => p.read # None
  /\ \A s \in Slots : \A r \in tickets[s].records :
       /\ p.pc \in Busy => r.picture # p.new
       /\ p.pc \in Busy /\ p.read # None /\ r.picture = p.read.picture => s = p.slot /\ r = p.read

PhotosApart ==
  \A v, w \in Senders : photo[v].pc \in Busy /\ photo[w].pc \in Busy =>
    /\ v # w => photo[v].new # photo[w].new
    /\ photo[v].read # None => photo[v].read.picture \in 1 .. taken /\ photo[v].read.picture # photo[w].new

(* A job deletes only the images of tickets it deletes. *)
ShownFits(j) ==
  /\ j.shown \subseteq 1 .. taken
  /\ \A s \in Slots : \A r \in tickets[s].records : r.picture \in j.shown => s \in j.old
  /\ \A w \in Senders : photo[w].pc \in Busy => photo[w].new \notin j.shown

ImagesFit ==
  /\ ImagesKept /\ OwnImages /\ PhotosApart
  /\ \A w \in Senders : PhotoFits(photo[w])
  /\ \A r \in Runners : ShownFits(job[r])

IInv ==
  /\ FileStoreTypeOK
  /\ \A w \in Uploaders : UploadFits(upload[w]) /\ InHand(upload[w])
  /\ Apart
  /\ \A r \in Runners : JobFits(job[r])
  /\ OneFilePerDay /\ DueInTime /\ FilesOutliveTickets /\ TextKept
  /\ ImagesFit

-----------------------------------------------------------------------------
(* Rows and records *)

LEMMA NoRecords ==
  /\ NoFile \notin FileRow
  /\ NoTicket \notin TicketRow /\ Open \in TicketRow
  /\ \A t \in Int : Closed(t) \in TicketRow
  /\ NoUpload \in Upload /\ UploadFits(NoUpload) /\ InHand(NoUpload)
  /\ NoJob \in Job /\ JobFits(NoJob) /\ ShownFits(NoJob)
  /\ NoPhoto \in Photo /\ PhotoFits(NoPhoto) /\ NoPhoto.pc \notin Busy
  /\ NoTicket.records = {} /\ Open.records = {} /\ \A t \in Int : Closed(t).records = {}
<1>1. NoFile \notin FileRow
  BY FileStoreAssumption DEF NoFile, FileRow
<1>2. NoTicket \notin TicketRow /\ Open \in TicketRow /\ \A t \in Int : Closed(t) \in TicketRow
  <2>1. Open = [status |-> "open", at |-> 0, records |-> {}]
    BY DEF Open
  <2>2. \A t \in Int : Closed(t) = [status |-> "closed", at |-> t, records |-> {}]
    BY DEF Closed
  <2>3. 0 \in Int /\ {} \in SUBSET Record
    OBVIOUS
  <2>4. \A st \in {"open", "closed"}, t \in Int :
          [status |-> st, at |-> t, records |-> {}] \in TicketRow
    BY DEF TicketRow
  <2> QED BY <2>1, <2>2, <2>3, <2>4 DEF NoTicket, TicketRow
<1>3. NoUpload \in Upload
  <2>1. <<>> \in Seq(Codes)
    OBVIOUS
  <2> QED BY <2>1 DEF NoUpload, Upload
<1>4. UploadFits(NoUpload) /\ InHand(NoUpload)
  BY DEF NoUpload, UploadFits, InHand, WithFile
<1>5. NoJob \in Job /\ JobFits(NoJob) /\ ShownFits(NoJob)
  BY DEF NoJob, Job, Jobs, JobFits, ShownFits
<1>6. NoPhoto.pc \notin Busy /\ PhotoFits(NoPhoto)
  BY DEF NoPhoto, PhotoFits, Busy
<1>7. NoPhoto \in Photo
  BY DEF NoPhoto, Photo
<1>8. NoTicket.records = {} /\ Open.records = {} /\ \A t \in Int : Closed(t).records = {}
  BY DEF NoTicket, Open, Closed
<1> QED BY <1>1, <1>2, <1>3, <1>4, <1>5, <1>6, <1>7, <1>8

(* The ids that jobs refer to *)
LEMMA JobsReferTo ==
  ASSUME NEW f
  PROVE  f \notin InJobs <=>
           \A r \in Runners : /\ f \notin job[r].queue /\ f \notin job[r].empty
                              /\ \A s \in job[r].old : s[1] # f
BY DEF InJobs

LEMMA KeyIsKey ==
  ASSUME NEW u \in Upload, u.code \in Codes
  PROVE  Key(u) \in Int \X Codes /\ BusinessDate(u.at) \in Int
<1>1. u.at \in Int
  BY DEF Upload
<1> QED BY <1>1, BusinessDateIsInt DEF Key

(* The invariant holds at the start. *)
LEMMA InitHolds == Init => IInv
<1> SUFFICES ASSUME Init PROVE IInv
  OBVIOUS
<1>1. FileStoreTypeOK
  BY NoRecords DEF Init, FileStoreTypeOK
<1>2. \A w \in Uploaders : UploadFits(upload[w]) /\ InHand(upload[w])
  BY NoRecords DEF Init
<1>3. Apart /\ \A r \in Runners : JobFits(job[r])
  <2>1. \A w \in Uploaders : upload[w] = NoUpload
    BY DEF Init
  <2>2. NoUpload.locks = {} /\ NoUpload.pc = "idle"
    BY DEF NoUpload
  <2>3. \A r \in Runners : job[r] = NoJob
    BY DEF Init
  <2> QED BY <2>1, <2>2, <2>3, NoRecords DEF Apart, WithFile
<1>4. OneFilePerDay /\ DueInTime /\ FilesOutliveTickets /\ TextKept
  BY DEF Init, OneFilePerDay, DueInTime, FilesOutliveTickets, TextKept, Exists, NoTicket, NoFile
<1>5. ImagesFit
  <2>1. \A s \in Slots : tickets[s].records = {}
    BY NoRecords DEF Init
  <2>2. /\ \A w \in Senders : photo[w] = NoPhoto
        /\ \A r \in Runners : job[r] = NoJob
    BY DEF Init
  <2> QED BY <2>1, <2>2, NoRecords DEF ImagesFit, ImagesKept, OwnImages, PhotosApart
<1> QED BY <1>1, <1>2, <1>3, <1>4, <1>5 DEF IInv

-----------------------------------------------------------------------------
(* Images *)

(* Steps that leave images and their requests alone: records may go, with    *)
(* them their tickets, and jobs look at what they may delete.                *)
LEMMA ImagesFrame ==
  ASSUME ImagesFit, UNCHANGED <<images, taken, photo, lost>>,
         \A s \in Slots : \A r \in tickets'[s].records :
           r \in tickets[s].records /\ (ClosedBefore(s, Cutoff) => ClosedBefore(s, Cutoff)'),
         \A x \in Runners : ShownFits(job'[x])
  PROVE  ImagesFit'
<1>1. ImagesKept'
  BY DEF ImagesFit, ImagesKept, Excused
<1>2. OwnImages' /\ PhotosApart'
  BY DEF ImagesFit, OwnImages, PhotosApart
<1>3. ASSUME NEW w \in Senders PROVE PhotoFits(photo[w])'
  BY DEF ImagesFit, PhotoFits
<1>4. ASSUME NEW x \in Runners PROVE ShownFits(job[x])'
  BY DEF ShownFits
<1> QED BY <1>1, <1>2, <1>3, <1>4 DEF ImagesFit

(* Steps beside tickets, images and jobs *)
LEMMA ImagesBeside ==
  ASSUME ImagesFit, UNCHANGED <<tickets, images, taken, now, photo, lost, job>>
  PROVE  ImagesFit'
<1>1. \A s \in Slots : \A r \in tickets'[s].records :
        r \in tickets[s].records /\ (ClosedBefore(s, Cutoff) => ClosedBefore(s, Cutoff)')
  BY DEF ClosedBefore, Cutoff
<1>2. \A x \in Runners : ShownFits(job'[x])
  BY DEF ImagesFit
<1> QED BY <1>1, <1>2, ImagesFrame

-----------------------------------------------------------------------------
(* Steps of a request that change its own record only *)

LEMMA RequestStep ==
  ASSUME IInv, NEW w \in Uploaders, NEW q \in Upload, UploadFits(q), InHand(q),
         upload' = [upload EXCEPT ![w] = q], UNCHANGED <<tables, stored, now, job, photos>>, faults' \in Nat,
         \A v \in Uploaders : v # w => q.locks \cap upload[v].locks = {},
         q.pc \in WithFile => upload[w].pc \in WithFile /\ upload[w].file = q.file
  PROVE  IInv'
<1>1. UNCHANGED <<files, tickets, disk, images, taken, now, job, photo, lost>>
  BY DEF tables, stored, photos
<1>2. upload \in [Uploaders -> Upload]
  BY DEF IInv, FileStoreTypeOK
<1>3. FileStoreTypeOK'
  BY <1>1 DEF IInv, FileStoreTypeOK
<1>4. (\A v \in Uploaders : UploadFits(upload[v]) /\ InHand(upload[v]))'
  <2>1. \A v \in Uploaders : UploadFits(upload'[v]) /\ InHand(upload'[v])
    BY <1>2 DEF IInv
  <2> QED BY <1>1, <2>1 DEF UploadFits, InHand, Exists, InJobs, Duplicate, Key
<1>5. Apart'
  BY <1>2 DEF IInv, Apart
<1>6. (\A r \in Runners : JobFits(job[r]))'
  BY <1>1 DEF IInv, JobFits, ClosedBefore, Cutoff, Exists
<1>7. (OneFilePerDay /\ DueInTime /\ FilesOutliveTickets /\ TextKept)'
  BY <1>1 DEF IInv, OneFilePerDay, DueInTime, FilesOutliveTickets, TextKept, Exists
<1>8. ImagesFit'
  BY <1>1, ImagesBeside DEF IInv
<1> QED BY <1>3, <1>4, <1>5, <1>6, <1>7, <1>8 DEF IInv

LEMMA OneRequest ==
  ASSUME IInv, NEW w \in Uploaders
  PROVE  upload[w] \in Upload /\ UploadFits(upload[w]) /\ InHand(upload[w])
BY DEF IInv, FileStoreTypeOK

(* Giving up the file in hand leaves a request with neither lock nor file.   *)
LEMMA GivenUp ==
  ASSUME NEW u \in Upload
  PROVE  /\ GiveUp(u) \in Upload /\ UploadFits(GiveUp(u)) /\ InHand(GiveUp(u))
         /\ GiveUp(u).locks = {} /\ GiveUp(u).pc = "next"
<1>1. u.queue \in Seq(Codes)
  BY DEF Upload
<1>2. GiveUp(u) \in Upload
  BY <1>1, NoRecords DEF GiveUp, Upload
<1>3. GiveUp(u).locks = {} /\ GiveUp(u).pc = "next"
  BY DEF GiveUp, NoUpload
<1> QED BY <1>2, <1>3 DEF UploadFits, InHand, WithFile

LEMMA StartUploadKeeps ==
  ASSUME IInv, NEW w \in Uploaders, NEW q \in Batches, StartUpload(w, q)
  PROVE  IInv'
<1> DEFINE u == [NoUpload EXCEPT !.pc = "next", !.queue = q]
<1>1. q \in Seq(Codes)
  BY FileStoreAssumption DEF Batches
<1>2. u \in Upload
  BY <1>1, NoRecords DEF Upload
<1>3. u.pc = "next" /\ u.locks = {}
  BY DEF NoUpload
<1>4. upload' = [upload EXCEPT ![w] = u] /\ UNCHANGED <<tables, stored, now, job, photos, faults>>
  BY DEF StartUpload, Goto
<1> HIDE DEF u
<1>5. UploadFits(u) /\ InHand(u)
  BY <1>3 DEF UploadFits, InHand, WithFile
<1> QED BY <1>2, <1>3, <1>4, <1>5, RequestStep DEF IInv, FileStoreTypeOK, WithFile

LEMMA OpenFileKeeps ==
  ASSUME IInv, NEW w \in Uploaders, OpenFile(w)
  PROVE  IInv'
<1> DEFINE u == upload[w]
           q == [u EXCEPT !.pc = "lock", !.queue = Tail(@), !.code = Head(u.queue), !.at = now]
<1>1. u \in Upload /\ u.pc = "next" /\ u.queue \in Seq(Codes) /\ u.queue # <<>> /\ now \in Nat
  BY OneRequest DEF OpenFile, Uploading, Upload, IInv, FileStoreTypeOK
<1>2. Head(u.queue) \in Codes /\ Tail(u.queue) \in Seq(Codes)
  BY <1>1
<1>3. q \in Upload
  BY <1>1, <1>2 DEF Upload
<1>4. q.pc = "lock" /\ q.code \in Codes /\ q.locks = u.locks
  BY <1>1, <1>2 DEF Upload
<1>5. upload' = [upload EXCEPT ![w] = q] /\ UNCHANGED <<tables, stored, now, job, photos, faults>>
  BY DEF OpenFile, Goto
<1> HIDE DEF q
<1>6. UploadFits(q) /\ InHand(q)
  BY <1>4 DEF UploadFits, InHand, WithFile
<1>7. \A v \in Uploaders : v # w => q.locks \cap upload[v].locks = {}
  BY <1>4 DEF IInv, Apart
<1> QED BY <1>3, <1>4, <1>5, <1>6, <1>7, RequestStep DEF IInv, FileStoreTypeOK, WithFile

LEMMA EndUploadKeeps ==
  ASSUME IInv, NEW w \in Uploaders, EndUpload(w)
  PROVE  IInv'
<1>1. NoUpload.pc = "idle" /\ NoUpload.locks = {}
  BY DEF NoUpload
<1>2. upload' = [upload EXCEPT ![w] = NoUpload] /\ UNCHANGED <<tables, stored, now, job, photos, faults>>
  BY DEF EndUpload, Goto
<1> QED BY <1>1, <1>2, NoRecords, RequestStep DEF IInv, FileStoreTypeOK, WithFile

LEMMA TakeLockKeeps ==
  ASSUME IInv, NEW w \in Uploaders, TakeLock(w)
  PROVE  IInv'
<1> DEFINE u == upload[w]
           q == [u EXCEPT !.pc = "check", !.locks = @ \cup {Key(u)}]
<1>1. u \in Upload /\ UploadFits(u) /\ u.pc = "lock" /\ u.code \in Codes
  BY OneRequest DEF TakeLock, Uploading, UploadFits
<1>2. u.locks \subseteq Int \X Codes /\ Key(u) \in Int \X Codes
  BY <1>1, KeyIsKey DEF Upload
<1>3. q \in Upload
  BY <1>1, <1>2 DEF Upload
<1>4. /\ q.pc = "check" /\ q.code = u.code /\ q.at = u.at
      /\ q.locks = u.locks \cup {Key(u)}
  BY <1>1 DEF Upload
<1>5. upload' = [upload EXCEPT ![w] = q] /\ UNCHANGED <<tables, stored, now, job, photos, faults>>
  BY DEF TakeLock, Goto
<1> HIDE DEF q
<1>6. UploadFits(q) /\ InHand(q)
  BY <1>1, <1>4 DEF UploadFits, InHand, WithFile, Key
<1>7. \A v \in Uploaders : v # w => q.locks \cap upload[v].locks = {}
  <2>1. \A v \in Uploaders : v # w => Key(u) \notin upload[v].locks
    BY DEF TakeLock, WaitsFor
  <2> QED BY <1>4, <2>1 DEF IInv, Apart
<1> QED BY <1>3, <1>4, <1>5, <1>6, <1>7, RequestStep DEF IInv, FileStoreTypeOK, WithFile

LEMMA BreakDeadlockKeeps ==
  ASSUME IInv, NEW w \in Uploaders, BreakDeadlock(w)
  PROVE  IInv'
<1>1. upload[w] \in Upload
  BY OneRequest
<1>2. upload' = [upload EXCEPT ![w] = GiveUp(upload[w])] /\ UNCHANGED <<tables, stored, now, job, photos, faults>>
  BY DEF BreakDeadlock, Goto
<1> QED BY <1>1, <1>2, GivenUp, RequestStep DEF IInv, FileStoreTypeOK, WithFile

LEMMA RejectFileKeeps ==
  ASSUME IInv, NEW w \in Uploaders, RejectFile(w)
  PROVE  IInv'
<1> DEFINE u == upload[w]
           q == [u EXCEPT !.pc = "remove", !.locks = {}]
<1>1. u \in Upload /\ UploadFits(u) /\ InHand(u) /\ u.pc = "parse"
  BY OneRequest DEF RejectFile, Uploading
<1>2. q \in Upload
  BY <1>1 DEF Upload
<1>3. q.pc = "remove" /\ q.locks = {} /\ q.file = u.file
  BY <1>1 DEF Upload
<1>4. upload' = [upload EXCEPT ![w] = q] /\ UNCHANGED <<tables, stored, now, job, photos, faults>>
  BY DEF RejectFile, Goto
<1> HIDE DEF q
<1>5. UploadFits(q) /\ InHand(q)
  BY <1>1, <1>3 DEF UploadFits, InHand, WithFile
<1> QED BY <1>1, <1>2, <1>3, <1>4, <1>5, RequestStep DEF IInv, FileStoreTypeOK, WithFile

LEMMA FailUploadKeeps ==
  ASSUME IInv, NEW w \in Uploaders, FailUpload(w)
  PROVE  IInv'
<1>1. upload[w] \in Upload
  BY OneRequest
<1>2. UNCHANGED <<tables, stored, now, job, photos>> /\ faults' \in Nat
  BY DEF FailUpload, Fault, photos, IInv, FileStoreTypeOK
<1>3. CASE upload' = [upload EXCEPT ![w] = GiveUp(upload[w])]
  BY <1>1, <1>2, <1>3, GivenUp, RequestStep DEF WithFile
<1>4. CASE upload' = [upload EXCEPT ![w] = NoUpload]
  <2>1. NoUpload.pc = "idle" /\ NoUpload.locks = {}
    BY DEF NoUpload
  <2> QED BY <1>2, <1>4, <2>1, NoRecords, RequestStep DEF WithFile
<1> QED BY <1>3, <1>4 DEF FailUpload

-----------------------------------------------------------------------------
(* The file in hand *)

(* A new file gets an id that nothing refers to. *)
LEMMA CheckFileKeeps ==
  ASSUME IInv, NEW w \in Uploaders, CheckFile(w)
  PROVE  IInv'
<1> DEFINE u == upload[w]
<1>1. u \in Upload /\ UploadFits(u) /\ InHand(u) /\ u.pc = "check" /\ u.code \in Codes
  BY OneRequest DEF CheckFile, Uploading, UploadFits
<1>2. CASE Duplicate(u)
  <2> DEFINE q == [u EXCEPT !.pc = "next", !.code = None, !.at = 0]
  <2>1. q \in Upload
    BY <1>1 DEF Upload
  <2>2. q.pc = "next" /\ q.locks = u.locks
    BY <1>1 DEF Upload
  <2>3. upload' = [upload EXCEPT ![w] = q] /\ UNCHANGED <<tables, stored, now, job, photos, faults>>
    BY <1>2 DEF CheckFile, Goto
  <2> HIDE DEF q
  <2>4. UploadFits(q) /\ InHand(q)
    BY <2>2 DEF UploadFits, InHand, WithFile
  <2>5. \A v \in Uploaders : v # w => q.locks \cap upload[v].locks = {}
    BY <2>2 DEF IInv, Apart
  <2> QED BY <2>1, <2>2, <2>3, <2>4, <2>5, RequestStep DEF IInv, FileStoreTypeOK, WithFile
<1>3. CASE ~ Duplicate(u)
  <2> PICK f \in FreshIds : f = NewId
    BY <1>3 DEF CheckFile, NewId
  <2>1. /\ f \in FileIds /\ ~ Exists(f) /\ f \notin InJobs /\ f \notin disk
        /\ \A v \in Uploaders : upload[v].file # f
    BY DEF FreshIds
  <2>2. [u EXCEPT !.pc = "parse", !.file = f] \in Upload
    BY <1>1, <2>1 DEF Upload
  <2> PICK q \in Upload : q = [u EXCEPT !.pc = "parse", !.file = f]
    BY <2>2
  <2>3. /\ q.pc = "parse" /\ q.file = f /\ q.locks = u.locks
        /\ q.code = u.code /\ q.at = u.at
    BY <1>1 DEF Upload
  <2>4. /\ upload' = [upload EXCEPT ![w] = q] /\ disk' = disk \cup {f}
        /\ UNCHANGED <<files, tickets, images, taken, now, job, photo, lost, faults>>
    BY <1>3 DEF CheckFile, Goto, tables, photos
  <2>5. upload \in [Uploaders -> Upload]
    BY DEF IInv, FileStoreTypeOK
  <2>6. FileStoreTypeOK'
    BY <2>1, <2>2, <2>4 DEF IInv, FileStoreTypeOK
  <2>7. ASSUME NEW v \in Uploaders PROVE (UploadFits(upload[v]) /\ InHand(upload[v]))'
    <3>1. CASE v = w
      <4>1. upload'[v] = q
        BY <2>4, <2>5, <3>1
      <4>2. ~ Exists(q.file)' /\ (q.file \notin InJobs)'
        BY <2>1, <2>3, <2>4 DEF Exists, InJobs
      <4>3. ~ Duplicate(q)'
        BY <1>3, <2>3, <2>4 DEF Duplicate, Exists
      <4>4. UploadFits(q)
        BY <1>1, <2>1, <2>3 DEF UploadFits, Key
      <4>5. UploadFits(upload[v])'
        BY <4>1, <4>4 DEF UploadFits, Key
      <4>6. (~ Exists(upload[v].file) /\ upload[v].file \notin InJobs)'
        BY <4>1, <4>2 DEF Exists, InJobs
      <4>7. ~ Duplicate(upload[v])'
        BY <4>1, <4>3 DEF Duplicate, Exists
      <4>8. (upload[v].file \in disk)'
        <5>1. upload'[v].file = f /\ f \in disk'
          BY <2>3, <2>4, <4>1
        <5> QED BY <5>1
      <4> QED BY <4>5, <4>6, <4>7, <4>8 DEF InHand
    <3>2. CASE v # w
      <4>1. upload'[v] = upload[v] /\ UploadFits(upload[v]) /\ InHand(upload[v])
        BY <2>4, <2>5, <3>2 DEF IInv
      <4>2. UploadFits(upload[v])'
        BY <4>1 DEF UploadFits, Key
      <4>3. (upload[v].pc \in WithFile => ~ Exists(upload[v].file) /\ upload[v].file \notin InJobs)'
        BY <2>4, <4>1 DEF InHand, Exists, InJobs
      <4>4. (upload[v].pc = "parse" => upload[v].file \in disk /\ ~ Duplicate(upload[v]))'
        BY <2>4, <4>1 DEF InHand, Duplicate, Exists
      <4> QED BY <4>2, <4>3, <4>4 DEF InHand
    <3> QED BY <3>1, <3>2
  <2>8. Apart'
    BY <2>1, <2>3, <2>4, <2>5 DEF IInv, Apart
  <2>9. (\A r \in Runners : JobFits(job[r]))'
    BY <2>4 DEF IInv, JobFits, ClosedBefore, Cutoff, Exists
  <2>10. (OneFilePerDay /\ DueInTime /\ FilesOutliveTickets /\ TextKept)'
    BY <2>4 DEF IInv, OneFilePerDay, DueInTime, FilesOutliveTickets, TextKept, Exists
  <2>11. ImagesFit'
    BY <2>4, ImagesBeside DEF IInv
  <2> QED BY <2>6, <2>7, <2>8, <2>9, <2>10, <2>11 DEF IInv
<1> QED BY <1>2, <1>3

(* The row is for an id no table and no job knows, and the lock excludes     *)
(* that anyone else has brought in the same code for the same business day.  *)
LEMMA AcceptFileKeeps ==
  ASSUME IInv, NEW w \in Uploaders, NEW hour \in (0 .. Hours - 1) \cup {None}, NEW lines \in SUBSET Lines,
         AcceptFile(w, hour, lines)
  PROVE  IInv'
<1> DEFINE u == upload[w]
           f == u.file
           due == Deadline(hour, u.at)
           late == due # None /\ due =< u.at
           row == [code |-> u.code, at |-> u.at, deadline |-> due, open |-> ~ late]
           ticket == IF late THEN Closed(due) ELSE Open
           q == GiveUp(u)
<1>1. /\ u \in Upload /\ UploadFits(u) /\ InHand(u) /\ u.pc = "parse" /\ u.code \in Codes
      /\ f \in FileIds /\ u.at \in Nat /\ Key(u) \in u.locks
  BY OneRequest DEF AcceptFile, Uploading, UploadFits, WithFile, Upload
<1>2. ~ Exists(f) /\ f \notin InJobs /\ f \in disk /\ ~ Duplicate(u)
  BY <1>1 DEF InHand, WithFile
<1>3. /\ due \in Int \cup {None}
      /\ due # None => IF BeforeReset(u.at) THEN Day(due) = Day(u.at)
                       ELSE due \in BusinessWindow(BusinessDate(u.at))
  <2>1. CASE hour = None
    BY <2>1 DEF Deadline
  <2>2. CASE hour # None
    BY <1>1, <2>2, DeadlineFits
  <2> QED BY <2>1, <2>2
<1> HIDE DEF due
<1>4. row \in FileRow /\ row # NoFile
  <2>1. ASSUME NEW o \in BOOLEAN
        PROVE  [code |-> u.code, at |-> u.at, deadline |-> due, open |-> o] \in FileRow
    BY <1>1, <1>3 DEF FileRow
  <2>2. (~ late) \in BOOLEAN
    OBVIOUS
  <2> HIDE DEF late
  <2>3. row \in FileRow
    BY <2>1, <2>2
  <2> QED BY <2>3, NoRecords
<1>5. ticket \in TicketRow /\ ticket # NoTicket /\ ticket.records = {}
  <2>1. due # None => Closed(due) \in TicketRow /\ Closed(due) # NoTicket /\ Closed(due).records = {}
    BY <1>3, NoRecords DEF Closed, NoTicket
  <2>2. Open \in TicketRow /\ Open # NoTicket /\ Open.records = {}
    BY NoRecords DEF Open, NoTicket
  <2> QED BY <2>1, <2>2
<1>6. /\ files' = [files EXCEPT ![f] = row]
      /\ tickets' = [s \in Slots |-> IF s[1] = f /\ s[2] \in lines THEN ticket ELSE tickets[s]]
      /\ upload' = [upload EXCEPT ![w] = q]
      /\ UNCHANGED <<disk, images, taken, now, job, photo, lost, faults>>
  BY DEF AcceptFile, Accept, Goto, stored, photos, due
<1>7. q \in Upload /\ UploadFits(q) /\ q.locks = {} /\ q.pc = "next"
  BY <1>1, GivenUp
<1>8. row.code = u.code /\ row.at = u.at /\ row.deadline = due
  OBVIOUS
<1> HIDE DEF row, ticket, q, late
<1>9. /\ files \in [FileIds -> FileRow \cup {NoFile}] /\ tickets \in [Slots -> TicketRow \cup {NoTicket}]
      /\ upload \in [Uploaders -> Upload]
  BY DEF IInv, FileStoreTypeOK
<1>10. \A g \in FileIds : files'[g] = IF g = f THEN row ELSE files[g]
  BY <1>1, <1>6, <1>9
<1>11. \A g \in FileIds : Exists(g)' <=> g = f \/ Exists(g)
  BY <1>4, <1>10 DEF Exists
<1>12. \A s \in Slots : s[1] # f => tickets'[s] = tickets[s]
  BY <1>6
<1>13. FileStoreTypeOK'
  <2>1. files' \in [FileIds -> FileRow \cup {NoFile}]
    BY <1>4, <1>6, <1>9
  <2>2. tickets' \in [Slots -> TicketRow \cup {NoTicket}]
    BY <1>5, <1>6, <1>9
  <2>3. upload' \in [Uploaders -> Upload]
    BY <1>6, <1>7, <1>9
  <2> QED BY <1>6, <2>1, <2>2, <2>3 DEF IInv, FileStoreTypeOK
<1>14. ASSUME NEW v \in Uploaders PROVE (UploadFits(upload[v]) /\ InHand(upload[v]))'
  <2>1. CASE v = w
    <3>1. upload'[v] = q
      BY <1>6, <1>9, <2>1
    <3> QED BY <1>7, <3>1 DEF UploadFits, InHand, WithFile
  <2>2. CASE v # w
    <3> PICK p \in Upload : p = upload[v]
      BY <1>9
    <3>1. upload'[v] = p /\ p \in Upload /\ UploadFits(p) /\ InHand(p)
      BY <1>6, <1>9, <2>2 DEF IInv
    <3>2. UploadFits(upload[v])'
      BY <3>1 DEF UploadFits, Key
    <3>3. p.pc \in WithFile => p.file # f /\ p.file \in FileIds
      BY <1>1, <2>2, <3>1 DEF IInv, Apart, WithFile, UploadFits
    <3>4. p.pc \in WithFile => ~ Exists(p.file)' /\ p.file \notin InJobs'
      BY <1>6, <1>11, <3>1, <3>3 DEF InHand, InJobs
    <3>5. ASSUME p.pc = "parse" PROVE ~ Duplicate(p)'
      <4>1. ~ (p.code = u.code /\ u.at \in BusinessWindow(BusinessDate(p.at)))
        <5> SUFFICES ASSUME p.code = u.code, u.at \in BusinessWindow(BusinessDate(p.at))
                     PROVE  FALSE
          OBVIOUS
        <5>1. p.at \in Int /\ u.at \in Int
          BY <1>1, <3>1 DEF Upload
        <5>2. BusinessDate(u.at) = BusinessDate(p.at)
          BY <5>1, WindowsPartition, BusinessDateIsInt
        <5>3. Key(u) = Key(p)
          BY <5>2 DEF Key
        <5>4. Key(p) \in p.locks
          BY <3>1, <3>5 DEF UploadFits
        <5> QED BY <1>1, <2>2, <5>3, <5>4 DEF IInv, Apart
      <4>2. ~ Duplicate(p)
        BY <3>1, <3>5 DEF InHand
      <4> QED BY <1>8, <1>10, <1>11, <4>1, <4>2 DEF Duplicate
    <3>6. p.pc = "parse" => p.file \in disk'
      BY <1>6, <3>1 DEF InHand
    <3>7. InHand(upload[v])'
      BY <3>1, <3>4, <3>5, <3>6 DEF InHand, Duplicate, Exists
    <3> QED BY <3>2, <3>7
  <2> QED BY <2>1, <2>2
<1>15. Apart'
  BY <1>6, <1>7, <1>9 DEF IInv, Apart, WithFile
<1>16. ASSUME NEW r \in Runners PROVE JobFits(job[r])'
  <2> DEFINE j == job[r]
  <2>1. /\ JobFits(j) /\ j \in Job /\ job' = job /\ now' = now
    BY <1>6 DEF IInv, FileStoreTypeOK
  <2>2. f \notin j.queue /\ f \notin j.empty /\ \A s \in j.old : s[1] # f
    BY <1>2, JobsReferTo
  <2>3. j.old \subseteq Slots /\ j.queue \subseteq FileIds
    BY <2>1 DEF Job
  <2>4. \A s \in j.old : tickets'[s] = tickets[s]
    BY <1>12, <2>2, <2>3
  <2>5. \A g \in j.queue : files'[g] = files[g]
    BY <1>10, <2>2, <2>3
  <2>6. \A g \in j.empty, s \in Slots : s[1] = g => tickets'[s] = tickets[s]
    BY <1>12, <2>2
  <2> QED BY <2>1, <2>4, <2>5, <2>6 DEF JobFits, ClosedBefore, Cutoff, Exists
<1>17. OneFilePerDay'
  <2>1. ASSUME NEW g \in FileIds, Exists(g), files[g].code = u.code,
               BusinessDate(files[g].at) = BusinessDate(u.at)
        PROVE  FALSE
    <3>1. files[g].at \in Int /\ u.at \in Int
      BY <1>1, <1>9, <2>1 DEF Exists, FileRow
    <3>2. files[g].at \in BusinessWindow(BusinessDate(u.at))
      BY <2>1, <3>1, WindowsPartition, BusinessDateIsInt
    <3> QED BY <1>2, <2>1, <3>2 DEF Duplicate
  <2> QED BY <1>8, <1>10, <1>11, <2>1 DEF IInv, OneFilePerDay
<1>18. DueInTime'
  BY <1>3, <1>8, <1>10 DEF IInv, DueInTime
<1>19. FilesOutliveTickets'
  <2>1. \A s \in Slots : s[1] \in FileIds
    BY DEF Slots
  <2> QED BY <1>11, <1>12, <2>1 DEF IInv, FilesOutliveTickets
<1>20. TextKept'
  <2>1. ASSUME NEW g \in FileIds, Exists(g)', g \notin disk
        PROVE  files'[g].at < now - Retention /\ \A l \in Lines : tickets'[<<g, l>>] = NoTicket
    <3>1. g # f /\ Exists(g)
      BY <1>2, <1>11, <2>1
    <3>2. \A l \in Lines : <<g, l>> \in Slots /\ tickets'[<<g, l>>] = tickets[<<g, l>>]
      BY <1>12, <3>1 DEF Slots
    <3> QED BY <1>10, <2>1, <3>1, <3>2 DEF IInv, TextKept
  <2> QED BY <1>6, <2>1 DEF TextKept
<1>21. ImagesFit'
  <2>1. \A s \in Slots : tickets'[s] = tickets[s] \/ tickets'[s].records = {}
    BY <1>5, <1>6
  <2>2. \A s \in Slots : \A r \in tickets'[s].records :
          r \in tickets[s].records /\ (ClosedBefore(s, Cutoff) => ClosedBefore(s, Cutoff)')
    BY <1>6, <2>1 DEF ClosedBefore, Cutoff
  <2>3. \A x \in Runners : ShownFits(job'[x])
    BY <1>6 DEF IInv, ImagesFit
  <2> QED BY <1>6, <2>2, <2>3, ImagesFrame DEF IInv
<1> QED BY <1>13, <1>14, <1>15, <1>16, <1>17, <1>18, <1>19, <1>20, <1>21 DEF IInv

(* A rejected file's text is no row's. *)
LEMMA RemoveRejectedKeeps ==
  ASSUME IInv, NEW w \in Uploaders, RemoveRejected(w)
  PROVE  IInv'
<1> PICK u \in Upload : u = upload[w]
  BY OneRequest
<1> PICK q \in Upload : q = GiveUp(u)
  BY GivenUp
<1>1. UploadFits(u) /\ InHand(u) /\ u.pc = "remove" /\ u.file \in FileIds /\ ~ Exists(u.file)
  BY OneRequest DEF RemoveRejected, Uploading, UploadFits, InHand, WithFile
<1>2. UploadFits(q) /\ q.locks = {} /\ q.pc = "next"
  BY GivenUp
<1>3. /\ upload' = [upload EXCEPT ![w] = q] /\ disk' = disk \ {u.file}
      /\ UNCHANGED <<files, tickets, images, taken, now, job, photo, lost, faults>>
  BY DEF RemoveRejected, Goto, tables, photos
<1>4. upload \in [Uploaders -> Upload]
  BY DEF IInv, FileStoreTypeOK
<1>5. FileStoreTypeOK'
  BY <1>3 DEF IInv, FileStoreTypeOK
<1>6. ASSUME NEW v \in Uploaders PROVE (UploadFits(upload[v]) /\ InHand(upload[v]))'
  <2>1. CASE v = w
    <3>1. upload'[v] = q
      BY <1>3, <1>4, <2>1
    <3> QED BY <1>2, <3>1 DEF UploadFits, InHand, WithFile
  <2>2. CASE v # w
    <3>1. upload'[v] = upload[v] /\ UploadFits(upload[v]) /\ InHand(upload[v])
      BY <1>3, <1>4, <2>2 DEF IInv
    <3>2. upload[v].pc \in WithFile => upload[v].file # u.file
      BY <1>1, <2>2 DEF IInv, Apart, WithFile
    <3>3. UploadFits(upload[v])'
      BY <3>1 DEF UploadFits, Key
    <3>4. (upload[v].pc \in WithFile => ~ Exists(upload[v].file) /\ upload[v].file \notin InJobs)'
      BY <1>3, <3>1 DEF InHand, Exists, InJobs
    <3>5. (upload[v].pc = "parse" => upload[v].file \in disk /\ ~ Duplicate(upload[v]))'
      BY <1>3, <3>1, <3>2 DEF InHand, Duplicate, Exists, WithFile
    <3> QED BY <3>3, <3>4, <3>5 DEF InHand
  <2> QED BY <2>1, <2>2
<1>7. Apart'
  BY <1>2, <1>3, <1>4 DEF IInv, Apart, WithFile
<1>8. (\A r \in Runners : JobFits(job[r]))'
  BY <1>3 DEF IInv, JobFits, ClosedBefore, Cutoff, Exists
<1>9. (OneFilePerDay /\ DueInTime /\ FilesOutliveTickets)'
  BY <1>3 DEF IInv, OneFilePerDay, DueInTime, FilesOutliveTickets, Exists
<1>10. TextKept'
  BY <1>1, <1>3 DEF IInv, TextKept, Exists
<1>11. ImagesFit'
  BY <1>3, ImagesBeside DEF IInv
<1> QED BY <1>5, <1>6, <1>7, <1>8, <1>9, <1>10, <1>11 DEF IInv

-----------------------------------------------------------------------------
(* Tickets, jobs and time *)

(* No request changes, nor does the text of any file in hand.                *)
LEMMA BesideRequests ==
  ASSUME IInv, UNCHANGED upload,
         \A f \in FileIds : Exists(f)' => /\ Exists(f) /\ files'[f].code = files[f].code
                                         /\ files'[f].at = files[f].at,
         \A f : f \in InJobs' => f \in InJobs \/ Exists(f),
         \A f \in FileIds : f \in disk /\ f \notin disk' => f \in InJobs
  PROVE  (\A w \in Uploaders : UploadFits(upload[w]) /\ InHand(upload[w]))' /\ Apart'
<1>1. ASSUME NEW w \in Uploaders PROVE (UploadFits(upload[w]) /\ InHand(upload[w]))'
  <2> PICK u \in Upload : u = upload[w]
    BY OneRequest
  <2>1. upload'[w] = u /\ UploadFits(u) /\ InHand(u)
    BY OneRequest
  <2>2. u.pc \in WithFile => u.file \in FileIds
    BY <2>1 DEF UploadFits
  <2>3. UploadFits(upload[w])'
    BY <2>1 DEF UploadFits, Key
  <2>4. (upload[w].pc \in WithFile => ~ Exists(upload[w].file) /\ upload[w].file \notin InJobs)'
    <3>1. u.pc \in WithFile => ~ Exists(u.file)' /\ (u.file \notin InJobs)'
      BY <2>1, <2>2 DEF InHand
    <3> QED BY <2>1, <3>1 DEF Exists, InJobs
  <2>5. (upload[w].pc = "parse" => upload[w].file \in disk /\ ~ Duplicate(upload[w]))'
    <3>1. u.pc = "parse" => u.file \in disk'
      BY <2>1, <2>2 DEF InHand, WithFile
    <3>2. u.pc = "parse" => ~ Duplicate(u)'
      BY <2>1 DEF InHand, Duplicate
    <3> QED BY <2>1, <3>1, <3>2 DEF Duplicate, Exists
  <2> QED BY <2>3, <2>4, <2>5 DEF InHand
<1>2. Apart'
  BY DEF IInv, Apart
<1> QED BY <1>1, <1>2

LEMMA CloseTicketKeeps ==
  ASSUME IInv, NEW s \in Slots, CloseTicket(s)
  PROVE  IInv'
<1> DEFINE f == s[1]
           row == files[f]
<1> PICK t \in IF row.deadline = None THEN {row.at} ELSE {now, row.deadline} :
         tickets' = [tickets EXCEPT ![s] = Closed(t)]
  BY DEF CloseTicket
<1> PICK open \in BOOLEAN : files' = [files EXCEPT ![f].open = open]
  BY DEF CloseTicket
<1>1. /\ tickets[s] = Open
      /\ UNCHANGED <<disk, images, taken, now, upload, photo, lost, job, faults>>
  BY DEF CloseTicket, stored, photos
<1>2. /\ files \in [FileIds -> FileRow \cup {NoFile}] /\ tickets \in [Slots -> TicketRow \cup {NoTicket}]
      /\ now \in Nat /\ f \in FileIds
  BY DEF IInv, FileStoreTypeOK, Slots
<1>3. Closed(t) \in TicketRow /\ Closed(t) # NoTicket /\ Closed(t).records = {}
  <2>1. row \in FileRow \cup {NoFile}
    BY <1>2
  <2>2. t \in Int
    BY <1>2, <2>1 DEF FileRow, NoFile
  <2> QED BY <2>2, NoRecords
<1>4. Open # NoTicket /\ Open.status # "closed"
  BY DEF Open, NoTicket
<1>5. row \in FileRow
  BY <1>1, <1>2, <1>4 DEF IInv, FilesOutliveTickets, Exists
<1>6. /\ [row EXCEPT !.open = open] \in FileRow
      /\ \A g \in FileIds : /\ Exists(g)' <=> Exists(g)
                            /\ files'[g].code = files[g].code /\ files'[g].at = files[g].at
                            /\ files'[g].deadline = files[g].deadline
  <2>1. [row EXCEPT !.open = open] \in FileRow
    BY <1>5 DEF FileRow
  <2>2. files'[f] = [row EXCEPT !.open = open] /\ \A g \in FileIds : g # f => files'[g] = files[g]
    BY <1>2
  <2>3. /\ [row EXCEPT !.open = open].code = row.code /\ [row EXCEPT !.open = open].at = row.at
        /\ [row EXCEPT !.open = open].deadline = row.deadline
    BY <1>5 DEF FileRow
  <2>4. Exists(f) /\ Exists(f)'
    BY <1>5, <2>1, <2>2, NoRecords DEF Exists
  <2> QED BY <2>1, <2>2, <2>3, <2>4 DEF Exists
<1>7. FileStoreTypeOK'
  <2>1. files' \in [FileIds -> FileRow \cup {NoFile}]
    BY <1>2, <1>6
  <2>2. tickets' \in [Slots -> TicketRow \cup {NoTicket}]
    BY <1>2, <1>3
  <2> QED BY <1>1, <2>1, <2>2 DEF IInv, FileStoreTypeOK
<1>8. (\A w \in Uploaders : UploadFits(upload[w]) /\ InHand(upload[w]))' /\ Apart'
  BY <1>1, <1>6, BesideRequests DEF InJobs
<1>9. ASSUME NEW r \in Runners PROVE JobFits(job[r])'
  <2>1. JobFits(job[r]) /\ job[r] \in Job
    BY DEF IInv, FileStoreTypeOK
  <2>2. job[r].queue \subseteq FileIds /\ job[r].old \subseteq Slots
    BY <2>1 DEF Job
  <2> QED BY <1>1, <1>2, <1>4, <1>6, <2>1, <2>2 DEF JobFits, ClosedBefore, Cutoff
<1>10. OneFilePerDay'
  BY <1>6 DEF IInv, OneFilePerDay
<1>11. DueInTime'
  BY <1>6 DEF IInv, DueInTime
<1>12. FilesOutliveTickets'
  BY <1>1, <1>2, <1>4, <1>6 DEF IInv, FilesOutliveTickets, Slots
<1>13. TextKept'
  BY <1>1, <1>2, <1>4, <1>6 DEF IInv, TextKept
<1>14. ImagesFit'
  <2>1. \A x \in Slots : \A r \in tickets'[x].records :
          r \in tickets[x].records /\ (ClosedBefore(x, Cutoff) => ClosedBefore(x, Cutoff)')
    BY <1>1, <1>2, <1>3 DEF ClosedBefore, Cutoff
  <2>2. \A x \in Runners : ShownFits(job'[x])
    BY <1>1 DEF IInv, ImagesFit
  <2> QED BY <1>1, <2>1, <2>2, ImagesFrame DEF IInv
<1> QED BY <1>7, <1>8, <1>9, <1>10, <1>11, <1>12, <1>13, <1>14 DEF IInv

(* Steps that change images, their requests and the records of tickets.      *)
LEMMA BesideImages ==
  ASSUME IInv, UNCHANGED <<files, disk, now, upload, job>>, faults' \in Nat,
         taken' \in Nat, images' \subseteq 1 .. taken', lost' \subseteq 1 .. taken',
         photo' \in [Senders -> Photo],
         tickets' \in [Slots -> TicketRow \cup {NoTicket}],
         \A s \in Slots : /\ tickets'[s] = NoTicket <=> tickets[s] = NoTicket
                          /\ tickets'[s].status = tickets[s].status
                          /\ tickets'[s].at = tickets[s].at,
         ImagesFit'
  PROVE  IInv'
<1>1. FileStoreTypeOK'
  BY DEF IInv, FileStoreTypeOK
<1>2. (\A w \in Uploaders : UploadFits(upload[w]) /\ InHand(upload[w]))' /\ Apart'
  BY BesideRequests DEF Exists, InJobs
<1>3. ASSUME NEW r \in Runners PROVE JobFits(job[r])'
  <2>1. JobFits(job[r]) /\ job[r].old \subseteq Slots
    BY DEF IInv, FileStoreTypeOK, Job
  <2> QED BY <2>1 DEF JobFits, ClosedBefore, Cutoff, Exists
<1>4. (OneFilePerDay /\ DueInTime)'
  BY DEF IInv, OneFilePerDay, DueInTime, Exists
<1>5. FilesOutliveTickets'
  BY DEF IInv, FilesOutliveTickets, Exists
<1>6. TextKept'
  <2>1. \A f \in FileIds, l \in Lines : <<f, l>> \in Slots
    BY DEF Slots
  <2> QED BY <2>1 DEF IInv, TextKept, Exists
<1> QED BY <1>1, <1>2, <1>3, <1>4, <1>5, <1>6 DEF IInv

LEMMA OnePhoto ==
  ASSUME IInv, NEW w \in Senders
  PROVE  photo[w] \in Photo /\ PhotoFits(photo[w])
BY DEF IInv, FileStoreTypeOK, ImagesFit

(* With records of a ticket replaced, it stays what it was otherwise.        *)
LEMMA WithRecords ==
  ASSUME IInv, NEW s \in Slots, tickets[s] # NoTicket, NEW R \in SUBSET Record,
         tickets' = [tickets EXCEPT ![s].records = R]
  PROVE  /\ tickets' \in [Slots -> TicketRow \cup {NoTicket}]
         /\ tickets'[s].records = R
         /\ \A x \in Slots : /\ tickets'[x] = NoTicket <=> tickets[x] = NoTicket
                             /\ tickets'[x].status = tickets[x].status
                             /\ tickets'[x].at = tickets[x].at
                             /\ x # s => tickets'[x] = tickets[x]
<1>1. tickets \in [Slots -> TicketRow \cup {NoTicket}] /\ tickets[s] \in TicketRow
  BY DEF IInv, FileStoreTypeOK
<1> DEFINE row == [tickets[s] EXCEPT !.records = R]
<1>2. /\ row \in TicketRow /\ row.status = tickets[s].status /\ row.at = tickets[s].at
      /\ row.records = R
  BY <1>1 DEF TicketRow
<1>3. row # NoTicket
  BY <1>2, NoRecords
<1>4. tickets' = [tickets EXCEPT ![s] = row]
  OBVIOUS
<1> HIDE DEF row
<1> QED BY <1>1, <1>2, <1>3, <1>4

(* A new image has a name that nothing knows. *)
LEMMA SendImageKeeps ==
  ASSUME IInv, NEW w \in Senders, NEW s \in Slots, SendImage(w, s)
  PROVE  IInv'
<1> DEFINE new == taken + 1
<1> PICK r \in IF tickets[s].records = {} THEN {None} ELSE tickets[s].records :
         GotoPhoto(w, [pc |-> IF r = None THEN "commit" ELSE "delete",
                       slot |-> s, read |-> r, new |-> taken'])
  BY DEF SendImage
<1> DEFINE p == [pc |-> IF r = None THEN "commit" ELSE "delete", slot |-> s, read |-> r, new |-> new]
<1>1. /\ photo[w] = NoPhoto /\ photo' = [photo EXCEPT ![w] = p]
      /\ taken' = new /\ images' = images \cup {new}
      /\ UNCHANGED <<files, tickets, disk, now, upload, job, faults, lost>>
  BY DEF SendImage, GotoPhoto, tables
<1>2. /\ taken \in Nat /\ images \subseteq 1 .. taken /\ lost \subseteq 1 .. taken
      /\ photo \in [Senders -> Photo] /\ faults \in Nat
      /\ tickets \in [Slots -> TicketRow \cup {NoTicket}]
  BY DEF IInv, FileStoreTypeOK
<1>3. tickets[s].records \subseteq Record
  BY <1>2 DEF TicketRow, NoTicket
<1>4. r = None \/ (r \in tickets[s].records /\ r \in Record)
  BY <1>3
<1>5. p \in Photo
  BY <1>2, <1>4 DEF Photo
<1>6. /\ p.pc \in Busy /\ p.slot = s /\ p.read = r /\ p.new = new
      /\ p.pc = "delete" => r # None
  BY DEF Busy
<1> HIDE DEF p
<1>7. \A v \in Senders : photo'[v] = IF v = w THEN p ELSE photo[v]
  BY <1>1, <1>2
<1>8. photo[w].pc \notin Busy
  BY <1>1, NoRecords
<1>9. new \notin 1 .. taken /\ new \in 1 .. new /\ 1 .. taken \subseteq 1 .. new /\ new \in Nat
  BY <1>2
<1> HIDE DEF new
<1>10. /\ \A x \in Slots : \A q \in tickets[x].records : q.picture \in 1 .. taken
       /\ \A v \in Senders : photo[v].pc \in Busy => photo[v].new \in 1 .. taken
  BY <1>2 DEF IInv, ImagesFit, OwnImages, PhotoFits
<1>11. ImagesKept'
  BY <1>1, <1>7, <1>8 DEF IInv, ImagesFit, ImagesKept, Excused, ClosedBefore, Cutoff, Busy
<1>12. OwnImages'
  BY <1>1, <1>9 DEF IInv, ImagesFit, OwnImages
<1>13. PhotosApart'
  <2> SUFFICES ASSUME NEW v \in Senders, NEW x \in Senders,
                      photo'[v].pc \in Busy, photo'[x].pc \in Busy
               PROVE  /\ v # x => photo'[v].new # photo'[x].new
                      /\ photo'[v].read # None => /\ photo'[v].read.picture \in 1 .. taken'
                                                  /\ photo'[v].read.picture # photo'[x].new
    BY DEF PhotosApart
  <2>1. r # None => /\ r.picture \in 1 .. taken
                    /\ \A y \in Senders : photo[y].pc \in Busy => r.picture # photo[y].new
    BY <1>4, <1>10 DEF IInv, ImagesFit, PhotoFits
  <2>2. CASE v = w /\ x = w
    BY <1>1, <1>6, <1>7, <1>9, <2>1, <2>2
  <2>3. CASE v = w /\ x # w
    BY <1>1, <1>6, <1>7, <1>9, <1>10, <2>1, <2>3
  <2>4. CASE v # w /\ x = w
    <3>1. photo[v].read # None => photo[v].read.picture \in 1 .. taken
      BY <1>7, <2>4 DEF IInv, ImagesFit, PhotosApart
    <3> QED BY <1>1, <1>6, <1>7, <1>9, <1>10, <2>4, <3>1
  <2>5. CASE v # w /\ x # w
    BY <1>1, <1>7, <1>9, <2>5 DEF IInv, ImagesFit, PhotosApart
  <2> QED BY <2>2, <2>3, <2>4, <2>5
<1>14. ASSUME NEW v \in Senders PROVE PhotoFits(photo[v])'
  <2>1. CASE v = w
    BY <1>1, <1>4, <1>6, <1>7, <1>9, <1>10, <2>1 DEF IInv, ImagesFit, OwnImages, PhotoFits
  <2>2. CASE v # w
    BY <1>1, <1>7, <2>2 DEF IInv, ImagesFit, PhotoFits
  <2> QED BY <2>1, <2>2
<1>15. ASSUME NEW x \in Runners PROVE ShownFits(job[x])'
  <2>1. ShownFits(job[x])
    BY DEF IInv, ImagesFit
  <2> QED BY <1>1, <1>6, <1>7, <1>9, <2>1 DEF ShownFits
<1>16. ImagesFit'
  BY <1>11, <1>12, <1>13, <1>14, <1>15 DEF ImagesFit
<1>17. photo' \in [Senders -> Photo]
  BY <1>1, <1>2, <1>5
<1>18. taken' \in Nat /\ images' \subseteq 1 .. taken' /\ lost' \subseteq 1 .. taken'
  BY <1>1, <1>2, <1>9
<1> QED BY <1>1, <1>2, <1>16, <1>17, <1>18, BesideImages

(* What is deleted is of the record read, if of any. *)
LEMMA DeleteReplacedKeeps ==
  ASSUME IInv, NEW w \in Senders, DeleteReplaced(w)
  PROVE  IInv'
<1> DEFINE p == photo[w]
           q == [p EXCEPT !.pc = "commit"]
           gone == p.read.picture
<1>1. /\ p.pc = "delete" /\ photo' = [photo EXCEPT ![w] = q] /\ images' = images \ {gone}
      /\ UNCHANGED <<files, tickets, disk, taken, now, upload, job, faults, lost>>
  BY DEF DeleteReplaced, GotoPhoto, tables
<1>2. /\ taken \in Nat /\ images \subseteq 1 .. taken /\ lost \subseteq 1 .. taken
      /\ photo \in [Senders -> Photo] /\ faults \in Nat
      /\ tickets \in [Slots -> TicketRow \cup {NoTicket}]
  BY DEF IInv, FileStoreTypeOK
<1>3. p \in Photo /\ PhotoFits(p) /\ p.read # None
  BY <1>1, OnePhoto DEF PhotoFits
<1>4. q \in Photo /\ q.pc = "commit" /\ q.slot = p.slot /\ q.read = p.read /\ q.new = p.new
  BY <1>3 DEF Photo
<1> HIDE DEF q
<1>5. \A v \in Senders : photo'[v] = IF v = w THEN q ELSE photo[v]
  BY <1>1, <1>2
<1>6. /\ \A v \in Senders : /\ photo'[v].slot = photo[v].slot /\ photo'[v].read = photo[v].read
                            /\ photo'[v].new = photo[v].new
                            /\ photo'[v].pc \in Busy <=> photo[v].pc \in Busy
                            /\ photo'[v].pc = "delete" => photo[v].pc = "delete"
      /\ "commit" \in Busy /\ "delete" \in Busy
  BY <1>1, <1>4, <1>5 DEF Busy
<1>7. ImagesKept'
  <2> SUFFICES ASSUME NEW s \in Slots, NEW r \in tickets[s].records
               PROVE  r.picture \in images' \/ Excused(s, r)'
    BY <1>1 DEF ImagesKept
  <2>1. CASE r.picture = gone
    <3>1. s = p.slot /\ r = p.read
      BY <1>1, <1>3, <1>6, <2>1 DEF PhotoFits
    <3> QED BY <1>4, <1>5, <3>1 DEF Excused
  <2>2. CASE r.picture # gone
    <3>1. r.picture \in images \/ Excused(s, r)
      BY DEF IInv, ImagesFit, ImagesKept
    <3>2. Excused(s, r) => Excused(s, r)'
      BY <1>1, <1>5 DEF Excused, ClosedBefore, Cutoff
    <3> QED BY <1>1, <2>2, <3>1, <3>2
  <2> QED BY <2>1, <2>2
<1>8. OwnImages' /\ PhotosApart'
  BY <1>1, <1>6 DEF IInv, ImagesFit, OwnImages, PhotosApart
<1>9. ASSUME NEW v \in Senders PROVE PhotoFits(photo[v])'
  <2>1. photo[v].pc \in Busy => photo[v].new # gone
    BY <1>1, <1>3, <1>6 DEF IInv, ImagesFit, PhotosApart
  <2>2. PhotoFits(photo[v])
    BY OnePhoto
  <2> QED BY <1>1, <1>6, <2>1, <2>2 DEF PhotoFits
<1>10. ASSUME NEW x \in Runners PROVE ShownFits(job[x])'
  BY <1>1, <1>6 DEF IInv, ImagesFit, ShownFits
<1>11. ImagesFit'
  BY <1>7, <1>8, <1>9, <1>10 DEF ImagesFit
<1>12. photo' \in [Senders -> Photo]
  BY <1>1, <1>2, <1>4
<1> QED BY <1>1, <1>2, <1>11, <1>12, BesideImages

(* The record written is the one that misses its image, or a new one.        *)
LEMMA CommitImageKeeps ==
  ASSUME IInv, NEW w \in Senders, CommitImage(w)
  PROVE  IInv'
<1> PICK p \in Photo : p = photo[w]
  BY OnePhoto
<1> DEFINE row == tickets[p.slot]
           old == {r \in row.records : p.read # None /\ r.id = p.read.id}
           rec == [id |-> IF p.read = None THEN p.new ELSE p.read.id, picture |-> p.new]
           written == (row.records \ old) \cup {rec}
           writes == row # NoTicket /\ (p.read # None => old # {})
<1>1. /\ p.pc = "commit" /\ photo' = [photo EXCEPT ![w] = NoPhoto]
      /\ tickets' = IF writes THEN [tickets EXCEPT ![p.slot].records = written] ELSE tickets
      /\ UNCHANGED <<files, disk, images, taken, now, upload, job, faults, lost>>
  BY DEF CommitImage, GotoPhoto, stored
<1>2. /\ taken \in Nat /\ images \subseteq 1 .. taken /\ lost \subseteq 1 .. taken
      /\ photo \in [Senders -> Photo] /\ faults \in Nat
      /\ tickets \in [Slots -> TicketRow \cup {NoTicket}]
  BY DEF IInv, FileStoreTypeOK
<1>3. /\ PhotoFits(p) /\ p.pc \in Busy /\ p.slot \in Slots /\ p.new \in images /\ p.new \in 1 .. taken
  BY <1>1, <1>2, OnePhoto DEF PhotoFits, Busy
<1>4. rec \in Record /\ rec.picture = p.new
  BY <1>2, <1>3 DEF Record, Photo
<1>5. /\ \A r \in row.records : r.picture # p.new /\ (r = p.read => r \in old)
      /\ row.records \subseteq Record
  <2>1. row.records \subseteq Record /\ None \notin Record
    BY <1>2, <1>3, FileStoreAssumption DEF TicketRow, NoTicket, Record
  <2>2. \A r \in row.records : r.picture # p.new
    BY <1>3 DEF PhotoFits
  <2> QED BY <2>1, <2>2
<1>6. \A v \in Senders : photo'[v] = IF v = w THEN NoPhoto ELSE photo[v]
  BY <1>1, <1>2
<1>7. photo' \in [Senders -> Photo]
  BY <1>1, <1>2, NoRecords
<1>8. PhotosApart'
  BY <1>1, <1>6, NoRecords DEF IInv, ImagesFit, PhotosApart
<1>9. CASE ~ writes
  <2>1. tickets' = tickets /\ images' = images /\ taken' = taken /\ job' = job
    BY <1>1, <1>9
  <2>2. row # NoTicket => p.read # None /\ old = {}
    BY <1>9
  <2> HIDE DEF writes
  <2>3. ImagesKept'
    <3> SUFFICES ASSUME NEW s \in Slots, NEW r \in tickets[s].records
                 PROVE  r.picture \in images \/ Excused(s, r)'
      BY <1>1, <2>1 DEF ImagesKept
    <3>1. r.picture \in images \/ Excused(s, r)
      BY DEF IInv, ImagesFit, ImagesKept
    <3>2. ~ (s = p.slot /\ r = p.read)
      BY <1>5, <2>2, NoRecords
    <3> QED BY <1>1, <1>6, <2>1, <3>1, <3>2 DEF Excused, ClosedBefore, Cutoff
  <2>4. OwnImages'
    BY <2>1 DEF IInv, ImagesFit, OwnImages
  <2>5. ASSUME NEW v \in Senders PROVE PhotoFits(photo[v])'
    BY <1>6, <2>1, NoRecords DEF IInv, ImagesFit, PhotoFits
  <2>6. ASSUME NEW x \in Runners PROVE ShownFits(job[x])'
    BY <1>1, <1>6, <2>1, NoRecords DEF IInv, ImagesFit, ShownFits
  <2>7. ImagesFit'
    BY <1>8, <2>3, <2>4, <2>5, <2>6 DEF ImagesFit
  <2> QED BY <1>1, <1>2, <1>7, <2>1, <2>7, BesideImages
<1>10. CASE writes
  <2>1. written \in SUBSET Record /\ tickets' = [tickets EXCEPT ![p.slot].records = written]
    BY <1>1, <1>4, <1>5, <1>10
  <2>2. row # NoTicket
    BY <1>10
  <2>3. \A r \in written : r = rec \/ (r \in row.records /\ r \notin old)
    OBVIOUS
  <2> HIDE DEF writes, written, rec, old
  <2>4. /\ tickets' \in [Slots -> TicketRow \cup {NoTicket}]
        /\ tickets'[p.slot].records = written
        /\ \A x \in Slots : /\ tickets'[x] = NoTicket <=> tickets[x] = NoTicket
                            /\ tickets'[x].status = tickets[x].status
                            /\ tickets'[x].at = tickets[x].at
                            /\ x # p.slot => tickets'[x] = tickets[x]
    BY <1>3, <2>1, <2>2, WithRecords
  <2>5. \A s \in Slots : \A r \in tickets'[s].records :
          \/ s = p.slot /\ r = rec
          \/ r \in tickets[s].records /\ ~ (s = p.slot /\ r = p.read)
    BY <1>5, <2>3, <2>4
  <2>6. ImagesKept'
    <3> SUFFICES ASSUME NEW s \in Slots, NEW r \in tickets'[s].records
                 PROVE  r.picture \in images \/ Excused(s, r)'
      BY <1>1 DEF ImagesKept
    <3>1. CASE s = p.slot /\ r = rec
      BY <1>3, <1>4, <3>1
    <3>2. CASE r \in tickets[s].records /\ ~ (s = p.slot /\ r = p.read)
      <4>1. r.picture \in images \/ Excused(s, r)
        BY <3>2 DEF IInv, ImagesFit, ImagesKept
      <4> QED BY <1>1, <1>6, <2>4, <3>2, <4>1 DEF Excused, ClosedBefore, Cutoff
    <3> QED BY <2>5, <3>1, <3>2
  <2>7. \A s \in Slots : \A r \in tickets[s].records : r.picture # p.new
    BY <1>3 DEF PhotoFits
  <2>8. OwnImages'
    <3> SUFFICES ASSUME NEW s \in Slots, NEW t \in Slots,
                        NEW r \in tickets'[s].records, NEW q \in tickets'[t].records
                 PROVE  r.picture \in 1 .. taken /\ (r.picture = q.picture => s = t /\ r = q)
      BY <1>1 DEF OwnImages
    <3> QED BY <1>3, <1>4, <2>5, <2>7 DEF IInv, ImagesFit, OwnImages
  <2>9. ASSUME NEW v \in Senders PROVE PhotoFits(photo[v])'
    <3>1. CASE v = w
      BY <1>6, <3>1, NoRecords DEF PhotoFits
    <3>2. CASE v # w
      <4>1. photo'[v] = photo[v] /\ PhotoFits(photo[v])
        BY <1>6, <3>2, OnePhoto
      <4>2. photo[v].pc \in Busy => /\ p.new # photo[v].new
                                    /\ photo[v].read # None => photo[v].read.picture # p.new
        BY <1>3, <3>2 DEF IInv, ImagesFit, PhotosApart
      <4> QED BY <1>1, <1>4, <2>5, <4>1, <4>2 DEF PhotoFits
    <3> QED BY <3>1, <3>2
  <2>10. ASSUME NEW x \in Runners PROVE ShownFits(job[x])'
    <3>1. p.new \notin job[x].shown
      BY <1>3 DEF IInv, ImagesFit, ShownFits
    <3> QED BY <1>1, <1>4, <1>6, <2>5, <3>1, NoRecords DEF IInv, ImagesFit, ShownFits
  <2>11. ImagesFit'
    BY <1>8, <2>6, <2>8, <2>9, <2>10 DEF ImagesFit
  <2> QED BY <1>1, <1>2, <1>7, <2>4, <2>11, BesideImages
<1> QED BY <1>9, <1>10

(* A request that fails may leave its record without an image.               *)
LEMMA FailPhotoKeeps ==
  ASSUME IInv, NEW w \in Senders, FailPhoto(w)
  PROVE  IInv'
<1> DEFINE p == photo[w]
<1>1. /\ photo' = [photo EXCEPT ![w] = NoPhoto]
      /\ lost' = IF p.pc = "commit" /\ p.read # None THEN lost \cup {p.read.picture} ELSE lost
      /\ UNCHANGED <<files, tickets, disk, images, taken, now, upload, job>> /\ faults' = faults + 1
  BY DEF FailPhoto, Fault, tables, stored
<1>2. /\ taken \in Nat /\ images \subseteq 1 .. taken /\ lost \subseteq 1 .. taken
      /\ photo \in [Senders -> Photo] /\ faults \in Nat
      /\ tickets \in [Slots -> TicketRow \cup {NoTicket}]
  BY DEF IInv, FileStoreTypeOK
<1>3. \A v \in Senders : photo'[v] = IF v = w THEN NoPhoto ELSE photo[v]
  BY <1>1, <1>2
<1>4. ImagesKept'
  <2> SUFFICES ASSUME NEW s \in Slots, NEW r \in tickets[s].records
               PROVE  r.picture \in images \/ Excused(s, r)'
    BY <1>1 DEF ImagesKept
  <2>1. r.picture \in images \/ Excused(s, r)
    BY DEF IInv, ImagesFit, ImagesKept
  <2>2. r # None
    BY <1>2, FileStoreAssumption DEF TicketRow, NoTicket, Record
  <2>3. p.pc = "commit" /\ p.read = r => r.picture \in lost'
    BY <1>1, <2>2
  <2>4. ASSUME NEW v \in Senders, photo[v].pc = "commit", photo[v].slot = s, photo[v].read = r
        PROVE  Excused(s, r)'
    <3>1. CASE v = w
      BY <2>3, <2>4, <3>1 DEF Excused
    <3>2. CASE v # w
      BY <1>3, <2>4, <3>2 DEF Excused
    <3> QED BY <3>1, <3>2
  <2> QED BY <1>1, <2>1, <2>4 DEF Excused, ClosedBefore, Cutoff
<1>5. OwnImages' /\ PhotosApart'
  BY <1>1, <1>3, NoRecords DEF IInv, ImagesFit, OwnImages, PhotosApart
<1>6. ASSUME NEW v \in Senders PROVE PhotoFits(photo[v])'
  BY <1>1, <1>3, NoRecords DEF IInv, ImagesFit, PhotoFits
<1>7. ASSUME NEW x \in Runners PROVE ShownFits(job[x])'
  BY <1>1, <1>3, NoRecords DEF IInv, ImagesFit, ShownFits
<1>8. ImagesFit'
  BY <1>4, <1>5, <1>6, <1>7 DEF ImagesFit
<1>9. lost' \subseteq 1 .. taken
  <2>1. p.pc = "commit" /\ p.read # None => p.read.picture \in 1 .. taken
    BY DEF IInv, ImagesFit, PhotosApart, Busy
  <2> QED BY <1>1, <1>2, <2>1
<1>10. photo' \in [Senders -> Photo]
  BY <1>1, <1>2, NoRecords
<1> QED BY <1>1, <1>2, <1>8, <1>9, <1>10, BesideImages

(* The image that goes with a record is nobody else's. *)
LEMMA DropRecordKeeps ==
  ASSUME IInv, NEW s \in Slots, NEW r \in tickets[s].records, DropRecord(s, r)
  PROVE  IInv'
<1> DEFINE left == tickets[s].records \ {r}
<1>1. /\ tickets' = [tickets EXCEPT ![s].records = left]
      /\ images' = images \/ images' = images \ {r.picture}
      /\ UNCHANGED <<files, disk, taken, now, upload, photo, lost, job, faults>>
  BY DEF DropRecord, photos
<1>2. /\ taken \in Nat /\ images \subseteq 1 .. taken /\ lost \subseteq 1 .. taken
      /\ photo \in [Senders -> Photo] /\ faults \in Nat
      /\ tickets \in [Slots -> TicketRow \cup {NoTicket}]
  BY DEF IInv, FileStoreTypeOK
<1>3. tickets[s] # NoTicket /\ left \in SUBSET Record
  BY <1>2, NoRecords DEF TicketRow
<1>4. /\ tickets' \in [Slots -> TicketRow \cup {NoTicket}]
      /\ tickets'[s].records = left
      /\ \A x \in Slots : /\ tickets'[x] = NoTicket <=> tickets[x] = NoTicket
                          /\ tickets'[x].status = tickets[x].status
                          /\ tickets'[x].at = tickets[x].at
                          /\ x # s => tickets'[x] = tickets[x]
  BY <1>1, <1>3, WithRecords
<1>5. \A x \in Slots : \A q \in tickets'[x].records : q \in tickets[x].records /\ ~ (x = s /\ q = r)
  BY <1>4
<1>6. ImagesKept'
  <2> SUFFICES ASSUME NEW x \in Slots, NEW q \in tickets'[x].records
               PROVE  q.picture \in images' \/ Excused(x, q)'
    BY DEF ImagesKept
  <2>1. q \in tickets[x].records /\ q.picture # r.picture
    BY <1>5 DEF IInv, ImagesFit, OwnImages
  <2>2. q.picture \in images \/ Excused(x, q)
    BY <2>1 DEF IInv, ImagesFit, ImagesKept
  <2> QED BY <1>1, <1>4, <2>1, <2>2 DEF Excused, ClosedBefore, Cutoff
<1>7. OwnImages' /\ PhotosApart'
  BY <1>1, <1>5 DEF IInv, ImagesFit, OwnImages, PhotosApart
<1>8. ASSUME NEW v \in Senders PROVE PhotoFits(photo[v])'
  <2>1. photo[v].pc \in Busy => photo[v].new # r.picture
    BY OnePhoto DEF PhotoFits
  <2> QED BY <1>1, <1>5, <2>1, OnePhoto DEF PhotoFits
<1>9. ASSUME NEW x \in Runners PROVE ShownFits(job[x])'
  BY <1>1, <1>5 DEF IInv, ImagesFit, ShownFits
<1>10. ImagesFit'
  BY <1>6, <1>7, <1>8, <1>9 DEF ImagesFit
<1> QED BY <1>1, <1>2, <1>4, <1>10, BesideImages

(* The files a job refers to *)
FilesOf(j) == j.queue \cup j.empty \cup {s[1] : s \in j.old}

LEMMA JobsGrow ==
  ASSUME IInv, NEW r \in Runners, NEW q, job' = [job EXCEPT ![r] = q],
         \A f \in FilesOf(q) : f \in InJobs \/ Exists(f)
  PROVE  \A f : f \in InJobs' => f \in InJobs \/ Exists(f)
<1> SUFFICES ASSUME NEW f, f \in InJobs' PROVE f \in InJobs \/ Exists(f)
  OBVIOUS
<1>1. PICK x \in Runners : f \in FilesOf(job'[x])
  BY DEF InJobs, FilesOf
<1>2. CASE x = r
  BY <1>1, <1>2 DEF IInv, FileStoreTypeOK
<1>3. CASE x # r
  <2>1. job'[x] = job[x]
    BY <1>3 DEF IInv, FileStoreTypeOK
  <2> QED BY <1>1, <2>1 DEF InJobs, FilesOf
<1> QED BY <1>2, <1>3

(* What a job refers to, some job does. *)
LEMMA JobRefers ==
  ASSUME NEW r \in Runners, NEW f \in FilesOf(job[r]) PROVE f \in InJobs
BY DEF InJobs, FilesOf

(* Steps that change a job's own record only. *)
LEMMA JobStep ==
  ASSUME IInv, NEW r \in Runners, NEW q \in Job, JobFits(q),
         \A f \in FilesOf(q) : f \in InJobs \/ Exists(f),
         ShownFits(q),
         job' = [job EXCEPT ![r] = q], UNCHANGED <<tables, stored, now, upload, photos>>, faults' \in Nat
  PROVE  IInv'
<1>1. UNCHANGED <<files, tickets, disk, images, taken, now, upload, photo, lost>>
  BY DEF tables, stored, photos
<1>2. job \in [Runners -> Job]
  BY DEF IInv, FileStoreTypeOK
<1>3. FileStoreTypeOK'
  BY <1>1, <1>2 DEF IInv, FileStoreTypeOK
<1>4. \A f : f \in InJobs' => f \in InJobs \/ Exists(f)
  BY JobsGrow
<1>5. (\A w \in Uploaders : UploadFits(upload[w]) /\ InHand(upload[w]))' /\ Apart'
  BY <1>1, <1>4, BesideRequests DEF Exists
<1>6. (\A x \in Runners : JobFits(job[x]))'
  <2>1. \A x \in Runners : JobFits(job'[x])
    BY <1>2 DEF IInv
  <2> QED BY <1>1, <2>1 DEF JobFits, ClosedBefore, Cutoff, Exists
<1>7. (OneFilePerDay /\ DueInTime /\ FilesOutliveTickets /\ TextKept)'
  BY <1>1 DEF IInv, OneFilePerDay, DueInTime, FilesOutliveTickets, TextKept, Exists
<1>8. ImagesFit'
  <2>1. \A x \in Runners : ShownFits(job'[x])
    BY <1>2 DEF IInv, ImagesFit
  <2>2. \A s \in Slots : \A x \in tickets'[s].records :
          x \in tickets[s].records /\ (ClosedBefore(s, Cutoff) => ClosedBefore(s, Cutoff)')
    BY <1>1 DEF ClosedBefore, Cutoff
  <2> QED BY <1>1, <2>1, <2>2, ImagesFrame DEF IInv
<1> QED BY <1>3, <1>5, <1>6, <1>7, <1>8 DEF IInv

LEMMA OneJob ==
  ASSUME IInv, NEW r \in Runners PROVE job[r] \in Job /\ JobFits(job[r]) /\ ShownFits(job[r])
BY DEF IInv, FileStoreTypeOK, ImagesFit

LEMMA ReadTicketsKeeps ==
  ASSUME IInv, NEW r \in Runners, ReadTickets(r)
  PROVE  IInv'
<1> DEFINE old == {s \in Slots : ClosedBefore(s, Cutoff)}
           ids == {x.id : x \in RecordsOf(old)}
           shown == {x.picture : x \in RecordsOf(old)}
           q == [NoJob EXCEPT !.old = old, !.read = ids, !.shown = shown, !.op = "tickets",
                              !.holds = TRUE]
<1>1. job' = [job EXCEPT ![r] = q] /\ UNCHANGED <<tables, stored, now, upload, photos, faults>>
  BY DEF ReadTickets, Start, GotoJob, NoJob
<1>2. old \subseteq Slots /\ \A s \in old : ClosedBefore(s, Cutoff)
  OBVIOUS
<1>3. \A x \in RecordsOf(old) : \E s \in old : x \in tickets[s].records
  BY DEF RecordsOf
<1> HIDE DEF old
<1>4. RecordsOf(old) \subseteq Record
  BY <1>2, <1>3 DEF IInv, FileStoreTypeOK, TicketRow, NoTicket
<1>5. ids \subseteq Nat /\ shown \subseteq Nat
  BY <1>4 DEF Record
<1>6. ASSUME NEW p \in shown PROVE \E s \in old : \E x \in tickets[s].records : x.picture = p
  BY <1>3
<1> HIDE DEF ids, shown
<1>7. q \in Job
  BY <1>2, <1>5 DEF NoJob, Job, Jobs
<1>8. q.old = old /\ q.shown = shown /\ q.queue = {} /\ q.empty = {}
  BY DEF NoJob
<1> HIDE DEF q
<1>9. JobFits(q)
  BY <1>2, <1>8 DEF JobFits
<1>10. \A f \in FilesOf(q) : f \in InJobs \/ Exists(f)
  BY <1>2, <1>8 DEF FilesOf, ClosedBefore, NoTicket, IInv, FilesOutliveTickets
<1>11. ShownFits(q)
  <2>1. shown \subseteq 1 .. taken
    BY <1>2, <1>6 DEF IInv, ImagesFit, OwnImages
  <2>2. ASSUME NEW s \in Slots, NEW x \in tickets[s].records, x.picture \in shown PROVE s \in old
    BY <1>2, <1>6, <2>2 DEF IInv, ImagesFit, OwnImages
  <2>3. ASSUME NEW w \in Senders, photo[w].pc \in Busy PROVE photo[w].new \notin shown
    BY <1>2, <1>6, <2>3 DEF IInv, ImagesFit, PhotoFits
  <2> QED BY <1>8, <2>1, <2>2, <2>3 DEF ShownFits
<1> QED BY <1>1, <1>7, <1>9, <1>10, <1>11, JobStep DEF IInv, FileStoreTypeOK

LEMMA ReadFilesKeeps ==
  ASSUME IInv, NEW r \in Runners, ReadFiles(r)
  PROVE  IInv'
<1> DEFINE old == {f \in FileIds : Exists(f) /\ files[f].at < Cutoff /\ ~ files[f].open}
           q == [NoJob EXCEPT !.queue = old, !.op = "files", !.holds = TRUE]
<1>1. job' = [job EXCEPT ![r] = q] /\ UNCHANGED <<tables, stored, now, upload, photos, faults>>
  BY DEF ReadFiles, Start, GotoJob, NoJob
<1>2. old \subseteq FileIds /\ \A f \in old : Exists(f) /\ files[f].at < Cutoff
  OBVIOUS
<1> HIDE DEF old
<1>3. q \in Job
  BY <1>2 DEF NoJob, Job, Jobs
<1>4. q.old = {} /\ q.shown = {} /\ q.queue = old /\ q.empty = {}
  BY DEF NoJob
<1> HIDE DEF q
<1>5. JobFits(q)
  BY <1>2, <1>4 DEF JobFits
<1>6. \A f \in FilesOf(q) : f \in InJobs \/ Exists(f)
  BY <1>2, <1>4 DEF FilesOf
<1>7. ShownFits(q)
  BY <1>4 DEF ShownFits
<1> QED BY <1>1, <1>3, <1>5, <1>6, <1>7, JobStep DEF IInv, FileStoreTypeOK

LEMMA FailJobKeeps ==
  ASSUME IInv, NEW r \in Runners, FailJob(r)
  PROVE  IInv'
<1>1. /\ job' = [job EXCEPT ![r] = NoJob] /\ UNCHANGED <<tables, stored, now, upload, photos>>
      /\ faults' \in Nat
  BY DEF FailJob, Fault, photos, IInv, FileStoreTypeOK
<1>2. \A f \in FilesOf(NoJob) : FALSE
  BY DEF FilesOf, NoJob
<1> QED BY <1>1, <1>2, NoRecords, JobStep

LEMMA LoseLockKeeps ==
  ASSUME IInv, NEW r \in Runners, LoseLock(r)
  PROVE  IInv'
<1> DEFINE j == job[r]
           q == [j EXCEPT !.holds = FALSE]
<1>1. /\ job' = [job EXCEPT ![r] = q] /\ UNCHANGED <<tables, stored, now, upload, photos>>
      /\ faults' \in Nat
  BY DEF LoseLock, Fault, photos, IInv, FileStoreTypeOK
<1>2. j \in Job /\ JobFits(j) /\ ShownFits(j)
  BY OneJob
<1>3. q \in Job
  BY <1>2 DEF Job
<1>4. q.old = j.old /\ q.shown = j.shown /\ q.queue = j.queue /\ q.empty = j.empty
  BY <1>2 DEF Job
<1> HIDE DEF q
<1>5. JobFits(q) /\ ShownFits(q)
  BY <1>2, <1>4 DEF JobFits, ShownFits
<1>6. \A f \in FilesOf(q) : f \in InJobs
  BY <1>4, JobRefers DEF FilesOf
<1> QED BY <1>1, <1>3, <1>5, <1>6, JobStep

(* Only the images of tickets that are old or gone are deleted.              *)
LEMMA DeleteImageKeeps ==
  ASSUME IInv, NEW r \in Runners, NEW p \in 1 .. MaxImages, DeleteImage(r, p)
  PROVE  IInv'
<1> DEFINE j == job[r]
           q == [j EXCEPT !.shown = @ \ {p}]
<1>1. /\ p \in j.shown /\ images' = images \ {p} /\ job' = [job EXCEPT ![r] = q]
      /\ UNCHANGED <<files, tickets, disk, taken, now, upload, photo, lost, faults>>
  BY DEF DeleteImage, GotoJob, tables, photos
<1>2. j \in Job /\ JobFits(j) /\ ShownFits(j) /\ job \in [Runners -> Job]
  BY OneJob DEF IInv, FileStoreTypeOK
<1>3. q \in Job
  BY <1>2 DEF Job
<1>4. q.old = j.old /\ q.shown = j.shown \ {p} /\ q.queue = j.queue /\ q.empty = j.empty
  BY <1>2 DEF Job
<1> HIDE DEF q
<1>5. JobFits(q) /\ \A f \in FilesOf(q) : f \in InJobs
  <2>1. JobFits(q)
    BY <1>2, <1>4 DEF JobFits
  <2> QED BY <1>4, <2>1, JobRefers DEF FilesOf
<1>6. FileStoreTypeOK'
  BY <1>1, <1>2, <1>3 DEF IInv, FileStoreTypeOK
<1>7. (\A w \in Uploaders : UploadFits(upload[w]) /\ InHand(upload[w]))' /\ Apart'
  BY <1>1, <1>5, JobsGrow, BesideRequests DEF Exists
<1>8. (\A x \in Runners : JobFits(job[x]))'
  <2>1. \A x \in Runners : JobFits(job'[x])
    BY <1>1, <1>2, <1>5 DEF IInv
  <2> QED BY <1>1, <2>1 DEF JobFits, ClosedBefore, Cutoff, Exists
<1>9. (OneFilePerDay /\ DueInTime /\ FilesOutliveTickets)'
  BY <1>1 DEF IInv, OneFilePerDay, DueInTime, FilesOutliveTickets, Exists
<1>10. TextKept'
  BY <1>1 DEF IInv, TextKept, Exists
<1>11. ImagesKept'
  <2> SUFFICES ASSUME NEW s \in Slots, NEW x \in tickets[s].records
               PROVE  x.picture \in images' \/ Excused(s, x)'
    BY <1>1 DEF ImagesKept
  <2>1. x.picture \in images \/ Excused(s, x)
    BY DEF IInv, ImagesFit, ImagesKept
  <2>2. x.picture = p => ClosedBefore(s, Cutoff)
    BY <1>1, <1>2, NoRecords DEF JobFits, ShownFits
  <2> QED BY <1>1, <2>1, <2>2 DEF Excused, ClosedBefore, Cutoff
<1>12. OwnImages' /\ PhotosApart'
  BY <1>1 DEF IInv, ImagesFit, OwnImages, PhotosApart
<1>13. ASSUME NEW w \in Senders PROVE PhotoFits(photo[w])'
  <2>1. photo[w].pc \in Busy => photo[w].new # p
    BY <1>1, <1>2 DEF ShownFits
  <2> QED BY <1>1, <2>1, OnePhoto DEF PhotoFits
<1>14. ASSUME NEW x \in Runners PROVE ShownFits(job[x])'
  <2>1. ShownFits(q)
    BY <1>2, <1>4 DEF ShownFits
  <2>2. ShownFits(job'[x])
    BY <1>1, <1>2, <2>1 DEF IInv, ImagesFit
  <2> QED BY <1>1, <2>2 DEF ShownFits
<1>15. ImagesFit'
  BY <1>11, <1>12, <1>13, <1>14 DEF ImagesFit
<1> QED BY <1>6, <1>7, <1>8, <1>9, <1>10, <1>15 DEF IInv

(* Tickets go, and nothing else does. *)
LEMMA DeleteTicketsKeeps ==
  ASSUME IInv, NEW r \in Runners, DeleteTickets(r)
  PROVE  IInv'
<1>1. /\ job' = [job EXCEPT ![r] = NoJob]
      /\ UNCHANGED <<files, disk, images, taken, now, upload, photo, lost, faults>>
  BY DEF DeleteTickets, GotoJob, stored, photos
<1>2. job \in [Runners -> Job] /\ tickets \in [Slots -> TicketRow \cup {NoTicket}]
  BY DEF IInv, FileStoreTypeOK
<1>3. /\ tickets' \in [Slots -> TicketRow \cup {NoTicket}]
      /\ \A s \in Slots : tickets'[s] = NoTicket \/ tickets'[s] = tickets[s]
  <2>1. CASE tickets' = tickets
    BY <1>2, <2>1
  <2>2. CASE tickets' = [s \in Slots |-> IF s \in job[r].old THEN NoTicket ELSE tickets[s]]
    BY <1>2, <2>2, NoRecords
  <2> QED BY <2>1, <2>2 DEF DeleteTickets
<1>4. \A f \in FilesOf(NoJob) : FALSE
  BY DEF FilesOf, NoJob
<1>5. NoTicket.records = {}
  BY DEF NoTicket
<1>6. FileStoreTypeOK'
  BY <1>1, <1>2, <1>3, NoRecords DEF IInv, FileStoreTypeOK
<1>7. (\A w \in Uploaders : UploadFits(upload[w]) /\ InHand(upload[w]))' /\ Apart'
  BY <1>1, <1>4, JobsGrow, BesideRequests DEF Exists
<1>8. (\A x \in Runners : JobFits(job[x]))'
  <2>1. \A x \in Runners : JobFits(job'[x]) /\ job'[x] \in Job
    BY <1>1, <1>2, NoRecords DEF IInv
  <2>2. \A x \in Runners : job'[x].old \subseteq Slots
    BY <2>1 DEF Job
  <2> QED BY <1>1, <1>3, <2>1, <2>2 DEF JobFits, ClosedBefore, Cutoff, Exists
<1>9. (OneFilePerDay /\ DueInTime)'
  BY <1>1 DEF IInv, OneFilePerDay, DueInTime, Exists
<1>10. FilesOutliveTickets'
  BY <1>1, <1>3 DEF IInv, FilesOutliveTickets, Exists
<1>11. TextKept'
  <2>1. ASSUME NEW f \in FileIds, Exists(f), f \notin disk
        PROVE  files[f].at < now - Retention /\ \A l \in Lines : tickets'[<<f, l>>] = NoTicket
    BY <1>3, <2>1 DEF IInv, TextKept, Slots
  <2> QED BY <1>1, <2>1 DEF TextKept, Exists
<1>12. ImagesFit'
  <2>1. \A s \in Slots : \A x \in tickets'[s].records :
          x \in tickets[s].records /\ (ClosedBefore(s, Cutoff) => ClosedBefore(s, Cutoff)')
    BY <1>1, <1>3, <1>5 DEF ClosedBefore, Cutoff
  <2>2. \A x \in Runners : ShownFits(job'[x])
    BY <1>1, <1>2, NoRecords DEF IInv, ImagesFit
  <2> QED BY <1>1, <2>1, <2>2, ImagesFrame DEF IInv
<1> QED BY <1>6, <1>7, <1>8, <1>9, <1>10, <1>11, <1>12 DEF IInv

(* A text goes only if its file is old and has no tickets, nor gets any.     *)
LEMMA DeleteTextKeeps ==
  ASSUME IInv, NEW r \in Runners, NEW f \in FileIds, DeleteText(r, f)
  PROVE  IInv'
<1> DEFINE j == job[r]
           empty == IF TicketsOf(f) = {} THEN j.empty \cup {f} ELSE j.empty
           q == [j EXCEPT !.queue = @ \ {f}, !.empty = empty]
<1>1. /\ f \in j.queue /\ job' = [job EXCEPT ![r] = q]
      /\ disk' = IF TicketsOf(f) = {} THEN disk \ {f} ELSE disk
      /\ UNCHANGED <<files, tickets, images, taken, now, upload, photo, lost, faults>>
  BY DEF DeleteText, GotoJob, tables, photos
<1>2. j \in Job /\ JobFits(j) /\ ShownFits(j) /\ job \in [Runners -> Job]
  BY OneJob DEF IInv, FileStoreTypeOK
<1>3. empty \subseteq FileIds
  BY <1>2 DEF Job
<1>4. \A g \in empty : g \in j.empty \/ (g = f /\ TicketsOf(f) = {})
  OBVIOUS
<1> HIDE DEF empty
<1>5. q \in Job
  BY <1>2, <1>3 DEF Job
<1>6. q.old = j.old /\ q.shown = j.shown /\ q.queue = j.queue \ {f} /\ q.empty = empty
  BY <1>2 DEF Job
<1> HIDE DEF q
<1>7. TicketsOf(f) = {} => \A s \in Slots : s[1] = f => tickets[s] = NoTicket
  BY DEF TicketsOf
<1>8. JobFits(q)
  BY <1>2, <1>4, <1>6, <1>7 DEF JobFits
<1>9. f \in InJobs /\ \A g \in FilesOf(q) : g \in InJobs
  BY <1>1, <1>4, <1>6, JobRefers DEF FilesOf
<1>10. FileStoreTypeOK'
  BY <1>1, <1>2, <1>5 DEF IInv, FileStoreTypeOK
<1>11. (\A w \in Uploaders : UploadFits(upload[w]) /\ InHand(upload[w]))' /\ Apart'
  <2>1. \A g \in FileIds : g \in disk /\ g \notin disk' => g \in InJobs
    BY <1>1, <1>9
  <2>2. \A g : g \in InJobs' => g \in InJobs \/ Exists(g)
    BY <1>1, <1>9, JobsGrow
  <2> QED BY <1>1, <2>1, <2>2, BesideRequests DEF Exists
<1>12. (\A x \in Runners : JobFits(job[x]))'
  <2>1. \A x \in Runners : JobFits(job'[x])
    BY <1>1, <1>2, <1>8 DEF IInv
  <2> QED BY <1>1, <2>1 DEF JobFits, ClosedBefore, Cutoff, Exists
<1>13. (OneFilePerDay /\ DueInTime /\ FilesOutliveTickets)'
  BY <1>1 DEF IInv, OneFilePerDay, DueInTime, FilesOutliveTickets, Exists
<1>14. TextKept'
  <2>1. ASSUME NEW g \in FileIds, Exists(g), g \notin disk'
        PROVE  files[g].at < now - Retention /\ \A l \in Lines : tickets[<<g, l>>] = NoTicket
    <3>1. CASE g \notin disk
      BY <2>1, <3>1 DEF IInv, TextKept
    <3>2. CASE g \in disk
      <4>1. g = f /\ TicketsOf(f) = {}
        BY <1>1, <2>1, <3>2
      <4>2. files[f].at < Cutoff
        BY <1>1, <1>2, <2>1, <4>1 DEF JobFits
      <4> QED BY <1>7, <4>1, <4>2 DEF Slots, Cutoff
    <3> QED BY <3>1, <3>2
  <2> QED BY <1>1, <2>1 DEF IInv, TextKept, Exists
<1>15. ImagesFit'
  <2>1. \A s \in Slots : \A x \in tickets'[s].records :
          x \in tickets[s].records /\ (ClosedBefore(s, Cutoff) => ClosedBefore(s, Cutoff)')
    BY <1>1 DEF ClosedBefore, Cutoff
  <2>2. ShownFits(q)
    BY <1>2, <1>6 DEF ShownFits
  <2>3. \A x \in Runners : ShownFits(job'[x])
    BY <1>1, <1>2, <2>2 DEF IInv, ImagesFit
  <2> QED BY <1>1, <2>1, <2>3, ImagesFrame DEF IInv
<1> QED BY <1>10, <1>11, <1>12, <1>13, <1>14, <1>15 DEF IInv

(* The files whose rows go still have no tickets. *)
LEMMA DeleteFilesKeeps ==
  ASSUME IInv, NEW r \in Runners, DeleteFiles(r)
  PROVE  IInv'
<1> DEFINE empty == job[r].empty
<1>1. /\ files' = [f \in FileIds |-> IF f \in empty THEN NoFile ELSE files[f]]
      /\ job' = [job EXCEPT ![r] = NoJob]
      /\ UNCHANGED <<tickets, disk, images, taken, now, upload, photo, lost, faults>>
  BY DEF DeleteFiles, GotoJob, stored, photos
<1>2. job \in [Runners -> Job] /\ files \in [FileIds -> FileRow \cup {NoFile}]
  BY DEF IInv, FileStoreTypeOK
<1>3. \A f \in FileIds : Exists(f)' => Exists(f) /\ files'[f] = files[f] /\ f \notin empty
  BY <1>1 DEF Exists
<1>4. \A f \in FilesOf(NoJob) : FALSE
  BY DEF FilesOf, NoJob
<1>5. \A f \in empty, s \in Slots : s[1] = f => tickets[s] = NoTicket
  BY OneJob DEF JobFits
<1> HIDE DEF empty
<1>6. FileStoreTypeOK'
  BY <1>1, <1>2, NoRecords DEF IInv, FileStoreTypeOK
<1>7. (\A w \in Uploaders : UploadFits(upload[w]) /\ InHand(upload[w]))' /\ Apart'
  <2>1. \A f : f \in InJobs' => f \in InJobs \/ Exists(f)
    BY <1>1, <1>4, JobsGrow
  <2> QED BY <1>1, <1>3, <2>1, BesideRequests
<1>8. (\A x \in Runners : JobFits(job[x]))'
  <2>1. \A x \in Runners : JobFits(job'[x]) /\ job'[x] \in Job
    BY <1>1, <1>2, NoRecords DEF IInv
  <2>2. \A x \in Runners : job'[x].queue \subseteq FileIds
    BY <2>1 DEF Job
  <2>3. ASSUME NEW x \in Runners PROVE (\A f \in job[x].queue : Exists(f) => files[f].at < Cutoff)'
    BY <1>1, <1>3, <2>1, <2>2 DEF JobFits, Cutoff
  <2> QED BY <1>1, <2>1, <2>3 DEF JobFits, ClosedBefore, Cutoff
<1>9. (OneFilePerDay /\ DueInTime)'
  <2>1. \A f \in FileIds : files'[f] = files[f] \/ files'[f].deadline = None
    BY <1>1 DEF NoFile
  <2> QED BY <1>3, <2>1 DEF IInv, OneFilePerDay, DueInTime
<1>10. FilesOutliveTickets'
  <2> SUFFICES ASSUME NEW s \in Slots, tickets[s] # NoTicket PROVE Exists(s[1])'
    BY <1>1 DEF FilesOutliveTickets
  <2>1. Exists(s[1]) /\ s[1] \in FileIds /\ s[1] \notin empty
    BY <1>5 DEF IInv, FilesOutliveTickets, Slots
  <2> QED BY <1>1, <2>1 DEF Exists
<1>11. TextKept'
  BY <1>1, <1>3 DEF IInv, TextKept
<1>12. ImagesFit'
  <2>1. \A s \in Slots : \A x \in tickets'[s].records :
          x \in tickets[s].records /\ (ClosedBefore(s, Cutoff) => ClosedBefore(s, Cutoff)')
    BY <1>1 DEF ClosedBefore, Cutoff
  <2>2. \A x \in Runners : ShownFits(job'[x])
    BY <1>1, <1>2, NoRecords DEF IInv, ImagesFit
  <2> QED BY <1>1, <2>1, <2>2, ImagesFrame DEF IInv
<1> QED BY <1>6, <1>7, <1>8, <1>9, <1>10, <1>11, <1>12 DEF IInv

(* What is old stays old. *)
LEMMA TickKeeps ==
  ASSUME IInv, Tick PROVE IInv'
<1>1. /\ now \in Nat /\ now' = now + 1 /\ Retention \in Nat
      /\ UNCHANGED <<files, tickets, disk, images, taken, upload, photo, lost, job, faults>>
  BY FileStoreAssumption DEF Tick, tables, stored, photos, IInv, FileStoreTypeOK
<1>2. /\ files \in [FileIds -> FileRow \cup {NoFile}] /\ tickets \in [Slots -> TicketRow \cup {NoTicket}]
      /\ job \in [Runners -> Job]
  BY DEF IInv, FileStoreTypeOK
<1>3. \A f \in FileIds : files[f].at \in Int
  <2>1. \A f \in FileIds : files[f] \in FileRow \cup {NoFile}
    BY <1>2
  <2> QED BY <2>1 DEF FileRow, NoFile
<1>4. \A s \in Slots : tickets[s].at \in Int
  BY <1>2 DEF TicketRow, NoTicket
<1>5. FileStoreTypeOK'
  BY <1>1 DEF IInv, FileStoreTypeOK
<1>6. (\A w \in Uploaders : UploadFits(upload[w]) /\ InHand(upload[w]))' /\ Apart'
  BY <1>1, BesideRequests DEF Exists, InJobs
<1>7. ASSUME NEW r \in Runners PROVE JobFits(job[r])'
  <2>1. JobFits(job[r]) /\ job[r].old \subseteq Slots /\ job[r].queue \subseteq FileIds
    BY OneJob DEF Job
  <2> QED BY <1>1, <1>3, <1>4, <2>1 DEF JobFits, ClosedBefore, Cutoff, Exists
<1>8. (OneFilePerDay /\ DueInTime /\ FilesOutliveTickets)'
  BY <1>1 DEF IInv, OneFilePerDay, DueInTime, FilesOutliveTickets, Exists
<1>9. TextKept'
  BY <1>1, <1>3, <1>4 DEF IInv, TextKept, Exists
<1>10. ImagesFit'
  <2>1. \A s \in Slots : \A x \in tickets'[s].records :
          x \in tickets[s].records /\ (ClosedBefore(s, Cutoff) => ClosedBefore(s, Cutoff)')
    BY <1>1, <1>4 DEF ClosedBefore, Cutoff
  <2>2. \A x \in Runners : ShownFits(job'[x])
    BY <1>1 DEF IInv, ImagesFit
  <2> QED BY <1>1, <2>1, <2>2, ImagesFrame DEF IInv
<1> QED BY <1>5, <1>6, <1>7, <1>8, <1>9, <1>10 DEF IInv

LEMMA UploadKeeps ==
  ASSUME IInv, NEW w \in Uploaders, UploadStep(w) \/ FailUpload(w)
  PROVE  IInv'
BY StartUploadKeeps, OpenFileKeeps, EndUploadKeeps, TakeLockKeeps, BreakDeadlockKeeps, CheckFileKeeps,
   AcceptFileKeeps, RejectFileKeeps, RemoveRejectedKeeps, FailUploadKeeps
   DEF UploadStep, Serve

LEMMA PhotoKeeps ==
  ASSUME IInv, NEW w \in Senders,
         \/ \E s \in Slots : SendImage(w, s)
         \/ DeleteReplaced(w) \/ CommitImage(w) \/ FailPhoto(w)
  PROVE  IInv'
BY SendImageKeeps, DeleteReplacedKeeps, CommitImageKeeps, FailPhotoKeeps

LEMMA JobKeeps ==
  ASSUME IInv, NEW r \in Runners,
         ReadTickets(r) \/ ReadFiles(r) \/ Run(r) \/ FailJob(r) \/ LoseLock(r)
  PROVE  IInv'
BY ReadTicketsKeeps, ReadFilesKeeps, DeleteImageKeeps, DeleteTicketsKeeps, DeleteTextKeeps,
   DeleteFilesKeeps, FailJobKeeps, LoseLockKeeps
   DEF Run

LEMMA NextKeeps == IInv /\ [Next]_vars => IInv'
<1> SUFFICES ASSUME IInv, [Next]_vars PROVE IInv'
  OBVIOUS
<1>1. CASE UNCHANGED vars
  <2>1. UNCHANGED <<files, tickets, disk, images, taken, now, upload, photo, job, faults, lost>>
    BY <1>1 DEF vars
  <2>2. (\A w \in Uploaders : UploadFits(upload[w]) /\ InHand(upload[w]))' /\ Apart'
    BY <2>1, BesideRequests DEF Exists, InJobs
  <2>3. (\A r \in Runners : JobFits(job[r]))'
    BY <2>1 DEF IInv, JobFits, ClosedBefore, Cutoff, Exists
  <2>4. FileStoreTypeOK'
    BY <2>1 DEF IInv, FileStoreTypeOK
  <2>5. (OneFilePerDay /\ DueInTime /\ FilesOutliveTickets /\ TextKept)'
    BY <2>1 DEF IInv, OneFilePerDay, DueInTime, FilesOutliveTickets, TextKept, Exists
  <2>6. ImagesFit'
    BY <2>1, ImagesBeside DEF IInv
  <2> QED BY <2>2, <2>3, <2>4, <2>5, <2>6 DEF IInv
<1>2. CASE Next
  BY <1>2, UploadKeeps, PhotoKeeps, JobKeeps, CloseTicketKeeps, DropRecordKeeps, TickKeeps DEF Next
<1> QED BY <1>1, <1>2

LEMMA InvariantHolds == Spec => []IInv
BY InitHolds, NextKeeps, PTL DEF Spec

-----------------------------------------------------------------------------
(* Every row, request and job keeps its shape.                               *)
THEOREM FileStoreTypeCorrect == Spec => []FileStoreTypeOK
<1>1. IInv => FileStoreTypeOK
  BY DEF IInv
<1> QED BY <1>1, InvariantHolds, PTL

(* At most one file of an internal code is taken in per business day.        *)
THEOREM OneFileADay == Spec => []OneFilePerDay
<1>1. IInv => OneFilePerDay
  BY DEF IInv
<1> QED BY <1>1, InvariantHolds, PTL

(* Deadlines are in the business day, or on the calendar day, of the upload. *)
THEOREM FilesDueInTime == Spec => []DueInTime
<1>1. IInv => DueInTime
  BY DEF IInv
<1> QED BY <1>1, InvariantHolds, PTL

(* No ticket is without its file. *)
THEOREM TicketsHaveFiles == Spec => []FilesOutliveTickets
<1>1. IInv => FilesOutliveTickets
  BY DEF IInv
<1> QED BY <1>1, InvariantHolds, PTL

(* What is stored on disk goes only with what it is evidence for.            *)
THEOREM EvidenceIsKept == Spec => []EvidenceKept
<1>1. IInv => EvidenceKept
  BY DEF IInv, TextKept, ImagesFit, ImagesKept, Excused, ClosedBefore, Cutoff, EvidenceKept
<1> QED BY <1>1, InvariantHolds, PTL
=============================================================================
