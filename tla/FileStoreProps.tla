--------------------------- MODULE FileStoreProps ---------------------------
(***************************************************************************)
(* What must be true of the ticket files and of what is stored for them.   *)
(***************************************************************************)
EXTENDS FileStore

(* Every row, request and job keeps its shape. *)
FileStoreTypeOK ==
  /\ files \in [FileIds -> FileRow \cup {NoFile}]
  /\ tickets \in [Slots -> TicketRow \cup {NoTicket}]
  /\ disk \subseteq FileIds
  /\ taken \in Nat /\ images \subseteq 1 .. taken /\ lost \subseteq 1 .. taken
  /\ now \in Nat
  /\ upload \in [Uploaders -> Upload]
  /\ photo \in [Senders -> Photo]
  /\ job \in [Runners -> Job]
  /\ faults \in Nat

(* At most one file of an internal code is taken in per business day,        *)
(* however requests of several files overlap, refuse, roll back, fail or     *)
(* run into the next day (process_uploaded_file).                            *)
OneFilePerDay ==
  \A f, g \in FileIds :
    /\ Exists(f) /\ Exists(g) /\ files[f].code = files[g].code
    /\ BusinessDate(files[f].at) = BusinessDate(files[g].at)
    => f = g

(* If a file has a deadline it is, for one uploaded after the reset, within  *)
(* its business day; for one uploaded in the small hours, before the reset,  *)
(* on that calendar day, so maybe in the next business day                   *)
(* (resolve_deadline_datetime).                                              *)
DueInTime ==
  \A f \in FileIds : files[f].deadline # None =>
    LET row == files[f]
    IN IF BeforeReset(row.at) THEN Day(row.deadline) = Day(row.at)
       ELSE row.deadline \in BusinessWindow(BusinessDate(row.at))

(* No ticket is without its file: the jobs that delete tickets and files     *)
(* keep their order even if one fails or two runs overlap.                   *)
FilesOutliveTickets ==
  \A s \in Slots : tickets[s] # NoTicket => Exists(s[1])

(* The disk is not part of any transaction, and what is deleted from it is   *)
(* deleted before the commit.  Still the text of a file is there as long as  *)
(* the file is recent or has tickets, and the image of a record as long as   *)
(* its ticket is recent: a job that fails between deletion and commit leaves *)
(* only what the next run deletes.  The one exception is the record whose    *)
(* image is being replaced, or was when the request failed                   *)
(* (upload_winning_image): however requests, jobs and deletions of records   *)
(* overlap, nobody else's image is lost.                                     *)
EvidenceKept ==
  /\ \A f \in FileIds : Exists(f) /\ f \notin disk =>
       files[f].at < now - Retention /\ \A l \in Lines : tickets[<<f, l>>] = NoTicket
  /\ \A s \in Slots : \A r \in tickets[s].records : r.picture \notin images =>
       \/ tickets[s].status = "closed" /\ tickets[s].at < now - Retention
       \/ \E w \in Senders : photo[w].pc = "commit" /\ photo[w].slot = s /\ photo[w].read = r
       \/ r.picture \in lost

(* Every upload request is answered, also those that wait for each other's   *)
(* locks: a duplicate is refused without ending the transaction, so that a   *)
(* request of several files collects locks in the order of its files.        *)
UploadsFinish == \A w \in Uploaders : upload[w].pc # "idle" ~> upload[w].pc = "idle"

(* A file past its retention whose tickets are too, and whose counters show  *)
(* none of them as open, is deleted some day, with its tickets, also if a    *)
(* job failed or lost its lock, or an image came in between.                 *)
OldFilesGo ==
  \A f \in FileIds :
    /\ Exists(f) /\ files[f].at < now - Retention /\ ~ files[f].open
    /\ \A s \in TicketsOf(f) : tickets[s].status = "closed" /\ tickets[s].at < now - Retention
    ~> ~ Exists(f)
=============================================================================
