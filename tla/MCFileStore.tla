---------------------------- MODULE MCFileStore ----------------------------
(***************************************************************************)
(* Instances of FileStore for TLC.                                         *)
(***************************************************************************)
EXTENDS FileStoreProps, TLC

Rows == {f \in FileIds : Exists(f)}
Imported(f) ==
  LET row == files[f]
  IN IF row.deadline # None /\ row.deadline =< row.at THEN Closed(row.deadline) ELSE Open

(* Requests overlap, those of several files within one business day, before  *)
(* anything is old enough to be deleted, and nothing else happens to the     *)
(* tickets and images.                                                       *)
Overlap ==
  /\ now =< Retention
  /\ \A f \in Rows :
       IF files[f].deadline = None THEN Rows = {f} ELSE HourOf(files[f].deadline) # 0
  /\ \A f \in Rows, l \in Lines : tickets[<<f, l>>] = Imported(f)
  /\ now > 0 => faults = 0
  /\ now > 0 => Cardinality(Rows) =< 1
  /\ faults > 0 => Cardinality(Rows \cup disk) =< 1
  /\ now > 0 \/ faults > 0 => \A w \in Uploaders : Len(upload[w].queue) =< 1
  /\ taken = 0 /\ job = [r \in Runners |-> NoJob]

(* The first file, if it is the only one, grows old: its tickets close, its  *)
(* counters settle, one of its tickets gets images, and jobs delete.         *)
Ageing ==
  /\ Rows \cup disk \subseteq {1}
  /\ \A f \in Rows : files[f].code = CHOOSE c \in Codes : TRUE
  /\ upload = [w \in Uploaders |-> NoUpload]
  /\ \A w \in Senders, s \in Slots : photo[w].slot = s => s[2] = CHOOSE l \in Lines : TRUE

Focus == Overlap \/ Ageing
=============================================================================
