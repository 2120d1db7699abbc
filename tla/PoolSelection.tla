---------------------------- MODULE PoolSelection ----------------------------
(***************************************************************************)
(* Which tickets the pool hands out next: the ORDER BY of the queries of   *)
(* src/services/ticket_pool.py and the choice of one lottery type for a    *)
(* mode-B batch.  A ticket's deadline and lottery type are those of its    *)
(* file (src/services/file_parser.py gives every ticket of a file the      *)
(* file's); types are numbered in the order the database sorts them.       *)
(***************************************************************************)
EXTENDS Integers, FiniteSets

CONSTANTS
  Tickets,    \* ids of tickets: natural numbers, as the primary key is
  Files,      \* rows of uploaded_files
  FileOf,     \* the file a ticket belongs to
  Deadline,   \* a file's deadline_time, in ticks of the clock
  NoDeadline, \* the files whose deadline_time is NULL; Deadline tells nothing of them
  LotteryType \* a file's lottery type

ASSUME SelectionAssumption ==
  /\ Tickets \subseteq Nat
  /\ IsFiniteSet(Tickets)
  /\ FileOf \in [Tickets -> Files]
  /\ Deadline \in [Files -> Nat]
  /\ NoDeadline \subseteq Files
  /\ LotteryType \in [Files -> Nat]

DeadlineOf(t) == Deadline[FileOf[t]]
TypeOf(t) == LotteryType[FileOf[t]]
HasDeadline(t) == FileOf[t] \notin NoDeadline

TicketsOf(f) == {t \in Tickets : FileOf[t] = f}
FilesOf(S) == {FileOf[t] : t \in S}

(* ORDER BY deadline_time, lottery_type *)
GroupBefore(s, t) ==
  \/ DeadlineOf(s) < DeadlineOf(t)
  \/ DeadlineOf(s) = DeadlineOf(t) /\ TypeOf(s) < TypeOf(t)

(* ORDER BY deadline_time, lottery_type, id *)
Before(s, t) ==
  \/ GroupBefore(s, t)
  \/ DeadlineOf(s) = DeadlineOf(t) /\ TypeOf(s) = TypeOf(t) /\ s < t

(* The one row of a query with that ORDER BY and LIMIT 1. *)
Earliest(S) == CHOOSE t \in S : \A s \in S \ {t} : Before(t, s)

(* The rows of a query ORDER BY id LIMIT n. *)
LowestIds(S, n) == {t \in S : Cardinality({s \in S : s < t}) < n}

(* Mutant: the type is forgotten. *)
GroupByDeadline(S, t) == {s \in S : DeadlineOf(s) = DeadlineOf(t)}

(* The rows of S that GROUP BY lottery_type, deadline_time puts with t. *)
GroupIn(S, t) == {s \in S : DeadlineOf(s) = DeadlineOf(t) /\ TypeOf(s) = TypeOf(t)}

(***************************************************************************)
(* The group a batch of n tickets is taken from, S being the eligible      *)
(* pending tickets: the first group if it is large enough; otherwise, among*)
(* the groups with the same deadline, the largest, the first of them when  *)
(* several are (Python's max keeps the first).                             *)
(***************************************************************************)
BatchGroup(S, n) ==
  LET first == GroupIn(S, Earliest(S))
      rivals == {s \in S : DeadlineOf(s) = DeadlineOf(Earliest(S))}
      size(t) == Cardinality(GroupIn(S, t))
      largest == {t \in rivals : \A s \in rivals : size(s) <= size(t)}
  IN IF Cardinality(first) >= n
     THEN first
     ELSE GroupIn(S, Earliest(largest))

(* Python's max(0, m - n) and SQL's GREATEST(m - n, 0) *)
LessUnfloored(m, n) == m - n   \* mutant
Less(m, n) == IF m > n THEN m - n ELSE 0
AtMost(m, n) == IF m < n THEN m ELSE n

(* What a download of n tickets gets from a pool nobody else touches. *)
BatchSize(S, reserve, n) ==
  LET actual == AtMost(n, Less(Cardinality(S), reserve))
  IN IF actual = 0 THEN 0 ELSE AtMost(actual, Cardinality(BatchGroup(S, actual)))

(* get_mode_b_preview_available: the most a download can get *)
PreviewAvailable(S, reserve) ==
  LET available == Less(Cardinality(S), reserve)
  IN IF available = 0 THEN 0
     ELSE AtMost(available, Cardinality(BatchGroup(S, available)))

-----------------------------------------------------------------------------
(* What a client is shown of the pool *)

(* The rows of GROUP BY lottery_type, deadline_time with their counts. *)
GroupCounts(S) ==
  [group \in {GroupIn(S, t) : t \in S} |-> Cardinality(group)]

(* The groups of S that come before one in their ORDER BY *)
GroupsBefore(S, group) ==
  {s \in S : \A t \in group : GroupBefore(s, t)}

(* Mutant: what the earlier groups showed is not taken off. *)
TrimEachGroup(S, reserve) ==
  LET available == Less(Cardinality(S), reserve)
      shown(group) == AtMost(Cardinality(group), available)
  IN [group \in {g \in DOMAIN GroupCounts(S) : shown(g) > 0} |-> shown(group)]

(* _trim_status_for_mode_b: the groups in their order, up to the number of   *)
(* tickets above the reserve; a group of which nothing is left is not shown. *)
TrimForModeB(S, reserve) ==
  LET available == Less(Cardinality(S), reserve)
      shown(group) == AtMost(Cardinality(group),
                             Less(available, Cardinality(GroupsBefore(S, group))))
  IN [group \in {g \in DOMAIN GroupCounts(S) : shown(g) > 0} |-> shown(group)]
=============================================================================
