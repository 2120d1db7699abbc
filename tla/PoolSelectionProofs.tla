------------------------- MODULE PoolSelectionProofs -------------------------
(***************************************************************************)
(* The choice of the next ticket is well defined: the database's ORDER BY  *)
(* is a strict total order of the tickets, so that "the first row" exists  *)
(* and is one of the rows asked for.                                       *)
(***************************************************************************)
EXTENDS PoolSelection, FiniteSetTheorems, FunctionTheorems, WellFoundedInduction, TLAPS

(* ORDER BY deadline_time, lottery_type, id orders any two tickets one way.  *)
LEMMA BeforeIsStrictTotalOrder ==
  /\ \A t \in Tickets : ~ Before(t, t)
  /\ \A s, t \in Tickets : s # t => Before(s, t) \/ Before(t, s)
  /\ \A r, s, t \in Tickets : Before(r, s) /\ Before(s, t) => Before(r, t)
<1>1. \A t \in Tickets : t \in Nat /\ DeadlineOf(t) \in Nat /\ TypeOf(t) \in Nat
  BY SelectionAssumption DEF DeadlineOf, TypeOf
<1>2. QED
  BY <1>1 DEF Before, GroupBefore

(* Of a non-empty set of rows, the query with LIMIT 1 returns one: the row   *)
(* before all the others.                                                    *)
THEOREM EarliestIsFirst ==
  ASSUME NEW S \in SUBSET Tickets, S # {}
  PROVE  /\ Earliest(S) \in S
         /\ \A s \in S \ {Earliest(S)} : Before(Earliest(S), s)
<1> DEFINE Down(t) == {s \in S : Before(s, t)}
           Downs == {Down(t) : t \in S}
<1>1. PICK m \in S : \A s \in S : ~ (Down(s) \subseteq Down(m) /\ Down(s) # Down(m))
  <2>1. IsFiniteSet(S)
    BY SelectionAssumption, FS_Subset
  <2>2. Downs \subseteq FiniteSubsetsOf(S)
    BY <2>1, FS_Subset DEF FiniteSubsetsOf
  <2>3. Downs # {}
    OBVIOUS
  <2>4. IsWellFoundedOn(StrictSubsetOrdering(S), FiniteSubsetsOf(S))
    BY FS_StrictSubsetOrderingWellFounded
  <2>5. PICK X \in Downs : \A Y \in Downs : ~ (<<Y, X>> \in StrictSubsetOrdering(S))
    <3> HIDE DEF Downs
    <3> QED BY <2>2, <2>3, <2>4, WFMin
  <2>6. PICK m \in S : X = Down(m)
    OBVIOUS
  <2>7. SUFFICES ASSUME NEW s \in S, Down(s) \subseteq Down(m), Down(s) # Down(m)
                 PROVE  FALSE
    BY <2>6
  <2>8. Down(s) \in Downs /\ Down(s) \in SUBSET S /\ Down(m) \in SUBSET S
    OBVIOUS
  <2>9. <<Down(s), Down(m)>> \in StrictSubsetOrdering(S)
    <3> HIDE DEF Down, Downs
    <3> QED BY <2>7, <2>8 DEF StrictSubsetOrdering
  <2> QED BY <2>5, <2>6, <2>8, <2>9
<1>2. \A s \in S : ~ Before(s, m)
  <2> SUFFICES ASSUME NEW s \in S, Before(s, m) PROVE FALSE
    OBVIOUS
  <2>1. Down(s) \subseteq Down(m)
    BY BeforeIsStrictTotalOrder
  <2>2. s \in Down(m) /\ s \notin Down(s)
    BY BeforeIsStrictTotalOrder
  <2> QED BY <1>1, <2>1, <2>2
<1>3. \A s \in S \ {m} : Before(m, s)
  BY <1>2, BeforeIsStrictTotalOrder
<1> QED BY <1>3 DEF Earliest

-----------------------------------------------------------------------------
(* Groups of tickets *)

Size(S, t) == Cardinality(GroupIn(S, t))

(* The sizes of groups are natural numbers.                                  *)
LEMMA SizeType ==
  ASSUME NEW S \in SUBSET Tickets
  PROVE  /\ Cardinality(S) \in Nat
         /\ \A t : Size(S, t) \in Nat /\ Size(S, t) <= Cardinality(S)
<1>1. IsFiniteSet(S)
  BY SelectionAssumption, FS_Subset
<1>2. \A t : GroupIn(S, t) \in SUBSET S
  BY DEF GroupIn
<1>3. \A t : IsFiniteSet(GroupIn(S, t)) /\ Cardinality(GroupIn(S, t)) <= Cardinality(S)
  BY <1>1, <1>2, FS_Subset
<1>4. \A t : Cardinality(GroupIn(S, t)) \in Nat
  BY <1>3, FS_CardinalityType
<1> QED BY <1>1, <1>3, <1>4, FS_CardinalityType DEF Size

(* Among any tickets there is one whose group is largest: Python's max over  *)
(* the groups of the same deadline finds one.                                *)
LEMMA LargestExists ==
  ASSUME NEW S \in SUBSET Tickets, NEW R \in SUBSET S, R # {}
  PROVE  \E t \in R : \A s \in R : Size(S, s) <= Size(S, t)
<1> DEFINE N == Cardinality(S)
           Rest(t) == (Size(S, t) + 1) .. N
           Rests == {Rest(t) : t \in R}
<1>1. N \in Nat /\ \A t \in R : Size(S, t) \in Nat /\ Size(S, t) <= N
  BY SizeType
<1>2. PICK X \in Rests : \A Y \in Rests : ~ (<<Y, X>> \in StrictSubsetOrdering(Nat))
  <2>1. \A t \in R : Rest(t) \in SUBSET Nat /\ IsFiniteSet(Rest(t))
    <3>1. SUFFICES ASSUME NEW t \in R
                   PROVE  Rest(t) \in SUBSET Nat /\ IsFiniteSet(Rest(t))
      OBVIOUS
    <3>2. Size(S, t) + 1 \in Int /\ N \in Int /\ Size(S, t) \in Nat
      BY <1>1
    <3>3. IsFiniteSet(Rest(t))
      <4> HIDE DEF N
      <4> QED BY <3>2, FS_Interval
    <3> QED BY <3>2, <3>3
  <2>2. Rests \subseteq FiniteSubsetsOf(Nat)
    <3> HIDE DEF Rest
    <3> QED BY <2>1 DEF FiniteSubsetsOf
  <2>3. Rests # {}
    OBVIOUS
  <2>4. IsWellFoundedOn(StrictSubsetOrdering(Nat), FiniteSubsetsOf(Nat))
    BY FS_StrictSubsetOrderingWellFounded
  <2> HIDE DEF Rests
  <2> QED BY <2>2, <2>3, <2>4, WFMin
<1>3. PICK t \in R : X = Rest(t)
  OBVIOUS
<1>4. SUFFICES ASSUME NEW s \in R, ~ (Size(S, s) <= Size(S, t)) PROVE FALSE
  OBVIOUS
<1>5. Rest(s) \subseteq Rest(t) /\ Rest(s) # Rest(t)
  <2>1. Size(S, s) \in Rest(t) /\ Size(S, s) \notin Rest(s)
    BY <1>1, <1>4
  <2>2. Rest(s) \subseteq Rest(t)
    BY <1>1, <1>4
  <2> QED BY <2>1, <2>2
<1>6. Rest(s) \in SUBSET Nat /\ Rest(t) \in SUBSET Nat
  BY <1>1
<1>7. <<Rest(s), Rest(t)>> \in StrictSubsetOrdering(Nat)
  <2> HIDE DEF Rest
  <2> QED BY <1>5, <1>6 DEF StrictSubsetOrdering
<1> QED BY <1>2, <1>3, <1>7

(***************************************************************************)
(* What a batch's choice promises: the group is one of the pool's, and it  *)
(* is the first group when that is large enough for the whole batch, and the*)
(* largest with the first deadline when it is not.                         *)
(***************************************************************************)
THEOREM BatchGroupIsOneOfThePool ==
  ASSUME NEW S \in SUBSET Tickets, S # {}, NEW n \in Nat
  PROVE  \E t \in S :
           /\ t \in BatchGroup(S, n)
           /\ BatchGroup(S, n) = GroupIn(S, t)
           /\ DeadlineOf(t) = DeadlineOf(Earliest(S))
           /\ Size(S, Earliest(S)) < n =>
                \A s \in S : DeadlineOf(s) = DeadlineOf(Earliest(S)) =>
                  Size(S, s) <= Size(S, t)
           /\ Size(S, Earliest(S)) >= n => t = Earliest(S)
<1> DEFINE first == Earliest(S)
           rivals == {s \in S : DeadlineOf(s) = DeadlineOf(first)}
           largest == {t \in rivals : \A s \in rivals : Size(S, s) <= Size(S, t)}
<1>1. first \in S /\ first \in GroupIn(S, first)
  BY EarliestIsFirst DEF GroupIn
<1>2. \A t : Size(S, t) \in Nat
  BY SizeType
<1>3. CASE Size(S, first) >= n
  <2>1. BatchGroup(S, n) = GroupIn(S, first)
    BY <1>3 DEF BatchGroup, Size
  <2> QED BY <1>1, <1>2, <1>3, <2>1
<1>4. CASE Size(S, first) < n
  <2>1. largest # {} /\ largest \in SUBSET Tickets
    <3>1. rivals \in SUBSET S /\ rivals # {}
      BY <1>1
    <3>2. \E t \in rivals : \A s \in rivals : Size(S, s) <= Size(S, t)
      <4> HIDE DEF rivals
      <4> QED BY <3>1, LargestExists
    <3> QED BY <3>1, <3>2
  <2> DEFINE t == Earliest(largest)
  <2>2. t \in largest
    <3> HIDE DEF largest
    <3> QED BY <2>1, EarliestIsFirst
  <2>3. BatchGroup(S, n) = GroupIn(S, t)
    <3>1. ~ (Cardinality(GroupIn(S, Earliest(S))) >= n)
      BY <1>2, <1>4 DEF Size
    <3> QED BY <3>1 DEF BatchGroup, Size
  <2>4. t \in S /\ t \in GroupIn(S, t) /\ DeadlineOf(t) = DeadlineOf(first)
    BY <2>2 DEF GroupIn
  <2>5. \A s \in S : DeadlineOf(s) = DeadlineOf(first) => Size(S, s) <= Size(S, t)
    BY <2>2
  <2> HIDE DEF t
  <2> QED BY <1>2, <1>4, <2>3, <2>4, <2>5
<1> QED BY <1>2, <1>3, <1>4

(***************************************************************************)
(* The preview is honest: a download of n tickets from a pool nobody else  *)
(* touches gets all n exactly when the preview says there are that many.   *)
(***************************************************************************)
THEOREM PreviewTellsWhatADownloadGets ==
  ASSUME NEW S \in SUBSET Tickets, NEW reserve \in Nat, NEW n \in Nat \ {0}
  PROVE  BatchSize(S, reserve, n) = n <=> PreviewAvailable(S, reserve) >= n
<1> DEFINE available == Less(Cardinality(S), reserve)
           first == Earliest(S)
<1>1. Cardinality(S) \in Nat /\ \A t : Size(S, t) \in Nat
  BY SizeType
<1>2. available \in Nat
  BY <1>1 DEF Less
<1>3. CASE available < n
  <2> DEFINE group == Cardinality(BatchGroup(S, available))
  <2>1. available # 0 => group \in Nat
    <3>1. SUFFICES ASSUME available # 0 PROVE group \in Nat
      OBVIOUS
    <3>2. S # {}
      BY <1>1, <3>1, FS_EmptySet DEF Less
    <3>3. PICK t \in S : BatchGroup(S, available) = GroupIn(S, t)
      BY <1>2, <3>2, BatchGroupIsOneOfThePool
    <3> QED BY <1>1, <3>3 DEF Size
  <2>2. BatchSize(S, reserve, n) = IF available = 0 THEN 0 ELSE AtMost(available, group)
    <3>1. AtMost(n, available) = available
      BY <1>2, <1>3 DEF AtMost
    <3> QED BY <3>1 DEF BatchSize
  <2>3. PreviewAvailable(S, reserve) = IF available = 0 THEN 0 ELSE AtMost(available, group)
    BY DEF PreviewAvailable
  <2> HIDE DEF available, group
  <2> QED BY <1>2, <1>3, <2>1, <2>2, <2>3 DEF AtMost
<1>4. CASE available >= n
  <2>1. S # {}
    <3>1. Cardinality(S) # 0
      BY <1>1, <1>4 DEF Less
    <3> QED BY <3>1, FS_EmptySet
  <2>2. BatchSize(S, reserve, n) = AtMost(n, Cardinality(BatchGroup(S, n)))
    <3>1. AtMost(n, available) = n
      BY <1>2, <1>4 DEF AtMost
    <3> QED BY <3>1 DEF BatchSize
  <2>3. PreviewAvailable(S, reserve) = AtMost(available, Cardinality(BatchGroup(S, available)))
    BY <1>2, <1>4 DEF PreviewAvailable
  <2>4. PICK s \in S : /\ BatchGroup(S, n) = GroupIn(S, s)
                       /\ Size(S, first) < n =>
                            \A x \in S : DeadlineOf(x) = DeadlineOf(first) =>
                              Size(S, x) <= Size(S, s)
                       /\ Size(S, first) >= n => s = first
                       /\ DeadlineOf(s) = DeadlineOf(first)
    BY <2>1, BatchGroupIsOneOfThePool
  <2>5. PICK t \in S : /\ BatchGroup(S, available) = GroupIn(S, t)
                       /\ Size(S, first) < available =>
                            \A x \in S : DeadlineOf(x) = DeadlineOf(first) =>
                              Size(S, x) <= Size(S, t)
                       /\ Size(S, first) >= available => t = first
                       /\ DeadlineOf(t) = DeadlineOf(first)
    BY <1>2, <2>1, BatchGroupIsOneOfThePool
  <2>6. Size(S, s) >= n <=> Size(S, t) >= n
    <3>1. first \in S
      BY <2>1, EarliestIsFirst
    <3> HIDE DEF available, first
    <3> QED BY <1>1, <1>2, <1>4, <2>4, <2>5, <3>1
  <2>7. BatchSize(S, reserve, n) = AtMost(n, Size(S, s))
    BY <2>2, <2>4 DEF Size
  <2>8. PreviewAvailable(S, reserve) = AtMost(available, Size(S, t))
    BY <2>3, <2>5 DEF Size
  <2> HIDE DEF available
  <2> QED BY <1>1, <1>2, <1>4, <2>6, <2>7, <2>8 DEF AtMost
<1> QED BY <1>2, <1>3, <1>4

(* A batch is never larger than what is asked for.                           *)
LEMMA BatchWithinWish ==
  ASSUME NEW S \in SUBSET Tickets, NEW reserve \in Nat, NEW n \in Nat
  PROVE  BatchSize(S, reserve, n) \in Nat /\ BatchSize(S, reserve, n) <= n
<1> DEFINE available == Less(Cardinality(S), reserve)
           actual == AtMost(n, available)
           group == Cardinality(BatchGroup(S, actual))
<1>1. available \in Nat
  <2>1. Cardinality(S) \in Nat
    BY SizeType
  <2> QED BY <2>1 DEF Less
<1>2. actual \in Nat /\ actual <= n /\ actual <= available
  BY <1>1 DEF AtMost
<1>3. actual # 0 => group \in Nat
  <2> SUFFICES ASSUME actual # 0 PROVE group \in Nat
    OBVIOUS
  <2>1. S # {}
    <3>1. Cardinality(S) \in Nat
      BY SizeType
    <3>2. Cardinality(S) # 0
      BY <1>1, <1>2, <3>1 DEF Less
    <3> QED BY <3>2, FS_EmptySet
  <2>2. PICK t \in S : BatchGroup(S, actual) = GroupIn(S, t)
    BY <1>2, <2>1, BatchGroupIsOneOfThePool
  <2> QED BY <2>2, SizeType DEF Size
<1>4. BatchSize(S, reserve, n) = IF actual = 0 THEN 0 ELSE AtMost(actual, group)
  BY DEF BatchSize
<1> HIDE DEF actual, group
<1> QED BY <1>2, <1>3, <1>4 DEF AtMost

(* So is the preview: a number. *)
LEMMA PreviewIsNumber ==
  ASSUME NEW S \in SUBSET Tickets, NEW reserve \in Nat
  PROVE  PreviewAvailable(S, reserve) \in Nat
<1> DEFINE available == Less(Cardinality(S), reserve)
<1>1. available \in Nat
  BY SizeType DEF Less
<1>2. CASE available = 0
  BY <1>2 DEF PreviewAvailable
<1>3. CASE available # 0
  <2>1. S # {}
    <3>1. Cardinality(S) # 0
      BY <1>3, SizeType DEF Less
    <3> QED BY <3>1, FS_EmptySet
  <2>2. PICK t \in S : BatchGroup(S, available) = GroupIn(S, t)
    BY <1>1, <2>1, BatchGroupIsOneOfThePool
  <2>3. Cardinality(BatchGroup(S, available)) \in Nat
    BY <2>2, SizeType DEF Size
  <2> HIDE DEF available
  <2>4. PreviewAvailable(S, reserve) = AtMost(available, Cardinality(BatchGroup(S, available)))
    BY <1>3 DEF PreviewAvailable, available
  <2> QED BY <1>1, <2>3, <2>4 DEF AtMost
<1> QED BY <1>2, <1>3

-----------------------------------------------------------------------------
(* The numbers of a query's rows, and what is shown of the pool *)

(* How many of S come before a ticket in the ORDER BY.                       *)
Rank(S, t) == Cardinality({s \in S : Before(s, t)})

(* The first n rows of the query.                                            *)
FirstRows(S, n) == {t \in S : Rank(S, t) < n}

(* The rows of a query are numbered without gaps, from 0.                    *)
LEMMA RowsAreNumbered ==
  ASSUME NEW S \in SUBSET Tickets
  PROVE  /\ IsFiniteSet(S) /\ Cardinality(S) \in Nat
         /\ \A t \in S : Rank(S, t) \in 0..(Cardinality(S) - 1)
         /\ \A s, t \in S : Rank(S, s) = Rank(S, t) => s = t
         /\ \A i \in 0..(Cardinality(S) - 1) : \E t \in S : Rank(S, t) = i
<1> DEFINE N == Cardinality(S)
           Down(t) == {s \in S : Before(s, t)}
           f == [t \in S |-> Rank(S, t)]
<1>1. IsFiniteSet(S) /\ N \in Nat
  BY SelectionAssumption, FS_Subset, FS_CardinalityType
<1>2. ASSUME NEW t \in S
      PROVE  IsFiniteSet(Down(t)) /\ Rank(S, t) \in Nat /\ Rank(S, t) < N
  <2>1. Down(t) \in SUBSET S /\ t \notin Down(t)
    BY BeforeIsStrictTotalOrder
  <2> HIDE DEF Down
  <2>2. /\ IsFiniteSet(Down(t)) /\ Cardinality(Down(t)) <= N
        /\ N = Cardinality(Down(t)) => S = Down(t)
    BY <1>1, <2>1, FS_Subset
  <2>3. Cardinality(Down(t)) \in Nat /\ Cardinality(Down(t)) # N
    BY <2>1, <2>2, FS_CardinalityType
  <2> QED BY <1>1, <2>2, <2>3 DEF Rank, Down
<1>3. ASSUME NEW s \in S, NEW t \in S, Before(s, t)
      PROVE  Rank(S, s) < Rank(S, t)
  <2>1. Down(s) \in SUBSET Down(t) /\ s \in Down(t) /\ s \notin Down(s)
    BY <1>3, BeforeIsStrictTotalOrder
  <2>2. IsFiniteSet(Down(t)) /\ Rank(S, s) \in Nat /\ Rank(S, t) \in Nat
    BY <1>2
  <2> HIDE DEF Down
  <2>3. /\ Cardinality(Down(s)) <= Cardinality(Down(t))
        /\ Cardinality(Down(t)) = Cardinality(Down(s)) => Down(t) = Down(s)
    BY <2>1, <2>2, FS_Subset
  <2> QED BY <2>1, <2>2, <2>3 DEF Rank, Down
<1>4. ASSUME NEW s \in S, NEW t \in S, Rank(S, s) = Rank(S, t)
      PROVE  s = t
  <2>1. Rank(S, s) \in Nat
    BY <1>2
  <2>2. s \in Tickets /\ t \in Tickets
    OBVIOUS
  <2> QED BY <1>3, <1>4, <2>1, <2>2, BeforeIsStrictTotalOrder
<1>5. ASSUME NEW t \in S
      PROVE  Rank(S, t) \in 0..(N - 1)
  <2>1. Rank(S, t) \in Nat /\ Rank(S, t) < N
    BY <1>2
  <2> HIDE DEF N
  <2> QED BY <1>1, <2>1
<1>6. f \in [S -> 0..(N - 1)]
  BY <1>5
<1>7. IsFiniteSet(0..(N - 1)) /\ Cardinality(0..(N - 1)) = N
  <2> HIDE DEF N
  <2>1. 0 \in Int /\ N - 1 \in Int
    BY <1>1
  <2>2. /\ IsFiniteSet(0..(N - 1))
        /\ Cardinality(0..(N - 1)) = IF 0 > N - 1 THEN 0 ELSE (N - 1) - 0 + 1
    BY <2>1, FS_Interval
  <2> QED BY <1>1, <2>2
<1>8. f \in Surjection(S, 0..(N - 1))
  <2>1. f \in Injection(S, 0..(N - 1))
    BY <1>4, <1>6, Fun_IsInj
  <2> HIDE DEF f
  <2> QED BY <1>7, <2>1, FS_Injection
<1>9. \A i \in 0..(N - 1) : \E t \in S : Rank(S, t) = i
  <2>1. \A i \in 0..(N - 1) : \E t \in S : f[t] = i
    <3> DEFINE T == 0..(N - 1)
    <3>1. f \in Surjection(S, T)
      BY <1>8
    <3>2. \A i \in T : \E t \in S : f[t] = i
      <4> HIDE DEF f, T
      <4> QED BY <3>1, Fun_SurjectionProperties
    <3> QED BY <3>2
  <2> QED BY <2>1
<1> QED BY <1>1, <1>4, <1>5, <1>9

(* The query with LIMIT n returns n rows if there are so many.               *)
LEMMA FirstRowsNumber ==
  ASSUME NEW S \in SUBSET Tickets, NEW n \in Nat, n <= Cardinality(S)
  PROVE  IsFiniteSet(FirstRows(S, n)) /\ Cardinality(FirstRows(S, n)) = n
<1> DEFINE N == Cardinality(S)
           L == FirstRows(S, n)
           f == [t \in L |-> Rank(S, t)]
<1>1. /\ IsFiniteSet(S) /\ N \in Nat
      /\ \A t \in S : Rank(S, t) \in 0..(N - 1)
      /\ \A s, t \in S : Rank(S, s) = Rank(S, t) => s = t
      /\ \A i \in 0..(N - 1) : \E t \in S : Rank(S, t) = i
  BY RowsAreNumbered
<1> HIDE DEF N
<1>2. L \in SUBSET S
  BY DEF FirstRows
<1>3. f \in [L -> 0..(n - 1)]
  BY <1>1 DEF FirstRows
<1>4. \A s, t \in L : f[s] = f[t] => s = t
  BY <1>1, <1>2
<1>5. \A i \in 0..(n - 1) : \E t \in L : f[t] = i
  BY <1>1 DEF FirstRows, N
<1>6. f \in Bijection(L, 0..(n - 1))
  <2> HIDE DEF f, L
  <2> QED BY <1>3, <1>4, <1>5, Fun_IsBij
<1>7. IsFiniteSet(L)
  BY <1>1, <1>2, FS_Subset
<1>8. ExistsBijection(L, 0..(n - 1))
  <2> HIDE DEF f, L
  <2> QED BY <1>6, Fun_ExistsBij
<1>9. Cardinality(L) = Cardinality(0..(n - 1))
  <2> HIDE DEF L
  <2> QED BY <1>7, <1>8, FS_Bijection
<1>10. Cardinality(0..(n - 1)) = n
  BY FS_Interval
<1> QED BY <1>7, <1>9, <1>10

(* A row's number counts the rows of earlier groups, then those before it in *)
(* its own.                                                                  *)
LEMMA RankByGroups ==
  ASSUME NEW S \in SUBSET Tickets, NEW t \in S
  PROVE  /\ Cardinality(GroupsBefore(S, GroupIn(S, t))) \in Nat
         /\ Rank(S, t) = Cardinality(GroupsBefore(S, GroupIn(S, t))) + Rank(GroupIn(S, t), t)
<1> DEFINE g == GroupIn(S, t)
           Earlier == GroupsBefore(S, g)
           Within == {s \in g : Before(s, t)}
           Down == {s \in S : Before(s, t)}
<1>1. \A s \in S : s \in Nat /\ DeadlineOf(s) \in Nat /\ TypeOf(s) \in Nat
  BY SelectionAssumption DEF DeadlineOf, TypeOf
<1>2. Earlier = {s \in S : GroupBefore(s, t)}
  <2>1. t \in g /\ \A s \in S, x \in g : GroupBefore(s, x) <=> GroupBefore(s, t)
    BY DEF GroupIn, GroupBefore
  <2> HIDE DEF g
  <2> QED BY <2>1 DEF GroupsBefore
<1>3. Within \in SUBSET S
  BY DEF GroupIn
<1>4. Down = Earlier \cup Within /\ Earlier \cap Within = {}
  BY <1>1, <1>2 DEF GroupIn, GroupBefore, Before
<1>5. IsFiniteSet(Earlier) /\ IsFiniteSet(Within)
  <2>1. IsFiniteSet(S) /\ Earlier \in SUBSET S
    BY RowsAreNumbered DEF GroupsBefore
  <2> HIDE DEF Earlier, Within
  <2> QED BY <1>3, <2>1, FS_Subset
<1>6. Cardinality(Earlier) \in Nat /\ Cardinality(Within) \in Nat
  BY <1>5, FS_CardinalityType
<1>7. Cardinality(Down) = Cardinality(Earlier) + Cardinality(Within)
  <2> HIDE DEF Earlier, Within, Down
  <2>1. Cardinality(Earlier \cap Within) = 0
    BY <1>4, FS_EmptySet
  <2>2. Cardinality(Earlier \cup Within)
          = Cardinality(Earlier) + Cardinality(Within) - Cardinality(Earlier \cap Within)
    BY <1>5, FS_Union
  <2> QED BY <1>4, <1>6, <2>1, <2>2
<1> QED BY <1>6, <1>7 DEF Rank

(* The rows the status of the pool counts one by one: a group and a number   *)
(* within it.                                                                *)
ShownRows(S, reserve) ==
  LET shown == TrimForModeB(S, reserve)
        groups == DOMAIN shown
  IN {x \in groups \X (1..Cardinality(Tickets)) : x[2] <= shown[x[1]]}

(***************************************************************************)
(* What _trim_status_for_mode_b shows of a pool adds up to the tickets     *)
(* above the reserve: the k-th ticket of a group is shown exactly when it  *)
(* is among the first so many of the whole order.                          *)
(***************************************************************************)
THEOREM StatusAddsUp ==
  ASSUME NEW S \in SUBSET Tickets, NEW reserve \in Nat
  PROVE  Cardinality(ShownRows(S, reserve)) = Less(Cardinality(S), reserve)
<1> DEFINE A == Less(Cardinality(S), reserve)
           L == FirstRows(S, A)
           Groups == {GroupIn(S, t) : t \in S}
           Shown(g) == AtMost(Cardinality(g), Less(A, Cardinality(GroupsBefore(S, g))))
           place == [t \in L |-> <<GroupIn(S, t), Rank(GroupIn(S, t), t) + 1>>]
           Items == ShownRows(S, reserve)
<1>1. /\ IsFiniteSet(S) /\ Cardinality(S) \in Nat /\ Cardinality(Tickets) \in Nat
      /\ Cardinality(S) <= Cardinality(Tickets)
  BY SelectionAssumption, FS_Subset, FS_CardinalityType
<1>2. A \in Nat /\ A <= Cardinality(S)
  BY <1>1 DEF Less
<1>3. IsFiniteSet(L) /\ Cardinality(L) = A /\ L \in SUBSET S
  <2> HIDE DEF A
  <2> QED BY <1>2, FirstRowsNumber DEF FirstRows
<1>4. \A x : x \in Items <=> /\ x \in Groups \X (1..Cardinality(Tickets))
                             /\ Shown(x[1]) > 0 /\ x[2] <= Shown(x[1])
  <2> DEFINE D == {h \in Groups : Shown(h) > 0}
             sh == [g \in D |-> Shown(g)]
  <2>1. DOMAIN GroupCounts(S) = Groups
    BY DEF GroupCounts
  <2>2. TrimForModeB(S, reserve) = sh
    BY <2>1 DEF TrimForModeB
  <2>3. DOMAIN sh = D /\ \A g \in D : sh[g] = Shown(g)
    <3> HIDE DEF D, Shown
    <3> QED OBVIOUS
  <2>4. \A x : x \in Items <=> x \in D \X (1..Cardinality(Tickets)) /\ x[2] <= sh[x[1]]
    <3> HIDE DEF sh, D
    <3> QED BY <2>2, <2>3 DEF ShownRows
  <2>5. \A x : x \in D \X (1..Cardinality(Tickets)) => sh[x[1]] = Shown(x[1])
    <3> HIDE DEF sh, D, Shown
    <3> QED BY <2>3
  <2>6. \A x : x \in D \X (1..Cardinality(Tickets)) <=>
               x \in Groups \X (1..Cardinality(Tickets)) /\ Shown(x[1]) > 0
    <3> HIDE DEF Groups, Shown
    <3> QED OBVIOUS
  <2> HIDE DEF sh, D, Shown, Groups, Items
  <2> QED BY <2>4, <2>5, <2>6
<1>5. ASSUME NEW t \in S
      PROVE  /\ GroupIn(S, t) \in SUBSET S /\ t \in GroupIn(S, t)
             /\ Cardinality(GroupIn(S, t)) \in Nat
             /\ Cardinality(GroupIn(S, t)) <= Cardinality(Tickets)
             /\ Cardinality(GroupsBefore(S, GroupIn(S, t))) \in Nat
             /\ Rank(GroupIn(S, t), t) \in Nat
             /\ Rank(GroupIn(S, t), t) < Cardinality(GroupIn(S, t))
             /\ Rank(S, t) = Cardinality(GroupsBefore(S, GroupIn(S, t)))
                               + Rank(GroupIn(S, t), t)
  <2> DEFINE g == GroupIn(S, t)
  <2>1. g \in SUBSET S /\ g \in SUBSET Tickets /\ t \in g
    BY DEF GroupIn
  <2>2. Cardinality(GroupsBefore(S, g)) \in Nat
        /\ Rank(S, t) = Cardinality(GroupsBefore(S, g)) + Rank(g, t)
    BY RankByGroups
  <2> HIDE DEF g
  <2>3. Cardinality(g) <= Cardinality(S)
    BY <1>1, <2>1, FS_Subset
  <2>4. Cardinality(g) \in Nat /\ Rank(g, t) \in 0..(Cardinality(g) - 1)
    BY <2>1, RowsAreNumbered
  <2> QED BY <1>1, <2>1, <2>2, <2>3, <2>4 DEF g
<1>6. place \in [L -> Items]
  <2> SUFFICES ASSUME NEW t \in L
               PROVE  <<GroupIn(S, t), Rank(GroupIn(S, t), t) + 1>> \in Items
    OBVIOUS
  <2> DEFINE g == GroupIn(S, t)
             n == Cardinality(g)
             before == Cardinality(GroupsBefore(S, g))
             k == Rank(g, t)
  <2>1. t \in S /\ Rank(S, t) < A
    BY DEF FirstRows
  <2>2. /\ n \in Nat /\ n <= Cardinality(Tickets) /\ before \in Nat /\ k \in Nat
        /\ k < n /\ before + k < A
    BY <1>5, <2>1
  <2>3. g \in Groups
    BY <2>1
  <2>4. Shown(g) > 0 /\ k + 1 <= Shown(g) /\ k + 1 \in 1..Cardinality(Tickets)
    <3> HIDE DEF A, g, k
    <3> QED BY <1>1, <1>2, <2>2 DEF AtMost, Less, k, n, before
  <2> HIDE DEF Shown, Groups, Items, g, k
  <2> QED BY <1>4, <2>3, <2>4 DEF g, k
<1>7. ASSUME NEW s \in L, NEW t \in L, place[s] = place[t]
      PROVE  s = t
  <2>1. s \in S /\ t \in S
    BY DEF FirstRows
  <2>2. GroupIn(S, s) = GroupIn(S, t) /\ Rank(GroupIn(S, s), s) + 1 = Rank(GroupIn(S, t), t) + 1
    BY <1>7
  <2>3. Rank(S, s) = Rank(S, t)
    BY <1>5, <2>1, <2>2
  <2> QED BY <2>1, <2>3, RowsAreNumbered
<1>8. ASSUME NEW x \in Items
      PROVE  \E t \in L : place[t] = x
  <2>1. PICK u \in S : x[1] = GroupIn(S, u)
    BY <1>4
  <2> DEFINE g == GroupIn(S, u)
             n == Cardinality(g)
             before == Cardinality(GroupsBefore(S, g))
  <2>2. /\ g \in SUBSET Tickets /\ g \in SUBSET S
        /\ n \in Nat /\ before \in Nat
    BY <1>5
  <2>3. x = <<g, x[2]>> /\ x[2] \in 1..Cardinality(Tickets) /\ x[2] <= Shown(g)
    <3> HIDE DEF Items, Shown
    <3> QED BY <1>4, <2>1
  <2>4. x[2] - 1 \in 0..(n - 1) /\ before + (x[2] - 1) < A
    <3>1. x[2] \in Nat /\ x[2] > 0 /\ x[2] <= Shown(g)
      BY <1>1, <2>3
    <3> DEFINE i == x[2]
    <3> HIDE DEF A, g, i
    <3> QED BY <1>2, <2>2, <3>1 DEF AtMost, Less, i
  <2>5. PICK t \in g : Rank(g, t) = x[2] - 1
    <3> HIDE DEF g
    <3> QED BY <2>2, <2>4, RowsAreNumbered
  <2>6. t \in S /\ GroupIn(S, t) = g
    BY <2>5 DEF GroupIn
  <2>7. t \in L
    <3>1. Rank(S, t) = before + Rank(g, t)
      BY <1>5, <2>6
    <3> HIDE DEF A, g
    <3> QED BY <2>4, <2>5, <2>6, <3>1 DEF FirstRows
  <2>8. place[t] = <<g, x[2]>>
    <3>1. Rank(g, t) + 1 = x[2]
      <4>1. x[2] \in Nat
        BY <2>3
      <4> HIDE DEF g
      <4> QED BY <2>5, <4>1
    <3> HIDE DEF g, L
    <3> QED BY <2>6, <2>7, <3>1
  <2> QED BY <2>3, <2>7, <2>8
<1>9. place \in Bijection(L, Items)
  <2> HIDE DEF place, L, Items
  <2> QED BY <1>6, <1>7, <1>8, Fun_IsBij
<1> HIDE DEF place, L, Items, A
<1>10. ExistsBijection(L, Items)
  BY <1>9, Fun_ExistsBij
<1> QED BY <1>3, <1>10, FS_Bijection DEF Items, A
=============================================================================
