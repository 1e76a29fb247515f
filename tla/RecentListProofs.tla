--------------------------- MODULE RecentListProofs ---------------------------
(***************************************************************************)
(* Proofs about RecentList.  What has been listed never lies below the     *)
(* cursor: a page's last row is below all that came before it, and cutting *)
(* its time to the millisecond only moves the cursor further down.  What   *)
(* is to be listed and never is was cut off: of the rows below a cursor a  *)
(* page takes the newest, and leaves none above its last row but those of  *)
(* the millisecond that the cut gives up.                                  *)
(***************************************************************************)
EXTENDS RecentList, FiniteSetTheorems, TLAPS

(* All that was listed is there to stay, and not below the next page.      *)
Behind ==
  /\ phase = "loading" => more
  /\ \A r \in Id : listed[r] > 0 => row[r] = "committed"
  /\ more => \A r \in Id : listed[r] > 0 => ~Below(r)

IInv == TypeOK /\ ListedOnce /\ Behind

-----------------------------------------------------------------------------
(* A time cut to the millisecond is not later. *)
LEMMA FloorIsBelow ==
  ASSUME NEW t \in Nat, NEW ticks \in Nat \ {0}
  PROVE  ticks * (t \div ticks) <= t
BY SMT

(* A time not before the millisecond of a later one is of the same.        *)
LEMMA SameMillisecond ==
  ASSUME NEW t \in Nat, NEW u \in Nat, u <= t, NEW ticks \in Nat \ {0},
         ticks * (t \div ticks) <= u
  PROVE  u \div ticks = t \div ticks
BY SMT

(* What a cursor keeps of a time, whole milliseconds, is not after it. *)
LEMMA CutIsEarlier ==
  ASSUME NEW t \in Nat
  PROVE  /\ (t \div TicksPerMs) * TicksPerMs \in Nat
         /\ (t \div TicksPerMs) * TicksPerMs <= t
         /\ t \div TicksPerMs \in Nat /\ t \div TicksPerMs <= t
<1>1. TicksPerMs \in Nat \ {0}
  BY ListAssumption
<1>2. t \div TicksPerMs \in Nat
  BY <1>1
<1>3. (t \div TicksPerMs) * TicksPerMs = TicksPerMs * (t \div TicksPerMs)
  BY <1>1, <1>2
<1>4. TicksPerMs * (t \div TicksPerMs) \in Nat
  BY <1>1, <1>2
<1>5. TicksPerMs * (t \div TicksPerMs) <= t
  BY <1>1, FloorIsBelow
<1>6. t \div TicksPerMs <= t
  BY <1>1, <1>2
<1> QED
  BY <1>2, <1>3, <1>4, <1>5, <1>6

-----------------------------------------------------------------------------
(* The order of the rows, and the page as a prefix of it.                  *)

(* The rows of S that come before r. *)
Ahead(S, r) == {q \in S : Newer(q, r)}

(* Newer is a strict linear order of the ids. *)
LEMMA NewerOrders ==
  ASSUME TypeOK, NEW q \in Id, NEW r \in Id, NEW s \in Id
  PROVE  /\ ~Newer(r, r)
         /\ Newer(q, r) /\ Newer(r, s) => Newer(q, s)
         /\ q = r \/ Newer(q, r) \/ Newer(r, q)
<1>1. created \in [Id -> Nat] /\ {q, r, s} \subseteq Nat
  BY ListAssumption DEF TypeOK, Time, Id
<1> QED
  BY <1>1 DEF Newer, Before

(* Sets of rows are finite, and so is what comes before one of them. *)
LEMMA RowsAreFinite ==
  ASSUME NEW S \in SUBSET Id
  PROVE  /\ IsFiniteSet(S) /\ Cardinality(S) \in Nat
         /\ \A r \in Id : IsFiniteSet(Ahead(S, r)) /\ Cardinality(Ahead(S, r)) \in Nat
<1>1. IsFiniteSet(Id)
  <2>1. MaxRows \in Int /\ 1 \in Int
    BY ListAssumption
  <2> QED
    BY <2>1, FS_Interval DEF Id
<1>2. IsFiniteSet(S)
  BY <1>1, FS_Subset
<1>3. ASSUME NEW r \in Id PROVE IsFiniteSet(Ahead(S, r))
  <2>1. Ahead(S, r) \in SUBSET S
    BY DEF Ahead
  <2> QED
    BY <1>2, <2>1, FS_Subset
<1> QED
  BY <1>2, <1>3, FS_CardinalityType

(* The later a row, the more rows come before it.                          *)
LEMMA AheadGrows ==
  ASSUME TypeOK, NEW S \in SUBSET Id, NEW q \in S, NEW r \in S, Newer(q, r)
  PROVE  /\ Ahead(S, q) \subseteq Ahead(S, r) /\ q \in Ahead(S, r) /\ q \notin Ahead(S, q)
         /\ Cardinality(Ahead(S, q)) < Cardinality(Ahead(S, r))
<1>1. Ahead(S, q) \in SUBSET Ahead(S, r) /\ q \in Ahead(S, r) /\ q \notin Ahead(S, q)
  BY NewerOrders DEF Ahead
<1>2. Ahead(S, q) # Ahead(S, r)
  BY <1>1
<1>3. /\ IsFiniteSet(Ahead(S, r))
      /\ Cardinality(Ahead(S, q)) \in Nat /\ Cardinality(Ahead(S, r)) \in Nat
  BY RowsAreFinite
<1>4. /\ Cardinality(Ahead(S, q)) <= Cardinality(Ahead(S, r))
      /\ Cardinality(Ahead(S, r)) # Cardinality(Ahead(S, q))
  BY <1>1, <1>2, <1>3, FS_Subset
<1> QED
  BY <1>1, <1>3, <1>4

(* Of some rows one is the newest, the one with the least before it.       *)
LEMMA NewestExists ==
  ASSUME TypeOK, NEW D \in SUBSET Id, D # {}
  PROVE  \E r \in D : \A q \in D : ~Newer(q, r)
<1> DEFINE T == {Ahead(Id, r) : r \in D}
<1>1. FiniteSubsetsOf(Id) = SUBSET Id
  BY RowsAreFinite, FS_FiniteSubsetsOfFinite
<1>2. T \subseteq SUBSET Id /\ T # {}
  BY DEF Ahead
<1>3. IsWellFoundedOn(StrictSubsetOrdering(Id), SUBSET Id)
  BY <1>1, FS_StrictSubsetOrderingWellFounded
<1> HIDE DEF T
<1>4. PICK x \in T : \A y \in T : <<y, x>> \notin StrictSubsetOrdering(Id)
  BY <1>2, <1>3, WFMin
<1>5. PICK r \in D : x = Ahead(Id, r)
  BY <1>4 DEF T
<1>6. ASSUME NEW q \in D, Newer(q, r) PROVE FALSE
  <2>1. /\ Ahead(Id, q) \subseteq Ahead(Id, r) /\ Ahead(Id, q) # Ahead(Id, r)
        /\ Ahead(Id, q) \in T
    BY <1>6, AheadGrows DEF T
  <2>2. <<Ahead(Id, q), x>> \in StrictSubsetOrdering(Id)
    BY <1>2, <1>4, <1>5, <2>1 DEF StrictSubsetOrdering
  <2> QED
    BY <1>4, <2>1, <2>2
<1> QED
  BY <1>5, <1>6

(* ... and one is the oldest: the newest of those that all others are      *)
(* ahead of.                                                               *)
LEMMA OldestExists ==
  ASSUME TypeOK, NEW D \in SUBSET Id, D # {}
  PROVE  \E m \in D : \A q \in D \ {m} : Newer(q, m)
<1> DEFINE Rest(r) == {q \in D : Newer(r, q)}
<1> DEFINE T == {Rest(r) : r \in D}
<1>1. FiniteSubsetsOf(Id) = SUBSET Id
  BY RowsAreFinite, FS_FiniteSubsetsOfFinite
<1>2. T \subseteq SUBSET Id /\ T # {}
  OBVIOUS
<1>3. IsWellFoundedOn(StrictSubsetOrdering(Id), SUBSET Id)
  BY <1>1, FS_StrictSubsetOrderingWellFounded
<1> HIDE DEF T
<1>4. PICK x \in T : \A y \in T : <<y, x>> \notin StrictSubsetOrdering(Id)
  BY <1>2, <1>3, WFMin
<1>5. PICK m \in D : x = Rest(m)
  BY <1>4 DEF T
<1>6. ASSUME NEW q \in D \ {m} PROVE Newer(q, m)
  <2>1. SUFFICES ASSUME Newer(m, q) PROVE FALSE
    BY NewerOrders
  <2>2. Rest(q) \subseteq Rest(m) /\ q \in Rest(m) /\ q \notin Rest(q)
    BY <2>1, NewerOrders
  <2>3. Rest(q) \in T
    BY DEF T
  <2>4. <<Rest(q), x>> \in StrictSubsetOrdering(Id)
    BY <1>2, <1>4, <1>5, <2>2, <2>3 DEF StrictSubsetOrdering
  <2> QED
    BY <1>4, <2>3, <2>4
<1> QED
  BY <1>6

(* LIMIT takes from the front: what it leaves out comes after all it took. *)
LEMMA FirstComesFirst ==
  ASSUME TypeOK, NEW S \in SUBSET Id, NEW n \in Nat,
         NEW a \in First(n, S), NEW r \in S \ First(n, S)
  PROVE  Newer(a, r)
<1>1. a \in S /\ Cardinality(Ahead(S, a)) < n /\ ~(Cardinality(Ahead(S, r)) < n)
  BY DEF First, Ahead
<1>2. ~Newer(r, a)
  <2>1. SUFFICES ASSUME Newer(r, a) PROVE FALSE
    OBVIOUS
  <2>2. Cardinality(Ahead(S, r)) < Cardinality(Ahead(S, a))
    BY <1>1, <2>1, AheadGrows
  <2> QED
    BY <1>1, <2>2, RowsAreFinite
<1> QED
  BY <1>1, <1>2, NewerOrders

(* A page that holds all that was fetched, one more row than it may, holds *)
(* all there is.                                                           *)
LEMMA WholeWhenNothingMore ==
  ASSUME TypeOK, NEW S \in SUBSET Id, First(Limit, First(Fetched, S)) = First(Fetched, S)
  PROVE  First(Fetched, S) = S
<1> DEFINE rows == First(Fetched, S)
<1>1. rows \in SUBSET S /\ rows \in SUBSET Id
  BY DEF First
<1>2. Limit \in Nat /\ Fetched \in Nat /\ Fetched = Limit + 1 /\ Limit > 0
  BY ListAssumption DEF Fetched
<1>3. SUFFICES ASSUME S \ rows # {} PROVE FALSE
  BY <1>1
<1>4. PICK r \in S \ rows : \A q \in S \ rows : ~Newer(q, r)
  <2>1. S \ rows \in SUBSET Id
    OBVIOUS
  <2> QED
    BY <1>3, <2>1, NewestExists
<1>5. Ahead(S, r) = rows
  <2>1. \A q \in rows : Newer(q, r)
    BY <1>2, <1>4, FirstComesFirst
  <2> QED
    BY <1>1, <1>4, <2>1 DEF Ahead
<1>6. Cardinality(rows) \in Nat /\ Cardinality(rows) >= Limit + 1 /\ IsFiniteSet(rows)
  <2>1. ~(Cardinality(Ahead(S, r)) < Fetched)
    BY <1>4 DEF First, Ahead
  <2>2. Cardinality(rows) \in Nat /\ IsFiniteSet(rows)
    BY <1>1, RowsAreFinite
  <2> HIDE DEF rows
  <2> QED
    BY <1>2, <1>5, <2>1, <2>2
<1>7. PICK m \in rows : \A q \in rows \ {m} : Newer(q, m)
  <2>1. rows # {}
    BY <1>2, <1>6, FS_EmptySet
  <2> HIDE DEF rows
  <2> QED
    BY <1>1, <2>1, OldestExists
<1>8. Ahead(rows, m) = rows \ {m}
  BY <1>1, <1>7, NewerOrders DEF Ahead
<1>9. Cardinality(Ahead(rows, m)) = Cardinality(rows) - 1
  BY <1>6, <1>7, <1>8, FS_RemoveElement
<1>10. m \notin First(Limit, rows)
  <2>1. ~(Cardinality(Ahead(rows, m)) < Limit)
    BY <1>2, <1>6, <1>9
  <2> QED
    BY <2>1 DEF First, Ahead
<1> QED
  BY <1>7, <1>10
-----------------------------------------------------------------------------
(* The page. *)

(* A page A of committed rows below the cursor: what it leaves out comes   *)
(* after all it shows and makes it not the last, and the next cursor, if   *)
(* there is one, is cut from its last row.                                 *)
Page(A) ==
  /\ \A r \in A : row[r] = "committed" /\ Below(r)
  /\ \A r \in Id \ A : row[r] = "committed" /\ Below(r) => more' /\ \A a \in A : Newer(a, r)
  /\ listed' = [r \in Id |-> IF r \in A /\ listed[r] < 2 THEN listed[r] + 1 ELSE listed[r]]
  /\ \/ ~more' /\ UNCHANGED <<cursor, cuts>>
     \/ \E last \in A :
          /\ \A r \in A \ {last} : Newer(r, last)
          /\ cursor' = Cut(last)
          /\ cuts' = cuts \cup {created[last] \div TicksPerMs}
  /\ more' \in BOOLEAN /\ phase' = "idle"
  /\ present' = IF cursor = NoCursor THEN {r \in Id : row[r] = "committed"} ELSE present
  /\ UNCHANGED <<now, row, created>>

(* What is left out of the rows by the page, or before it by the limit of  *)
(* the statement, comes after what the page shows, and there is a next.    *)
LEMMA LeftOutComesAfter ==
  ASSUME TypeOK, NEW S \in SUBSET Id, NEW r \in S \ First(Limit, First(Fetched, S))
  PROVE  /\ First(Fetched, S) # First(Limit, First(Fetched, S))
         /\ \A a \in First(Limit, First(Fetched, S)) : Newer(a, r)
<1> DEFINE rows == First(Fetched, S)
<1>1. rows \in SUBSET Id /\ First(Limit, rows) \subseteq rows
  BY DEF First
<1>2. Limit \in Nat /\ Fetched \in Nat
  BY ListAssumption DEF Fetched
<1>3. rows # First(Limit, rows)
  BY WholeWhenNothingMore
<1>4. CASE r \in rows
  BY <1>1, <1>2, <1>3, <1>4, FirstComesFirst
<1>5. CASE r \notin rows
  BY <1>1, <1>2, <1>3, <1>5, FirstComesFirst
<1> QED
  BY <1>4, <1>5

(* Load reads a page. *)
LEMMA PageOfLoad ==
  ASSUME TypeOK, Load
  PROVE  \E A \in SUBSET Id : Page(A)
<1> DEFINE S == {r \in Id : row[r] = "committed" /\ Below(r)}
<1> DEFINE rows == First(Fetched, S)
<1> DEFINE analyses == First(Limit, rows)
<1>1. analyses \subseteq rows /\ rows \subseteq S
  BY DEF First
<1>2. /\ analyses \in SUBSET Id
      /\ \A r \in analyses : row[r] = "committed" /\ Below(r)
  BY <1>1
<1>3. /\ listed' = [r \in Id |-> IF r \in analyses /\ listed[r] < 2 THEN listed[r] + 1 ELSE listed[r]]
      /\ more' = (rows # analyses) /\ phase' = "idle"
      /\ present' = IF cursor = NoCursor THEN {r \in Id : row[r] = "committed"} ELSE present
      /\ UNCHANGED <<now, row, created>>
      /\ \/ rows = analyses /\ UNCHANGED <<cursor, cuts>>
         \/ \E last \in analyses :
              /\ \A r \in analyses \ {last} : Newer(r, last)
              /\ cursor' = Cut(last)
              /\ cuts' = cuts \cup {created[last] \div TicksPerMs}
  BY DEF Load
<1>4. ASSUME NEW r \in Id \ analyses, row[r] = "committed", Below(r)
      PROVE  more' /\ \A a \in analyses : Newer(a, r)
  <2>1. r \in S \ analyses
    BY <1>4
  <2> QED
    BY <1>3, <2>1, LeftOutComesAfter
<1>5. more' \in BOOLEAN
  BY <1>3
<1> HIDE DEF analyses, rows
<1> QED
  BY <1>2, <1>3, <1>4, <1>5 DEF Page

(* Rows below a cursor come before those that are not. *)
LEMMA BelowComesBefore ==
  ASSUME TypeOK, NEW q \in Id, NEW r \in Id, Below(q), ~Below(r)
  PROVE  Before(created[q], q, created[r], r)
BY DEF TypeOK, Below, Before, Id, Time

(* The cursor cut from a row is above none of the rows after which the     *)
(* row comes.                                                              *)
LEMMA NotBelowTheCut ==
  ASSUME TypeOK, NEW last \in Id, NEW r \in Id,
         r = last \/ Before(created[last], last, created[r], r)
  PROVE  ~Before(created[r], r, Cut(last).createdAt, Cut(last).id)
<1>1. created[last] \in Nat /\ created[r] \in Nat
  BY ListAssumption DEF TypeOK, Time
<1>2. Cut(last).createdAt \in Nat /\ Cut(last).createdAt <= created[last] /\ Cut(last).id = last
  BY <1>1, CutIsEarlier DEF Cut
<1> QED
  BY <1>1, <1>2 DEF Before, Id

-----------------------------------------------------------------------------
(* Nothing is listed. *)
LEMMA InitIInv == Init => IInv
<1> SUFFICES ASSUME Init PROVE IInv
  OBVIOUS
<1>1. 0 \in Time /\ NoCursor \in [createdAt : 0..MaxTime + 1, id : 0..MaxRows]
  BY ListAssumption DEF Time, NoCursor
<1> QED
  BY <1>1 DEF Init, IInv, TypeOK, ListedOnce, Behind

(* Load, the one step that lists and moves the cursor. *)
LEMMA LoadIInv ==
  ASSUME IInv, Load
  PROVE  IInv'
<1>1. TypeOK /\ ListedOnce /\ Behind /\ phase = "loading"
  BY DEF IInv, Load
<1>0. PICK A \in SUBSET Id : Page(A)
  BY <1>1, PageOfLoad
<1>2. /\ \A r \in A : row[r] = "committed" /\ Below(r)
      /\ listed' = [r \in Id |-> IF r \in A /\ listed[r] < 2 THEN listed[r] + 1 ELSE listed[r]]
      /\ \/ ~more' /\ UNCHANGED <<cursor, cuts>>
         \/ \E last \in A :
              /\ \A r \in A \ {last} : Newer(r, last)
              /\ cursor' = Cut(last)
              /\ cuts' = cuts \cup {created[last] \div TicksPerMs}
      /\ more' \in BOOLEAN /\ phase' = "idle" /\ present' \subseteq Id
      /\ UNCHANGED <<now, row, created>>
  BY <1>0, <1>1 DEF Page, TypeOK
<1>3. \A r \in Id : listed[r] > 0 => ~Below(r)
  BY <1>1 DEF Behind
<1>4. \A r \in A : listed[r] = 0
  BY <1>1, <1>2, <1>3 DEF TypeOK
<1>5. \A r \in Id : listed'[r] = IF r \in A THEN 1 ELSE listed[r]
  BY <1>1, <1>2, <1>4 DEF TypeOK
<1>6. listed' \in [Id -> 0..2] /\ ListedOnce'
  <2>1. \A r \in Id : listed'[r] \in 0..2 /\ listed'[r] <= 1
    BY <1>1, <1>5 DEF TypeOK, ListedOnce
  <2>2. listed' = [r \in Id |-> listed'[r]]
    BY <1>2
  <2> QED
    BY <2>1, <2>2 DEF ListedOnce
<1>7. \A r \in Id : listed'[r] > 0 => row'[r] = "committed"
  BY <1>1, <1>2, <1>5 DEF Behind
<1>8. CASE ~more' /\ UNCHANGED <<cursor, cuts>>
  BY <1>1, <1>2, <1>6, <1>7, <1>8 DEF IInv, TypeOK, Behind
<1>9. ASSUME NEW last \in A,
             \A r \in A \ {last} : Newer(r, last),
             cursor' = Cut(last),
             cuts' = cuts \cup {created[last] \div TicksPerMs}
      PROVE  IInv'
  <2>1. created[last] \in Time /\ Time \subseteq Nat
    BY <1>1, ListAssumption DEF TypeOK, Time
  <2>2. /\ Cut(last).createdAt \in 0..MaxTime + 1
        /\ created[last] \div TicksPerMs \in Time
    <3>1. MaxTime \in Nat /\ created[last] <= MaxTime
      BY <2>1, ListAssumption DEF Time
    <3> QED
      BY <2>1, <3>1, CutIsEarlier DEF Cut, Time
  <2>3. cursor' \in [createdAt : 0..MaxTime + 1, id : 0..MaxRows]
    BY <1>9, <2>2, ListAssumption DEF Cut, Id
  <2>4. ASSUME NEW r \in Id, listed'[r] > 0 PROVE ~Below(r)'
    <3>1. r = last \/ Before(created[last], last, created[r], r)
      <4>1. CASE r \in A
        BY <1>9, <4>1 DEF Newer
      <4>2. CASE r \notin A
        BY <1>1, <1>2, <1>3, <1>5, <2>4, <4>2, BelowComesBefore
      <4> QED
        BY <4>1, <4>2
    <3>2. ~Before(created[r], r, Cut(last).createdAt, Cut(last).id)
      BY <1>1, <3>1, NotBelowTheCut
    <3> QED
      BY <1>2, <1>9, <3>2 DEF Below
  <2>5. cuts' \subseteq Time
    BY <1>1, <1>9, <2>2 DEF TypeOK
  <2>6. TypeOK'
    BY <1>1, <1>2, <1>6, <2>3, <2>5 DEF TypeOK
  <2>7. Behind'
    BY <1>2, <1>7, <2>4 DEF Behind
  <2> QED
    BY <1>6, <2>6, <2>7 DEF IInv
<1> QED
  BY <1>2, <1>8, <1>9

(* A commit or a page keeps the traversal in order. *)
LEMMA StepIInv == IInv /\ [Next]_vars => IInv'
<1> SUFFICES ASSUME IInv, [Next]_vars PROVE IInv'
  OBVIOUS
<1> USE DEF IInv, TypeOK, ListedOnce, Behind, Below
<1>1. CASE Load
  BY <1>1, LoadIInv
<1>2. CASE LoadFails
  BY <1>2 DEF LoadFails
<1>3. CASE Ask
  BY <1>3 DEF Ask
<1>4. CASE Tick
  <2>1. now' \in Time
    BY <1>4, ListAssumption DEF Tick, Time
  <2> QED
    BY <1>4, <2>1 DEF Tick
<1>5. ASSUME NEW r \in Id, Insert(r) PROVE IInv'
  <2>1. \A q \in Id : listed[q] > 0 => created'[q] = created[q] /\ row'[q] = row[q]
    BY <1>5 DEF Insert
  <2> QED
    BY <1>5, <2>1 DEF Insert
<1>6. ASSUME NEW r \in Id, Commit(r) PROVE IInv'
  BY <1>6 DEF Commit
<1>7. CASE UNCHANGED vars
  BY <1>7 DEF vars
<1> QED
  BY <1>1, <1>2, <1>3, <1>4, <1>5, <1>6, <1>7 DEF Next

(* The traversal is in order in every state. *)
LEMMA ListInvariance == Spec => []IInv
<1> QED
  BY InitIInv, StepIInv, PTL DEF Spec

-----------------------------------------------------------------------------
(* Every reachable state of the list and its reader is well typed.         *)
THEOREM ListTypeCorrect == Spec => []TypeOK
<1>1. IInv => TypeOK
  BY DEF IInv
<1> QED
  BY <1>1, ListInvariance, PTL

(* No analysis is shown twice, for any page size, any precision of the     *)
(* clock and any rows committed between the pages.                         *)
THEOREM NothingTwice == Spec => []ListedOnce
<1>1. IInv => ListedOnce
  BY DEF IInv
<1> QED
  BY <1>1, ListInvariance, PTL

(* A step that lists a row lists it below all that was listed.             *)
LEMMA ListingDescends ==
  ASSUME IInv, [Next]_vars, NEW r \in Id, NEW q \in Id, listed[r] > 0, listed'[q] > listed[q]
  PROVE  created[q] < created[r] \/ (created[q] = created[r] /\ q < r)
<1>1. TypeOK /\ listed[q] \in Nat
  BY DEF IInv, TypeOK
<1>2. listed' # listed
  BY <1>1
<1>3. Load
  BY <1>2 DEF Next, LoadFails, Ask, Tick, Insert, Commit, vars
<1>4. ~Below(r)
  BY <1>3 DEF IInv, Behind, Load
<1>5. Below(q)
  <2>1. PICK A \in SUBSET Id :
          /\ \A s \in A : Below(s)
          /\ listed' = [s \in Id |-> IF s \in A /\ listed[s] < 2 THEN listed[s] + 1 ELSE listed[s]]
    BY <1>1, <1>3, PageOfLoad DEF Page
  <2>2. q \in A
    BY <1>1, <2>1
  <2> QED
    BY <2>1, <2>2
<1> QED
  BY <1>1, <1>4, <1>5, BelowComesBefore DEF Before

(* Pages continue downwards.                                               *)
THEOREM PagesGoDown == Spec => PagesDescend
<1>1. IInv /\ [Next]_vars =>
        [\A r, q \in Id :
           listed[r] > 0 /\ listed'[q] > listed[q] =>
             \/ created[q] < created[r]
             \/ created[q] = created[r] /\ q < r]_vars
  BY ListingDescends
<1> QED
  BY <1>1, ListInvariance, PTL DEF Spec, PagesDescend

-----------------------------------------------------------------------------
(* What is missed. *)

(* The row lies between one that was listed and the cursor that was cut    *)
(* from it: older than the row, not below its cut.                         *)
CutOff(r) ==
  \E last \in Id :
    /\ listed[last] > 0
    /\ Newer(last, r)
    /\ ~Before(created[r], r, Cut(last).createdAt, last)

(* The rows that were there at the start are committed, and those not yet  *)
(* listed are either still to come or cut off.  Before the first page has  *)
(* come nothing counts as there.                                           *)
Accounted ==
  /\ \A r \in present : row[r] = "committed"
  /\ more /\ cursor = NoCursor => present = {} /\ \A r \in Id : listed[r] = 0
  /\ \A r \in present : listed[r] = 0 =>
       \/ more /\ Below(r)
       \/ CutOff(r) /\ created[r] \div TicksPerMs \in cuts

(* A row that is not below a cut made before it is of its millisecond.     *)
LEMMA SameMillisecondAsCut ==
  ASSUME TypeOK, NEW last \in Id, NEW r \in Id, Newer(last, r),
         ~Before(created[r], r, Cut(last).createdAt, last)
  PROVE  /\ created[r] \div TicksPerMs = created[last] \div TicksPerMs
         /\ created[r] \in Nat /\ created[last] \in Nat
<1>1. created[last] \in Nat /\ created[r] \in Nat /\ created[r] <= created[last]
  <2>1. created \in [Id -> Nat]
    BY ListAssumption DEF TypeOK, Time
  <2>2. created[r] < created[last] \/ created[r] = created[last]
    BY DEF Newer, Before
  <2> QED
    BY <2>1, <2>2
<1>2. Cut(last).createdAt = (created[last] \div TicksPerMs) * TicksPerMs
  BY DEF Cut
<1>3. TicksPerMs \in Nat \ {0}
  BY ListAssumption
<1>4. ~(created[r] < Cut(last).createdAt)
  BY DEF Before
<1>5. created[last] \div TicksPerMs \in Nat
  BY <1>1, CutIsEarlier
<1>6. TicksPerMs * (created[last] \div TicksPerMs) = Cut(last).createdAt
  BY <1>2, <1>3, <1>5
<1>7. TicksPerMs * (created[last] \div TicksPerMs) \in Nat
  BY <1>3, <1>5
<1>8. TicksPerMs * (created[last] \div TicksPerMs) <= created[r]
  BY <1>1, <1>4, <1>6, <1>7
<1> QED
  BY <1>1, <1>3, <1>8, SameMillisecond

(* What was cut off stays cut off, as no listed row changes. *)
LEMMA CutOffStays ==
  ASSUME TypeOK, NEW r \in Id, CutOff(r), created'[r] = created[r],
         \A q \in Id : listed[q] > 0 => listed'[q] > 0 /\ created'[q] = created[q]
  PROVE  CutOff(r)'
<1>1. PICK last \in Id :
        /\ listed[last] > 0
        /\ Newer(last, r)
        /\ ~Before(created[r], r, Cut(last).createdAt, last)
  BY DEF CutOff
<1>2. listed'[last] > 0 /\ created'[last] = created[last]
  BY <1>1
<1> QED
  BY <1>1, <1>2 DEF CutOff, Newer, Cut

(* A page loses only what its last row cuts off.                           *)
LEMMA LoadAccounted ==
  ASSUME IInv, Accounted, Load
  PROVE  Accounted'
<1>1. TypeOK /\ more
  BY DEF IInv, Behind, Load
<1>2. PICK A \in SUBSET Id : Page(A)
  BY <1>1, PageOfLoad
<1>3. \A r \in present' : row'[r] = "committed"
  BY <1>2 DEF Page, Accounted
<1>4. more' => cursor' # NoCursor
  BY <1>2 DEF Page, Cut, NoCursor, Id
<1>5. \A q \in A : listed'[q] > 0
  BY <1>1, <1>2 DEF Page, TypeOK
<1>6. \A q \in Id : listed[q] > 0 => listed'[q] > 0
  BY <1>1, <1>2 DEF Page, TypeOK
<1>7. ASSUME NEW r \in present', listed'[r] = 0
      PROVE  \/ more' /\ Below(r)'
             \/ CutOff(r)' /\ created'[r] \div TicksPerMs \in cuts'
  <2>1. r \in Id /\ row[r] = "committed" /\ created' = created
    BY <1>1, <1>2, <1>3 DEF Page, TypeOK
  <2>2. listed[r] = 0 /\ r \notin A
    BY <1>1, <1>2, <1>7, <2>1 DEF Page, TypeOK
  <2>3. cuts \subseteq cuts'
    BY <1>2 DEF Page
  <2>4. CASE CutOff(r) /\ created[r] \div TicksPerMs \in cuts
    BY <1>1, <1>6, <2>1, <2>3, <2>4, CutOffStays
  <2>5. CASE Below(r)
    <3>1. more' /\ \A a \in A : Newer(a, r)
      BY <1>2, <2>1, <2>2, <2>5 DEF Page
    <3>2. PICK last \in A :
            /\ cursor' = Cut(last)
            /\ cuts' = cuts \cup {created[last] \div TicksPerMs}
      BY <1>2, <3>1 DEF Page
    <3>3. last \in Id /\ Newer(last, r) /\ listed'[last] > 0
      BY <1>5, <3>1
    <3>4. CASE Before(created[r], r, Cut(last).createdAt, last)
      BY <2>1, <3>1, <3>2, <3>4 DEF Below, Cut
    <3>5. CASE ~Before(created[r], r, Cut(last).createdAt, last)
      <4>1. created[r] \div TicksPerMs = created[last] \div TicksPerMs
        BY <1>1, <2>1, <3>3, <3>5, SameMillisecondAsCut
      <4>2. CutOff(r)'
        BY <2>1, <3>3, <3>5 DEF CutOff, Newer, Cut
      <4> QED
        BY <2>1, <3>2, <4>1, <4>2
    <3> QED
      BY <3>4, <3>5
  <2>6. Below(r) \/ (CutOff(r) /\ created[r] \div TicksPerMs \in cuts)
    <3>1. CASE cursor = NoCursor
      <4>1. created[r] \in Nat /\ created[r] < MaxTime + 1
        BY <1>1, <2>1, ListAssumption DEF TypeOK, Time
      <4> QED
        BY <3>1, <4>1 DEF Below, Before, NoCursor
    <3>2. CASE cursor # NoCursor
      <4>1. r \in present
        BY <1>2, <3>2 DEF Page
      <4> QED
        BY <2>2, <4>1 DEF Accounted
    <3> QED
      BY <3>1, <3>2
  <2> QED
    BY <2>4, <2>5, <2>6
<1> QED
  BY <1>3, <1>4, <1>7 DEF Accounted

(* A step that leaves the reader alone, and the committed rows, keeps the  *)
(* account.                                                                *)
LEMMA SameAccount ==
  ASSUME IInv, Accounted, UNCHANGED <<cursor, more, listed, cuts, present>>,
         \A q \in Id : row[q] = "committed" => row'[q] = "committed" /\ created'[q] = created[q]
  PROVE  Accounted'
<1>1. TypeOK /\ Behind
  BY DEF IInv
<1>2. \A q \in Id : listed[q] > 0 => listed'[q] > 0 /\ created'[q] = created[q]
  BY <1>1 DEF Behind
<1>3. ASSUME NEW r \in present', listed'[r] = 0
      PROVE  \/ more' /\ Below(r)'
             \/ CutOff(r)' /\ created'[r] \div TicksPerMs \in cuts'
  <2>1. r \in Id /\ r \in present /\ listed[r] = 0 /\ created'[r] = created[r]
    BY <1>1, <1>3 DEF TypeOK, Accounted
  <2>2. CASE more /\ Below(r)
    BY <2>1, <2>2 DEF Below
  <2>3. CASE CutOff(r) /\ created[r] \div TicksPerMs \in cuts
    BY <1>1, <1>2, <2>1, <2>3, CutOffStays
  <2> QED
    BY <2>1, <2>2, <2>3 DEF Accounted
<1> QED
  BY <1>1, <1>3 DEF Accounted, TypeOK

(* Every step keeps the account: an insert touches no committed row.       *)
LEMMA StepAccounted == IInv /\ Accounted /\ [Next]_vars => Accounted'
<1> SUFFICES ASSUME IInv, Accounted, [Next]_vars PROVE Accounted'
  OBVIOUS
<1>1. CASE Load
  BY <1>1, LoadAccounted
<1>2. CASE LoadFails \/ Ask \/ Tick \/ UNCHANGED vars
  BY <1>2, SameAccount DEF LoadFails, Ask, Tick, vars
<1>3. ASSUME NEW r \in Id, Insert(r) PROVE Accounted'
  <2>1. \A q \in Id : row[q] = "committed" => row'[q] = "committed" /\ created'[q] = created[q]
    BY <1>3 DEF Insert, IInv, TypeOK
  <2> QED
    BY <1>3, <2>1, SameAccount DEF Insert
<1>4. ASSUME NEW r \in Id, Commit(r) PROVE Accounted'
  <2>1. \A q \in Id : row[q] = "committed" => row'[q] = "committed" /\ created'[q] = created[q]
    BY <1>4 DEF Commit, IInv, TypeOK
  <2> QED
    BY <1>4, <2>1, SameAccount DEF Commit
<1> QED
  BY <1>1, <1>2, <1>3, <1>4 DEF Next

(* Every row that was there is listed, to come, or cut off, in every state. *)
LEMMA AccountInvariance == Spec => []Accounted
<1>1. Init => Accounted
  BY DEF Init, Accounted
<1> QED
  BY <1>1, StepAccounted, ListInvariance, PTL DEF Spec

(* What a whole traversal misses lies in the milliseconds of its cursors,  *)
(* for any page size, precision and commits: no boundary between two pages *)
(* and no exactly full last page loses a row otherwise.                    *)
THEOREM OnlyCutsAreMissed == Spec => []MissedOnlyAtACut
<1>1. Accounted => MissedOnlyAtACut
  BY DEF Accounted, MissedOnlyAtACut
<1> QED
  BY <1>1, AccountInvariance, PTL

(* With times of whole milliseconds in the database the traversal would    *)
(* visit every analysis exactly once, as routes.test.ts:380 has it: the    *)
(* cut of the cursor is the one reason why it does not.                    *)
THEOREM WholeMillisecondsMissNothing ==
  ASSUME TicksPerMs = 1
  PROVE  Spec => []VisitsEveryAnalysis
<1>1. ASSUME IInv, Accounted PROVE VisitsEveryAnalysis
  <2>1. ASSUME NEW r \in Id, CutOff(r) PROVE FALSE
    <3>1. PICK last \in Id :
            /\ Newer(last, r)
            /\ ~Before(created[r], r, Cut(last).createdAt, last)
      BY <2>1 DEF CutOff
    <3>2. /\ created[r] \in Nat /\ created[last] \in Nat
          /\ created[r] \div 1 = created[last] \div 1
      BY <1>1, <3>1, SameMillisecondAsCut DEF IInv
    <3>3. created[r] = created[last] /\ (created[last] \div 1) * 1 = created[last]
      BY <3>2
    <3> QED
      BY <3>1, <3>3 DEF Newer, Before, Cut
  <2>2. ASSUME ~more, NEW r \in present PROVE listed[r] = 1
    <3>1. r \in Id /\ listed[r] \in 0..2 /\ listed[r] <= 1
      BY <1>1 DEF IInv, TypeOK, ListedOnce
    <3>2. listed[r] # 0
      BY <1>1, <2>1, <2>2, <3>1 DEF Accounted
    <3> QED
      BY <3>1, <3>2
  <2> QED
    BY <2>2 DEF VisitsEveryAnalysis
<1> QED
  BY <1>1, ListInvariance, AccountInvariance, PTL
=============================================================================
