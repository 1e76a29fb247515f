------------------------------ MODULE RecentList ------------------------------
(***************************************************************************)
(* GET /v1/analyses: the public list, read page after page by a visitor    *)
(* who asks for more while workers commit further analyses.                *)
(*                                                                         *)
(* created_at is counted in ticks of the column's microseconds, of which   *)
(* TicksPerMs make the millisecond a JavaScript date holds.                *)
(***************************************************************************)
EXTENDS Naturals, FiniteSets

CONSTANTS MaxRows,     \* bound: the analyses; their ids are numbers in uuid order
          MaxTime,     \* bound: the clock of the database
          TicksPerMs,  \* microseconds in a millisecond
          Limit        \* the page size asked for

ASSUME ListAssumption ==
  /\ {MaxRows, MaxTime} \subseteq Nat
  /\ {TicksPerMs, Limit} \subseteq Nat \ {0}

VARIABLES now,      \* the database's clock
          row,      \* id -> "none", "open" in its transaction, or "committed"
          created,  \* id -> created_at
          cursor,   \* the cursor of the next page, NoCursor before the first
          more,     \* whether the client has not seen the last page
          phase,    \* "loading" a page, "idle", or "failed" to load one
          listed,   \* id -> how often the client was shown it, 2 for more
          cuts,     \* the milliseconds of the cursors issued
          present   \* the rows committed when the first page was read

vars == <<now, row, created, cursor, more, phase, listed, cuts, present>>

Id == 1..MaxRows
Time == 0..MaxTime
NoCursor == [createdAt |-> MaxTime + 1, id |-> 0]

TypeOK ==
  /\ now \in Time
  /\ row \in [Id -> {"none", "open", "committed"}]
  /\ created \in [Id -> Time]
  /\ cursor \in [createdAt : 0..MaxTime + 1, id : 0..MaxRows]
  /\ more \in BOOLEAN
  /\ phase \in {"loading", "idle", "failed"}
  /\ listed \in [Id -> 0..2]
  /\ cuts \subseteq Time
  /\ present \subseteq Id

Init ==
  /\ now = 0
  /\ row = [r \in Id |-> "none"]
  /\ created = [r \in Id |-> 0]
  /\ cursor = NoCursor
  /\ more = TRUE
  /\ phase = "loading"
  /\ listed = [r \in Id |-> 0]
  /\ cuts = {}
  /\ present = {}

-----------------------------------------------------------------------------
(* The page. *)

Before(t, i, u, j) == t < u \/ (t = u /\ i < j)

(* Mutant: ties are left in the order of the index's other direction.      *)
NewerByTime(q, r) == created[r] < created[q] \/ (created[r] = created[q] /\ q < r)

(* ORDER BY created_at DESC, id DESC *)
Newer(q, r) == Before(created[r], r, created[q], q)

(* Mutant: a cursor on the timestamp alone. *)
NotAbove(r) == created[r] <= cursor.createdAt

(* The WHERE of recentAnalyses. *)
Below(r) == Before(created[r], r, cursor.createdAt, cursor.id)

(* LIMIT n *)
First(n, S) == {r \in S : Cardinality({q \in S : Newer(q, r)}) < n}

(* Mutant: as many rows as the page holds. *)
OnlyThePage == Limit

(* One more than asked for decides whether there is a next page. *)
Fetched == Limit + 1

(* Mutant: rounded up instead of down.                                     *)
CutUp(r) == [createdAt |-> (created[r] \div TicksPerMs + 1) * TicksPerMs, id |-> r]

(* encodeCursor of the row's createdAt, which toISOString has cut to the   *)
(* millisecond.                                                            *)
Cut(r) == [createdAt |-> (created[r] \div TicksPerMs) * TicksPerMs, id |-> r]

Load ==
  LET rows == First(Fetched, {r \in Id : row[r] = "committed" /\ Below(r)})
      analyses == First(Limit, rows)
  IN
  /\ phase = "loading"
  /\ phase' = "idle"
  /\ listed' = [r \in Id |->
                 IF r \in analyses /\ listed[r] < 2 THEN listed[r] + 1 ELSE listed[r]]
  /\ present' = IF cursor = NoCursor THEN {r \in Id : row[r] = "committed"} ELSE present
  /\ more' = (rows # analyses)
  /\ \/ rows = analyses /\ UNCHANGED <<cursor, cuts>>
     \/ /\ rows # analyses
        /\ \E last \in analyses :
             /\ \A r \in analyses \ {last} : Newer(r, last)
             /\ cursor' = Cut(last)
             /\ cuts' = cuts \cup {created[last] \div TicksPerMs}
  /\ UNCHANGED <<now, row, created>>

(* The statement fails, or the API is out of reach. *)
LoadFails ==
  /\ phase = "loading"
  /\ phase' = "failed"
  /\ UNCHANGED <<now, row, created, cursor, more, listed, cuts, present>>

(* Mutant: the error takes the place of the list and its button.           *)
AskUnlessFailed ==
  /\ phase = "idle"
  /\ more
  /\ cursor # NoCursor
  /\ phase' = "loading"
  /\ UNCHANGED <<now, row, created, cursor, more, listed, cuts, present>>

(* The button that asks for more is there once a page has come with a      *)
(* cursor, and disabled while one is loading.                              *)
Ask ==
  /\ phase # "loading"
  /\ more
  /\ cursor # NoCursor
  /\ phase' = "loading"
  /\ UNCHANGED <<now, row, created, cursor, more, listed, cuts, present>>

-----------------------------------------------------------------------------
(* The workers' transactions: created_at is the time of BEGIN, the row is  *)
(* seen from the commit on, and ids are drawn at random.                   *)

Insert(r) ==
  /\ row[r] = "none"
  /\ row' = [row EXCEPT ![r] = "open"]
  /\ created' = [created EXCEPT ![r] = now]
  /\ UNCHANGED <<now, cursor, more, phase, listed, cuts, present>>

Commit(r) ==
  /\ row[r] = "open"
  /\ row' = [row EXCEPT ![r] = "committed"]
  /\ UNCHANGED <<now, created, cursor, more, phase, listed, cuts, present>>

Tick ==
  /\ now < MaxTime
  /\ now' = now + 1
  /\ UNCHANGED <<row, created, cursor, more, phase, listed, cuts, present>>

Next == Load \/ LoadFails \/ Ask \/ Tick \/ \E r \in Id : Insert(r) \/ Commit(r)

Spec == Init /\ [][Next]_vars

(* The visitor keeps asking, and not every load fails. *)
FairSpec == Spec /\ WF_vars(Ask) /\ SF_vars(Load)

-----------------------------------------------------------------------------
(* No analysis is shown twice, although the cursor lies before the row it  *)
(* was made from and rows are committed between two pages.                 *)
ListedOnce == \A r \in Id : listed[r] <= 1

(* Pages continue downwards: whatever a page shows is older than all that  *)
(* the pages before it showed, ties broken by id.                          *)
PagesDescend ==
  [][\A r, q \in Id :
       listed[r] > 0 /\ listed'[q] > listed[q] =>
         \/ created[q] < created[r]
         \/ created[q] = created[r] /\ q < r]_vars

(* What the client misses of the rows that were there when it began lies   *)
(* in the millisecond of a cursor, and nowhere else: no page boundary and  *)
(* no exactly full last page loses a row otherwise.                        *)
MissedOnlyAtACut ==
  ~more => \A r \in present : listed[r] = 0 => created[r] \div TicksPerMs \in cuts

(* Asking for more comes to an end, past all loads that fail but the first, *)
(* which leaves a page with nothing to ask with.                           *)
TraversalEnds == <>(~more \/ (phase = "failed" /\ cursor = NoCursor))

(* routes.test.ts:380: "paging with the cursor visits every analysis       *)
(* exactly once".  A row of the cursor's millisecond, later than the cut   *)
(* but older than the row it was made from, is on no page.                 *)
VisitsEveryAnalysis == ~more => \A r \in present : listed[r] = 1
=============================================================================
