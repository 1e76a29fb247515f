------------------------------- MODULE Migrate -------------------------------
(***************************************************************************)
(* db/migrate.py: runners that take a database up and down its four        *)
(* migrations.  A runner reads what is recorded once, when it begins, and  *)
(* then runs one transaction per migration, which holds the migration's    *)
(* SQL and the change to schema_migrations together.                       *)
(*                                                                         *)
(* Of the schema the model keeps which migrations' relations and columns   *)
(* are there.  The tables are 0001's; 0002's column and 0004's index are   *)
(* parts of them and go with them.                                         *)
(***************************************************************************)
EXTENDS Naturals

CONSTANTS Runner,   \* processes of migrate.py at any one time
          MaxRuns   \* bound: commands run

ASSUME MaxRunsAssumption == MaxRuns \in Nat

VARIABLES schema,      \* the migrations whose objects exist
          recorded,    \* the rows of schema_migrations
          command,     \* runner -> its command, or "none"
          todo,        \* runner -> the migrations it has yet to run
          runs,
          overlapped   \* history: whether an up and a down ever ran at once

vars == <<schema, recorded, command, todo, runs, overlapped>>

Version == 1..4

TypeOK ==
  /\ schema \subseteq Version
  /\ recorded \subseteq Version
  /\ command \in [Runner -> {"none", "up", "down"}]
  /\ todo \in [Runner -> SUBSET Version]
  /\ runs \in 0..MaxRuns
  /\ overlapped \in BOOLEAN

(* A database an earlier deployment has left at some version. *)
Init ==
  /\ \E n \in 0..4 : schema = 1..n
  /\ recorded = schema
  /\ command = [r \in Runner |-> "none"]
  /\ todo = [r \in Runner |-> {}]
  /\ runs = 0
  /\ overlapped = FALSE

-----------------------------------------------------------------------------
(* The migrations. *)

(* What must be there for an .up.sql, whose CREATE and ADD fail on what    *)
(* exists already, and what DROP TABLE takes along.                        *)
Needs(v) == IF v \in {2, 4} THEN {1} ELSE {}
Dropped(v) == IF v = 1 THEN {1, 2, 4} ELSE {v}

(* An up transaction commits: the SQL, and the INSERT of the version.      *)
Applies(v) == v \notin schema /\ Needs(v) \subseteq schema /\ v \notin recorded

(* The SQL of a down transaction succeeds.  0001's drops are all IF EXISTS.*)
Reverses(v) == v = 1 \/ v \in schema

-----------------------------------------------------------------------------
(* The runners. *)

Least(S) == CHOOSE v \in S : \A u \in S : v <= u
Most(S) == CHOOSE v \in S : \A u \in S : u <= v

(* up: all that is not recorded, in order; down: the last one recorded.    *)
Plan(c) == IF c = "up" THEN Version \ recorded
           ELSE IF recorded = {} THEN {} ELSE {Most(recorded)}

(* The runner r has done v and goes on, or is through.                     *)
Proceed(r, v) ==
  /\ todo' = [todo EXCEPT ![r] = @ \ {v}]
  /\ command' = [command EXCEPT ![r] = IF todo[r] = {v} THEN "none" ELSE @]

(* Mutant: a failed migration is passed over. *)
QuitThisOne(r) == Proceed(r, Least(todo[r]))

Quit(r) ==
  /\ todo' = [todo EXCEPT ![r] = {}]
  /\ command' = [command EXCEPT ![r] = "none"]

(* Connect, bootstrap, and read the applied set. *)
Read(r, c) ==
  /\ command[r] = "none"
  /\ runs < MaxRuns
  /\ Plan(c) # {}
  /\ runs' = runs + 1
  /\ command' = [command EXCEPT ![r] = c]
  /\ todo' = [todo EXCEPT ![r] = Plan(c)]
  /\ overlapped' = (overlapped \/ \E q \in Runner : command[q] \notin {"none", c})
  /\ UNCHANGED <<schema, recorded>>

(* Mutant: the version is recorded outside the transaction of its SQL, and *)
(* so perhaps not at all.                                                  *)
ApplyThenRecord(r) ==
  /\ command[r] = "up"
  /\ LET v == Least(todo[r]) IN
       /\ Applies(v)
       /\ schema' = schema \cup {v}
       /\ recorded' \in {recorded, recorded \cup {v}}
       /\ Proceed(r, v)
  /\ UNCHANGED <<runs, overlapped>>

Apply(r) ==
  /\ command[r] = "up"
  /\ LET v == Least(todo[r]) IN
       /\ Applies(v)
       /\ schema' = schema \cup {v}
       /\ recorded' = recorded \cup {v}
       /\ Proceed(r, v)
  /\ UNCHANGED <<runs, overlapped>>

Reverse(r) ==
  /\ command[r] = "down"
  /\ LET v == Least(todo[r]) IN
       /\ Reverses(v)
       /\ schema' = schema \ Dropped(v)
       /\ recorded' = recorded \ {v}
       /\ Proceed(r, v)
  /\ UNCHANGED <<runs, overlapped>>

(* A statement fails, as it does on what a rival has done already, or the  *)
(* process dies: the transaction is rolled back and the runner is gone.    *)
Fail(r) ==
  /\ command[r] # "none"
  /\ Quit(r)
  /\ UNCHANGED <<schema, recorded, runs, overlapped>>

Next == \E r \in Runner :
          \/ \E c \in {"up", "down"} : Read(r, c)
          \/ Apply(r) \/ Reverse(r) \/ Fail(r)

Spec == Init /\ [][Next]_vars

-----------------------------------------------------------------------------
(* Whatever dies half way, and however many ups or downs race each other,  *)
(* the recorded versions are those whose objects exist, without a gap, as  *)
(* long as no up and no down ever ran at once.  (Those two do break it: an *)
(* up that applies 0002 between a down's look at {1} and its reversal of   *)
(* 0001 leaves 0002 recorded and its column gone.)                         *)
SchemaIsRecorded ==
  ~overlapped => schema = recorded /\ \E n \in 0..4 : recorded = 1..n

(* An up that comes to its end has left the whole schema, although it      *)
(* looked only once and other ups did part of its work or died in it.      *)
FinishedUpIsWhole ==
  [][\A r \in Runner :
       ~overlapped /\ command[r] = "up" /\ command'[r] = "none" /\ recorded' # recorded =>
         schema' = Version]_vars
=============================================================================
