---------------------------- MODULE MigrateProofs ----------------------------
(***************************************************************************)
(* Proofs about Migrate.  As long as no up and no down have run at once,   *)
(* the recorded versions are 1..n and those whose objects exist; an up has *)
(* the versions from some k on before it, with all below k recorded, and a *)
(* down has one version, with none above it recorded.                      *)
(***************************************************************************)
EXTENDS Migrate, TLAPS

Upwards(r) == \E k \in 1..4 : todo[r] = k..4 /\ 1..(k - 1) \subseteq recorded
Downwards(r) == \E m \in 1..4 : todo[r] = {m} /\ recorded \subseteq 1..m

Orderly ==
  /\ schema = recorded
  /\ \E n \in 0..4 : recorded = 1..n
  /\ \A r, q \in Runner : ~(command[r] = "up" /\ command[q] = "down")
  /\ \A r \in Runner : command[r] = "up" => Upwards(r)
  /\ \A r \in Runner : command[r] = "down" => Downwards(r)

(* A runner that has a command has something to do. *)
Busy == \A r \in Runner : command[r] # "none" => todo[r] # {}

IInv == TypeOK /\ Busy /\ (~overlapped => Orderly)

-----------------------------------------------------------------------------
(* The lowest version of those from k on is k, and the highest of those up *)
(* to n is n.                                                              *)
LEMMA LeastIsFirst ==
  ASSUME NEW k \in 1..4
  PROVE  Least(k..4) = k
<1>1. k \in k..4 /\ \A u \in k..4 : k <= u
  OBVIOUS
<1>2. \A v \in k..4 : (\A u \in k..4 : v <= u) => v = k
  OBVIOUS
<1> QED
  BY <1>1, <1>2 DEF Least

(* The latest of the first n versions. *)
LEMMA MostIsLast ==
  ASSUME NEW n \in 1..4
  PROVE  Most(1..n) = n
<1>1. n \in 1..n /\ \A u \in 1..n : u <= n
  OBVIOUS
<1>2. \A v \in 1..n : (\A u \in 1..n : u <= v) => v = n
  OBVIOUS
<1> QED
  BY <1>1, <1>2 DEF Most

(* The earliest of one version. *)
LEMMA LeastOfOne ==
  ASSUME NEW m \in 1..4
  PROVE  Least({m}) = m
BY DEF Least

(* A nonempty set of versions has a lowest and a highest. *)
LEMMA ExtremesExist ==
  ASSUME NEW S \in SUBSET Version, S # {}
  PROVE  Least(S) \in S /\ Most(S) \in S
<1>1. S \subseteq 1..4
  BY DEF Version
<1>2. \E v \in S : \A u \in S : v <= u
  <2>1. CASE 1 \in S
    BY <1>1, <2>1
  <2>2. CASE 1 \notin S /\ 2 \in S
    BY <1>1, <2>2
  <2>3. CASE 1 \notin S /\ 2 \notin S /\ 3 \in S
    BY <1>1, <2>3
  <2>4. CASE 1 \notin S /\ 2 \notin S /\ 3 \notin S
    <3>1. \A u \in S : u = 4
      BY <1>1, <2>4
    <3> QED
      BY <3>1
  <2> QED
    BY <2>1, <2>2, <2>3, <2>4
<1>3. \E v \in S : \A u \in S : u <= v
  <2>1. CASE 4 \in S
    BY <1>1, <2>1
  <2>2. CASE 4 \notin S /\ 3 \in S
    BY <1>1, <2>2
  <2>3. CASE 4 \notin S /\ 3 \notin S /\ 2 \in S
    BY <1>1, <2>3
  <2>4. CASE 4 \notin S /\ 3 \notin S /\ 2 \notin S
    <3>1. \A u \in S : u = 1
      BY <1>1, <2>4
    <3> QED
      BY <3>1
  <2> QED
    BY <2>1, <2>2, <2>3, <2>4
<1> QED
  BY <1>2, <1>3 DEF Least, Most

-----------------------------------------------------------------------------
(* The initial states: some first migrations are there and nobody runs.    *)
LEMMA InitIInv == Init => IInv
<1> SUFFICES ASSUME Init PROVE IInv
  OBVIOUS
<1>1. PICK n \in 0..4 : schema = 1..n
  BY DEF Init
<1>2. schema \subseteq Version
  BY <1>1 DEF Version
<1>3. TypeOK
  <2>1. 0 \in 0..MaxRuns
    BY MaxRunsAssumption
  <2> QED
    BY <1>2, <2>1 DEF Init, TypeOK
<1>4. Busy
  BY DEF Init, Busy
<1>5. Orderly
  BY <1>1 DEF Init, Orderly
<1> QED
  BY <1>3, <1>4, <1>5 DEF IInv

(* What a step does to the type invariant. *)
LEMMA TypeStep == TypeOK /\ Busy /\ [Next]_vars => TypeOK' /\ Busy'
<1> SUFFICES ASSUME TypeOK, Busy, [Next]_vars PROVE TypeOK' /\ Busy'
  OBVIOUS
<1> USE MaxRunsAssumption DEF TypeOK, Busy
<1>1. ASSUME NEW r \in Runner, NEW c \in {"up", "down"}, Read(r, c) PROVE TypeOK' /\ Busy'
  <2>1. Plan(c) \in SUBSET Version
    <3>1. CASE c = "up"
      BY <3>1 DEF Plan
    <3>2. CASE c = "down"
      BY <3>2, ExtremesExist DEF Plan
    <3> QED
      BY <1>1, <3>1, <3>2
  <2>2. runs' \in 0..MaxRuns
    BY <1>1 DEF Read
  <2> QED
    BY <1>1, <2>1, <2>2 DEF Read
<1>2. ASSUME NEW r \in Runner, NEW v, v = Least(todo[r]), Apply(r) PROVE TypeOK' /\ Busy'
  <2>1. v \in Version
    BY <1>2, ExtremesExist DEF Apply
  <2> QED
    BY <1>2, <2>1 DEF Apply, Proceed
<1>3. ASSUME NEW r \in Runner, Reverse(r) PROVE TypeOK' /\ Busy'
  BY <1>3 DEF Reverse, Proceed
<1>4. ASSUME NEW r \in Runner, Fail(r) PROVE TypeOK' /\ Busy'
  BY <1>4 DEF Fail, Quit
<1>5. CASE UNCHANGED vars
  BY <1>5 DEF vars
<1> QED
  BY <1>1, <1>2, <1>3, <1>4, <1>5 DEF Next

(* Each step keeps the order among the recorded versions and the plans,    *)
(* unless it makes an up and a down run at once.                           *)
LEMMA ReadOrderly ==
  ASSUME TypeOK, Orderly, NEW r \in Runner, NEW c \in {"up", "down"}, Read(r, c), ~overlapped'
  PROVE  Orderly'
<1>1. PICK n \in 0..4 : recorded = 1..n
  BY DEF Orderly
<1>2. \A q \in Runner : command[q] \in {"none", c}
  BY DEF Read, TypeOK
<1>3. /\ command' = [command EXCEPT ![r] = c]
      /\ todo' = [todo EXCEPT ![r] = Plan(c)]
      /\ schema' = schema /\ recorded' = recorded /\ Plan(c) # {}
  BY DEF Read
<1>4. \A p, q \in Runner : ~(command'[p] = "up" /\ command'[q] = "down")
  BY <1>2, <1>3 DEF TypeOK
<1>5. ASSUME c = "up" PROVE Plan(c) = (n + 1)..4 /\ n + 1 \in 1..4 /\ 1..(n + 1 - 1) \subseteq recorded
  BY <1>1, <1>3, <1>5 DEF Plan, Version
<1>6. ASSUME c = "down" PROVE n \in 1..4 /\ Plan(c) = {n}
  <2>1. n # 0
    BY <1>1, <1>3, <1>6 DEF Plan
  <2>2. n \in 1..4 /\ 1 \in recorded
    BY <1>1, <2>1
  <2> QED
    BY <1>1, <1>6, <2>2, MostIsLast DEF Plan
<1>7. ASSUME NEW q \in Runner, command'[q] = "up" PROVE Upwards(q)'
  <2>1. CASE q = r
    BY <1>1, <1>3, <1>5, <1>7, <2>1 DEF Upwards, TypeOK
  <2>2. CASE q # r
    BY <1>3, <1>7, <2>2 DEF Upwards, TypeOK, Orderly
  <2> QED
    BY <2>1, <2>2
<1>8. ASSUME NEW q \in Runner, command'[q] = "down" PROVE Downwards(q)'
  <2>1. CASE q = r
    BY <1>1, <1>3, <1>6, <1>8, <2>1 DEF Downwards, TypeOK
  <2>2. CASE q # r
    BY <1>3, <1>8, <2>2 DEF Downwards, TypeOK, Orderly
  <2> QED
    BY <2>1, <2>2
<1> QED
  BY <1>3, <1>4, <1>7, <1>8 DEF Orderly

(* A version that is applied is the next one. *)
LEMMA ApplyOrderly ==
  ASSUME TypeOK, Orderly, NEW r \in Runner, Apply(r)
  PROVE  \E k \in 1..4 : /\ todo[r] = k..4 /\ Least(todo[r]) = k
                         /\ recorded' = 1..k /\ Orderly'
<1>1. PICK k \in 1..4 : todo[r] = k..4 /\ 1..(k - 1) \subseteq recorded
  BY DEF Orderly, Upwards, Apply
<1>2. Least(todo[r]) = k
  BY <1>1, LeastIsFirst
<1>3. PICK n \in 0..4 : recorded = 1..n
  BY DEF Orderly
<1>4. k \notin recorded
  BY <1>2 DEF Apply, Applies
<1>5. n = k - 1
  <2>1. ~(k <= n)
    BY <1>3, <1>4
  <2>2. k - 1 = 0 \/ k - 1 \in 1..n
    BY <1>1, <1>3
  <2> QED
    BY <2>1, <2>2
<1>6. schema' = recorded' /\ recorded' = recorded \cup {k}
  BY <1>2 DEF Apply, Orderly
<1>7. recorded' = 1..k
  BY <1>3, <1>5, <1>6
<1>8. /\ todo' = [todo EXCEPT ![r] = @ \ {k}]
      /\ command' = [command EXCEPT ![r] = IF todo[r] = {k} THEN "none" ELSE @]
  BY <1>2 DEF Apply, Proceed
<1>9. \A q \in Runner : command'[q] # "none" => command'[q] = command[q]
  BY <1>8 DEF TypeOK
<1>10. \A q \in Runner : command'[q] # "down"
  BY <1>9 DEF Orderly, Apply
<1>11. ASSUME NEW q \in Runner, command'[q] = "up" PROVE Upwards(q)'
  <2>1. CASE q = r
    <3>1. todo'[q] = (k + 1)..4
      BY <1>1, <1>8, <2>1 DEF TypeOK
    <3>2. k # 4
      BY <1>1, <1>8, <1>11, <2>1 DEF TypeOK
    <3>3. k + 1 \in 1..4 /\ (k + 1) - 1 = k
      BY <3>2
    <3> QED
      BY <1>7, <3>1, <3>3 DEF Upwards
  <2>2. CASE q # r
    BY <1>6, <1>8, <1>9, <1>11, <2>2 DEF Upwards, TypeOK, Orderly
  <2> QED
    BY <2>1, <2>2
<1>12. Orderly'
  <2>1. k \in 0..4
    OBVIOUS
  <2> QED
    BY <1>6, <1>7, <1>10, <1>11, <2>1 DEF Orderly
<1> QED
  BY <1>1, <1>2, <1>7, <1>12

(* A version that is reversed is the last one. *)
LEMMA ReverseOrderly ==
  ASSUME TypeOK, Orderly, NEW r \in Runner, Reverse(r)
  PROVE  Orderly'
<1>1. PICK m \in 1..4 : todo[r] = {m} /\ recorded \subseteq 1..m
  BY DEF Orderly, Downwards, Reverse
<1>2. Least(todo[r]) = m
  BY <1>1, LeastOfOne
<1>3. PICK n \in 0..4 : recorded = 1..n /\ schema = 1..n
  BY DEF Orderly
<1>4. n <= m
  BY <1>1, <1>3
<1>5. /\ schema' = schema \ Dropped(m) /\ recorded' = recorded \ {m}
      /\ m = 1 \/ m \in schema
  BY <1>2 DEF Reverse, Reverses
<1>6. schema' = 1..(m - 1) /\ recorded' = 1..(m - 1)
  <2>1. CASE m = 1
    BY <1>3, <1>4, <1>5, <2>1 DEF Dropped
  <2>2. CASE m # 1
    <3>1. n = m
      BY <1>3, <1>4, <1>5, <2>2
    <3> QED
      BY <1>3, <1>5, <2>2, <3>1 DEF Dropped
  <2> QED
    BY <2>1, <2>2
<1>7. command' = [command EXCEPT ![r] = "none"] /\ todo' = [todo EXCEPT ![r] = @ \ {m}]
  BY <1>1, <1>2 DEF Reverse, Proceed
<1>8. \A q \in Runner : command'[q] # "none" => q # r /\ command'[q] = command[q]
  BY <1>7 DEF TypeOK
<1>9. \A q \in Runner : command'[q] # "up"
  BY <1>8 DEF Orderly, Reverse
<1>10. ASSUME NEW q \in Runner, command'[q] = "down" PROVE Downwards(q)'
  <2>1. todo'[q] = todo[q] /\ Downwards(q)
    BY <1>7, <1>8, <1>10 DEF TypeOK, Orderly
  <2> QED
    BY <1>5, <2>1 DEF Downwards
<1>11. m - 1 \in 0..4
  OBVIOUS
<1> QED
  BY <1>6, <1>9, <1>10, <1>11 DEF Orderly

(* A transaction that fails leaves the tables alone. *)
LEMMA FailOrderly ==
  ASSUME TypeOK, Orderly, NEW r \in Runner, Fail(r)
  PROVE  Orderly'
<1>1. \A q \in Runner : command'[q] # "none" => command'[q] = command[q] /\ todo'[q] = todo[q]
  BY DEF Fail, Quit, TypeOK
<1>2. schema' = schema /\ recorded' = recorded
  BY DEF Fail
<1> QED
  BY <1>1, <1>2 DEF Orderly, Upwards, Downwards

(* The inductive step.                                                     *)
LEMMA StepIInv == IInv /\ [Next]_vars => IInv'
<1> SUFFICES ASSUME IInv, [Next]_vars PROVE IInv'
  OBVIOUS
<1>1. TypeOK' /\ Busy'
  BY TypeStep DEF IInv
<1>2. ASSUME ~overlapped' PROVE Orderly'
  <2>1. TypeOK /\ Orderly
    <3>1. overlapped => overlapped'
      BY DEF Next, Read, Apply, Reverse, Fail, vars
    <3> QED
      BY <1>2, <3>1 DEF IInv
  <2>2. ASSUME NEW r \in Runner, NEW c \in {"up", "down"}, Read(r, c) PROVE Orderly'
    BY <1>2, <2>1, <2>2, ReadOrderly
  <2>3. ASSUME NEW r \in Runner, Apply(r) PROVE Orderly'
    BY <2>1, <2>3, ApplyOrderly
  <2>4. ASSUME NEW r \in Runner, Reverse(r) PROVE Orderly'
    BY <2>1, <2>4, ReverseOrderly
  <2>5. ASSUME NEW r \in Runner, Fail(r) PROVE Orderly'
    BY <2>1, <2>5, FailOrderly
  <2>6. CASE UNCHANGED vars
    BY <2>1, <2>6 DEF Orderly, Upwards, Downwards, vars
  <2> QED
    BY <2>2, <2>3, <2>4, <2>5, <2>6 DEF Next
<1> QED
  BY <1>1, <1>2 DEF IInv

-----------------------------------------------------------------------------
(* The invariant holds for any number of runners.                          *)
THEOREM MigrateInvariance == Spec => []IInv
<1> QED
  BY InitIInv, StepIInv, PTL DEF Spec

(* The versions recorded are those whose objects exist, without a gap, as  *)
(* long as no up and no down of migrate.py have run at once.               *)
THEOREM RecordIsTrue == Spec => []SchemaIsRecorded
<1>1. IInv => SchemaIsRecorded
  BY DEF IInv, Orderly, SchemaIsRecorded
<1> QED
  BY <1>1, MigrateInvariance, PTL

(* The step that ends an up has left the whole schema: the step is that of *)
(* the last version, and all below it are recorded.                        *)
LEMMA FinishingStep ==
  ASSUME IInv, [Next]_vars, NEW r \in Runner,
         ~overlapped, command[r] = "up", command'[r] = "none", recorded' # recorded
  PROVE  schema' = Version
<1>1. TypeOK /\ Orderly
  BY DEF IInv
<1>2. ASSUME NEW q \in Runner, Reverse(q) PROVE FALSE
  BY <1>1, <1>2 DEF Orderly, Reverse
<1>3. PICK q \in Runner : Apply(q)
  BY <1>2 DEF Next, Read, Fail, vars
<1>4. PICK k \in 1..4 : /\ todo[q] = k..4 /\ Least(todo[q]) = k
                        /\ recorded' = 1..k /\ Orderly'
  BY <1>1, <1>3, ApplyOrderly
<1>5. q = r /\ todo[q] = {k}
  BY <1>1, <1>3, <1>4 DEF Apply, Proceed, TypeOK
<1>6. k = 4
  <2>1. 4 \in k..4
    OBVIOUS
  <2> QED
    BY <1>4, <1>5, <2>1
<1> QED
  BY <1>4, <1>6 DEF Orderly, Version

(* An up that comes to its end has left the whole schema, although it      *)
(* looked at what is recorded only once.                                   *)
THEOREM UpLeavesAll == Spec => FinishedUpIsWhole
<1>1. IInv /\ [Next]_vars =>
        [\A r \in Runner :
           ~overlapped /\ command[r] = "up" /\ command'[r] = "none" /\ recorded' # recorded =>
             schema' = Version]_vars
  BY FinishingStep
<1> QED
  BY <1>1, MigrateInvariance, PTL DEF Spec, FinishedUpIsWhole
=============================================================================
