-------------------------- MODULE WorkerLaunchProofs --------------------------
(***************************************************************************)
(* Proofs about WorkerLaunch.  What keeps the launches under the cap is    *)
(* that between a launcher's count and its RunTask tasks only go away,     *)
(* unless another start has made the count stale.                          *)
(***************************************************************************)
EXTENDS WorkerLaunch, FiniteSetTheorems, TLAPS

(* A count that is not stale still holds. *)
CountHolds ==
  \A l \in Launch : attempt[l] = "run" /\ ~stale[l] => Cardinality(InFlight) < MaxTasks

IInv == TypeOK /\ CountHolds

(* No task runs and nobody launches one. *)
LEMMA InitIInv == Init => IInv
<1> SUFFICES ASSUME Init PROVE IInv
  OBVIOUS
<1>1. 0 \in 0..MaxKills
  BY LaunchAssumption
<1> QED
  BY <1>1 DEF Init, IInv, TypeOK, CountHolds

(* Every step keeps the types. *)
LEMMA TypeStep == TypeOK /\ [Next]_vars => TypeOK'
<1> SUFFICES ASSUME TypeOK, [Next]_vars PROVE TypeOK'
  OBVIOUS
<1> USE DEF TypeOK
<1>1. ASSUME NEW l \in Launch, Submit(l) PROVE TypeOK'
  BY <1>1 DEF Submit
<1>2. ASSUME NEW l \in Launch, CountInFlight(l) PROVE TypeOK'
  BY <1>2 DEF CountInFlight, Settle
<1>3. ASSUME NEW l \in Launch, Run(l) PROVE TypeOK'
  BY <1>3 DEF Run, Settle, Started
<1>4. ASSUME NEW l \in Launch, AttemptFails(l) PROVE TypeOK'
  BY <1>4 DEF AttemptFails, Settle
<1>5. ASSUME NEW l \in Launch, Expire(l) PROVE TypeOK'
  BY <1>5 DEF Expire
<1>6. ASSUME NEW t \in Task, Boot(t) \/ FindNothing(t) \/ Stop(t) PROVE TypeOK'
  BY <1>6 DEF Boot, FindNothing, Stop
<1>7. ASSUME NEW t \in Task, Claim(t) PROVE TypeOK'
  BY <1>7 DEF Claim
<1>8. ASSUME NEW t \in Task, Report(t) PROVE TypeOK'
  BY <1>8 DEF Report
<1>9. ASSUME NEW t \in Task, Kill(t) PROVE TypeOK'
  <2>1. kills' \in 0..MaxKills
    BY <1>9, LaunchAssumption DEF Kill
  <2>2. job' \in [Launch -> {"none", "waiting", "held", "over"}]
    BY <1>9 DEF Kill
  <2> QED
    BY <1>9, <2>1, <2>2 DEF Kill
<1>10. CASE Sweep
  BY <1>10 DEF Sweep, Started
<1>11. CASE UNCHANGED vars
  BY <1>11 DEF vars
<1> QED
  BY <1>1, <1>2, <1>3, <1>4, <1>5, <1>6, <1>7, <1>8, <1>9, <1>10, <1>11 DEF Next, TaskStep

(* A step that starts no task and counts nothing leaves no more of them.   *)
LEMMA FewerKeepTheCount ==
  ASSUME TypeOK, CountHolds,
         \A t \in Task : task[t] = "off" => task'[t] = "off",
         UNCHANGED stale,
         \A l \in Launch : attempt'[l] = "run" => attempt[l] = "run"
  PROVE  CountHolds'
<1>1. InFlight' \subseteq InFlight
  BY DEF InFlight
<1>2. IsFiniteSet(InFlight)
  BY LaunchAssumption, FS_Subset DEF InFlight
<1>3. IsFiniteSet(InFlight') /\ Cardinality(InFlight') <= Cardinality(InFlight)
  BY <1>1, <1>2, FS_Subset
<1>4. Cardinality(InFlight) \in Nat /\ Cardinality(InFlight') \in Nat
  BY <1>2, <1>3, FS_CardinalityType
<1>5. ASSUME NEW l \in Launch, (attempt[l] = "run" /\ ~stale[l])'
      PROVE  Cardinality(InFlight') < MaxTasks
  <2>1. Cardinality(InFlight) < MaxTasks
    BY <1>5 DEF CountHolds
  <2> QED
    BY <1>3, <1>4, <2>1, LaunchAssumption
<1> QED
  BY <1>5 DEF CountHolds

(* A launch past the cap is one of two that counted before either ran. *)
LEMMA StepIInv == IInv /\ [Next]_vars => IInv'
<1> SUFFICES ASSUME IInv, [Next]_vars PROVE IInv'
  OBVIOUS
<1>1. TypeOK /\ CountHolds /\ TypeOK'
  BY TypeStep DEF IInv
<1>2. CASE \E l \in Launch : Run(l)
  BY <1>1, <1>2 DEF Run, CountHolds, IInv
<1>3. CASE Sweep
  BY <1>1, <1>3 DEF Sweep, CountHolds, IInv
<1>4. ASSUME NEW l \in Launch, CountInFlight(l) PROVE CountHolds'
  <2>1. InFlight' = InFlight
    BY <1>4 DEF CountInFlight, InFlight
  <2>2. ASSUME NEW k \in Launch, (attempt[k] = "run" /\ ~stale[k])'
        PROVE  Cardinality(InFlight) < MaxTasks
    <3>1. CASE k = l
      <4>1. ~(Cardinality(Listed) >= MaxTasks)
        BY <1>1, <1>4, <2>2, <3>1 DEF CountInFlight, Settle, TypeOK
      <4>2. Cardinality(InFlight) \in Nat
        BY LaunchAssumption, FS_Subset, FS_CardinalityType DEF InFlight
      <4> QED
        BY <4>1, <4>2, LaunchAssumption DEF Listed
    <3>2. CASE k # l
      BY <1>1, <1>4, <2>2, <3>2 DEF CountInFlight, Settle, TypeOK, CountHolds
    <3> QED
      BY <3>1, <3>2
  <2> QED
    BY <2>1, <2>2 DEF CountHolds
<1>5. ASSUME NEW l \in Launch, Submit(l) \/ AttemptFails(l) \/ Expire(l) PROVE CountHolds'
  <2>1. UNCHANGED <<task, stale>>
    BY <1>5 DEF Submit, AttemptFails, Expire
  <2>2. \A k \in Launch : attempt'[k] = "run" => attempt[k] = "run"
    BY <1>1, <1>5 DEF Submit, AttemptFails, Expire, Settle, TypeOK
  <2> QED
    BY <1>1, <2>1, <2>2, FewerKeepTheCount
<1>6. ASSUME NEW t \in Task, TaskStep(t) \/ Kill(t) PROVE CountHolds'
  <2>1. UNCHANGED <<attempt, stale>>
    BY <1>6 DEF TaskStep, Boot, Claim, Report, FindNothing, Stop, Kill
  <2>2. \A u \in Task : task[u] = "off" => task'[u] = "off"
    BY <1>1, <1>6 DEF TaskStep, Boot, Claim, Report, FindNothing, Stop, Kill, TypeOK
  <2> QED
    BY <1>1, <2>1, <2>2, FewerKeepTheCount
<1>7. CASE UNCHANGED vars
  BY <1>1, <1>7 DEF CountHolds, InFlight, vars, IInv
<1> QED
  BY <1>1, <1>2, <1>3, <1>4, <1>5, <1>6, <1>7 DEF Next, IInv

(* Only racing launches exceed the cap, in every state. *)
LEMMA LaunchInvariance == Spec => []IInv
<1> QED
  BY InitIInv, StepIInv, PTL DEF Spec

-----------------------------------------------------------------------------
(* Every reachable state of the launcher and the tasks is well typed.      *)
THEOREM LaunchTypeCorrect == Spec => []TypeOK
<1>1. IInv => TypeOK
  BY DEF IInv
<1> QED
  BY <1>1, LaunchInvariance, PTL

(* RunTask is called at the cap only by a launcher that lost a race, for   *)
(* every cap and any number of submissions and tasks.                      *)
THEOREM OnlyARaceBreaksTheCap == Spec => CapBrokenByRaceOnly
<1>1. IInv /\ [Next]_vars =>
        [\A l \in Launch :
           attempt[l] = "run" /\ attempt'[l] = "ran" /\ ~stale[l] =>
             Cardinality(InFlight) < MaxTasks]_vars
  BY DEF IInv, CountHolds
<1> QED
  BY <1>1, LaunchInvariance, PTL DEF Spec, CapBrokenByRaceOnly
=============================================================================
