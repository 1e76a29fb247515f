--------------------------- MODULE JobLifecycleProofs ---------------------------
(***************************************************************************)
(* Proofs about JobLifecycle: what the API and the web client, which know  *)
(* jobs by their rows alone, may rely on.  Modules that are shown to       *)
(* implement JobLifecycle take these theorems over by INSTANCE.            *)
(***************************************************************************)
EXTENDS JobLifecycle, TLAPS

Status == {"none", "queued", "running", "succeeded", "failed"}

(* Rows are numbered in the order of their insertion. *)
Rows ==
  /\ submitted \in 0..MaxJobs
  /\ identity \in [JobId -> Identity \cup {NULL}]
  /\ status \in [JobId -> Status]
  /\ attempts \in [JobId -> Nat]
  /\ published \subseteq Identity
  /\ \A j \in JobId : status[j] # "none" <=> j <= submitted
  /\ \A j \in JobId : j <= submitted => identity[j] \in Identity
  /\ \A j \in JobId : submitted < j => attempts[j] = 0

(* No identity is analysed twice at a time. *)
OneLive == \A j, k \in JobId : Live(j) /\ Live(k) /\ identity[j] = identity[k] => j = k

(* The analyses are those of the jobs that succeeded, all of them.         *)
SucceededArePublished == \A j \in JobId : status[j] = "succeeded" => identity[j] \in published
PublishedHaveSucceeded ==
  \A i \in published : \E j \in JobId : status[j] = "succeeded" /\ identity[j] = i

(* A job has an attempt left while it waits. *)
Attempts ==
  \A j \in JobId : attempts[j] <= MaxAttempts /\ (status[j] = "queued" => attempts[j] < MaxAttempts)

Inv == Rows /\ OneLive /\ SucceededArePublished /\ PublishedHaveSucceeded

(* What has ended has ended, and no job ever analyses something else.      *)
EndsStand ==
  [][\A j \in JobId :
       /\ status[j] \in {"succeeded", "failed"} => status'[j] = status[j]
       /\ j <= submitted => identity'[j] = identity[j]]_vars

-----------------------------------------------------------------------------
(* A submission adds a queued row under the next number.                   *)
LEMMA SubmitAdds ==
  ASSUME MaxJobs \in Nat, Rows, NEW i \in Identity, Submit(i)
  PROVE  /\ submitted + 1 \in JobId /\ submitted' = submitted + 1
         /\ status[submitted + 1] = "none" /\ attempts[submitted + 1] = 0
         /\ status' = [status EXCEPT ![submitted + 1] = "queued"]
         /\ identity' = [identity EXCEPT ![submitted + 1] = i]
         /\ UNCHANGED <<attempts, published>>
         /\ \A j \in JobId : Live(j) => identity[j] # i
<1>1. submitted \in Nat /\ submitted < MaxJobs
  BY DEF Rows, Submit
<1>2. submitted + 1 \in JobId
  BY <1>1 DEF JobId
<1>3. status[submitted + 1] = "none"
  <2>1. ~(submitted + 1 <= submitted)
    BY <1>1
  <2> QED
    BY <1>2, <2>1 DEF Rows
<1>4. attempts[submitted + 1] = 0
  BY <1>1, <1>2 DEF Rows
<1> QED
  BY <1>2, <1>3, <1>4 DEF Submit

(* ... and keeps all that is true of the rows. *)
LEMMA SubmitInv ==
  ASSUME MaxJobs \in Nat, Inv, NEW i \in Identity, Submit(i)
  PROVE  Inv'
<1>1. PICK n \in JobId : n = submitted + 1
  BY SubmitAdds DEF Inv
<1>2. /\ submitted' = n /\ status[n] = "none" /\ attempts[n] = 0
      /\ status' = [status EXCEPT ![n] = "queued"]
      /\ identity' = [identity EXCEPT ![n] = i]
      /\ UNCHANGED <<attempts, published>>
      /\ \A j \in JobId : Live(j) => identity[j] # i
  BY <1>1, SubmitAdds DEF Inv
<1>3. Rows
  BY DEF Inv
<1>4. \A j \in JobId \ {n} : status'[j] = status[j] /\ identity'[j] = identity[j]
  BY <1>2, <1>3 DEF Rows
<1>5. status'[n] = "queued" /\ identity'[n] = i
  BY <1>2, <1>3 DEF Rows
<1>6. Rows'
  <2>1. /\ submitted' \in 0..MaxJobs
        /\ identity' \in [JobId -> Identity \cup {NULL}]
        /\ status' \in [JobId -> Status]
        /\ attempts' \in [JobId -> Nat] /\ published' \subseteq Identity
    BY <1>1, <1>2, <1>3 DEF Rows, JobId, Status
  <2>2. ASSUME NEW j \in JobId
        PROVE  /\ status'[j] # "none" <=> j <= submitted'
               /\ j <= submitted' => identity'[j] \in Identity
               /\ submitted' < j => attempts'[j] = 0
    <3>1. j \in Nat /\ submitted \in Nat /\ submitted' = submitted + 1
      BY <1>1, <1>2, <1>3 DEF Rows, JobId
    <3>2. CASE j = n
      BY <1>1, <1>5, <3>1, <3>2
    <3>3. CASE j # n
      <4>1. (j <= submitted' <=> j <= submitted) /\ (submitted' < j => submitted < j)
        BY <1>1, <3>1, <3>3
      <4> QED
        BY <1>2, <1>3, <1>4, <3>3, <4>1 DEF Rows
    <3> QED
      BY <3>2, <3>3
  <2> QED
    BY <2>1, <2>2 DEF Rows
<1>7. OneLive'
  <2>1. \A j \in JobId \ {n} : Live(j)' => Live(j) /\ identity'[j] # i
    BY <1>2, <1>4 DEF Live
  <2>2. ASSUME NEW j \in JobId, NEW k \in JobId, Live(j)', Live(k)', identity'[j] = identity'[k]
        PROVE  j = k
    BY <1>4, <1>5, <2>1, <2>2 DEF Inv, OneLive
  <2> QED
    BY <2>2 DEF OneLive
<1>8. SucceededArePublished' /\ PublishedHaveSucceeded'
  <2>1. \A j \in JobId : status'[j] = "succeeded" => j # n /\ status[j] = "succeeded" /\ identity'[j] = identity[j]
    BY <1>4, <1>5
  <2>2. \A j \in JobId : status[j] = "succeeded" => status'[j] = "succeeded" /\ identity'[j] = identity[j]
    BY <1>2, <1>4
  <2> QED
    BY <1>2, <2>1, <2>2 DEF Inv, SucceededArePublished, PublishedHaveSucceeded
<1> QED
  BY <1>6, <1>7, <1>8 DEF Inv

(* A step that moves live jobs, and makes none live, keeps it too.         *)
LEMMA MoveInv ==
  ASSUME Inv, UNCHANGED <<submitted, identity>>,
         status' \in [JobId -> Status], attempts' \in [JobId -> Nat],
         published' \subseteq Identity, published \subseteq published',
         \A j \in JobId : status'[j] # status[j] => Live(j) /\ status'[j] # "none",
         \A j \in JobId : submitted < j => attempts'[j] = attempts[j],
         \A j \in JobId : status'[j] = "succeeded" => identity[j] \in published',
         \A i \in published' \ published :
           \E j \in JobId : status'[j] = "succeeded" /\ identity[j] = i
  PROVE  Inv'
<1>1. Rows'
  <2>1. \A j \in JobId : status'[j] # "none" <=> status[j] # "none"
    BY DEF Live
  <2> QED
    BY <2>1 DEF Inv, Rows
<1>2. OneLive'
  <2>1. \A j \in JobId : Live(j)' => Live(j)
    BY DEF Live
  <2> QED
    BY <2>1 DEF Inv, OneLive
<1>3. SucceededArePublished'
  BY DEF SucceededArePublished
<1>4. PublishedHaveSucceeded'
  <2> SUFFICES ASSUME NEW i \in published'
               PROVE  \E j \in JobId : status'[j] = "succeeded" /\ identity'[j] = i
    BY DEF PublishedHaveSucceeded
  <2>1. CASE i \in published
    <3>1. PICK j \in JobId : status[j] = "succeeded" /\ identity[j] = i
      BY <2>1 DEF Inv, PublishedHaveSucceeded
    <3>2. status'[j] = status[j]
      BY <3>1 DEF Live
    <3> QED
      BY <3>1, <3>2
  <2>2. CASE i \notin published
    BY <2>2
  <2> QED
    BY <2>1, <2>2
<1> QED
  BY <1>1, <1>2, <1>3, <1>4 DEF Inv

(* Every statement of the queue keeps the promises. *)
LEMMA StepInv ==
  ASSUME MaxJobs \in Nat, Inv, [Next]_vars
  PROVE  Inv'
<1>0. Rows /\ \A j \in JobId : status[j] = "succeeded" => identity[j] \in published
  BY DEF Inv, SucceededArePublished
<1>1. ASSUME NEW i \in Identity, Submit(i) PROVE Inv'
  BY <1>1, SubmitInv
<1>2. ASSUME NEW j \in JobId, Begin(j) PROVE Inv'
  <2>1. /\ status[j] = "queued" /\ status' = [status EXCEPT ![j] = "running"]
        /\ attempts' = [attempts EXCEPT ![j] = @ + 1] /\ UNCHANGED <<submitted, identity, published>>
    BY <1>2 DEF Begin
  <2>2. status' \in [JobId -> Status] /\ attempts' \in [JobId -> Nat]
    BY <1>0, <2>1 DEF Rows, Status
  <2>3. \A k \in JobId : submitted < k => k # j /\ attempts'[k] = attempts[k]
    <3>1. j <= submitted /\ submitted \in Nat /\ j \in Nat
      BY <1>0, <2>1 DEF Rows, JobId
    <3> QED
      BY <1>0, <2>1, <3>1 DEF Rows
  <2>4. \A k \in JobId : status'[k] # status[k] => Live(k) /\ status'[k] # "none"
    BY <1>0, <2>1 DEF Live, Rows
  <2>5. \A k \in JobId : status'[k] = "succeeded" => identity[k] \in published'
    BY <1>0, <2>1 DEF Rows
  <2> QED
    BY <1>0, <2>1, <2>2, <2>3, <2>4, <2>5, MoveInv DEF Rows
<1>3. ASSUME NEW S \in SUBSET JobId, Return(S) PROVE Inv'
  <2>1. /\ status' = [j \in JobId |->
                       IF j \notin S THEN status[j]
                       ELSE IF attempts[j] < MaxAttempts THEN "queued" ELSE "failed"]
        /\ UNCHANGED <<submitted, identity, attempts, published>>
        /\ \A j \in S : status[j] = "running"
    BY <1>3 DEF Return
  <2>2. status' \in [JobId -> Status]
    BY <1>0, <2>1 DEF Rows, Status
  <2>3. \A k \in JobId : status'[k] # status[k] => Live(k) /\ status'[k] # "none"
    BY <2>1 DEF Live
  <2>4. \A k \in JobId : status'[k] = "succeeded" => identity[k] \in published'
    BY <1>0, <2>1
  <2> QED
    BY <1>0, <2>1, <2>2, <2>3, <2>4, MoveInv DEF Rows
<1>4. ASSUME NEW j \in JobId, GiveUp(j) PROVE Inv'
  <2>1. /\ status[j] = "running" /\ status' = [status EXCEPT ![j] = "failed"]
        /\ UNCHANGED <<submitted, identity, attempts, published>>
    BY <1>4 DEF GiveUp
  <2>2. status' \in [JobId -> Status]
    BY <1>0, <2>1 DEF Rows, Status
  <2>3. \A k \in JobId : status'[k] # status[k] => Live(k) /\ status'[k] # "none"
    BY <1>0, <2>1 DEF Live, Rows
  <2>4. \A k \in JobId : status'[k] = "succeeded" => identity[k] \in published'
    BY <1>0, <2>1 DEF Rows
  <2> QED
    BY <1>0, <2>1, <2>2, <2>3, <2>4, MoveInv DEF Rows
<1>5. ASSUME NEW j \in JobId, Publish(j) PROVE Inv'
  <2>1. /\ status[j] = "running" /\ status' = [status EXCEPT ![j] = "succeeded"]
        /\ published' = published \cup {identity[j]}
        /\ UNCHANGED <<submitted, identity, attempts>>
    BY <1>5 DEF Publish
  <2>2. status' \in [JobId -> Status] /\ status'[j] = "succeeded" /\ identity[j] \in Identity
    BY <1>0, <2>1 DEF Rows, Status
  <2>3. \A k \in JobId : status'[k] # status[k] => Live(k) /\ status'[k] # "none"
    BY <1>0, <2>1 DEF Live, Rows
  <2>4. \A k \in JobId : status'[k] = "succeeded" => identity[k] \in published'
    BY <1>0, <2>1 DEF Rows
  <2>5. published' \subseteq Identity /\ published \subseteq published'
    BY <1>0, <2>1, <2>2 DEF Rows
  <2>6. \A i \in published' \ published : \E k \in JobId : status'[k] = "succeeded" /\ identity[k] = i
    BY <2>1, <2>2
  <2> QED
    BY <1>0, <2>1, <2>2, <2>3, <2>4, <2>5, <2>6, MoveInv DEF Rows
<1>6. CASE UNCHANGED vars
  BY <1>6 DEF vars, Inv, Rows, OneLive, Live, SucceededArePublished, PublishedHaveSucceeded
<1> QED
  BY <1>1, <1>2, <1>3, <1>4, <1>5, <1>6 DEF Next

(* The promises hold in every state, for any jobs and any cap on attempts. *)
THEOREM PromisesAreKept ==
  ASSUME MaxJobs \in Nat
  PROVE  Spec => []Inv
<1>1. Init => Inv
  BY DEF Init, Inv, Rows, Status, OneLive, Live, SucceededArePublished, PublishedHaveSucceeded, JobId
<1>2. Inv /\ [Next]_vars => Inv'
  BY StepInv
<1> QED
  BY <1>1, <1>2, PTL DEF Spec

(* A job waits only with an attempt left, and a claim takes one.           *)
LEMMA StepAttempts ==
  ASSUME MaxJobs \in Nat, MaxAttempts \in Nat \ {0}, Inv, Attempts, [Next]_vars
  PROVE  Attempts'
<1>0. Rows /\ attempts \in [JobId -> Nat] /\ status \in [JobId -> Status]
  BY DEF Inv, Rows
<1> SUFFICES ASSUME NEW k \in JobId
             PROVE  attempts'[k] <= MaxAttempts /\ (status'[k] = "queued" => attempts'[k] < MaxAttempts)
  BY DEF Attempts
<1>1. attempts[k] \in Nat /\ attempts[k] <= MaxAttempts /\ (status[k] = "queued" => attempts[k] < MaxAttempts)
  BY <1>0 DEF Attempts
<1>2. ASSUME NEW i \in Identity, Submit(i)
      PROVE  attempts'[k] <= MaxAttempts /\ (status'[k] = "queued" => attempts'[k] < MaxAttempts)
  <2>1. /\ attempts' = attempts /\ attempts[submitted + 1] = 0
        /\ status' = [status EXCEPT ![submitted + 1] = "queued"]
    BY <1>0, <1>2, SubmitAdds
  <2>2. CASE k = submitted + 1
    BY <2>1, <2>2
  <2>3. CASE k # submitted + 1
    BY <1>0, <1>1, <2>1, <2>3
  <2> QED
    BY <2>2, <2>3
<1>3. ASSUME NEW j \in JobId, Begin(j)
      PROVE  attempts'[k] <= MaxAttempts /\ (status'[k] = "queued" => attempts'[k] < MaxAttempts)
  BY <1>0, <1>1, <1>3 DEF Begin
<1>4. ASSUME NEW S \in SUBSET JobId, Return(S)
      PROVE  attempts'[k] <= MaxAttempts /\ (status'[k] = "queued" => attempts'[k] < MaxAttempts)
  BY <1>0, <1>1, <1>4 DEF Return
<1>5. ASSUME NEW j \in JobId, GiveUp(j) \/ Publish(j)
      PROVE  attempts'[k] <= MaxAttempts /\ (status'[k] = "queued" => attempts'[k] < MaxAttempts)
  BY <1>0, <1>1, <1>5 DEF GiveUp, Publish
<1>6. CASE UNCHANGED vars
  BY <1>1, <1>6 DEF vars
<1> QED
  BY <1>2, <1>3, <1>4, <1>5, <1>6 DEF Next

(* No job is attempted more often than JOB_MAX_ATTEMPTS says.              *)
THEOREM AttemptsAreBounded ==
  ASSUME MaxJobs \in Nat, MaxAttempts \in Nat \ {0}
  PROVE  Spec => []Attempts
<1>1. Init => Attempts
  BY DEF Init, Attempts
<1>2. Inv /\ Attempts /\ [Next]_vars => Attempts'
  BY StepAttempts
<1> QED
  BY <1>1, <1>2, PromisesAreKept, PTL DEF Spec

(* A step changes only live jobs, and no job's identity.                   *)
LEMMA StepEndsStand ==
  ASSUME MaxJobs \in Nat, Inv, [Next]_vars, NEW j \in JobId
  PROVE  /\ status[j] \in {"succeeded", "failed"} => status'[j] = status[j]
         /\ j <= submitted => identity'[j] = identity[j]
<1>0. Rows
  BY DEF Inv
<1>1. ASSUME NEW i \in Identity, Submit(i)
      PROVE  /\ status[j] \in {"succeeded", "failed"} => status'[j] = status[j]
             /\ j <= submitted => identity'[j] = identity[j]
  <2>1. /\ status[submitted + 1] = "none" /\ submitted \in Nat
        /\ status' = [status EXCEPT ![submitted + 1] = "queued"]
        /\ identity' = [identity EXCEPT ![submitted + 1] = i]
    BY <1>0, <1>1, SubmitAdds DEF Rows
  <2>2. j <= submitted => j # submitted + 1
    BY <2>1
  <2> QED
    BY <1>0, <2>1, <2>2 DEF Rows
<1>2. ASSUME NEW k \in JobId, Begin(k) \/ GiveUp(k) \/ Publish(k)
      PROVE  (status[j] \in {"succeeded", "failed"} => status'[j] = status[j]) /\ identity' = identity
  BY <1>0, <1>2 DEF Rows, Begin, GiveUp, Publish
<1>3. ASSUME NEW S \in SUBSET JobId, Return(S)
      PROVE  (status[j] \in {"succeeded", "failed"} => status'[j] = status[j]) /\ identity' = identity
  BY <1>3 DEF Return
<1>4. CASE UNCHANGED vars
  BY <1>4 DEF vars
<1> QED
  BY <1>1, <1>2, <1>3, <1>4 DEF Next

(* The end of a job stands, and its identity with it.                      *)
THEOREM JobsStayWhatTheyAre ==
  ASSUME MaxJobs \in Nat
  PROVE  Spec => EndsStand
<1>1. Inv /\ [Next]_vars =>
        [\A j \in JobId :
           /\ status[j] \in {"succeeded", "failed"} => status'[j] = status[j]
           /\ j <= submitted => identity'[j] = identity[j]]_vars
  BY StepEndsStand
<1> QED
  BY <1>1, PromisesAreKept, PTL DEF Spec, EndsStand
=============================================================================
