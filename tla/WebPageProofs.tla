----------------------------- MODULE WebPageProofs -----------------------------
(***************************************************************************)
(* Proofs about WebPage.  The visits of a tab are paid for by the acts of  *)
(* the visitor: each pays for two, and what is still to come, the answers  *)
(* to submissions, the hash not yet rendered and the job that may lead to  *)
(* an analysis, never exceeds what is left.                                *)
(***************************************************************************)
EXTENDS WebPage, FiniteSetTheorems, TLAPS

JobId == 1..MaxJobs
JobStatus == {"none", "queued", "running", "succeeded", "failed"}

(* The tables jobs and analyses. *)
JobsFit ==
  /\ submitted \in 0..MaxJobs
  /\ identity \in [JobId -> Identity \cup {NULL}]
  /\ status \in [JobId -> JobStatus]
  /\ published \subseteq Identity
  /\ \A j \in JobId : status[j] # "none" <=> j <= submitted
  /\ \A j \in JobId : j <= submitted => identity[j] \in Identity

AsksHome(c) == c.pc = "asking" /\ c.route.page = "home"

(* A form asks for something, and only a job's page pauses. *)
CallFits(c) ==
  /\ AsksHome(c) => c.wants \in Identity
  /\ c.pc = "pausing" => c.route.page = "job"

(* The call of the view on screen is that of its route. *)
CallsFit ==
  /\ \A n \in Visit : CallFits(call[n])
  /\ call[visit].route = route

(* The forms whose answer is due, in any function from Visit to Call.      *)
Asked(f) == {n \in Visit : AsksHome(f[n])}

(* The visits a hash that is not rendered leads to, the job's analysis     *)
(* included, and those a call leads to.                                    *)
ToCome(h, r) == IF h = r THEN 0 ELSE IF h.page = "job" THEN 2 ELSE 1
Leads(c) == IF c.route.page = "job" /\ c.pc \in {"asking", "pausing"} THEN 1 ELSE 0

(* What has been visited and what is to come is paid for. *)
Paid ==
  visit + 2 * Cardinality(Asked(call)) + ToCome(hash, route) + Leads(call[visit]) <= 2 * acts + 1

IInv == TypeOK /\ JobsFit /\ CallsFit /\ Paid /\ SettledPageShowsItsRoute

-----------------------------------------------------------------------------
(* Routes and calls. *)

(* The three kinds of routes. *)
LEMMA RouteKinds ==
  /\ Home \in Route /\ Home.page = "home"
  /\ \A j \in JobId : JobPage(j) \in Route /\ JobPage(j).page = "job" /\ JobPage(j).id = j
  /\ \A i \in Identity :
       AnalysisPage(i) \in Route /\ AnalysisPage(i).page = "analysis" /\ AnalysisPage(i).id = i
  /\ \A r \in Route : /\ r.page \in {"home", "job", "analysis"}
                      /\ r.page = "home" => r = Home
<1> USE DEF Route, Home, JobPage, AnalysisPage, Jobs!JobId, JobId
<1>1. Home \in Route /\ Home.page = "home"
  OBVIOUS
<1>2. \A j \in JobId : JobPage(j) \in Route /\ JobPage(j).page = "job" /\ JobPage(j).id = j
  OBVIOUS
<1>3. \A i \in Identity :
        AnalysisPage(i) \in Route /\ AnalysisPage(i).page = "analysis" /\ AnalysisPage(i).id = i
  OBVIOUS
<1>4. ASSUME NEW r \in Route
      PROVE  r.page \in {"home", "job", "analysis"} /\ (r.page = "home" => r = Home)
  OBVIOUS
<1> QED
  BY <1>1, <1>2, <1>3, <1>4

(* A call as it starts, and as it is over. *)
LEMMA CallStates ==
  /\ Over \in Call /\ CallFits(Over) /\ ~AsksHome(Over) /\ Leads(Over) = 0 /\ Over.pc = "done"
  /\ \A r \in Route :
       /\ Started(r) \in Call /\ CallFits(Started(r)) /\ ~AsksHome(Started(r))
       /\ Started(r).route = r /\ Started(r).pc # "done"
       /\ Leads(Started(r)) = IF r.page = "job" THEN 1 ELSE 0
<1>1. Over \in Call /\ Over.pc = "done" /\ Over.route = Home
  BY RouteKinds DEF Over, Call
<1>2. CallFits(Over) /\ ~AsksHome(Over) /\ Leads(Over) = 0
  BY <1>1 DEF CallFits, AsksHome, Leads
<1>3. ASSUME NEW r \in Route
      PROVE  /\ Started(r) \in Call /\ CallFits(Started(r)) /\ ~AsksHome(Started(r))
             /\ Started(r).route = r /\ Started(r).pc # "done"
             /\ Leads(Started(r)) = IF r.page = "job" THEN 1 ELSE 0
  <2>1. /\ Started(r) \in Call /\ Started(r).route = r
        /\ Started(r).pc = IF r = Home THEN "idle" ELSE "asking"
    BY DEF Started, Call
  <2> QED
    BY <2>1, RouteKinds DEF CallFits, AsksHome, Leads
<1> QED
  BY <1>1, <1>2, <1>3

(* A call that goes on to wait for something else. *)
LEMMA CallContinues ==
  ASSUME NEW c \in Call, NEW pc \in {"idle", "asking", "pausing", "done"}, NEW d,
         d = [c EXCEPT !.pc = pc]
  PROVE  d \in Call /\ d.pc = pc /\ d.route = c.route /\ d.wants = c.wants
BY DEF Call

(* The visits are finitely many, and so are the forms among them. *)
LEMMA AskedFinite ==
  ASSUME NEW f
  PROVE  IsFiniteSet(Asked(f)) /\ Cardinality(Asked(f)) \in Nat
<1>1. IsFiniteSet(Visit)
  <2>1. 2 * MaxActs + 1 \in Int /\ 0 \in Int
    BY PageAssumption
  <2> QED
    BY <2>1, FS_Interval DEF Visit
<1>2. Asked(f) \in SUBSET Visit
  BY DEF Asked
<1> QED
  BY <1>1, <1>2, FS_Subset, FS_CardinalityType

(* No form more is asked when each one asked was asked before. *)
LEMMA AskedShrinks ==
  ASSUME NEW f, NEW g, \A n \in Visit : AsksHome(g[n]) => AsksHome(f[n])
  PROVE  Cardinality(Asked(g)) <= Cardinality(Asked(f))
<1>1. Asked(g) \in SUBSET Asked(f)
  BY DEF Asked
<1> QED
  BY <1>1, AskedFinite, FS_Subset

(* A form that settles is one less. *)
LEMMA AskedSettles ==
  ASSUME NEW f, NEW g, NEW n \in Visit, AsksHome(f[n]), ~AsksHome(g[n]),
         \A m \in Visit \ {n} : g[m] = f[m]
  PROVE  Cardinality(Asked(g)) = Cardinality(Asked(f)) - 1
<1>1. Asked(g) = Asked(f) \ {n} /\ n \in Asked(f)
  BY DEF Asked
<1> QED
  BY <1>1, AskedFinite, FS_RemoveElement

(* A form that is sent is one more at most. *)
LEMMA AskedSends ==
  ASSUME NEW f, NEW g, NEW n \in Visit, \A m \in Visit \ {n} : g[m] = f[m]
  PROVE  Cardinality(Asked(g)) <= Cardinality(Asked(f)) + 1
<1>1. Asked(g) \in SUBSET (Asked(f) \cup {n})
  BY DEF Asked
<1>2. /\ IsFiniteSet(Asked(f) \cup {n})
      /\ Cardinality(Asked(f) \cup {n}) <= Cardinality(Asked(f)) + 1
      /\ Cardinality(Asked(f) \cup {n}) \in Nat
  <2>1. IsFiniteSet(Asked(f)) /\ Cardinality(Asked(f)) \in Nat
    BY AskedFinite
  <2>2. /\ IsFiniteSet(Asked(f) \cup {n})
        /\ Cardinality(Asked(f) \cup {n}) =
             IF n \in Asked(f) THEN Cardinality(Asked(f)) ELSE Cardinality(Asked(f)) + 1
    BY <2>1, FS_AddElement
  <2> QED
    BY <2>1, <2>2
<1>3. Cardinality(Asked(g)) <= Cardinality(Asked(f) \cup {n}) /\ Cardinality(Asked(g)) \in Nat
  BY <1>1, <1>2, AskedFinite, FS_Subset
<1> QED
  BY <1>2, <1>3, AskedFinite

(* The numbers of Paid are numbers. *)
LEMMA PaidInNat ==
  ASSUME TypeOK
  PROVE  /\ visit \in Nat /\ acts \in Nat /\ MaxActs \in Nat
         /\ Cardinality(Asked(call)) \in Nat
         /\ \A h, r : ToCome(h, r) \in 0..2
         /\ \A c : Leads(c) \in 0..1
BY PageAssumption, AskedFinite DEF TypeOK, Visit, ToCome, Leads

-----------------------------------------------------------------------------
(* The jobs. *)

(* A submission inserts one job, of its identity.                          *)
LEMMA SubmitFits ==
  ASSUME JobsFit, NEW i \in Identity, Jobs!Submit(i)
  PROVE  JobsFit'
<1>1. submitted \in Nat /\ MaxJobs \in Nat /\ submitted + 1 \in JobId
  BY PageAssumption DEF JobsFit, Jobs!Submit, JobId
<1>2. /\ submitted' = submitted + 1 /\ published' = published
      /\ identity' = [identity EXCEPT ![submitted + 1] = i]
      /\ status' = [status EXCEPT ![submitted + 1] = "queued"]
  BY DEF Jobs!Submit
<1>3. submitted' \in 0..MaxJobs
  BY <1>1, <1>2 DEF JobId
<1>4. /\ identity' \in [JobId -> Identity \cup {NULL}]
      /\ status' \in [JobId -> JobStatus]
  BY <1>1, <1>2 DEF JobsFit, JobStatus
<1>5. ASSUME NEW j \in JobId
      PROVE  /\ status'[j] # "none" <=> j <= submitted'
             /\ j <= submitted' => identity'[j] \in Identity
  <2>1. CASE j = submitted + 1
    BY <1>1, <1>2, <2>1 DEF JobsFit
  <2>2. CASE j # submitted + 1
    <3>1. j <= submitted' <=> j <= submitted
      BY <1>1, <1>2, <2>2 DEF JobId
    <3> QED
      BY <1>1, <1>2, <2>2, <3>1 DEF JobsFit
  <2> QED
    BY <2>1, <2>2
<1> QED
  BY <1>1, <1>2, <1>3, <1>4, <1>5 DEF JobsFit

(* Others submit, and the workers move the jobs. *)
LEMMA OthersFit ==
  ASSUME JobsFit, Others
  PROVE  JobsFit' /\ UNCHANGED <<pageVars, acts>>
<1> USE DEF JobsFit, JobStatus
<1>1. Jobs!JobId = JobId
  BY DEF Jobs!JobId, JobId
<1>2. ASSUME NEW j \in JobId, Jobs!Begin(j) PROVE JobsFit'
  BY <1>2 DEF Jobs!Begin
<1>3. ASSUME NEW j \in JobId, Jobs!GiveUp(j) PROVE JobsFit'
  BY <1>3 DEF Jobs!GiveUp
<1>4. ASSUME NEW j \in JobId, Jobs!Publish(j) PROVE JobsFit'
  BY <1>4 DEF Jobs!Publish
<1>5. ASSUME NEW S \in SUBSET JobId, Jobs!Return(S) PROVE JobsFit'
  <2>1. status' = [j \in JobId |->
                    IF j \notin S THEN status[j]
                    ELSE IF attempts[j] < MaxAttempts THEN "queued" ELSE "failed"]
    BY <1>1, <1>5 DEF Jobs!Return
  <2>2. \A j \in JobId : status'[j] \in JobStatus /\ (status'[j] # "none" <=> status[j] # "none")
    BY <1>5, <2>1 DEF Jobs!Return
  <2> QED
    BY <1>5, <2>1, <2>2 DEF Jobs!Return
<1>6. ASSUME NEW i \in Identity, Jobs!Submit(i) PROVE JobsFit'
  BY <1>6, SubmitFits
<1> QED
  BY <1>1, <1>2, <1>3, <1>4, <1>5, <1>6 DEF Others

-----------------------------------------------------------------------------
(* The route. *)

(* The first route and its call, with no act to pay for more than its      *)
(* job's analysis.                                                         *)
LEMMA InitIInv == Init => IInv
<1> SUFFICES ASSUME Init PROVE IInv
  OBVIOUS
<1>1. JobsFit
  BY PageAssumption DEF Init, Jobs!Init, Jobs!JobId, JobsFit, JobId, JobStatus
<1>2. 0 \in Visit /\ acts \in 0..MaxActs /\ visit = 0 /\ acts = 0
  BY PageAssumption DEF Init, Visit
<1>3. /\ call \in [Visit -> Call] /\ \A n \in Visit : CallFits(call[n]) /\ ~AsksHome(call[n])
      /\ call[0] = Started(hash) /\ hash \in Route /\ route = hash
  BY <1>2, CallStates DEF Init
<1>4. view \in View
  BY PageAssumption DEF Init, Blank, View
<1>5. TypeOK
  BY <1>2, <1>3, <1>4 DEF TypeOK
<1>6. CallsFit
  BY <1>2, <1>3, CallStates DEF CallsFit
<1>7. Paid
  <2>1. Asked(call) = {}
    BY <1>3 DEF Asked
  <2>2. Cardinality(Asked(call)) = 0 /\ ToCome(hash, route) = 0 /\ Leads(call[visit]) \in 0..1
    BY <1>3, <1>5, <2>1, FS_EmptySet, PaidInNat DEF ToCome
  <2> QED
    BY <1>2, <2>2 DEF Paid
<1>8. SettledPageShowsItsRoute
  BY <1>2, <1>3, CallStates DEF SettledPageShowsItsRoute
<1> QED
  BY <1>1, <1>5, <1>6, <1>7, <1>8 DEF IInv

(* A route is rendered: its visit was paid for, and what it leads to.      *)
LEMMA HashChangeIInv ==
  ASSUME IInv, HashChange
  PROVE  IInv'
<1>1. TypeOK /\ JobsFit /\ CallsFit /\ Paid /\ hash # route
  BY DEF IInv, HashChange
<1>2. /\ route' = hash /\ hash' = hash /\ acts' = acts /\ visit' = visit + 1 /\ UNCHANGED jobVars
      /\ call' = [call EXCEPT ![visit + 1] = Started(hash)]
      /\ view' = IF Kept(route, hash) THEN view ELSE Blank
  BY DEF HashChange
<1>3. visit \in Visit /\ hash \in Route /\ acts \in 0..MaxActs /\ call \in [Visit -> Call] /\ view \in View
  BY <1>1 DEF TypeOK
<1>4. ToCome(hash, route) = 1 + Leads(Started(hash))
  BY <1>1, <1>3, CallStates DEF ToCome
<1>5. Leads(Started(hash)) \in 0..1 /\ Leads(call[visit]) \in 0..1
  BY <1>1, PaidInNat
<1>6. visit + 1 + 2 * Cardinality(Asked(call)) + Leads(Started(hash)) <= 2 * acts + 1
  BY <1>1, <1>4, <1>5, PaidInNat DEF Paid
<1>7. visit + 1 \in Visit
  BY <1>1, <1>3, <1>5, <1>6, PaidInNat DEF Visit
<1>8. call' \in [Visit -> Call] /\ call'[visit'] = Started(hash) /\ \A n \in Visit : CallFits(call'[n])
  BY <1>1, <1>2, <1>3, <1>7, CallStates DEF CallsFit
<1>9. view' \in View
  BY <1>2, <1>3, PageAssumption DEF Blank, View
<1>10. TypeOK'
  BY <1>2, <1>3, <1>7, <1>8, <1>9 DEF TypeOK
<1>11. CallsFit'
  BY <1>2, <1>3, <1>8, CallStates DEF CallsFit
<1>12. Paid'
  <2>1. \A n \in Visit : AsksHome(call'[n]) => AsksHome(call[n])
    BY <1>2, <1>3, <1>7, CallStates
  <2>2. Cardinality(Asked(call')) <= Cardinality(Asked(call)) /\ Cardinality(Asked(call')) \in Nat
    BY <2>1, AskedShrinks, AskedFinite
  <2>3. ToCome(hash', route') = 0 /\ Leads(call'[visit']) = Leads(Started(hash))
    BY <1>2, <1>8 DEF ToCome
  <2>4. visit' + 2 * Cardinality(Asked(call')) + ToCome(hash', route') + Leads(call'[visit']) <= 2 * acts' + 1
    BY <1>1, <1>2, <1>5, <1>6, <2>2, <2>3, PaidInNat
  <2> QED
    BY <2>4 DEF Paid
<1>13. SettledPageShowsItsRoute'
  BY <1>3, <1>8, CallStates DEF SettledPageShowsItsRoute
<1>14. JobsFit'
  BY <1>1, <1>2 DEF JobsFit, jobVars
<1> QED
  BY <1>10, <1>11, <1>12, <1>13, <1>14 DEF IInv

(* The visitor goes elsewhere, with an act that pays for two visits.       *)
LEMMA GoIInv ==
  ASSUME IInv, Go
  PROVE  IInv'
<1>1. TypeOK /\ JobsFit /\ CallsFit /\ Paid /\ SettledPageShowsItsRoute
  BY DEF IInv
<1>2. acts < MaxActs /\ acts' = acts + 1 /\ hash' \in Route /\ UNCHANGED <<jobVars, route, visit, call, view>>
  BY DEF Go, Act
<1>3. acts' \in 0..MaxActs
  BY <1>1, <1>2, PaidInNat
<1>4. ToCome(hash, route) \in 0..2 /\ ToCome(hash', route') \in 0..2 /\ Leads(call[visit]) \in 0..1
  BY <1>1, PaidInNat
<1>5. Paid'
  <2>1. visit + 2 * Cardinality(Asked(call)) + ToCome(hash', route') + Leads(call[visit]) <= 2 * acts' + 1
    BY <1>1, <1>2, <1>4, PaidInNat DEF Paid
  <2> QED
    BY <1>2, <2>1 DEF Paid
<1> QED
  BY <1>1, <1>2, <1>3, <1>5 DEF IInv, TypeOK, JobsFit, jobVars, CallsFit, SettledPageShowsItsRoute

(* The tab begins anew. *)
LEMMA ReloadIInv ==
  ASSUME IInv, Reload
  PROVE  IInv'
<1>1. TypeOK /\ JobsFit /\ CallsFit /\ Paid
  BY DEF IInv
<1>2. /\ acts < MaxActs /\ acts' = acts + 1 /\ route' = hash /\ hash' = hash /\ visit' = visit + 1
      /\ call' = [n \in Visit |-> IF n = visit + 1 THEN Started(hash) ELSE Over]
      /\ view' = Blank /\ UNCHANGED jobVars
  BY DEF Reload, Act
<1>3. visit \in Visit /\ hash \in Route /\ acts \in 0..MaxActs
  BY <1>1 DEF TypeOK
<1>4. /\ ToCome(hash, route) \in 0..2 /\ Leads(call[visit]) \in 0..1 /\ Leads(Started(hash)) \in 0..1
      /\ acts' \in 0..MaxActs
  BY <1>1, <1>2, PaidInNat
<1>5. visit + 2 * Cardinality(Asked(call)) <= 2 * acts + 1
  BY <1>1, <1>4, PaidInNat DEF Paid
<1>6. visit + 1 \in Visit
  BY <1>1, <1>2, <1>5, PaidInNat DEF Visit
<1>7. /\ call' \in [Visit -> Call] /\ call'[visit'] = Started(hash)
      /\ \A n \in Visit : CallFits(call'[n]) /\ ~AsksHome(call'[n])
  BY <1>2, <1>3, <1>6, CallStates
<1>8. TypeOK'
  BY <1>2, <1>3, <1>4, <1>6, <1>7, PageAssumption DEF TypeOK, Blank, View
<1>9. CallsFit'
  BY <1>2, <1>3, <1>7, CallStates DEF CallsFit
<1>10. Paid'
  <2>1. Asked(call') = {}
    BY <1>7 DEF Asked
  <2>2. Cardinality(Asked(call')) = 0 /\ ToCome(hash', route') = 0 /\ Leads(call'[visit']) \in 0..1
    BY <1>2, <1>4, <1>7, <2>1, FS_EmptySet DEF ToCome
  <2>3. visit' + 2 * Cardinality(Asked(call')) + ToCome(hash', route') + Leads(call'[visit']) <= 2 * acts' + 1
    BY <1>1, <1>2, <1>5, <2>2, PaidInNat
  <2> QED
    BY <2>3 DEF Paid
<1>11. SettledPageShowsItsRoute'
  BY <1>3, <1>7, CallStates DEF SettledPageShowsItsRoute
<1>12. JobsFit'
  BY <1>1, <1>2 DEF JobsFit, jobVars
<1> QED
  BY <1>8, <1>9, <1>10, <1>11, <1>12 DEF IInv

-----------------------------------------------------------------------------
(* The calls. *)

(* A form is sent, with an act that pays for it.                           *)
LEMMA SubmitIInv ==
  ASSUME IInv, NEW i \in Identity, Submit(i)
  PROVE  IInv'
<1>1. TypeOK /\ JobsFit /\ CallsFit /\ Paid
  BY DEF IInv
<1>2. visit \in Visit /\ call \in [Visit -> Call] /\ view \in View /\ acts \in 0..MaxActs
  BY <1>1 DEF TypeOK
<1>3. PICK c \in Call : c = call[visit]
  BY <1>2
<1>4. PICK d : d = [c EXCEPT !.pc = "asking", !.wants = i]
  OBVIOUS
<1>5. d \in Call /\ d.pc = "asking" /\ d.wants = i /\ d.route = c.route
  BY <1>4 DEF Call
<1>6. /\ acts < MaxActs /\ acts' = acts + 1 /\ UNCHANGED <<jobVars, hash, route, visit>>
      /\ call' = [call EXCEPT ![visit] = d]
      /\ view' = [view EXCEPT !.error = "none"]
  BY <1>2, <1>3, <1>4 DEF Submit, Act
<1>7. call' \in [Visit -> Call] /\ call'[visit] = d /\ \A n \in Visit \ {visit} : call'[n] = call[n]
  BY <1>2, <1>5, <1>6
<1>8. acts' \in 0..MaxActs
  BY <1>1, <1>6, PaidInNat
<1>9. TypeOK'
  BY <1>1, <1>6, <1>7, <1>8 DEF TypeOK, View
<1>10. CallsFit'
  BY <1>1, <1>3, <1>5, <1>6, <1>7 DEF CallsFit, CallFits
<1>11. Paid'
  <2>1. Cardinality(Asked(call')) <= Cardinality(Asked(call)) + 1 /\ Cardinality(Asked(call')) \in Nat
    BY <1>2, <1>7, AskedSends, AskedFinite
  <2>2. /\ ToCome(hash, route) \in 0..2 /\ Leads(call[visit]) \in 0..1 /\ Leads(call'[visit]) \in 0..1
        /\ (AsksHome(d) => Leads(d) = 0)
    BY <1>1, PaidInNat DEF AsksHome, Leads
  <2>3. ~AsksHome(d) => Cardinality(Asked(call')) <= Cardinality(Asked(call))
    BY <1>7, AskedShrinks
  <2>4. visit' + 2 * Cardinality(Asked(call')) + ToCome(hash', route') + Leads(call'[visit']) <= 2 * acts' + 1
    BY <1>1, <1>6, <1>7, <2>1, <2>2, <2>3, PaidInNat DEF Paid
  <2> QED
    BY <2>4 DEF Paid
<1>12. SettledPageShowsItsRoute'
  BY <1>5, <1>6, <1>7 DEF SettledPageShowsItsRoute
<1>13. JobsFit'
  BY <1>1, <1>6 DEF JobsFit, jobVars
<1> QED
  BY <1>9, <1>10, <1>11, <1>12, <1>13 DEF IInv

(* What a step of call n to c must see to: that it is paid for by a form   *)
(* that settles or by a job's page that ends, and that a view that settles *)
(* shows its route.                                                        *)
PaysItself(n, c) ==
  /\ AsksHome(c) => AsksHome(call[n])
  /\ \/ hash' = hash /\ (n = visit => Leads(c) <= Leads(call[n]))
     \/ AsksHome(call[n]) /\ ~AsksHome(c) /\ Leads(c) = 0
     \/ n = visit /\ Leads(call[n]) = 1 /\ Leads(c) = 0 /\ hash'.page # "job"

(* A step of one call keeps all that is true.                              *)
LEMMA CallStepIInv ==
  ASSUME IInv, JobsFit', NEW n \in Visit, NEW c \in Call, CallFits(c), PaysItself(n, c),
         call' = [call EXCEPT ![n] = c],
         n = visit => c.route = route,
         UNCHANGED <<route, visit, acts>>, hash' \in Route, view' \in View,
         SettledPageShowsItsRoute'
  PROVE  IInv'
<1>1. TypeOK /\ CallsFit /\ Paid
  BY DEF IInv
<1>2. visit \in Visit /\ call \in [Visit -> Call]
  BY <1>1 DEF TypeOK
<1>3. call' \in [Visit -> Call] /\ call'[n] = c /\ \A m \in Visit \ {n} : call'[m] = call[m]
  BY <1>2
<1>4. TypeOK'
  BY <1>1, <1>3 DEF TypeOK
<1>5. CallsFit'
  BY <1>1, <1>2, <1>3 DEF CallsFit
<1>6. /\ Cardinality(Asked(call')) <= Cardinality(Asked(call)) /\ Cardinality(Asked(call')) \in Nat
      /\ AsksHome(call[n]) /\ ~AsksHome(c) => Cardinality(Asked(call')) = Cardinality(Asked(call)) - 1
  <2>1. \A m \in Visit : AsksHome(call'[m]) => AsksHome(call[m])
    BY <1>3 DEF PaysItself
  <2> QED
    BY <1>3, <2>1, AskedShrinks, AskedSettles, AskedFinite
<1>7. /\ ToCome(hash, route) \in 0..2 /\ ToCome(hash', route) \in 0..2
      /\ Leads(call[visit]) \in 0..1 /\ Leads(call'[visit]) \in 0..1
  BY <1>1, PaidInNat
<1>8. visit + 2 * Cardinality(Asked(call')) + ToCome(hash', route) + Leads(call'[visit]) <= 2 * acts + 1
  <2>1. CASE hash' = hash /\ (n = visit => Leads(c) <= Leads(call[n]))
    <3>1. Leads(call'[visit]) <= Leads(call[visit])
      BY <1>2, <1>3, <1>7, <2>1
    <3> QED
      BY <1>1, <1>6, <1>7, <2>1, <3>1, PaidInNat DEF Paid
  <2>2. CASE AsksHome(call[n]) /\ ~AsksHome(c) /\ Leads(c) = 0
    <3>1. Leads(call'[visit]) <= Leads(call[visit])
      BY <1>2, <1>3, <1>7, <2>2
    <3> QED
      BY <1>1, <1>6, <1>7, <2>2, <3>1, PaidInNat DEF Paid
  <2>3. CASE n = visit /\ Leads(call[n]) = 1 /\ Leads(c) = 0 /\ hash'.page # "job"
    <3>1. ToCome(hash', route) <= 1 /\ ToCome(hash, route) >= 0
      BY <1>7, <2>3 DEF ToCome
    <3> QED
      BY <1>1, <1>3, <1>6, <1>7, <2>3, <3>1, PaidInNat DEF Paid
  <2> QED
    BY <2>1, <2>2, <2>3 DEF PaysItself
<1>9. Paid'
  BY <1>8 DEF Paid
<1> QED
  BY <1>4, <1>5, <1>9 DEF IInv

(* A call of a view that is gone ends, and nothing else happens. *)
LEMMA LeftCallEnds ==
  ASSUME IInv, NEW n \in Visit, n # visit, Ended(n),
         UNCHANGED <<jobVars, hash, view, route, visit, acts>>
  PROVE  IInv'
<1>1. TypeOK /\ JobsFit /\ CallsFit /\ SettledPageShowsItsRoute
  BY DEF IInv
<1>2. JobsFit' /\ hash' \in Route /\ view' \in View
  BY <1>1 DEF TypeOK, JobsFit, jobVars
<1>3. call' = [call EXCEPT ![n] = Over]
  BY DEF Ended
<1>4. call'[visit] = call[visit]
  BY <1>1, <1>3 DEF TypeOK
<1>5. SettledPageShowsItsRoute'
  BY <1>1, <1>4 DEF SettledPageShowsItsRoute
<1>6. PaysItself(n, Over)
  BY CallStates DEF PaysItself
<1> QED
  BY <1>2, <1>3, <1>5, <1>6, CallStates, CallStepIInv

(* A call that goes on is of the route it was started for. *)
LEMMA CallGoesOn ==
  ASSUME TypeOK, NEW n \in Visit, NEW pc \in {"idle", "asking", "pausing", "done"}, Continues(n, pc)
  PROVE  \E c \in Call :
           /\ call' = [call EXCEPT ![n] = c]
           /\ c.pc = pc /\ c.route = call[n].route /\ c.wants = call[n].wants
<1>1. call[n] \in Call
  BY DEF TypeOK
<1>2. PICK c : c = [call[n] EXCEPT !.pc = pc]
  OBVIOUS
<1>3. c \in Call /\ c.pc = pc /\ c.route = call[n].route /\ c.wants = call[n].wants
  BY <1>1, <1>2, CallContinues
<1>4. call' = [call EXCEPT ![n] = c]
  BY <1>2 DEF Continues, TypeOK
<1> QED
  BY <1>3, <1>4

(* A poll's answer: the page of the job that succeeded gives way to its    *)
(* analysis, which was to come.                                            *)
LEMMA PollAnsweredIInv ==
  ASSUME IInv, NEW n \in Visit, PollAnswered(n)
  PROVE  IInv'
<1>1. TypeOK /\ JobsFit /\ CallsFit /\ UNCHANGED <<jobVars, route, visit, acts>>
  BY DEF IInv, PollAnswered
<1>2. JobsFit'
  BY <1>1 DEF JobsFit, jobVars
<1>3. PICK j \in JobId :
        /\ j \in 1..submitted /\ call[n].route = JobPage(j)
        /\ IF Live(n)
           THEN view' = [view EXCEPT !.job = JobView(j)] /\ PollSettles(n, j)
           ELSE Ended(n) /\ UNCHANGED <<hash, view>>
  BY DEF PollAnswered, JobFound, JobRow, Jobs!JobId, JobId
<1>4. CASE ~Live(n)
  BY <1>1, <1>3, <1>4, LeftCallEnds DEF Live
<1>5. CASE Live(n)
  <2>1. n = visit /\ route = JobPage(j) /\ call[n].pc = "asking" /\ Leads(call[n]) = 1
    BY <1>1, <1>3, <1>5, RouteKinds DEF Live, CallsFit, PollAnswered, Asking, Leads
  <2>2. JobView(j) \in [id : 0..MaxJobs, status : JobStatus] /\ JobView(j).id = j /\ JobView(j).status = status[j]
    BY <1>1 DEF JobView, JobsFit, JobId
  <2>3. view' \in View /\ view'.job = JobView(j)
    <3>1. PICK v : v = JobView(j)
      OBVIOUS
    <3>2. view' = [view EXCEPT !.job = v] /\ v \in [id : 0..MaxJobs, status : JobStatus]
      BY <1>3, <1>5, <2>2, <3>1
    <3> QED
      BY <1>1, <3>1, <3>2 DEF TypeOK, View, JobStatus
  <2>4. identity[j] \in Identity
    BY <1>1, <1>3 DEF JobsFit
  <2>5. CASE status[j] \in {"succeeded", "failed"}
    <3>1. PICK c \in Call : /\ call' = [call EXCEPT ![n] = c]
                            /\ c.pc = "done" /\ c.route = call[n].route
      BY <1>1, <1>3, <1>5, <2>5, CallGoesOn DEF PollSettles
    <3>2. hash' = hash \/ hash' = AnalysisPage(identity[j])
      BY <1>3, <1>5, <2>5 DEF PollSettles, Navigate
    <3>3. hash' \in Route /\ (hash' = hash \/ hash'.page # "job")
      BY <1>1, <2>4, <3>2, RouteKinds DEF TypeOK
    <3>4. CallFits(c) /\ PaysItself(n, c)
      BY <2>1, <3>1, <3>3 DEF CallFits, PaysItself, AsksHome, Leads
    <3>5. SettledPageShowsItsRoute'
      BY <1>1, <2>1, <2>2, <2>3, <2>5, RouteKinds DEF SettledPageShowsItsRoute
    <3> QED
      BY <1>1, <1>2, <1>3, <2>1, <2>3, <3>1, <3>3, <3>4, <3>5, CallStepIInv
  <2>6. CASE status[j] \notin {"succeeded", "failed"}
    <3>1. PICK c \in Call : /\ call' = [call EXCEPT ![n] = c]
                            /\ c.pc = "pausing" /\ c.route = call[n].route
      BY <1>1, <1>3, <1>5, <2>6, CallGoesOn DEF PollSettles
    <3>2. hash' = hash
      BY <1>3, <1>5, <2>6 DEF PollSettles
    <3>3. CallFits(c) /\ PaysItself(n, c)
      BY <1>3, <2>1, <3>1, <3>2, RouteKinds DEF CallFits, PaysItself, AsksHome, Leads
    <3>4. call'[visit'].pc = "pausing"
      BY <1>1, <2>1, <3>1 DEF TypeOK
    <3>5. SettledPageShowsItsRoute'
      BY <3>4 DEF SettledPageShowsItsRoute
    <3>6. hash' \in Route
      BY <1>1, <3>2 DEF TypeOK
    <3> QED
      BY <1>1, <1>2, <1>3, <2>1, <2>3, <3>1, <3>3, <3>5, <3>6, CallStepIInv
  <2> QED
    BY <2>5, <2>6
<1> QED
  BY <1>4, <1>5

(* The live call of a job or an analysis comes to its end.                 *)
LEMMA LiveCallEnds ==
  ASSUME IInv, UNCHANGED <<jobVars, hash, route, visit, acts>>, Continues(visit, "done"),
         view' \in View, SettledPageShowsItsRoute'
  PROVE  IInv'
<1>1. TypeOK /\ JobsFit /\ CallsFit /\ visit \in Visit
  BY DEF IInv, TypeOK
<1>2. PICK c \in Call : call' = [call EXCEPT ![visit] = c] /\ c.pc = "done" /\ c.route = call[visit].route
  BY <1>1, CallGoesOn
<1>3. CallFits(c) /\ PaysItself(visit, c)
  <2>1. Leads(c) = 0 /\ Leads(call[visit]) \in 0..1 /\ ~AsksHome(c)
    BY <1>1, <1>2, PaidInNat DEF Leads, AsksHome
  <2> QED
    BY <1>2, <2>1 DEF CallFits, PaysItself
<1>4. JobsFit' /\ hash' \in Route /\ c.route = route
  BY <1>1, <1>2 DEF JobsFit, jobVars, TypeOK, CallsFit
<1> QED
  BY <1>1, <1>2, <1>3, <1>4, CallStepIInv

(* A poll that fails: an error, or nothing to see. *)
LEMMA PollFailsIInv ==
  ASSUME IInv, NEW n \in Visit, PollFails(n)
  PROVE  IInv'
<1>1. TypeOK /\ UNCHANGED <<jobVars, hash, route, visit, acts>>
  BY DEF IInv, PollFails
<1>2. CASE ~Live(n)
  BY <1>1, <1>2, LeftCallEnds DEF Live, PollFails
<1>3. CASE Live(n)
  <2>1. n = visit /\ view' = [view EXCEPT !.error = "lost"] /\ Continues(visit, "done")
    BY <1>3 DEF Live, PollFails
  <2>2. view' \in View /\ view'.error = "lost"
    BY <1>1, <2>1 DEF TypeOK, View
  <2>3. SettledPageShowsItsRoute'
    BY <2>2 DEF SettledPageShowsItsRoute
  <2> QED
    BY <1>1, <2>1, <2>2, <2>3, LiveCallEnds
<1> QED
  BY <1>2, <1>3

(* A pause ends in the next poll, whoever still waits for it. *)
LEMMA PauseEndsIInv ==
  ASSUME IInv, NEW n \in Visit, PauseEnds(n)
  PROVE  IInv'
<1>1. TypeOK /\ JobsFit /\ CallsFit /\ SettledPageShowsItsRoute
      /\ UNCHANGED <<jobVars, hash, route, visit, view, acts>>
  BY DEF IInv, PauseEnds
<1>2. call[n].pc = "pausing" /\ call[n].route.page = "job"
  BY <1>1 DEF PauseEnds, CallsFit, CallFits
<1>3. PICK c \in Call : call' = [call EXCEPT ![n] = c] /\ c.pc = "asking" /\ c.route = call[n].route
  BY <1>1, CallGoesOn DEF PauseEnds
<1>4. CallFits(c) /\ PaysItself(n, c)
  BY <1>1, <1>2, <1>3 DEF CallFits, PaysItself, AsksHome, Leads
<1>5. JobsFit' /\ hash' \in Route /\ view' \in View /\ (n = visit => c.route = route)
  BY <1>1, <1>3 DEF JobsFit, jobVars, TypeOK, CallsFit
<1>6. SettledPageShowsItsRoute'
  <2>1. CASE n = visit
    <3>1. call'[visit'].pc = "asking"
      BY <1>1, <1>3, <2>1 DEF TypeOK
    <3> QED
      BY <3>1 DEF SettledPageShowsItsRoute
  <2>2. CASE n # visit
    <3>1. call'[visit'] = call[visit]
      BY <1>1, <1>3, <2>2 DEF TypeOK
    <3> QED
      BY <1>1, <3>1 DEF SettledPageShowsItsRoute
  <2> QED
    BY <2>1, <2>2
<1> QED
  BY <1>1, <1>3, <1>4, <1>5, <1>6, CallStepIInv

(* The document that a live call sets is the one of its route. *)
LEMMA LoadAnsweredIInv ==
  ASSUME IInv, NEW n \in Visit, LoadAnswered(n)
  PROVE  IInv'
<1>1. TypeOK /\ JobsFit /\ CallsFit /\ UNCHANGED <<jobVars, hash, route, visit, acts>>
  BY DEF IInv, LoadAnswered
<1>2. CASE ~Live(n)
  BY <1>1, <1>2, LeftCallEnds DEF Live, LoadAnswered
<1>3. CASE Live(n)
  <2>1. /\ n = visit /\ view' = [view EXCEPT !.document = route.id] /\ Continues(visit, "done")
        /\ route.page = "analysis" /\ route.id \in published
    BY <1>1, <1>3 DEF Live, LoadAnswered, Asking, AnalysisFound, AnalysisRow, CallsFit
  <2>2. view' \in View /\ view'.document = route.id
    BY <1>1, <2>1 DEF TypeOK, View, JobsFit
  <2>3. SettledPageShowsItsRoute'
    BY <1>1, <2>1, <2>2 DEF SettledPageShowsItsRoute
  <2> QED
    BY <1>1, <2>1, <2>2, <2>3, LiveCallEnds
<1> QED
  BY <1>2, <1>3

(* An analysis that cannot be read: an error, or nothing to see. *)
LEMMA LoadFailsIInv ==
  ASSUME IInv, NEW n \in Visit, LoadFails(n)
  PROVE  IInv'
<1>1. TypeOK /\ UNCHANGED <<jobVars, hash, route, visit, acts>>
  BY DEF IInv, LoadFails
<1>2. CASE ~Live(n)
  BY <1>1, <1>2, LeftCallEnds DEF Live, LoadFails
<1>3. CASE Live(n)
  <2>1. n = visit /\ view' = [view EXCEPT !.error = "missing"] /\ Continues(visit, "done")
    BY <1>3 DEF Live, LoadFails
  <2>2. view' \in View /\ view'.error = "missing"
    BY <1>1, <2>1 DEF TypeOK, View
  <2>3. SettledPageShowsItsRoute'
    BY <2>2 DEF SettledPageShowsItsRoute
  <2> QED
    BY <1>1, <2>1, <2>2, <2>3, LiveCallEnds
<1> QED
  BY <1>2, <1>3

-----------------------------------------------------------------------------
(* The form's answers. *)

(* A form that settles pays for the page it leads to. *)
LEMMA FormIInv ==
  ASSUME IInv, JobsFit', NEW n \in Visit, AsksHome(call[n]), FormSettles(n),
         UNCHANGED <<route, visit, acts>>, hash' \in Route,
         view' \in View, view' = view \/ n = visit
  PROVE  IInv'
<1>1. TypeOK /\ CallsFit /\ SettledPageShowsItsRoute
  BY DEF IInv
<1>2. call[n].route = Home
  BY <1>1, RouteKinds DEF TypeOK, Call, AsksHome
<1>3. PICK c : c = IF n = visit THEN Started(Home) ELSE Over
  OBVIOUS
<1>4. call' = [call EXCEPT ![n] = c]
  BY <1>3 DEF FormSettles, Live
<1>5. c \in Call /\ CallFits(c) /\ ~AsksHome(c) /\ Leads(c) = 0 /\ (n = visit => c.pc # "done" /\ c.route = Home)
  BY <1>3, CallStates, RouteKinds
<1>6. PaysItself(n, c)
  BY <1>5 DEF PaysItself
<1>7. n = visit => c.route = route
  BY <1>1, <1>2, <1>5 DEF CallsFit
<1>8. SettledPageShowsItsRoute'
  <2>1. CASE n = visit
    <3>1. call'[visit'].pc # "done"
      BY <1>1, <1>4, <1>5, <2>1 DEF TypeOK
    <3> QED
      BY <3>1 DEF SettledPageShowsItsRoute
  <2>2. CASE n # visit
    <3>1. call'[visit'] = call[visit]
      BY <1>1, <1>4, <2>2 DEF TypeOK
    <3> QED
      BY <1>1, <2>2, <3>1 DEF SettledPageShowsItsRoute
  <2> QED
    BY <2>1, <2>2
<1> QED
  BY <1>4, <1>5, <1>6, <1>7, <1>8, CallStepIInv

(* The page goes to the analysis, or to the job that was made or joined. *)
LEMMA SubmitAnsweredIInv ==
  ASSUME IInv, NEW n \in Visit, SubmitAnswered(n)
  PROVE  IInv'
<1>1. TypeOK /\ JobsFit /\ CallsFit /\ AsksHome(call[n]) /\ FormSettles(n) /\ UNCHANGED <<route, visit, view, acts>>
  BY DEF IInv, SubmitAnswered, Asking, AsksHome
<1>2. PICK i \in Identity : i = call[n].wants
  BY <1>1 DEF CallsFit, CallFits
<1>3. Jobs!JobId = JobId
  BY DEF Jobs!JobId, JobId
<1>4. JobsFit' /\ hash' \in Route
  <2>1. CASE hash' = AnalysisPage(i) /\ UNCHANGED jobVars
    BY <1>1, <2>1, RouteKinds DEF JobsFit, jobVars
  <2>2. CASE \E j \in JobId : hash' = JobPage(j) /\ (Jobs!Submit(i) \/ UNCHANGED jobVars)
    <3>1. JobsFit'
      <4>1. CASE Jobs!Submit(i)
        BY <1>1, <4>1, SubmitFits
      <4>2. CASE UNCHANGED jobVars
        BY <1>1, <4>2 DEF JobsFit, jobVars
      <4> QED
        BY <2>2, <4>1, <4>2
    <3> QED
      BY <2>2, <3>1, RouteKinds
  <2> QED
    BY <1>2, <1>3, <2>1, <2>2 DEF SubmitAnswered, Navigate
<1>5. view' \in View
  BY <1>1 DEF TypeOK
<1> QED
  BY <1>1, <1>4, <1>5, FormIInv

(* A submission that fails, its job made or not. *)
LEMMA SubmitFailsIInv ==
  ASSUME IInv, NEW n \in Visit, SubmitFails(n)
  PROVE  IInv'
<1>1. TypeOK /\ JobsFit /\ CallsFit /\ AsksHome(call[n]) /\ FormSettles(n) /\ UNCHANGED <<hash, route, visit, acts>>
  BY DEF IInv, SubmitFails, Asking, AsksHome
<1>2. PICK i \in Identity : i = call[n].wants
  BY <1>1 DEF CallsFit, CallFits
<1>3. JobsFit'
  <2>1. CASE UNCHANGED jobVars
    BY <1>1, <2>1 DEF JobsFit, jobVars
  <2>2. CASE Jobs!Submit(i)
    BY <1>1, <2>2, SubmitFits
  <2> QED
    BY <1>2, <2>1, <2>2 DEF SubmitFails
<1>4. view' \in View /\ (view' = view \/ n = visit)
  <2>1. view' = [view EXCEPT !.error = "refused"] => view' \in View
    BY <1>1 DEF TypeOK, View
  <2> QED
    BY <1>1, <2>1 DEF SubmitFails, Live, TypeOK
<1>5. hash' \in Route
  BY <1>1 DEF TypeOK
<1> QED
  BY <1>1, <1>3, <1>4, <1>5, FormIInv

-----------------------------------------------------------------------------
(* Every step pays for its visits and settles on its route.                *)
LEMMA StepIInv == IInv /\ [Next]_vars => IInv'
<1> SUFFICES ASSUME IInv, [Next]_vars PROVE IInv'
  OBVIOUS
<1>1. CASE HashChange
  BY <1>1, HashChangeIInv
<1>2. CASE Go
  BY <1>2, GoIInv
<1>3. CASE Reload
  BY <1>3, ReloadIInv
<1>4. ASSUME NEW i \in Identity, Submit(i) PROVE IInv'
  BY <1>4, SubmitIInv
<1>5. CASE SubmitNothing
  <2>1. view' \in View /\ view'.error = "input" /\ UNCHANGED <<jobVars, hash, route, visit, call, acts>>
    BY <1>5 DEF SubmitNothing, IInv, TypeOK, View
  <2> QED
    BY <2>1 DEF IInv, TypeOK, JobsFit, jobVars, CallsFit, Paid, SettledPageShowsItsRoute
<1>6. ASSUME NEW n \in Visit, CallStep(n) PROVE IInv'
  BY <1>6, PollAnsweredIInv, PollFailsIInv, PauseEndsIInv, LoadAnsweredIInv, LoadFailsIInv,
     SubmitAnsweredIInv, SubmitFailsIInv DEF CallStep
<1>7. CASE Others
  BY <1>7, OthersFit DEF IInv, TypeOK, pageVars, CallsFit, Paid, SettledPageShowsItsRoute
<1>8. CASE UNCHANGED vars
  BY <1>8 DEF vars, jobVars, pageVars, IInv, TypeOK, JobsFit, CallsFit, Paid, SettledPageShowsItsRoute
<1> QED
  BY <1>1, <1>2, <1>3, <1>4, <1>5, <1>6, <1>7, <1>8 DEF Next

(* The tab is in order in every state.                                     *)
LEMMA PageInvariance == Spec => []IInv
<1> QED
  BY InitIInv, StepIInv, PTL DEF Spec

(* Every reachable state of the tab is well typed: in particular no act of *)
(* the visitor leads to more than two routes.                              *)
THEOREM PageTypeCorrect == Spec => []TypeOK
<1>1. IInv => TypeOK
  BY DEF IInv
<1> QED
  BY <1>1, PageInvariance, PTL

(* Each act of the visitor leads to two routes at most, and the start to   *)
(* one more: answers and hash changes never feed each other.               *)
THEOREM TwoRoutesPerAct == Spec => [](visit <= 2 * acts + 1)
<1>1. IInv => visit <= 2 * acts + 1
  BY PaidInNat DEF IInv, Paid
<1> QED
  BY <1>1, PageInvariance, PTL

(* A view that has settled without an error shows what its route names,    *)
(* whatever answers to calls of earlier routes are still on their way.     *)
THEOREM PageShowsItsRoute == Spec => []SettledPageShowsItsRoute
<1>1. IInv => SettledPageShowsItsRoute
  BY DEF IInv
<1> QED
  BY <1>1, PageInvariance, PTL

(* A step of a job's call whose page was left moves nothing on screen.     *)
LEMMA LeftJobMovesNothing ==
  ASSUME TypeOK, [Next]_vars, NEW n \in Visit, n # visit,
         call[n].route.page = "job", call'[n] # call[n]
  PROVE  \/ visit' # visit
         \/ UNCHANGED <<hash, view>> /\ (call[n].pc = "asking" => call'[n].pc = "done")
<1>1. visit \in Nat /\ call \in [Visit -> Call]
  BY PaidInNat DEF TypeOK
<1>2. CASE HashChange \/ Reload
  BY <1>1, <1>2 DEF HashChange, Reload
<1>3. CASE Go \/ SubmitNothing \/ Others \/ UNCHANGED vars
  BY <1>3 DEF Go, SubmitNothing, Others, pageVars, vars
<1>4. ASSUME NEW i \in Identity, Submit(i) PROVE FALSE
  BY <1>1, <1>4 DEF Submit
<1>5. ASSUME NEW m \in Visit, CallStep(m)
      PROVE  UNCHANGED <<hash, view>> /\ (call[n].pc = "asking" => call'[n].pc = "done")
  <2>1. m = n
    <3>1. \E c : call' = [call EXCEPT ![m] = c]
      BY <1>5 DEF CallStep, PollAnswered, PollFails, PauseEnds, LoadAnswered, LoadFails,
                  SubmitAnswered, SubmitFails, PollSettles, Continues, Ended, FormSettles
    <3> QED
      BY <1>1, <3>1
  <2>2. ~Live(n) /\ ~Asking(n, "home") /\ ~Asking(n, "analysis")
    BY DEF Live, Asking
  <2>3. PollAnswered(n) \/ PollFails(n) \/ PauseEnds(n)
    BY <1>5, <2>1, <2>2 DEF CallStep, LoadAnswered, LoadFails, SubmitAnswered, SubmitFails
  <2>4. Ended(n) => call'[n].pc = "done"
    BY <1>1, CallStates DEF Ended
  <2> QED
    BY <2>2, <2>3, <2>4 DEF PollAnswered, PollFails, PauseEnds
<1> QED
  BY <1>2, <1>3, <1>4, <1>5 DEF Next

(* A job's page that was left neither moves the tab nor writes into it.    *)
THEOREM LeftJobsStayOut == Spec => LeftJobStaysOut
<1>1. IInv /\ [Next]_vars =>
        [\A n \in Visit : n # visit /\ call[n].route.page = "job" /\ call'[n] # call[n] =>
           \/ visit' # visit
           \/ /\ UNCHANGED <<hash, view>>
              /\ call[n].pc = "asking" => call'[n].pc = "done"]_vars
  BY LeftJobMovesNothing DEF IInv
<1> QED
  BY <1>1, PageInvariance, PTL DEF Spec, LeftJobStaysOut

-----------------------------------------------------------------------------
(* The jobs behind the page. *)

Lifecycle == INSTANCE JobLifecycleProofs

(* A call reads the rows or submits one job, of its own identity; no step  *)
(* of the page moves a job.                                                *)
LEMMA LifecycleStep ==
  ASSUME IInv, [Next]_vars
  PROVE  [Jobs!Next]_(Jobs!vars)
<1>1. CASE UNCHANGED jobVars
  BY <1>1 DEF jobVars, Jobs!vars
<1>2. ASSUME NEW n \in Visit, SubmitAnswered(n) \/ SubmitFails(n)
      PROVE  [Jobs!Next]_(Jobs!vars)
  <2>1. call[n].wants \in Identity
    BY <1>2 DEF IInv, CallsFit, CallFits, AsksHome, SubmitAnswered, SubmitFails, Asking
  <2>2. Jobs!Submit(call[n].wants) \/ UNCHANGED jobVars
    BY <1>2 DEF SubmitAnswered, SubmitFails
  <2> QED
    BY <1>1, <2>1, <2>2 DEF Jobs!Next
<1>3. CASE Others
  BY <1>3 DEF Others, Jobs!Next
<1>4. ASSUME NEW n \in Visit, CallStep(n)
      PROVE  UNCHANGED jobVars \/ SubmitAnswered(n) \/ SubmitFails(n)
  BY <1>4 DEF CallStep, PollAnswered, PollFails, PauseEnds, LoadAnswered, LoadFails
<1>5. CASE Next
  BY <1>1, <1>2, <1>3, <1>4, <1>5 DEF Next, HashChange, Go, Reload, Submit, SubmitNothing
<1> QED
  BY <1>1, <1>5 DEF vars

(* The page among all who submit and work implements JobLifecycle.         *)
THEOREM PageImplementsLifecycle == Spec => Jobs!Spec
<1>1. Init => Jobs!Init
  BY DEF Init
<1>2. IInv /\ [Next]_vars => [Jobs!Next]_(Jobs!vars)
  BY LifecycleStep
<1> QED
  BY <1>1, <1>2, PageInvariance, PTL DEF Spec, Jobs!Spec

(* So the promises of JobLifecycle are kept to the page. *)
LEMMA PromisesToThePage == Spec => []Lifecycle!Inv
<1>1. Jobs!Init <=> Lifecycle!Init
  BY DEF Jobs!Init, Lifecycle!Init, Jobs!JobId, Lifecycle!JobId
<1>2. [Jobs!Next]_(Jobs!vars) <=> [Lifecycle!Next]_(Lifecycle!vars)
  BY DEF Jobs!Next, Jobs!vars, Jobs!JobId, Jobs!Live,
         Jobs!Submit, Jobs!Begin, Jobs!GiveUp, Jobs!Publish, Jobs!Return,
         Lifecycle!Next, Lifecycle!vars, Lifecycle!JobId, Lifecycle!Live,
         Lifecycle!Submit, Lifecycle!Begin, Lifecycle!GiveUp, Lifecycle!Publish, Lifecycle!Return
<1>3. MaxJobs \in Nat
  BY PageAssumption
<1> QED
  BY <1>1, <1>2, <1>3, PageImplementsLifecycle, Lifecycle!PromisesAreKept, PTL
     DEF Jobs!Spec, Lifecycle!Spec

(* What a hash names is in the tables as a step leaves them. *)
Found(h) ==
  /\ h.page = "job" => h.id \in 1..submitted'
  /\ h.page = "analysis" => h.id \in published'

(* A poll leads to the analysis of a job that succeeded: it is published.  *)
LEMMA PollLeads ==
  ASSUME IInv, Lifecycle!Inv, NEW n \in Visit, PollAnswered(n), hash' # hash
  PROVE  Found(hash')
<1>1. PICK j \in JobId : j \in 1..submitted /\ status[j] = "succeeded" /\ hash' = AnalysisPage(identity[j])
  BY DEF PollAnswered, PollSettles, JobFound, JobRow, Navigate, Jobs!JobId, JobId
<1>2. identity[j] \in published /\ identity[j] \in Identity
  BY <1>1 DEF IInv, JobsFit, JobId, Lifecycle!Inv, Lifecycle!SucceededArePublished, Lifecycle!JobId
<1>3. published' = published
  BY DEF PollAnswered, jobVars
<1> QED
  BY <1>1, <1>2, <1>3, RouteKinds DEF Found

(* A submission leads to a published analysis or to a job that has a row.  *)
LEMMA FormLeads ==
  ASSUME IInv, NEW n \in Visit, SubmitAnswered(n)
  PROVE  Found(hash')
<1>1. TypeOK /\ JobsFit /\ call[n].wants \in Identity
  BY DEF IInv, CallsFit, CallFits, AsksHome, SubmitAnswered, Asking
<1>2. CASE call[n].wants \in published /\ hash' = AnalysisPage(call[n].wants) /\ UNCHANGED jobVars
  BY <1>1, <1>2, RouteKinds DEF Found, jobVars
<1>3. ASSUME NEW j \in JobId, hash' = JobPage(j), j \in 1..submitted'
      PROVE  Found(hash')
  BY <1>3, RouteKinds DEF Found
<1>4. ASSUME NEW j \in JobId, Jobs!Submit(call[n].wants), j = submitted + 1
      PROVE  j \in 1..submitted'
  BY <1>1, <1>4 DEF Jobs!Submit, JobsFit, JobId
<1>5. ASSUME NEW j \in JobId, Jobs!Live(j), UNCHANGED jobVars
      PROVE  j \in 1..submitted'
  <2>1. status[j] # "none"
    BY <1>5 DEF Jobs!Live
  <2>2. j <= submitted /\ submitted \in Nat /\ j \in Nat /\ j >= 1
    BY <1>1, <2>1 DEF JobsFit, JobId
  <2> QED
    BY <1>5, <2>2 DEF jobVars
<1> QED
  BY <1>2, <1>3, <1>4, <1>5 DEF SubmitAnswered, Navigate, Jobs!JobId, JobId

(* The page never takes its visitor to what is not there: its own steps    *)
(* name rows that the API has just answered with, and those of succeeded   *)
(* jobs have an analysis by the promises of the queue.                     *)
THEOREM PageLeadsToWhatIsThere == Spec => PageLeadsSomewhere
<1>1. ASSUME IInv, Lifecycle!Inv, Next, hash' # hash, acts' = acts
      PROVE  Found(hash')
  <2>1. acts \in Nat
    BY <1>1, PaidInNat DEF IInv
  <2>2. PICK n \in Visit : CallStep(n)
    BY <1>1, <2>1 DEF Next, HashChange, Go, Reload, Submit, SubmitNothing, Others, Act, pageVars
  <2>3. PollAnswered(n) \/ SubmitAnswered(n)
    BY <1>1, <2>2 DEF CallStep, PollFails, PauseEnds, LoadAnswered, LoadFails, SubmitFails
  <2> QED
    BY <1>1, <2>3, PollLeads, FormLeads
<1>2. IInv /\ Lifecycle!Inv /\ [Next]_vars
        => [hash' # hash /\ acts' = acts =>
              /\ hash'.page = "job" => hash'.id \in 1..submitted'
              /\ hash'.page = "analysis" => hash'.id \in published']_vars
  BY <1>1 DEF Found
<1> QED
  BY <1>2, PageInvariance, PromisesToThePage, PTL DEF Spec, PageLeadsSomewhere
=============================================================================
