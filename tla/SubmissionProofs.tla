--------------------------- MODULE SubmissionProofs ---------------------------
(***************************************************************************)
(* Proofs about Submission.  A handler that stands at enqueue has its      *)
(* replay stored, one that knows a job knows one of its identity, and the  *)
(* counter of a window counts the submissions it admitted: never too many, *)
(* and never too few while the window is open for all instances.           *)
(***************************************************************************)
EXTENDS Submission, FiniteSetTheorems, TLAPS

JobId == 1..MaxJobs
JobStatus == {"none", "queued", "running", "succeeded", "failed"}

(* The tables jobs and analyses, and the replays of the jobs. *)
JobsFit ==
  /\ submitted \in 0..MaxJobs
  /\ identity \in [JobId -> Identity \cup {NULL}]
  /\ status \in [JobId -> JobStatus]
  /\ published \subseteq Identity
  /\ \A j \in JobId : status[j] # "none" <=> j <= submitted
  /\ \A j \in JobId : j <= submitted => identity[j] \in Identity

ReplaysKept == \A j \in JobId : j <= submitted => identity[j].replayId \in replays

(* What a handler knows, in terms of the tables. *)
Fits(h) ==
  /\ h.pc # "idle" => /\ h.at \in Instance /\ h.client \in Client
                      /\ h.identity \in Identity /\ h.window <= clock[h.at]
  /\ h.pc = "idle" => h.window = 0 /\ h.at = NULL
  /\ h.pc \in {"idle", "cache", "consume"} => ~h.unit
  /\ h.pc # "done" => h.answer = 0
  /\ h.pc \notin {"launch", "done"} => h.job = 0 /\ h.made = 0
  /\ h.pc = "launch" => h.job # 0
  /\ h.job # 0 => h.job <= submitted /\ identity[h.job] = h.identity /\ h.answer \in {0, 202}
  /\ h.made # 0 => h.made <= submitted /\ identity[h.made] = h.identity /\ h.answer \in {0, 202, 500}
  /\ h.answer = 202 => h.job # 0
  /\ h.answer = 200 => h.identity \in published
  /\ h.pc = "enqueue" => h.identity.replayId \in replays

(* The limiter has turned the request down. *)
Refused(h) == (h.pc = "sweep" /\ ~h.unit) \/ h.answer = 429

(* Admitted, of any function from Request to Handler. *)
Units(f, c, w) == {q \in Request : f[q].unit /\ f[q].client = c /\ f[q].window = w}

(* The counter of a window against what it admitted. *)
Counted ==
  /\ \A c \in Client, w \in Window :
       /\ count[<<c, w>>] <= Cardinality(Units(request, c, w))
       /\ (\A n \in Instance : clock[n] <= w) => Cardinality(Units(request, c, w)) <= count[<<c, w>>]
  /\ \A r \in Request : Refused(request[r]) =>
       Cardinality(Units(request, request[r].client, request[r].window)) >= Limit

HandlersFit == \A r \in Request : Fits(request[r])

IInv == TypeOK /\ JobsFit /\ ReplaysKept /\ HandlersFit /\ Counted

(* What grows, in every step. *)
Grows ==
  /\ submitted <= submitted'
  /\ \A j \in JobId : j <= submitted => identity'[j] = identity[j]
  /\ published \subseteq published'
  /\ replays \subseteq replays'
  /\ clock' \in [Instance -> Window] /\ \A n \in Instance : clock[n] <= clock'[n]

-----------------------------------------------------------------------------
(* The jobs. *)

(* A step that leaves the tables alone leaves what is true of them. *)
LEMMA SameJobs ==
  ASSUME JobsFit, UNCHANGED jobVars
  PROVE  JobsFit' /\ submitted <= submitted' /\ UNCHANGED <<submitted, identity, published>>
BY DEF JobsFit, jobVars

(* enqueue inserts a job of the identity with the next number.             *)
LEMMA SubmitFits ==
  ASSUME JobsFit, NEW i \in Identity, Jobs!Submit(i)
  PROVE  /\ JobsFit' /\ submitted' = submitted + 1 /\ submitted' \in JobId
         /\ \A j \in JobId : j <= submitted => identity'[j] = identity[j]
         /\ identity'[submitted'] = i /\ published' = published
<1>1. submitted \in Nat /\ MaxJobs \in Nat /\ submitted + 1 \in JobId
  BY SubmissionAssumption DEF JobsFit, Jobs!Submit, JobId
<1>2. /\ submitted' = submitted + 1 /\ published' = published
      /\ identity' = [identity EXCEPT ![submitted + 1] = i]
      /\ status' = [status EXCEPT ![submitted + 1] = "queued"]
  BY DEF Jobs!Submit
<1>3. submitted' \in 0..MaxJobs
  BY <1>1, <1>2 DEF JobId
<1>4. /\ identity' \in [JobId -> Identity \cup {NULL}]
      /\ status' \in [JobId -> JobStatus]
  BY <1>1, <1>2 DEF JobsFit, JobStatus
<1>5. ASSUME NEW j \in JobId
      PROVE  /\ status'[j] # "none" <=> j <= submitted'
             /\ j <= submitted' => identity'[j] \in Identity
             /\ j <= submitted => identity'[j] = identity[j]
  <2>1. CASE j = submitted + 1
    BY <1>1, <1>2, <2>1 DEF JobsFit
  <2>2. CASE j # submitted + 1
    <3>1. j <= submitted' <=> j <= submitted
      BY <1>1, <1>2, <2>2 DEF JobId
    <3> QED
      BY <1>1, <1>2, <2>2, <3>1 DEF JobsFit
  <2> QED
    BY <2>1, <2>2
<1>6. identity'[submitted'] = i
  BY <1>1, <1>2 DEF JobsFit
<1> QED
  BY <1>1, <1>2, <1>3, <1>4, <1>5, <1>6 DEF JobsFit

(* The workers change neither a job's number nor its identity.             *)
LEMMA WorkFits ==
  ASSUME JobsFit, Work
  PROVE  JobsFit' /\ UNCHANGED <<submitted, identity>> /\ published \subseteq published'
<1> USE DEF JobsFit, JobStatus
<1>1. Jobs!JobId = JobId
  BY DEF Jobs!JobId, JobId
<1>2. ASSUME NEW j \in JobId, Jobs!Begin(j)
      PROVE  JobsFit' /\ UNCHANGED <<submitted, identity>> /\ published \subseteq published'
  BY <1>2 DEF Jobs!Begin
<1>3. ASSUME NEW j \in JobId, Jobs!GiveUp(j)
      PROVE  JobsFit' /\ UNCHANGED <<submitted, identity>> /\ published \subseteq published'
  BY <1>3 DEF Jobs!GiveUp
<1>4. ASSUME NEW j \in JobId, Jobs!Publish(j)
      PROVE  JobsFit' /\ UNCHANGED <<submitted, identity>> /\ published \subseteq published'
  BY <1>4 DEF Jobs!Publish
<1>5. ASSUME NEW S \in SUBSET JobId, Jobs!Return(S)
      PROVE  JobsFit' /\ UNCHANGED <<submitted, identity>> /\ published \subseteq published'
  <2>1. status' = [j \in JobId |->
                    IF j \notin S THEN status[j]
                    ELSE IF attempts[j] < MaxAttempts THEN "queued" ELSE "failed"]
    BY <1>1, <1>5 DEF Jobs!Return
  <2>2. \A j \in JobId : status'[j] \in JobStatus /\ (status'[j] # "none" <=> status[j] # "none")
    BY <1>5, <2>1 DEF Jobs!Return
  <2> QED
    BY <1>5, <2>1, <2>2 DEF Jobs!Return
<1> QED
  BY <1>1, <1>2, <1>3, <1>4, <1>5 DEF Work

-----------------------------------------------------------------------------
(* The handlers. *)

(* What a handler knows stays true while the tables grow.                  *)
LEMMA FitsStays ==
  ASSUME TypeOK, JobsFit, JobsFit', Grows, NEW h \in Handler, Fits(h)
  PROVE  Fits(h)'
<1>1. ASSUME NEW j \in {h.job, h.made}, j # 0 PROVE j <= submitted' /\ identity'[j] = h.identity
  <2>1. j \in JobId /\ j <= submitted /\ identity[j] = h.identity
    BY <1>1, SubmissionAssumption DEF Handler, Fits, JobId
  <2>2. submitted \in Nat /\ submitted' \in Nat /\ submitted <= submitted'
    BY SubmissionAssumption DEF JobsFit, Grows
  <2> QED
    BY <2>1, <2>2 DEF Grows, JobId
<1>2. ASSUME h.pc # "idle" PROVE h.window <= clock'[h.at]
  <2>1. h.at \in Instance /\ h.window <= clock[h.at] /\ clock[h.at] <= clock'[h.at]
    BY <1>2 DEF Fits, Grows
  <2>2. h.window \in Nat /\ clock[h.at] \in Nat /\ clock'[h.at] \in Nat
    BY <2>1, SubmissionAssumption DEF TypeOK, Grows, Handler, Window
  <2> QED
    BY <2>1, <2>2
<1> QED
  BY <1>1, <1>2 DEF Fits, Grows

(* A step of one handler, given what it comes to, leaves all handlers with *)
(* what is true.                                                           *)
LEMMA HandlersStay ==
  ASSUME TypeOK, JobsFit, HandlersFit, JobsFit', Grows, NEW r \in Request, NEW h \in Handler,
         request' = [request EXCEPT ![r] = h], Fits(h)'
  PROVE  request' \in [Request -> Handler] /\ HandlersFit'
<1>1. request' \in [Request -> Handler]
  BY DEF TypeOK
<1>2. ASSUME NEW q \in Request PROVE Fits(request[q])'
  <2>1. CASE q = r
    BY <2>1 DEF TypeOK
  <2>2. CASE q # r
    <3>1. PICK k \in Handler : k = request[q]
      BY DEF TypeOK
    <3>2. Fits(k)
      BY <3>1 DEF HandlersFit
    <3>3. Fits(k)'
      BY <3>2, FitsStays
    <3>4. request'[q] = k
      BY <2>2, <3>1 DEF TypeOK
    <3> QED
      BY <3>3, <3>4
  <2> QED
    BY <2>1, <2>2
<1> QED
  BY <1>1, <1>2 DEF HandlersFit

(* The handlers stay true while only the tables grow. *)
LEMMA HandlersRest ==
  ASSUME TypeOK, JobsFit, HandlersFit, JobsFit', Grows, request' = request
  PROVE  HandlersFit'
<1> SUFFICES ASSUME NEW q \in Request PROVE Fits(request[q])'
  BY DEF HandlersFit
<1>1. PICK k \in Handler : k = request[q]
  BY DEF TypeOK
<1>2. Fits(k)'
  BY <1>1, FitsStays DEF HandlersFit
<1> QED
  BY <1>1, <1>2

-----------------------------------------------------------------------------
(* The counters. *)

(* A handler keeps the unit it has, with its client and window. *)
Keeps(h, k) == k.unit = h.unit /\ (h.unit => k.client = h.client /\ k.window = h.window)

(* Handlers that keep their units keep those of every window. *)
LEMMA UnitsStay ==
  ASSUME NEW f, NEW g, \A q \in Request : Keeps(f[q], g[q])
  PROVE  \A c, w : Units(g, c, w) = Units(f, c, w)
BY DEF Keeps, Units

(* A window admits finitely many requests. *)
LEMMA UnitsAreFinite ==
  ASSUME NEW f, NEW c, NEW w
  PROVE  IsFiniteSet(Units(f, c, w)) /\ Cardinality(Units(f, c, w)) \in Nat
<1>1. Units(f, c, w) \subseteq Request
  BY DEF Units
<1> QED
  BY <1>1, SubmissionAssumption, FS_Subset, FS_CardinalityType

(* Counters stay true when no unit is handed out and no row of a window is *)
(* deleted that is open for all.                                           *)
LEMMA CountedStays ==
  ASSUME TypeOK, Counted,
         \A c \in Client, w \in Window :
           \/ count'[<<c, w>>] = count[<<c, w>>]
           \/ count'[<<c, w>>] = 0 /\ ~\A n \in Instance : clock[n] <= w,
         clock' \in [Instance -> Window], \A n \in Instance : clock[n] <= clock'[n],
         \A q \in Request : Keeps(request[q], request'[q]),
         \A q \in Request : Refused(request'[q]) =>
           /\ Refused(request[q])
           /\ request'[q].client = request[q].client /\ request'[q].window = request[q].window
  PROVE  Counted'
<1>1. \A c, w : Units(request', c, w) = Units(request, c, w)
  BY UnitsStay
<1>2. ASSUME NEW w \in Window, \A n \in Instance : clock'[n] <= w
      PROVE  \A n \in Instance : clock[n] <= w
  <2> SUFFICES ASSUME NEW n \in Instance PROVE clock[n] <= w
    OBVIOUS
  <2>1. clock[n] \in Nat /\ clock'[n] \in Nat /\ w \in Nat
    BY SubmissionAssumption DEF TypeOK, Window
  <2> QED
    BY <1>2, <2>1
<1>3. ASSUME NEW q \in Request, Refused(request'[q])
      PROVE  Cardinality(Units(request', request'[q].client, request'[q].window)) >= Limit
  BY <1>1, <1>3 DEF Counted
<1>4. ASSUME NEW c \in Client, NEW w \in Window
      PROVE  /\ count'[<<c, w>>] <= Cardinality(Units(request', c, w))
             /\ (\A n \in Instance : clock'[n] <= w) =>
                  Cardinality(Units(request', c, w)) <= count'[<<c, w>>]
  <2>1. Cardinality(Units(request, c, w)) \in Nat
    BY UnitsAreFinite
  <2>2. Units(request', c, w) = Units(request, c, w)
    BY <1>1
  <2>3. /\ count[<<c, w>>] <= Cardinality(Units(request, c, w))
        /\ (\A n \in Instance : clock[n] <= w) => Cardinality(Units(request, c, w)) <= count[<<c, w>>]
    BY DEF Counted
  <2> QED
    BY <1>2, <2>1, <2>2, <2>3
<1> QED
  BY <1>3, <1>4 DEF Counted

-----------------------------------------------------------------------------
(* The steps of a handler that hand out no unit. *)

(* A handler that goes on, or is answered, keeps all it knows.             *)
Same(h, k) ==
  /\ k.at = h.at /\ k.client = h.client /\ k.identity = h.identity /\ k.window = h.window
  /\ k.unit = h.unit /\ k.job = h.job /\ k.made = h.made

(* What a handler is at its next await. *)
LEMMA GoToIs ==
  ASSUME NEW h \in Handler, NEW k, 
         NEW pc \in {"sweep", "replay", "fetch", "body", "keep", "enqueue", "launch", "done"},
         k = GoTo(h, pc)
  PROVE  k \in Handler /\ Same(h, k) /\ k.pc = pc /\ k.answer = h.answer /\ Keeps(h, k)
<1>1. k \in Handler
  BY DEF GoTo, Handler
<1>2. Same(h, k) /\ k.pc = pc /\ k.answer = h.answer
  BY DEF GoTo, Handler, Same
<1> QED
  BY <1>1, <1>2 DEF Same, Keeps

(* What a handler is once it has answered. *)
LEMMA ReplyIs ==
  ASSUME NEW h \in Handler, NEW k, NEW code \in {200, 202, 404, 413, 422, 429, 500, 502, 504},
         k = Reply(h, code)
  PROVE  k \in Handler /\ Same(h, k) /\ k.pc = "done" /\ k.answer = code /\ Keeps(h, k)
<1>1. k \in Handler
  <2>1. code \in {0, 200, 202, 404, 413, 422, 429, 500, 502, 504}
    OBVIOUS
  <2>2. PICK g : g = [h EXCEPT !.pc = "done"]
    OBVIOUS
  <2>3. g \in Handler
    BY <2>2 DEF Handler
  <2>4. k = [g EXCEPT !.answer = code]
    BY <2>2 DEF Reply, Handler
  <2> QED
    BY <2>1, <2>3, <2>4 DEF Handler
<1>2. Same(h, k) /\ k.pc = "done" /\ k.answer = code
  BY DEF Reply, Handler, Same
<1> QED
  BY <1>1, <1>2 DEF Same, Keeps

(* One handler moves, the tables may grow. *)
LEMMA QuietStep ==
  ASSUME IInv, JobsFit', ReplaysKept', replays' \subseteq Replay, Grows, UNCHANGED limitVars,
         NEW r \in Request, NEW h \in Handler, request' = [request EXCEPT ![r] = h], Fits(h)',
         Keeps(request[r], h),
         Refused(h) => /\ Refused(request[r])
                       /\ h.client = request[r].client /\ h.window = request[r].window
  PROVE  IInv'
<1>1. TypeOK /\ JobsFit /\ HandlersFit /\ Counted
  BY DEF IInv
<1>2. request' \in [Request -> Handler] /\ HandlersFit'
  BY <1>1, HandlersStay
<1>3. TypeOK'
  BY <1>1, <1>2 DEF TypeOK, JobsFit, limitVars
<1>4. \A q \in Request : q # r => request'[q] = request[q]
  BY <1>1 DEF TypeOK
<1>5. request'[r] = h
  BY <1>1 DEF TypeOK
<1>6. \A q \in Request : Keeps(request[q], request'[q])
  BY <1>4, <1>5 DEF Keeps
<1>7. \A q \in Request : Refused(request'[q]) =>
        /\ Refused(request[q])
        /\ request'[q].client = request[q].client /\ request'[q].window = request[q].window
  BY <1>4, <1>5
<1>8. Counted'
  BY <1>1, <1>6, <1>7, CountedStays DEF limitVars, Grows
<1> QED
  BY <1>2, <1>3, <1>8 DEF IInv

(* Tables that stay as they are grow, in the sense of Grows. *)
LEMMA TablesRest ==
  ASSUME TypeOK, JobsFit, ReplaysKept, UNCHANGED <<jobVars, replays, clock>>
  PROVE  Grows /\ JobsFit' /\ ReplaysKept' /\ replays' \subseteq Replay
<1>1. JobsFit' /\ UNCHANGED <<submitted, identity, published>>
  BY SameJobs
<1>2. submitted <= submitted /\ \A n \in Instance : clock[n] <= clock[n]
  BY SubmissionAssumption DEF JobsFit, TypeOK, Window
<1> QED
  BY <1>1, <1>2 DEF Grows, ReplaysKept, TypeOK

(* One handler moves, the tables stay as they are. *)
LEMMA StillStep ==
  ASSUME IInv, UNCHANGED <<jobVars, replays, limitVars>>,
         NEW r \in Request, NEW h \in Handler, request' = [request EXCEPT ![r] = h], Fits(h),
         Keeps(request[r], h), ~Refused(h)
  PROVE  IInv'
<1>1. Grows /\ JobsFit' /\ ReplaysKept' /\ replays' \subseteq Replay
  BY TablesRest DEF IInv, limitVars
<1>2. Fits(h)'
  BY <1>1, FitsStays DEF IInv
<1> QED
  BY <1>1, <1>2, QuietStep

(* A handler gives up. *)
Errors == {404, 413, 422, 500, 502, 504}
Fails(r) == \E code \in Errors : request' = [request EXCEPT ![r] = Reply(@, code)]

(* A classified refusal, or an unclassified error.                         *)
LEMMA ReplyStep ==
  ASSUME IInv, UNCHANGED <<jobVars, replays, limitVars>>, NEW r \in Request,
         request[r].pc \in {"cache", "consume", "sweep", "replay", "fetch", "body", "keep", "enqueue"},
         Fails(r)
  PROVE  IInv'
<1>0. PICK code \in Errors : request' = [request EXCEPT ![r] = Reply(@, code)]
  BY DEF Fails
<1>0a. code \in {404, 413, 422, 500, 502, 504}
  BY DEF Errors
<1>1. PICK k \in Handler : k = request[r] /\ Fits(k)
  BY DEF IInv, TypeOK, HandlersFit
<1>2. PICK h : h = Reply(k, code)
  OBVIOUS
<1>3. h \in Handler /\ Same(k, h) /\ h.pc = "done" /\ h.answer = code /\ Keeps(k, h)
  BY <1>0a, <1>2, ReplyIs
<1>4. Fits(h) /\ ~Refused(h)
  BY <1>0a, <1>1, <1>3 DEF Same, Fits, Refused
<1>5. request' = [request EXCEPT ![r] = h]
  BY <1>0, <1>1, <1>2
<1> QED
  BY <1>1, <1>3, <1>4, <1>5, StillStep

(* A handler goes on with its replay.                                      *)
LEMMA GoStep ==
  ASSUME IInv, UNCHANGED <<jobVars, replays, limitVars>>, NEW r \in Request,
         request[r].pc \in {"replay", "fetch", "body"},
         NEW pc \in {"fetch", "body", "keep", "enqueue"},
         pc = "enqueue" => request[r].identity.replayId \in replays,
         request' = [request EXCEPT ![r] = GoTo(@, pc)]
  PROVE  IInv'
<1>1. PICK k \in Handler : k = request[r] /\ Fits(k)
  BY DEF IInv, TypeOK, HandlersFit
<1>2. PICK h : h = GoTo(k, pc)
  OBVIOUS
<1>3. h \in Handler /\ Same(k, h) /\ h.pc = pc /\ h.answer = k.answer /\ Keeps(k, h)
  BY <1>2, GoToIs
<1>4. Fits(h) /\ ~Refused(h)
  BY <1>1, <1>3 DEF Same, Fits, Refused
<1>5. request' = [request EXCEPT ![r] = h]
  BY <1>1, <1>2
<1> QED
  BY <1>1, <1>3, <1>4, <1>5, StillStep

(* A request starts with what the server knows of it. *)
LEMMA ReceiveStep ==
  ASSUME IInv, NEW r \in Request, NEW n \in Instance, NEW c \in Client, NEW submit \in Asked,
         Receive(r, n, c, submit)
  PROVE  IInv'
<1>1. PICK k \in Handler : k = request[r] /\ Fits(k)
  BY DEF IInv, TypeOK, HandlersFit
<1>2. PICK i : i = DeriveIdentity(submit, BuildOf[n])
  OBVIOUS
<1>3. i \in Identity
  BY <1>2 DEF Identity
<1>4. PICK h : h = [k EXCEPT !.pc = "cache", !.at = n, !.client = c, !.identity = i]
  OBVIOUS
<1>5. k.pc = "idle" /\ request' = [request EXCEPT ![r] = h] /\ UNCHANGED <<jobVars, replays, limitVars>>
  BY <1>1, <1>2, <1>4 DEF Receive
<1>6. h \in Handler
  <2>1. PICK a : a = [k EXCEPT !.pc = "cache"]
    OBVIOUS
  <2>2. PICK b : b = [a EXCEPT !.at = n]
    OBVIOUS
  <2>3. PICK d : d = [b EXCEPT !.client = c]
    OBVIOUS
  <2>4. h = [d EXCEPT !.identity = i]
    BY <1>4, <2>1, <2>2, <2>3 DEF Handler
  <2>5. a \in Handler
    BY <2>1 DEF Handler
  <2>6. b \in Handler
    BY <2>2, <2>5 DEF Handler
  <2>7. d \in Handler
    BY <2>3, <2>6 DEF Handler
  <2> QED
    BY <1>3, <2>4, <2>7 DEF Handler
<1>6a. /\ h.pc = "cache" /\ h.at = n /\ h.client = c /\ h.identity = i /\ h.window = k.window
       /\ h.unit = k.unit /\ h.job = k.job /\ h.made = k.made /\ h.answer = k.answer
  BY <1>1, <1>4 DEF Handler
<1>7. k.window <= clock[n]
  <2>1. clock[n] \in Nat /\ k.window = 0
    BY <1>1, <1>5, SubmissionAssumption DEF IInv, TypeOK, Window, Fits
  <2> QED
    BY <2>1
<1>8. Keeps(k, h) /\ ~Refused(h) /\ Fits(h)
  BY <1>1, <1>3, <1>5, <1>6a, <1>7 DEF Fits, Keeps, Refused
<1> QED
  BY <1>1, <1>5, <1>6, <1>8, StillStep

(* A hit is answered, a miss goes on with the window of now. *)
LEMMA ReadCacheStep ==
  ASSUME IInv, NEW r \in Request, ReadCache(r)
  PROVE  IInv'
<1>1. PICK k \in Handler : k = request[r] /\ Fits(k) /\ k.pc = "cache"
  BY DEF IInv, TypeOK, HandlersFit, ReadCache
<1>2. UNCHANGED <<jobVars, replays, limitVars>>
  BY DEF ReadCache
<1>3. CASE k.identity \in published
  <2>1. PICK h : h = Reply(k, 200)
    OBVIOUS
  <2>2. h \in Handler /\ Same(k, h) /\ h.pc = "done" /\ h.answer = 200 /\ Keeps(k, h)
    BY <2>1, ReplyIs
  <2>3. Fits(h) /\ ~Refused(h)
    BY <1>1, <1>3, <2>2 DEF Same, Fits, Refused
  <2>4. request' = [request EXCEPT ![r] = h]
    BY <1>1, <1>3, <2>1 DEF ReadCache
  <2> QED
    BY <1>1, <1>2, <2>2, <2>3, <2>4, StillStep
<1>4. CASE k.identity \notin published
  <2>1. k.at \in Instance /\ clock[k.at] \in Window /\ clock[k.at] <= clock[k.at] /\ ~k.unit
    <3>1. k.at \in Instance /\ clock[k.at] \in Window /\ ~k.unit
      BY <1>1 DEF Fits, IInv, TypeOK
    <3> QED
      BY <3>1, SubmissionAssumption DEF Window
  <2>2. PICK h : h = [GoTo(k, "consume") EXCEPT !.window = clock[k.at]]
    OBVIOUS
  <2>3. h = [k EXCEPT !.pc = "consume", !.window = clock[k.at]]
    BY <2>2 DEF GoTo
  <2>4. h \in Handler
    <3>1. PICK g : g = [k EXCEPT !.pc = "consume"]
      OBVIOUS
    <3>2. h = [g EXCEPT !.window = clock[k.at]]
      BY <2>3, <3>1 DEF Handler
    <3>3. g \in Handler
      BY <3>1 DEF Handler
    <3> QED
      BY <2>1, <3>2, <3>3 DEF Handler
  <2>4a. /\ h.pc = "consume" /\ h.window = clock[k.at] /\ h.at = k.at /\ h.client = k.client
         /\ h.identity = k.identity /\ h.unit = k.unit /\ h.job = k.job /\ h.made = k.made
         /\ h.answer = k.answer
    BY <1>1, <2>3 DEF Handler
  <2>5. Fits(h) /\ Keeps(k, h) /\ ~Refused(h)
    BY <1>1, <2>1, <2>4a DEF Fits, Keeps, Refused
  <2>6. request' = [request EXCEPT ![r] = h]
    BY <1>1, <1>4, <2>2 DEF ReadCache
  <2> QED
    BY <1>1, <1>2, <2>4, <2>5, <2>6, StillStep
<1> QED
  BY <1>3, <1>4

(* The answer names the job, whatever the launch came to. *)
LEMMA LaunchStep ==
  ASSUME IInv, NEW r \in Request, Launch(r)
  PROVE  IInv'
<1>1. PICK k \in Handler : k = request[r] /\ Fits(k) /\ k.pc = "launch"
  BY DEF IInv, TypeOK, HandlersFit, Launch
<1>2. PICK h : h = Reply(k, 202)
  OBVIOUS
<1>3. h \in Handler /\ Same(k, h) /\ h.pc = "done" /\ h.answer = 202 /\ Keeps(k, h)
  BY <1>2, ReplyIs
<1>4. Fits(h) /\ ~Refused(h)
  BY <1>1, <1>3 DEF Same, Fits, Refused
<1>5. request' = [request EXCEPT ![r] = h] /\ UNCHANGED <<jobVars, replays, limitVars>>
  BY <1>1, <1>2 DEF Launch
<1> QED
  BY <1>1, <1>3, <1>4, <1>5, StillStep

-----------------------------------------------------------------------------
(* The steps that change the tables. *)

(* The replay an identity names is one that a client may name. *)
LEMMA IdentitiesHaveReplays ==
  ASSUME NEW i \in Identity
  PROVE  i.replayId \in Replay
<1>1. PICK submit \in Asked, n \in Instance : i = DeriveIdentity(submit, BuildOf[n])
  BY DEF Identity
<1>2. submit.replayId \in Replay
  BY SubmissionAssumption DEF SubmitRequest
<1> QED
  BY <1>1, <1>2 DEF DeriveIdentity

(* The replay is stored, and the handler that stored it goes on.           *)
LEMMA KeepReplayStep ==
  ASSUME IInv, NEW r \in Request, KeepReplay(r)
  PROVE  IInv'
<1>1. PICK k \in Handler : k = request[r] /\ Fits(k) /\ k.pc = "keep"
  BY DEF IInv, TypeOK, HandlersFit, KeepReplay
<1>2. PICK h : h = GoTo(k, "enqueue")
  OBVIOUS
<1>3. h \in Handler /\ Same(k, h) /\ h.pc = "enqueue" /\ h.answer = k.answer /\ Keeps(k, h)
  BY <1>2, GoToIs
<1>4. /\ request' = [request EXCEPT ![r] = h] /\ UNCHANGED <<jobVars, limitVars>>
      /\ replays' = replays \cup {k.identity.replayId}
  BY <1>1, <1>2 DEF KeepReplay
<1>5. k.identity.replayId \in Replay
  BY <1>1, IdentitiesHaveReplays DEF Fits
<1>6. JobsFit' /\ submitted <= submitted' /\ UNCHANGED <<submitted, identity, published>>
  BY <1>4, SameJobs DEF IInv
<1>7. \A n \in Instance : clock[n] <= clock[n]
  BY SubmissionAssumption DEF IInv, TypeOK, Window
<1>8. Grows /\ ReplaysKept' /\ replays' \subseteq Replay
  BY <1>4, <1>5, <1>6, <1>7 DEF Grows, IInv, TypeOK, ReplaysKept, limitVars
<1>9. Fits(k)'
  BY <1>1, <1>6, <1>8, FitsStays DEF IInv
<1>10. Fits(h)' /\ ~Refused(h)
  BY <1>1, <1>3, <1>4, <1>9 DEF Same, Fits, Refused
<1> QED
  BY <1>1, <1>3, <1>4, <1>6, <1>8, <1>10, QuietStep

(* A new job of the handler's identity, whether the handler hears of it or *)
(* not.                                                                    *)
LEMMA InsertsStep ==
  ASSUME IInv, NEW r \in Request, request[r].pc = "enqueue",
         NEW j, Inserts(request[r].identity, j), UNCHANGED <<replays, limitVars>>,
         \/ request' = [request EXCEPT ![r] = [GoTo(@, "launch") EXCEPT !.job = j, !.made = j]]
         \/ request' = [request EXCEPT ![r] = [Reply(@, 500) EXCEPT !.made = j]]
  PROVE  IInv'
<1>1. PICK k \in Handler : k = request[r] /\ Fits(k) /\ k.pc = "enqueue"
  BY DEF IInv, TypeOK, HandlersFit
<1>2. k.identity \in Identity
  BY <1>1 DEF Fits
<1>3. Jobs!Submit(k.identity) /\ j = submitted + 1
  BY <1>1 DEF Inserts
<1>4. /\ JobsFit' /\ submitted' = submitted + 1 /\ submitted' \in JobId
      /\ \A i \in JobId : i <= submitted => identity'[i] = identity[i]
      /\ identity'[submitted'] = k.identity /\ published' = published
  BY <1>2, <1>3, SubmitFits DEF IInv
<1>5. submitted \in Nat /\ submitted' \in Nat /\ j \in 1..MaxJobs /\ j # 0 /\ j = submitted'
  BY <1>3, <1>4, SubmissionAssumption DEF IInv, JobsFit, JobId
<1>6. \A n \in Instance : clock[n] <= clock[n]
  BY SubmissionAssumption DEF IInv, TypeOK, Window
<1>7. Grows
  BY <1>4, <1>5, <1>6 DEF Grows, IInv, TypeOK, limitVars
<1>8. ReplaysKept'
  <2> SUFFICES ASSUME NEW i \in JobId, i <= submitted' PROVE identity'[i].replayId \in replays
    BY DEF ReplaysKept
  <2>1. CASE i <= submitted
    BY <1>4, <2>1 DEF IInv, ReplaysKept
  <2>2. CASE ~(i <= submitted)
    <3>1. i = submitted'
      BY <1>4, <1>5, <2>2 DEF JobId
    <3> QED
      BY <1>1, <1>4, <3>1 DEF Fits
  <2> QED
    BY <2>1, <2>2
<1>9. replays' \subseteq Replay
  BY DEF IInv, TypeOK
<1>10. Fits(k)'
  BY <1>1, <1>4, <1>7, FitsStays DEF IInv
<1>11. CASE request' = [request EXCEPT ![r] = [GoTo(@, "launch") EXCEPT !.job = j, !.made = j]]
  <2>1. PICK g : g = GoTo(k, "launch")
    OBVIOUS
  <2>2. g \in Handler /\ Same(k, g) /\ g.pc = "launch" /\ g.answer = k.answer
    BY <2>1, GoToIs
  <2>3. PICK d : d = [g EXCEPT !.job = j]
    OBVIOUS
  <2>4. PICK h : h = [d EXCEPT !.made = j]
    OBVIOUS
  <2>5. d \in Handler
    BY <1>5, <2>2, <2>3 DEF Handler
  <2>6. h \in Handler
    BY <1>5, <2>4, <2>5 DEF Handler
  <2>7. /\ h.at = k.at /\ h.client = k.client /\ h.identity = k.identity /\ h.window = k.window
        /\ h.unit = k.unit /\ h.job = j /\ h.made = j /\ h.pc = "launch" /\ h.answer = k.answer
    BY <2>2, <2>3, <2>4, <2>5 DEF Handler, Same
  <2>8. h = [g EXCEPT !.job = j, !.made = j]
    BY <2>2, <2>3, <2>4 DEF Handler
  <2>9. request' = [request EXCEPT ![r] = h]
    BY <1>1, <1>11, <2>1, <2>8
  <2>10. Fits(h)' /\ ~Refused(h) /\ Keeps(k, h)
    BY <1>1, <1>4, <1>5, <1>10, <2>7 DEF Fits, Refused, Keeps
  <2> QED
    BY <1>1, <1>4, <1>7, <1>8, <1>9, <2>6, <2>9, <2>10, QuietStep
<1>12. CASE request' = [request EXCEPT ![r] = [Reply(@, 500) EXCEPT !.made = j]]
  <2>1. PICK g : g = Reply(k, 500)
    OBVIOUS
  <2>2. g \in Handler /\ Same(k, g) /\ g.pc = "done" /\ g.answer = 500
    BY <2>1, ReplyIs
  <2>3. PICK h : h = [g EXCEPT !.made = j]
    OBVIOUS
  <2>4. h \in Handler
    BY <1>5, <2>2, <2>3 DEF Handler
  <2>5. /\ h.at = k.at /\ h.client = k.client /\ h.identity = k.identity /\ h.window = k.window
        /\ h.unit = k.unit /\ h.job = k.job /\ h.made = j /\ h.pc = "done" /\ h.answer = 500
    BY <2>2, <2>3 DEF Handler, Same
  <2>6. request' = [request EXCEPT ![r] = h]
    BY <1>1, <1>12, <2>1, <2>3
  <2>7. Fits(h)' /\ ~Refused(h) /\ Keeps(k, h)
    BY <1>1, <1>4, <1>5, <1>10, <2>5 DEF Fits, Refused, Keeps
  <2> QED
    BY <1>1, <1>4, <1>7, <1>8, <1>9, <2>4, <2>6, <2>7, QuietStep
<1> QED
  BY <1>11, <1>12

(* The live job of the handler's identity.                                 *)
LEMMA JoinsStep ==
  ASSUME IInv, NEW r \in Request, request[r].pc = "enqueue",
         NEW j \in JobId, Joins(request[r].identity, j), UNCHANGED <<replays, limitVars>>,
         request' = [request EXCEPT ![r] =
           IF status[j] = "queued" THEN [GoTo(@, "launch") EXCEPT !.job = j]
           ELSE [Reply(@, 202) EXCEPT !.job = j]]
  PROVE  IInv'
<1>1. PICK k \in Handler : k = request[r] /\ Fits(k) /\ k.pc = "enqueue"
  BY DEF IInv, TypeOK, HandlersFit
<1>2. identity[j] = k.identity /\ UNCHANGED jobVars /\ status[j] # "none"
  BY <1>1 DEF Joins, Jobs!Live
<1>3. j <= submitted /\ j # 0 /\ j \in 0..MaxJobs
  BY <1>2, SubmissionAssumption DEF IInv, JobsFit, JobId
<1>4. CASE status[j] = "queued"
  <2>1. PICK g : g = GoTo(k, "launch")
    OBVIOUS
  <2>2. g \in Handler /\ Same(k, g) /\ g.pc = "launch" /\ g.answer = k.answer
    BY <2>1, GoToIs
  <2>3. PICK h : h = [g EXCEPT !.job = j]
    OBVIOUS
  <2>4. h \in Handler
    BY <1>3, <2>2, <2>3 DEF Handler
  <2>5. /\ h.at = k.at /\ h.client = k.client /\ h.identity = k.identity /\ h.window = k.window
        /\ h.unit = k.unit /\ h.job = j /\ h.made = k.made /\ h.pc = "launch" /\ h.answer = k.answer
    BY <2>2, <2>3 DEF Handler, Same
  <2>6. request' = [request EXCEPT ![r] = h]
    BY <1>1, <1>4, <2>1, <2>3
  <2>7. Fits(h) /\ ~Refused(h) /\ Keeps(k, h)
    BY <1>1, <1>2, <1>3, <2>5 DEF Fits, Refused, Keeps
  <2> QED
    BY <1>1, <1>2, <2>4, <2>6, <2>7, StillStep
<1>5. CASE status[j] # "queued"
  <2>1. PICK g : g = Reply(k, 202)
    OBVIOUS
  <2>2. g \in Handler /\ Same(k, g) /\ g.pc = "done" /\ g.answer = 202
    BY <2>1, ReplyIs
  <2>3. PICK h : h = [g EXCEPT !.job = j]
    OBVIOUS
  <2>4. h \in Handler
    BY <1>3, <2>2, <2>3 DEF Handler
  <2>5. /\ h.at = k.at /\ h.client = k.client /\ h.identity = k.identity /\ h.window = k.window
        /\ h.unit = k.unit /\ h.job = j /\ h.made = k.made /\ h.pc = "done" /\ h.answer = 202
    BY <2>2, <2>3 DEF Handler, Same
  <2>6. request' = [request EXCEPT ![r] = h]
    BY <1>1, <1>5, <2>1, <2>3
  <2>7. Fits(h) /\ ~Refused(h) /\ Keeps(k, h)
    BY <1>1, <1>2, <1>3, <2>5 DEF Fits, Refused, Keeps
  <2> QED
    BY <1>1, <1>2, <2>4, <2>6, <2>7, StillStep
<1> QED
  BY <1>4, <1>5

-----------------------------------------------------------------------------
(* The steps of the limiter. *)

(* Where the limiter sends a request. *)
LEMMA AfterLimiterIs ==
  ASSUME NEW h \in Handler, NEW k, k = AfterLimiter(h)
  PROVE  /\ k \in Handler /\ Same(h, k) /\ Keeps(h, k)
         /\ h.unit => k.pc = "replay" /\ k.answer = h.answer
         /\ ~h.unit => k.pc = "done" /\ k.answer = 429
<1>1. CASE h.unit
  BY <1>1, GoToIs DEF AfterLimiter
<1>2. CASE ~h.unit
  BY <1>2, ReplyIs DEF AfterLimiter
<1> QED
  BY <1>1, <1>2

(* The rows of the windows that are over go.                               *)
LEMMA SweepStep ==
  ASSUME IInv, NEW r \in Request, Sweep(r)
  PROVE  IInv'
<1>1. PICK k \in Handler : k = request[r] /\ Fits(k) /\ k.pc = "sweep"
  BY DEF IInv, TypeOK, HandlersFit, Sweep
<1>2. PICK h : h = AfterLimiter(k)
  OBVIOUS
<1>3. /\ h \in Handler /\ Same(k, h) /\ Keeps(k, h)
      /\ k.unit => h.pc = "replay" /\ h.answer = k.answer
      /\ ~k.unit => h.pc = "done" /\ h.answer = 429
  BY <1>2, AfterLimiterIs
<1>4. /\ request' = [request EXCEPT ![r] = h] /\ UNCHANGED <<jobVars, replays, clock, lastSweep>>
      /\ count' = [cw \in Client \X Window |-> IF cw[2] < k.window THEN 0 ELSE count[cw]]
  BY <1>1, <1>2 DEF Sweep, Swept
<1>5. TypeOK /\ JobsFit /\ ReplaysKept /\ HandlersFit /\ Counted
  BY DEF IInv
<1>6. Grows /\ JobsFit' /\ ReplaysKept' /\ replays' \subseteq Replay
  BY <1>4, <1>5, TablesRest
<1>7. Fits(h)
  BY <1>1, <1>3 DEF Same, Fits
<1>8. Fits(h)'
  BY <1>3, <1>5, <1>6, <1>7, FitsStays
<1>9. request' \in [Request -> Handler] /\ HandlersFit'
  BY <1>3, <1>4, <1>5, <1>6, <1>8, HandlersStay
<1>10. count' \in [Client \X Window -> 0..Limit]
  <2>1. 0 \in 0..Limit
    BY SubmissionAssumption
  <2> QED
    BY <1>4, <1>5, <2>1 DEF TypeOK
<1>11. ASSUME NEW c \in Client, NEW w \in Window
       PROVE  \/ count'[<<c, w>>] = count[<<c, w>>]
              \/ count'[<<c, w>>] = 0 /\ ~\A n \in Instance : clock[n] <= w
  <2>1. count'[<<c, w>>] = IF w < k.window THEN 0 ELSE count[<<c, w>>]
    BY <1>4
  <2>2. CASE w < k.window
    <3>1. k.at \in Instance /\ k.window <= clock[k.at]
      BY <1>1 DEF Fits
    <3>2. w \in Nat /\ k.window \in Nat /\ clock[k.at] \in Nat
      BY <1>5, <3>1, SubmissionAssumption DEF TypeOK, Window, Handler
    <3> QED
      BY <2>1, <2>2, <3>1, <3>2
  <2> QED
    BY <2>1, <2>2
<1>12. \A q \in Request : q # r => request'[q] = request[q]
  BY <1>4, <1>5 DEF TypeOK
<1>13. request'[r] = h
  BY <1>4, <1>5 DEF TypeOK
<1>14. \A q \in Request : Keeps(request[q], request'[q])
  BY <1>1, <1>3, <1>12, <1>13 DEF Keeps
<1>15. \A q \in Request : Refused(request'[q]) =>
         /\ Refused(request[q])
         /\ request'[q].client = request[q].client /\ request'[q].window = request[q].window
  BY <1>1, <1>3, <1>12, <1>13 DEF Refused, Same, Fits
<1>16. Counted'
  BY <1>5, <1>6, <1>11, <1>14, <1>15, CountedStays DEF Grows
<1>17. TypeOK'
  BY <1>4, <1>5, <1>6, <1>9, <1>10 DEF TypeOK, JobsFit
<1> QED
  BY <1>6, <1>9, <1>16, <1>17 DEF IInv

(* A unit is handed out, or the client has had as many as there are.       *)
LEMMA ConsumeStep ==
  ASSUME IInv, NEW r \in Request, Consume(r)
  PROVE  IInv'
<1> DEFINE a == Allowed(request[r].client, request[r].window)
           g == [request[r] EXCEPT !.unit = a]
<1>1. PICK k \in Handler : k = request[r] /\ Fits(k) /\ k.pc = "consume"
  BY DEF IInv, TypeOK, HandlersFit, Consume
<1>2. k.at \in Instance /\ k.client \in Client /\ k.window \in Window /\ ~k.unit /\ k.answer = 0
  BY <1>1 DEF Fits, Handler
<1>3. /\ count' = [count EXCEPT ![<<g.client, g.window>>] = IF g.unit THEN @ + 1 ELSE @]
      /\ \E due \in SweepDue(g.window - lastSweep[g.at]) :
           /\ lastSweep' = [lastSweep EXCEPT ![g.at] = IF due THEN g.window ELSE @]
           /\ request' = [request EXCEPT ![r] = IF due THEN GoTo(g, "sweep") ELSE AfterLimiter(g)]
      /\ UNCHANGED <<jobVars, replays, clock>>
  BY Zenon DEF Consume
<1>4. a <=> count[<<k.client, k.window>>] < Limit
  BY <1>1 DEF Allowed
<1>4a. a \in BOOLEAN
  BY DEF Allowed
<1>4b. g = [k EXCEPT !.unit = a]
  BY <1>1, Zenon
<1> HIDE DEF a, g
<1>5. /\ g \in Handler /\ g.unit = a /\ g.pc = "consume" /\ g.at = k.at /\ g.client = k.client
      /\ g.identity = k.identity /\ g.window = k.window /\ g.job = k.job /\ g.made = k.made
      /\ g.answer = k.answer
  BY <1>1, <1>4a, <1>4b DEF Handler
<1>6. PICK due \in BOOLEAN :
        /\ lastSweep' = [lastSweep EXCEPT ![g.at] = IF due THEN g.window ELSE @]
        /\ request' = [request EXCEPT ![r] = IF due THEN GoTo(g, "sweep") ELSE AfterLimiter(g)]
  <2>1. SweepDue(g.window - lastSweep[g.at]) \subseteq BOOLEAN
    BY DEF SweepDue
  <2> QED
    BY <1>3, <2>1
<1>7. /\ count' = [count EXCEPT ![<<k.client, k.window>>] = IF a THEN @ + 1 ELSE @]
      /\ UNCHANGED <<jobVars, replays, clock>>
  BY <1>3, <1>5
<1>8. PICK h : h = IF due THEN GoTo(g, "sweep") ELSE AfterLimiter(g)
  OBVIOUS
<1>9. /\ h \in Handler /\ Same(g, h)
      /\ a => h.pc \in {"sweep", "replay"} /\ h.answer = 0
      /\ ~a => \/ h.pc = "sweep" /\ h.answer = 0
               \/ h.pc = "done" /\ h.answer = 429
  <2>1. CASE due
    BY <1>2, <1>5, <1>8, <2>1, GoToIs
  <2>2. CASE ~due
    BY <1>2, <1>5, <1>8, <2>2, AfterLimiterIs
  <2> QED
    BY <2>1, <2>2
<1>10. /\ h.at = k.at /\ h.client = k.client /\ h.identity = k.identity /\ h.window = k.window
       /\ h.unit = a /\ h.job = k.job /\ h.made = k.made
  BY <1>5, <1>9 DEF Same
<1>11. TypeOK /\ JobsFit /\ ReplaysKept /\ HandlersFit /\ Counted
  BY DEF IInv
<1>12. Grows /\ JobsFit' /\ ReplaysKept' /\ replays' \subseteq Replay
  BY <1>7, <1>11, TablesRest
<1>13. Fits(h)
  BY <1>1, <1>9, <1>10 DEF Fits
<1>14. Fits(h)'
  BY <1>9, <1>11, <1>12, <1>13, FitsStays
<1>15. request' = [request EXCEPT ![r] = h]
  BY <1>6, <1>8
<1>16. request' \in [Request -> Handler] /\ HandlersFit'
  BY <1>9, <1>11, <1>12, <1>14, <1>15, HandlersStay
<1>17. \A q \in Request : q # r => request'[q] = request[q]
  BY <1>11, <1>15 DEF TypeOK
<1>18. request'[r] = h
  BY <1>11, <1>15 DEF TypeOK
<1>19. lastSweep' \in [Instance -> Window]
  BY <1>2, <1>5, <1>6, <1>11 DEF TypeOK
<1>20. <<k.client, k.window>> \in Client \X Window
  BY <1>2
<1>21. count[<<k.client, k.window>>] \in 0..Limit /\ Limit \in Nat
  BY <1>11, <1>20, SubmissionAssumption DEF TypeOK
<1>22. CASE ~a
  <2>1. count' = count
    BY <1>7, <1>11, <1>22 DEF TypeOK
  <2>2. \A q \in Request : Keeps(request[q], request'[q])
    <3>1. k.unit \in BOOLEAN
      BY DEF Handler
    <3>2. k.unit = FALSE /\ h.unit = FALSE
      BY <1>2, <1>4a, <1>10, <1>22, <3>1, Zenon
    <3>3. Keeps(k, h)
      BY <3>2 DEF Keeps
    <3> QED
      BY <1>1, <1>17, <1>18, <3>3 DEF Keeps
  <2>3. \A c, w : Units(request', c, w) = Units(request, c, w)
    BY <2>2, UnitsStay
  <2>4. Cardinality(Units(request, k.client, k.window)) >= Limit
    <3>1. count[<<k.client, k.window>>] <= Cardinality(Units(request, k.client, k.window))
      BY <1>2, <1>11 DEF Counted
    <3>2. Cardinality(Units(request, k.client, k.window)) \in Nat
      BY UnitsAreFinite
    <3> QED
      BY <1>4, <1>21, <1>22, <3>1, <3>2
  <2>5. ASSUME NEW q \in Request, Refused(request'[q])
        PROVE  Cardinality(Units(request', request'[q].client, request'[q].window)) >= Limit
    <3>1. CASE q = r
      BY <1>10, <1>18, <2>3, <2>4, <3>1
    <3>2. CASE q # r
      BY <1>11, <1>17, <2>3, <2>5, <3>2 DEF Counted
    <3> QED
      BY <3>1, <3>2
  <2>6. Counted'
    BY <1>7, <1>11, <2>1, <2>3, <2>5 DEF Counted
  <2>7. TypeOK'
    BY <1>7, <1>11, <1>12, <1>16, <1>19, <2>1 DEF TypeOK, JobsFit
  <2> QED
    BY <1>12, <1>16, <2>6, <2>7 DEF IInv
<1>23. CASE a
  <2>1. ASSUME NEW c \in Client, NEW w \in Window
        PROVE  count'[<<c, w>>] = IF c = k.client /\ w = k.window
                                  THEN count[<<c, w>>] + 1 ELSE count[<<c, w>>]
    BY <1>7, <1>11, <1>23 DEF TypeOK
  <2>2. count' \in [Client \X Window -> 0..Limit]
    <3>1. count[<<k.client, k.window>>] + 1 \in 0..Limit
      BY <1>4, <1>21, <1>23
    <3> QED
      BY <1>7, <1>11, <1>20, <1>23, <3>1 DEF TypeOK
  <2>3. ASSUME NEW c, NEW w
        PROVE  Units(request', c, w) = IF c = k.client /\ w = k.window
                                       THEN Units(request, c, w) \cup {r} ELSE Units(request, c, w)
    BY <1>1, <1>2, <1>10, <1>17, <1>18, <1>23 DEF Units
  <2>4. ASSUME NEW c, NEW w
        PROVE  /\ Cardinality(Units(request, c, w)) \in Nat
               /\ Cardinality(Units(request', c, w)) =
                    IF c = k.client /\ w = k.window
                    THEN Cardinality(Units(request, c, w)) + 1 ELSE Cardinality(Units(request, c, w))
    <3>1. r \notin Units(request, c, w)
      BY <1>1, <1>2 DEF Units
    <3>2. IsFiniteSet(Units(request, c, w)) /\ Cardinality(Units(request, c, w)) \in Nat
      BY UnitsAreFinite
    <3>3. Cardinality(Units(request, c, w) \cup {r}) = Cardinality(Units(request, c, w)) + 1
      BY <3>1, <3>2, FS_AddElement
    <3> QED
      BY <2>3, <3>2, <3>3
  <2>5. ASSUME NEW c \in Client, NEW w \in Window
        PROVE  /\ count'[<<c, w>>] <= Cardinality(Units(request', c, w))
               /\ (\A n \in Instance : clock'[n] <= w) =>
                    Cardinality(Units(request', c, w)) <= count'[<<c, w>>]
    <3>1. /\ count[<<c, w>>] <= Cardinality(Units(request, c, w))
          /\ (\A n \in Instance : clock[n] <= w) =>
               Cardinality(Units(request, c, w)) <= count[<<c, w>>]
      BY <1>11 DEF Counted
    <3>2. count[<<c, w>>] \in Nat /\ clock' = clock
      BY <1>7, <1>11, SubmissionAssumption DEF TypeOK
    <3> QED
      BY <2>1, <2>4, <3>1, <3>2
  <2>6. ASSUME NEW q \in Request, Refused(request'[q])
        PROVE  Cardinality(Units(request', request'[q].client, request'[q].window)) >= Limit
    <3>1. h.unit /\ h.answer = 0
      BY <1>9, <1>10, <1>23, Zenon
    <3>2. ~Refused(h)
      BY <3>1 DEF Refused
    <3>3. q # r
      BY <1>18, <2>6, <3>2
    <3>4. Cardinality(Units(request, request[q].client, request[q].window)) >= Limit
      BY <1>11, <1>17, <2>6, <3>3 DEF Counted
    <3> QED
      BY <1>17, <1>21, <2>4, <3>3, <3>4
  <2>7. Counted'
    BY <2>5, <2>6 DEF Counted
  <2>8. TypeOK'
    BY <1>7, <1>11, <1>12, <1>16, <1>19, <2>2 DEF TypeOK, JobsFit
  <2> QED
    BY <1>12, <1>16, <2>7, <2>8 DEF IInv
<1> QED
  BY <1>22, <1>23

-----------------------------------------------------------------------------
(* The steps of several handlers, or of none. *)

(* The workers change no row of another table. *)
LEMMA WorkStep ==
  ASSUME IInv, Work
  PROVE  IInv'
<1>1. TypeOK /\ JobsFit /\ ReplaysKept /\ HandlersFit /\ Counted
  BY DEF IInv
<1>2. JobsFit' /\ UNCHANGED <<submitted, identity>> /\ published \subseteq published'
  BY <1>1, WorkFits
<1>3. UNCHANGED <<replays, limitVars, request>>
  BY DEF Work
<1>4. submitted <= submitted /\ \A n \in Instance : clock[n] <= clock[n]
  BY <1>1, SubmissionAssumption DEF JobsFit, TypeOK, Window
<1>5. Grows /\ ReplaysKept'
  BY <1>1, <1>2, <1>3, <1>4 DEF Grows, ReplaysKept, TypeOK, limitVars
<1>6. HandlersFit'
  BY <1>1, <1>2, <1>3, <1>5, HandlersRest
<1>7. TypeOK' /\ Counted'
  BY <1>1, <1>2, <1>3 DEF TypeOK, Counted, JobsFit, limitVars
<1> QED
  BY <1>2, <1>5, <1>6, <1>7 DEF IInv

(* Time passes, and fewer windows are open for all. *)
LEMMA TickStep ==
  ASSUME IInv, NEW n \in Instance, Tick(n)
  PROVE  IInv'
<1>1. TypeOK /\ JobsFit /\ ReplaysKept /\ HandlersFit /\ Counted
  BY DEF IInv
<1>2. clock[n] < MaxWindow /\ clock' = [clock EXCEPT ![n] = @ + 1]
      /\ UNCHANGED <<jobVars, replays, lastSweep, count, request>>
  BY DEF Tick
<1>3. JobsFit' /\ submitted <= submitted' /\ UNCHANGED <<submitted, identity, published>>
  BY <1>1, <1>2, SameJobs
<1>4. clock' \in [Instance -> Window] /\ \A m \in Instance : clock[m] <= clock'[m]
  <2>1. clock[n] + 1 \in Window /\ clock[n] <= clock[n] + 1
    BY <1>1, <1>2, SubmissionAssumption DEF TypeOK, Window
  <2>2. \A m \in Instance : clock[m] <= clock[m]
    BY <1>1, SubmissionAssumption DEF TypeOK, Window
  <2> QED
    BY <1>1, <1>2, <2>1, <2>2 DEF TypeOK
<1>5. Grows /\ ReplaysKept'
  BY <1>1, <1>2, <1>3, <1>4 DEF Grows, ReplaysKept
<1>6. HandlersFit'
  BY <1>1, <1>2, <1>3, <1>5, HandlersRest
<1>7. \A q \in Request : Keeps(request[q], request'[q])
  BY <1>2 DEF Keeps
<1>8. Counted'
  BY <1>1, <1>2, <1>4, <1>7, CountedStays
<1>9. TypeOK'
  BY <1>1, <1>2, <1>3, <1>4 DEF TypeOK, JobsFit
<1> QED
  BY <1>3, <1>5, <1>6, <1>8, <1>9 DEF IInv

(* The handlers of an instance that goes leave what they know.             *)
LEMMA ReplaceStep ==
  ASSUME IInv, NEW n \in Instance, Replace(n)
  PROVE  IInv'
<1>1. TypeOK /\ JobsFit /\ ReplaysKept /\ HandlersFit /\ Counted
  BY DEF IInv
<1>2. /\ lastSweep' = [lastSweep EXCEPT ![n] = clock[n]]
      /\ request' = [q \in Request |->
                      IF request[q].at = n THEN GoTo(request[q], "done") ELSE request[q]]
      /\ UNCHANGED <<jobVars, replays, clock, count>>
  BY DEF Replace
<1>3. Grows /\ JobsFit' /\ ReplaysKept' /\ replays' \subseteq Replay
  BY <1>1, <1>2, TablesRest
<1>4. ASSUME NEW q \in Request
      PROVE  /\ request'[q] \in Handler /\ Fits(request[q])'
             /\ Keeps(request[q], request'[q])
             /\ Refused(request'[q]) => /\ Refused(request[q])
                                        /\ request'[q].client = request[q].client
                                        /\ request'[q].window = request[q].window
  <2>1. PICK k \in Handler : k = request[q] /\ Fits(k)
    BY <1>1 DEF TypeOK, HandlersFit
  <2>2. Fits(k)'
    BY <1>1, <1>3, <2>1, FitsStays
  <2>3. CASE k.at = n
    <3>1. PICK h : h = GoTo(k, "done")
      OBVIOUS
    <3>2. request'[q] = h
      BY <1>2, <2>1, <2>3, <3>1
    <3>3. h \in Handler /\ Same(k, h) /\ h.pc = "done" /\ h.answer = k.answer /\ Keeps(k, h)
      BY <3>1, GoToIs
    <3>4. k.pc # "idle"
      BY <2>1, <2>3, SubmissionAssumption DEF Fits
    <3>5. Fits(h)'
      BY <2>2, <3>3, <3>4 DEF Fits, Same
    <3>6. Refused(h) => Refused(k) /\ h.client = k.client /\ h.window = k.window
      BY <3>3 DEF Refused, Same
    <3> QED
      BY <2>1, <3>2, <3>3, <3>5, <3>6
  <2>4. CASE k.at # n
    <3>1. request'[q] = k
      BY <1>2, <2>1, <2>4
    <3> QED
      BY <2>1, <2>2, <3>1 DEF Keeps
  <2> QED
    BY <2>3, <2>4
<1>5. request' \in [Request -> Handler] /\ HandlersFit'
  BY <1>2, <1>4 DEF HandlersFit
<1>6. Counted'
  BY <1>1, <1>2, <1>3, <1>4, CountedStays DEF Grows
<1>7. TypeOK'
  BY <1>1, <1>2, <1>3, <1>5 DEF TypeOK, JobsFit
<1> QED
  BY <1>3, <1>5, <1>6, <1>7 DEF IInv

-----------------------------------------------------------------------------
(* The invariant. *)

(* No table has a row and no request has been received.                    *)
LEMMA InitIInv ==
  ASSUME Init
  PROVE  IInv
<1>1. 0 \in 0..MaxJobs /\ 0 \in Window /\ 0 \in 0..Limit
  BY SubmissionAssumption DEF Window
<1>2. PICK k : k = [pc |-> "idle", at |-> NULL, client |-> NULL, identity |-> NULL, window |-> 0,
                    unit |-> FALSE, job |-> 0, made |-> 0, answer |-> 0]
  OBVIOUS
<1>3. k \in Handler /\ Fits(k) /\ ~Refused(k) /\ k.unit = FALSE
  BY <1>1, <1>2 DEF Handler, Fits, Refused
<1>4. \A q \in Request : request[q] = k
  BY <1>2 DEF Init
<1>5. request \in [Request -> Handler]
  BY <1>2, <1>3 DEF Init
<1>6. JobsFit /\ ReplaysKept
  <2>1. \A j \in JobId : ~(j <= submitted)
    BY SubmissionAssumption DEF Init, Jobs!Init, JobId
  <2> QED
    BY <1>1, <2>1 DEF Init, Jobs!Init, Jobs!JobId, JobsFit, JobId, JobStatus, ReplaysKept
<1>7. TypeOK
  BY <1>1, <1>5 DEF Init, Jobs!Init, TypeOK
<1>8. HandlersFit
  BY <1>3, <1>4 DEF HandlersFit
<1>9. ASSUME NEW c \in Client, NEW w \in Window
      PROVE  Units(request, c, w) = {} /\ count[<<c, w>>] = 0
  BY <1>3, <1>4, <1>7 DEF Init, Units
<1>10. Counted
  BY <1>3, <1>4, <1>9, FS_EmptySet DEF Counted
<1> QED
  BY <1>6, <1>7, <1>8, <1>10 DEF IInv

(* The steps of a handler, one by one. *)
LEMMA HandlerStepIInv ==
  ASSUME IInv, NEW r \in Request, HandlerStep(r) \/ Showdown(r)
  PROVE  IInv'
<1>1. CASE ReadReplay(r)
  <2>1. CASE request[r].identity.replayId \in replays
    BY <1>1, <2>1, GoStep DEF ReadReplay
  <2>2. CASE request[r].identity.replayId \notin replays
    BY <1>1, <2>2, GoStep DEF ReadReplay
  <2> QED
    BY <2>1, <2>2
<1>2. CASE HeadersArrive(r)
  BY <1>2, GoStep DEF HeadersArrive
<1>3. CASE BodyArrives(r)
  BY <1>3, GoStep DEF BodyArrives
<1>4. CASE FetchFails(r)
  <2>1. PICK code \in {404, 502} : request' = [request EXCEPT ![r] = Reply(@, code)]
    BY <1>4, Zenon DEF FetchFails
  <2>1a. code \in Errors
    BY DEF Errors
  <2>2. Fails(r)
    BY <2>1, <2>1a, Zenon DEF Fails
  <2> QED
    BY <1>4, <2>2, ReplyStep DEF FetchFails
<1>5. CASE BodyRefused(r)
  <2>1. PICK code \in {413, 422} : request' = [request EXCEPT ![r] = Reply(@, code)]
    BY <1>5, Zenon DEF BodyRefused
  <2>1a. code \in Errors
    BY DEF Errors
  <2>2. Fails(r)
    BY <2>1, <2>1a, Zenon DEF Fails
  <2> QED
    BY <1>5, <2>2, ReplyStep DEF BodyRefused
<1>6. CASE FetchTimesOut(r)
  <2>1. 504 \in Errors
    BY DEF Errors
  <2>2. Fails(r)
    BY <1>6, <2>1, Zenon DEF FetchTimesOut, Fails
  <2> QED
    BY <1>6, <2>2, ReplyStep DEF FetchTimesOut
<1>7. CASE BodyTimesOut(r)
  <2>1. 500 \in Errors
    BY DEF Errors
  <2>2. Fails(r)
    BY <1>7, <2>1, Zenon DEF BodyTimesOut, Fails
  <2> QED
    BY <1>7, <2>2, ReplyStep DEF BodyTimesOut
<1>8. CASE StatementFails(r)
  <2>1. 500 \in Errors
    BY DEF Errors
  <2>2. Fails(r)
    BY <1>8, <2>1, Zenon DEF StatementFails, Fails
  <2> QED
    BY <1>8, <2>2, ReplyStep DEF StatementFails
<1>9. CASE Enqueue(r)
  <2>1. PICK j \in Jobs!JobId :
          \/ /\ Inserts(request[r].identity, j)
             /\ request' = [request EXCEPT ![r] =
                  [GoTo(@, "launch") EXCEPT !.job = j, !.made = j]]
          \/ /\ Joins(request[r].identity, j)
             /\ request' = [request EXCEPT ![r] =
                  IF status[j] = "queued" THEN [GoTo(@, "launch") EXCEPT !.job = j]
                  ELSE [Reply(@, 202) EXCEPT !.job = j]]
    BY <1>9 DEF Enqueue
  <2>2. request[r].pc = "enqueue" /\ UNCHANGED <<replays, limitVars>> /\ j \in JobId
    BY <1>9 DEF Enqueue, Jobs!JobId, JobId
  <2> QED
    BY <2>1, <2>2, InsertsStep, JoinsStep
<1>10. CASE EnqueueUnanswered(r)
  BY <1>10, InsertsStep DEF EnqueueUnanswered
<1> QED
  BY <1>1, <1>2, <1>3, <1>4, <1>5, <1>6, <1>7, <1>8, <1>9, <1>10, ReadCacheStep, ConsumeStep,
     SweepStep, KeepReplayStep, LaunchStep DEF HandlerStep, Showdown

(* Every step keeps the invariant. *)
LEMMA StepIInv ==
  ASSUME IInv, [Next]_vars
  PROVE  IInv'
<1>1. CASE UNCHANGED vars
  BY <1>1 DEF vars, jobVars, limitVars, IInv, TypeOK, JobsFit, ReplaysKept, HandlersFit, Fits, Counted
<1>2. CASE Next
  BY <1>2, ReceiveStep, HandlerStepIInv, TickStep, ReplaceStep, WorkStep DEF Next
<1> QED
  BY <1>1, <1>2

(* The tables, the limiter and the handlers fit together in every state.   *)
THEOREM SubmissionInvariance == Spec => []IInv
<1>1. Init => IInv
  BY InitIInv
<1>2. IInv /\ [Next]_vars => IInv'
  BY StepIInv
<1> QED
  BY <1>1, <1>2, PTL DEF Spec

(* The tables, the counter and the handlers' locals keep their types.      *)
THEOREM SubmissionTypeCorrect == Spec => []TypeOK
<1>1. IInv => TypeOK
  BY DEF IInv
<1> QED
  BY <1>1, SubmissionInvariance, PTL

(* No job waits for a worker before its replay is stored.                  *)
THEOREM EveryJobHasItsReplay == Spec => []JobHasReplay
<1>1. IInv => JobHasReplay
  BY DEF IInv, JobsFit, ReplaysKept, JobHasReplay, Jobs!JobId, JobId
<1> QED
  BY <1>1, SubmissionInvariance, PTL

(* What a client is told of its submission holds from then on.             *)
THEOREM AnswersHold == Spec => []AnswersAreTrue
<1>1. ASSUME IInv PROVE AnswersAreTrue
  <2> SUFFICES ASSUME NEW r \in Request
               PROVE  LET h == request[r] IN
                 /\ h.answer = 200 => h.identity \in published
                 /\ h.answer = 202 => h.job # 0 /\ identity[h.job] = h.identity
                 /\ h.job # 0 => h.answer \in {0, 202}
                 /\ h.made # 0 => h.answer \in {0, 202, 500}
    BY DEF AnswersAreTrue
  <2>1. Fits(request[r])
    BY <1>1 DEF IInv, HandlersFit
  <2> QED
    BY <2>1 DEF Fits
<1> QED
  BY <1>1, SubmissionInvariance, PTL

(* The limit holds on all instances together while a window is open for    *)
(* all of them: the counter is not less than what it admitted.             *)
THEOREM TheLimitHolds == Spec => []LimitHoldsInOpenWindow
<1>1. ASSUME IInv PROVE LimitHoldsInOpenWindow
  <2> SUFFICES ASSUME NEW c \in Client, NEW w \in Window, \A n \in Instance : clock[n] <= w
               PROVE  Cardinality(Admitted(c, w)) <= Limit
    BY DEF LimitHoldsInOpenWindow
  <2>1. Cardinality(Units(request, c, w)) <= count[<<c, w>>]
    BY <1>1 DEF IInv, Counted
  <2>2. count[<<c, w>>] \in 0..Limit /\ Limit \in Nat
    BY <1>1, SubmissionAssumption DEF IInv, TypeOK
  <2>3. Cardinality(Units(request, c, w)) \in Nat
    BY UnitsAreFinite
  <2>4. Admitted(c, w) = Units(request, c, w)
    BY DEF Admitted, Units
  <2> QED
    BY <2>1, <2>2, <2>3, <2>4
<1> QED
  BY <1>1, SubmissionInvariance, PTL

(* Nobody is turned down early: the counter is not more than what it       *)
(* admitted, and the units of a window are never taken back.               *)
THEOREM RefusalsAreDeserved == Spec => []RefusedOnlyAtLimit
<1>1. ASSUME IInv PROVE RefusedOnlyAtLimit
  <2> SUFFICES ASSUME NEW r \in Request, request[r].answer = 429
               PROVE  Cardinality(Admitted(request[r].client, request[r].window)) >= Limit
    BY DEF RefusedOnlyAtLimit
  <2>1. Cardinality(Units(request, request[r].client, request[r].window)) >= Limit
    BY <1>1 DEF IInv, Counted, Refused
  <2>2. Admitted(request[r].client, request[r].window)
          = Units(request, request[r].client, request[r].window)
    BY DEF Admitted, Units
  <2> QED
    BY <2>1, <2>2
<1> QED
  BY <1>1, SubmissionInvariance, PTL

-----------------------------------------------------------------------------
(* The jobs as the rest of the system knows them. *)

Lifecycle == INSTANCE JobLifecycleProofs

(* Every await of every handler is one statement of the queue, or none:    *)
(* a handler inserts jobs of identities only.                              *)
LEMMA LifecycleStep ==
  ASSUME IInv, [Next]_vars
  PROVE  [Jobs!Next]_(Jobs!vars)
<1>1. CASE UNCHANGED jobVars
  BY <1>1 DEF jobVars, Jobs!vars
<1>2. ASSUME NEW r \in Request, Enqueue(r) \/ EnqueueUnanswered(r)
      PROVE  [Jobs!Next]_(Jobs!vars)
  <2>1. request[r].identity \in Identity
    BY <1>2 DEF IInv, HandlersFit, Fits, Enqueue, EnqueueUnanswered
  <2>2. Jobs!Submit(request[r].identity) \/ UNCHANGED jobVars
    BY <1>2 DEF Enqueue, EnqueueUnanswered, Inserts, Joins
  <2> QED
    BY <1>1, <2>1, <2>2 DEF Jobs!Next
<1>3. CASE Work
  BY <1>3 DEF Work, Jobs!Next
<1>4. ASSUME NEW r \in Request, HandlerStep(r) \/ Showdown(r)
      PROVE  UNCHANGED jobVars \/ Enqueue(r) \/ EnqueueUnanswered(r)
  BY <1>4 DEF HandlerStep, Showdown, ReadCache, Consume, Sweep, ReadReplay, FetchTimesOut,
    BodyTimesOut, KeepReplay, Launch, StatementFails, HeadersArrive, FetchFails, BodyArrives, BodyRefused
<1>5. CASE Next
  BY <1>1, <1>2, <1>3, <1>4, <1>5 DEF Next, Receive, Tick, Replace
<1> QED
  BY <1>1, <1>5 DEF vars

(* The API, any number of instances and requests, implements JobLifecycle. *)
THEOREM SubmissionImplementsLifecycle == Spec => Jobs!Spec
<1>1. Init => Jobs!Init
  BY DEF Init
<1>2. IInv /\ [Next]_vars => [Jobs!Next]_(Jobs!vars)
  BY LifecycleStep
<1> QED
  BY <1>1, <1>2, SubmissionInvariance, PTL DEF Spec, Jobs!Spec

(* So the promises of JobLifecycle are kept to its clients. *)
LEMMA PromisesToTheApi == Spec => []Lifecycle!Inv
<1>1. Jobs!Init <=> Lifecycle!Init
  BY DEF Jobs!Init, Lifecycle!Init, Jobs!JobId, Lifecycle!JobId
<1>2. [Jobs!Next]_(Jobs!vars) <=> [Lifecycle!Next]_(Lifecycle!vars)
  BY DEF Jobs!Next, Jobs!vars, Jobs!JobId, Jobs!Live,
         Jobs!Submit, Jobs!Begin, Jobs!GiveUp, Jobs!Publish, Jobs!Return,
         Lifecycle!Next, Lifecycle!vars, Lifecycle!JobId, Lifecycle!Live,
         Lifecycle!Submit, Lifecycle!Begin, Lifecycle!GiveUp, Lifecycle!Publish, Lifecycle!Return
<1>3. MaxJobs \in Nat
  BY SubmissionAssumption
<1> QED
  BY <1>1, <1>2, <1>3, SubmissionImplementsLifecycle, Lifecycle!PromisesAreKept, PTL
     DEF Jobs!Spec, Lifecycle!Spec

(* Two submissions of one analysis that hold a live job hold the same,     *)
(* from what a handler knows of its job and what the queue promises of     *)
(* all jobs.                                                               *)
THEOREM SubmittersShareTheirJob == Spec => []SubmittersShare
<1>1. ASSUME IInv, Lifecycle!Inv PROVE SubmittersShare
  <2>1. ASSUME NEW r \in Request, NEW j \in JobsOf(r)
        PROVE  j \in JobId /\ identity[j] = request[r].identity
    BY <1>1, SubmissionAssumption DEF JobsOf, IInv, TypeOK, Handler, HandlersFit, Fits, JobId
  <2>2. \A j, k \in JobId : Jobs!Live(j) /\ Jobs!Live(k) /\ identity[j] = identity[k] => j = k
    BY <1>1 DEF Lifecycle!Inv, Lifecycle!OneLive, Lifecycle!Live, Lifecycle!JobId, JobId, Jobs!Live
  <2>3. \A j \in JobId : status[j] = "succeeded" => identity[j] \in published
    BY <1>1 DEF Lifecycle!Inv, Lifecycle!SucceededArePublished, Lifecycle!JobId, JobId
  <2> QED
    BY <2>1, <2>2, <2>3 DEF SubmittersShare
<1> QED
  BY <1>1, SubmissionInvariance, PromisesToTheApi, PTL

(* The cache key tells apart whatever can differ: two submissions share an *)
(* identity only if they name the same replay, side and profile and are    *)
(* served by the same build, although the profile's name is not in the key. *)
THEOREM IdentitiesAreExact ==
  ASSUME NEW s \in SubmitRequest, NEW t \in SubmitRequest,
         NEW b \in EngineBuild, NEW c \in EngineBuild
  PROVE  DeriveIdentity(s, b) = DeriveIdentity(t, c) <=> s = t /\ b = c
<1>1. /\ s.profile \in {"ladder-parity", "quick"}
      /\ t.profile \in {"ladder-parity", "quick"}
  BY DEF SubmitRequest, PROFILES
<1>2. /\ DeriveIdentity(s, b).searchBudgetMsPerTurn = IF s.profile = "quick" THEN 200 ELSE 1000
      /\ DeriveIdentity(t, c).searchBudgetMsPerTurn = IF t.profile = "quick" THEN 200 ELSE 1000
  BY <1>1 DEF DeriveIdentity, PROFILES
<1>3. ASSUME DeriveIdentity(s, b) = DeriveIdentity(t, c) PROVE s = t /\ b = c
  <2>1. s.profile = t.profile
    BY <1>1, <1>2, <1>3
  <2>2. s.replayId = t.replayId /\ s.perspective = t.perspective
    BY <1>3 DEF DeriveIdentity
  <2>3. b.pokeEngineTag = c.pokeEngineTag /\ b.usageStatsDataset = c.usageStatsDataset
    BY <1>3 DEF DeriveIdentity
  <2> QED
    BY <2>1, <2>2, <2>3 DEF SubmitRequest, EngineBuild
<1> QED
  BY <1>3
=============================================================================
