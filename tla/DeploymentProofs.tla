--------------------------- MODULE DeploymentProofs ---------------------------
(***************************************************************************)
(* Proofs about Deployment: to the runners of migrate.py the rest of the   *)
(* deployment is a stutter, so what is proved of them holds of the whole;  *)
(* and an instance is ready only with all it needs.                        *)
(***************************************************************************)
EXTENDS Deployment, MigrateProofs

(* No step of an instance or of the operator changes the schema, so every  *)
(* behaviour of a deployment is one of the runners.                        *)
LEMMA RunnersStep == [DeploymentNext]_deploymentVars => [Next]_vars
<1> SUFFICES ASSUME [DeploymentNext]_deploymentVars PROVE [Next]_vars
  OBVIOUS
<1>1. ASSUME Api!Next, RunnersStay PROVE UNCHANGED vars
  <2>1. ASSUME NEW n \in Instance, Api!InstanceStep(n) PROVE UNCHANGED schema
    BY <2>1 DEF Api!InstanceStep, Api!Start, Api!ParameterRead, Api!ReadFails, Api!Invoke,
         Api!Serve, Api!StatementFails, Api!Reject, Api!TimesOut, Api!Recycle
  <2>2. UNCHANGED schema
    BY <1>1, <2>1 DEF Api!Next, Api!Deploy, Api!WriteParameter
  <2> QED
    BY <1>1, <2>2 DEF RunnersStay, vars
<1> QED
  BY <1>1 DEF DeploymentNext, deploymentVars

(* A deployment implements the migrations alone.                           *)
THEOREM DeploymentMigrates == DeploymentSpec => Spec
<1>1. DeploymentInit => Init
  BY DEF DeploymentInit
<1> QED
  BY <1>1, RunnersStep, PTL DEF DeploymentSpec, Spec

(* Whatever the instances do, what is recorded is what exists.             *)
THEOREM DeploymentRecordIsTrue == DeploymentSpec => []SchemaIsRecorded
<1> QED
  BY DeploymentMigrates, RecordIsTrue, PTL

(* ... and an `up` that ends without overlap has left every migration      *)
(* recorded, while instances come and go.                                  *)
THEOREM DeploymentUpLeavesAll == DeploymentSpec => FinishedUpIsWhole
<1> QED
  BY DeploymentMigrates, UpLeavesAll

-----------------------------------------------------------------------------
(* The environment deployed at any time is one that Terraform can write.   *)
LEMMA EnvIsEnv == Api!TypeOK => Api!env \in Api!Env
BY DeploymentAssumption DEF Api!TypeOK, Api!env

(* What buildServer comes to is a server, and a ready one is whole.        *)
WholeServer(i) ==
  i.pc = "ready" => i.url # "none" /\ i.launch = i.env.launch /\ i.launch \in {"none", "all"}

(* buildServer listens only with a URL and a launch it was given whole. *)
LEMMA BuiltIsWhole ==
  ASSUME NEW e \in Api!Env, NEW url \in Api!Url
  PROVE  Api!Built(e, url) \in Api!Server /\ WholeServer(Api!Built(e, url))
BY DEF Api!Built, Api!Refused, Api!LaunchRefused, Api!Server, Api!Env, WholeServer

ApiInv == Api!TypeOK /\ \A n \in Instance : WholeServer(instance[n])

(* No instance has been built. *)
LEMMA InitApiInv == DeploymentInit => ApiInv
<1> SUFFICES ASSUME DeploymentInit PROVE ApiInv
  OBVIOUS
<1>1. 1 \in DOMAIN Deployed
  BY DeploymentAssumption
<1>2. Api!env \in Api!Env
  BY <1>1, DeploymentAssumption DEF DeploymentInit, Api!Init, Api!env
<1>3. Api!Off \in Api!Server /\ WholeServer(Api!Off)
  BY <1>2 DEF Api!Off, Api!Server, Api!Url, WholeServer
<1> QED
  BY <1>1, <1>3 DEF DeploymentInit, Api!Init, ApiInv, Api!TypeOK, Api!Parameter

(* A step that gives an instance a whole server, and one that touches none.*)
LEMMA BecomesWhole ==
  ASSUME ApiInv, NEW n \in Instance, NEW server \in Api!Server, WholeServer(server),
         Api!Becomes(n, server)
  PROVE  instance' \in [Instance -> Api!Server] /\ \A m \in Instance : WholeServer(instance'[m])
BY DEF ApiInv, Api!TypeOK, Api!Becomes

(* Each step of the deployment leaves the servers whole. *)
LEMMA StepApiInv == ApiInv /\ [DeploymentNext]_deploymentVars => ApiInv'
<1> SUFFICES ASSUME ApiInv, [DeploymentNext]_deploymentVars PROVE ApiInv'
  OBVIOUS
<1>1. CASE UNCHANGED apiVars
  BY <1>1 DEF ApiInv, Api!TypeOK, apiVars
<1>2. Api!env \in Api!Env
  BY EnvIsEnv DEF ApiInv
<1>3. Api!Off \in Api!Server /\ WholeServer(Api!Off)
  BY <1>2 DEF Api!Off, Api!Server, Api!Url, WholeServer
<1>4. ASSUME NEW n \in Instance, Api!InstanceStep(n) PROVE ApiInv'
  <2>1. CASE Api!Start(n)
    <3>1. Api!Started(n) \in Api!Server /\ WholeServer(Api!Started(n))
      <4>1. CASE Api!env.source = "parameter"
        BY <1>2, <4>1 DEF Api!Started, Api!Off, Api!Server, Api!Url, WholeServer
      <4>2. CASE Api!env.source # "parameter"
        <5>1. {"configured", "none"} \subseteq Api!Url
          BY DEF Api!Url
        <5> QED
          BY <1>2, <4>2, <5>1, BuiltIsWhole DEF Api!Started
      <4> QED
        BY <4>1, <4>2
    <3> QED
      BY <2>1, <3>1, BecomesWhole DEF Api!Start, ApiInv, Api!TypeOK
  <2>2. CASE Api!ParameterRead(n)
    <3>1. instance[n].env \in Api!Env /\ parameter \in Api!Url
      BY DEF ApiInv, Api!TypeOK, Api!Server, Api!Url
    <3> QED
      BY <2>2, <3>1, BuiltIsWhole, BecomesWhole DEF Api!ParameterRead, ApiInv, Api!TypeOK
  <2>3. CASE Api!ReadFails(n)
    <3>1. /\ [instance[n] EXCEPT !.pc = "rejected"] \in Api!Server
          /\ WholeServer([instance[n] EXCEPT !.pc = "rejected"])
      BY DEF ApiInv, Api!TypeOK, Api!Server, WholeServer
    <3> QED
      BY <2>3, <3>1, BecomesWhole DEF Api!ReadFails, ApiInv, Api!TypeOK
  <2>4. CASE \E request \in {"read", "submission"} : Api!Invoke(n, request)
    BY <2>4 DEF Api!Invoke, ApiInv, Api!TypeOK
  <2>5. CASE Api!Serve(n) \/ Api!StatementFails(n) \/ Api!Reject(n)
    BY <2>5 DEF Api!Serve, Api!StatementFails, Api!Reject, Api!Ends, ApiInv, Api!TypeOK
  <2>6. CASE Api!TimesOut(n)
    <3>1. /\ instance' \in [Instance -> Api!Server]
          /\ \A m \in Instance : WholeServer(instance'[m])
      BY <1>3, <2>6, BecomesWhole DEF Api!TimesOut
    <3> QED
      BY <2>6, <3>1 DEF Api!TimesOut, Api!Ends, ApiInv, Api!TypeOK
  <2>7. CASE Api!Recycle(n)
    BY <1>3, <2>7, BecomesWhole DEF Api!Recycle, ApiInv, Api!TypeOK
  <2> QED
    BY <1>4, <2>1, <2>2, <2>3, <2>4, <2>5, <2>6, <2>7 DEF Api!InstanceStep
<1>5. CASE Api!Deploy
  BY <1>5 DEF Api!Deploy, ApiInv, Api!TypeOK
<1>6. CASE Api!WriteParameter
  BY <1>6 DEF Api!WriteParameter, ApiInv, Api!TypeOK, Api!Parameter
<1> QED
  BY <1>1, <1>4, <1>5, <1>6 DEF DeploymentNext, deploymentVars, Api!Next

(* Every reachable state of a deployment is well typed.                    *)
THEOREM DeploymentTypeCorrect == DeploymentSpec => []DeploymentTypeOK
<1>1. IInv /\ ApiInv => DeploymentTypeOK
  BY DEF IInv, ApiInv, DeploymentTypeOK
<1>2. DeploymentSpec => []ApiInv
  BY InitApiInv, StepApiInv, PTL DEF DeploymentSpec
<1> QED
  BY <1>1, <1>2, DeploymentMigrates, MigrateInvariance, PTL

(* An instance that came up has a connection string and a whole launcher   *)
(* or none, for any sequence of environments and any use of the parameter. *)
THEOREM ReadyMeansWhole == DeploymentSpec => []ReadyIsWhole
<1>1. ApiInv => ReadyIsWhole
  BY DEF ApiInv, WholeServer, ReadyIsWhole, Api!ReadyIsWhole
<1> QED
  BY <1>1, InitApiInv, StepApiInv, PTL DEF DeploymentSpec
=============================================================================
