----------------------------- MODULE Deployment -----------------------------
(***************************************************************************)
(* A deployment as it comes up: runners of migrate.py (Migrate) and        *)
(* instances of the API (ColdStart) on one database, in whatever order     *)
(* they are started, fail and are started again.                           *)
(***************************************************************************)
EXTENDS Migrate, Sequences

CONSTANTS Instance,   \* function instances
          Deployed    \* the environments deployed, one after the other

VARIABLES parameter, revision, instance, asks, answer  \* ColdStart's

Api == INSTANCE ColdStart

ASSUME DeploymentAssumption == Deployed \in Seq(Api!Env) /\ Deployed # <<>>

apiVars == <<parameter, revision, instance, asks, answer>>
deploymentVars == <<vars, apiVars>>

DeploymentTypeOK == TypeOK /\ Api!TypeOK

DeploymentInit == Init /\ Api!Init

(* A step of an instance touches nothing of the runners. *)
RunnersStay == UNCHANGED <<recorded, command, todo, runs, overlapped>>

DeploymentNext ==
  \/ Next /\ UNCHANGED apiVars
  \/ Api!Next /\ RunnersStay

DeploymentSpec == DeploymentInit /\ [][DeploymentNext]_deploymentVars

(* Clients keep asking, the platform starts instances for them, ends those *)
(* that hang and takes back all in the end, and neither SSM nor the        *)
(* database fails for ever.                                                *)
Fairness ==
  \A n \in Instance :
    /\ WF_deploymentVars(Api!Start(n) /\ RunnersStay)
    /\ WF_deploymentVars(RunnersStay /\ \E request \in {"read", "submission"} : Api!Invoke(n, request))
    /\ WF_deploymentVars(RunnersStay /\ (Api!Reject(n) \/ Api!TimesOut(n)))
    /\ SF_deploymentVars(Api!ParameterRead(n) /\ RunnersStay)
    /\ SF_deploymentVars(Api!Serve(n) /\ RunnersStay)
    /\ SF_deploymentVars(Api!Recycle(n) /\ RunnersStay)

FairSpec == DeploymentSpec /\ Fairness

-----------------------------------------------------------------------------
(* The properties of the two parts that the whole is checked for.          *)
ReadyIsWhole == Api!ReadyIsWhole
PlaceholderStopsTheStart == Api!PlaceholderStopsTheStart

(* The environment is one that loadConfig takes, the string it leads to is *)
(* one the database takes, and all migrations are recorded.                *)
Sound ==
  /\ ~Api!LaunchRefused(Api!env) /\ Api!env.numbers
  /\ \/ Api!env.source = "url"
     \/ Api!env.source = "parameter" /\ parameter # "placeholder"
  /\ recorded = Version

(* Once everything is in its place, in whatever order it came there, every *)
(* instance serves again and again: no start that failed, no connection    *)
(* string from before a rotation and no statement that met a half-migrated *)
(* schema is remembered beyond the life of the instance it befell.         *)
ServiceRecovers ==
  <>[](Sound /\ ~overlapped) => \A n \in Instance : []<>(answer[n] = "served")
=============================================================================
