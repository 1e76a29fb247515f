------------------------------- MODULE Contract -------------------------------
(***************************************************************************)
(* What a submission names and what identifies an analysis.  A client      *)
(* names a replay, a side and a profile; the server turns the profile into *)
(* the parameters of the search and adds the build it is deployed with.    *)
(* Two submissions share an analysis if and only if their identities are   *)
(* equal.                                                                  *)
(***************************************************************************)
EXTENDS Naturals

CONSTANTS Replay,  \* replay ids, of those that isSafeReplayId takes
          Tag,     \* POKE_ENGINE_TAG
          Dataset  \* USAGE_STATS_DATASET

Perspective == {"p1", "p2"}

(* Engine parameters, keyed by profile name. *)
PROFILES ==
  [p \in {"ladder-parity", "quick"} |->
    [searchBudgetMsPerTurn |-> IF p = "quick" THEN 200 ELSE 1000,
     opponentSamples |-> IF p = "quick" THEN 2 ELSE 8,
     threads |-> 4, usageStatsCutoff |-> 1500, seed |-> 0]]

(* The bodies that the handler goes on with: any other is a 400. *)
SubmitRequest == [replayId : Replay, perspective : Perspective, profile : DOMAIN PROFILES]

EngineBuild == [pokeEngineTag : Tag, usageStatsDataset : Dataset]

(* The cache key, and the unique key of analyses: every parameter, and not *)
(* the name of the profile.                                                *)
DeriveIdentity(submit, build) ==
  LET params == PROFILES[submit.profile] IN
  [replayId |-> submit.replayId,
   perspective |-> submit.perspective,
   searchBudgetMsPerTurn |-> params.searchBudgetMsPerTurn,
   opponentSamples |-> params.opponentSamples,
   threads |-> params.threads,
   usageStatsCutoff |-> params.usageStatsCutoff,
   usageStatsDataset |-> build.usageStatsDataset,
   pokeEngineTag |-> build.pokeEngineTag,
   seed |-> params.seed]
=============================================================================
