---------------------------- MODULE MCSubmission ----------------------------
(* Instances of Submission for TLC: one replay under one or both profiles, *)
(* on one or two API instances of a build, one client at a limit of one or *)
(* two.                                                                    *)
EXTENDS Submission, TLC

CONSTANTS g1, t1, d1

Body(profile) == [replayId |-> g1, perspective |-> "p1", profile |-> profile]

OneProfile == {Body("quick")}
BothProfiles == {Body(p) : p \in DOMAIN PROFILES}

OneBuild == [n \in Instance |-> [pokeEngineTag |-> t1, usageStatsDataset |-> d1]]

Symmetry == Permutations(Request) \cup Permutations(Instance)
=============================================================================
