---------------------------- MODULE MCDeployment ----------------------------
(* An instance of Deployment for TLC: every way to misconfigure the        *)
(* function, and then none.                                                *)
EXTENDS Deployment, TLC

E(source, launch, numbers) == [source |-> source, launch |-> launch, numbers |-> numbers]

Corrected == <<E("neither", "none", TRUE), E("url", "blank", TRUE), E("url", "none", FALSE),
               E("parameter", "some", TRUE), E("parameter", "all", TRUE)>>

Written == <<E("parameter", "none", TRUE)>>
=============================================================================
