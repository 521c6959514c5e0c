--------------------------- MODULE MCDeploymentSet ---------------------------
(* Small instances of DeploymentSet for TLC.                               *)
EXTENDS DeploymentSet
=============================================================================
