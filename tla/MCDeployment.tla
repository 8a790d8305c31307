------------------------------ MODULE MCDeployment ------------------------------
(* Tools, entries and releases for the model-checked instances.             *)
EXTENDS Deployment, TLC

CONSTANTS g1, g2, v1, v2

MCTools == {"t1"}
MCGuids == {g1, g2}
MCVersions == {v1, v2}

(* Entries are told apart by what they are set up to, releases not at all.  *)
DeploySymmetry == Permutations(MCGuids) \cup Permutations(MCVersions)
=============================================================================
