-------------------------- MODULE MCDeploymentTask --------------------------
(***************************************************************************)
(* Instances of DeploymentTask: one task alone, with a factory, one more   *)
(* contract and the pool; and a task whose arguments are what another task *)
(* has deployed.                                                           *)
(***************************************************************************)
EXTENDS DeploymentTask, TLC

CONSTANTS alice, bob, vault, silo, token

MCNobodysNeeds == [t \in Tasks |-> {}]
MCNeeds == [t \in Tasks |-> IF t = silo THEN {<<vault, Factory>>} ELSE {}]
MCOneTask == <<silo>>
MCTwoTasks == <<vault, silo>>
MCOthers == <<token>>
MCNoOthers == <<>>
MCSymmetry == Permutations(Runners) \cup Permutations(Builds)
=============================================================================
