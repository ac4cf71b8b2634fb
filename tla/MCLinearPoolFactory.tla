------------------------ MODULE MCLinearPoolFactory ------------------------
(***************************************************************************)
(* A Silo and an ERC-4626 factory on one Vault, two main tokens each with  *)
(* its wrapper, one salt: every creation of the same arguments collides in *)
(* everything but the manager.                                             *)
(***************************************************************************)
EXTENDS LinearPoolFactory

CONSTANTS silo, euler, erc4626, dai, sDai

MCKind == [f \in Factories |-> CASE f = silo    -> "silo"
                                 [] f = euler   -> "euler"
                                 [] f = erc4626 -> "erc4626"]
MCUnderlying == [t \in Tokens |-> IF t = sDai THEN dai ELSE t]
MCWindowEnd == [f \in Factories |-> IF f = silo THEN 1 ELSE MaxTime]
=============================================================================
