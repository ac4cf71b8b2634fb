---------------------- MODULE MCLinearPoolRebalancing ----------------------
(***************************************************************************)
(* Instances of LinearPoolRebalancing: amounts up to seven tokens of three *)
(* units each (ONE = 3), so that every amount has thirds of a token to     *)
(* lose, a fee of a third and two settings of the targets, one of which is *)
(* above the balance of an empty pool.                                     *)
(***************************************************************************)
EXTENDS LinearPoolRebalancing

MCTargets == {[lower |-> 0, upper |-> 2], [lower |-> 2, upper |-> 2]}
=============================================================================
