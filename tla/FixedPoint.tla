----------------------------- MODULE FixedPoint -----------------------------
(***************************************************************************)
(* The fixed point library of the Balancer contracts (FixedPoint and Math  *)
(* of v2-solidity-utils), as far as the Linear Pools use it.  ONE is 10^18 *)
(* there; here it is a parameter, so that rounding shows with small        *)
(* numbers.  Amounts are below 2^112 and rates far below 2^128, so no      *)
(* product reaches 2^256 and integers need no width.                       *)
(***************************************************************************)
EXTENDS Integers

CONSTANT ONE

ASSUME OneAssumption == ONE \in Nat \ {0}

MulDown(a, b) == (a * b) \div ONE
MulUp(a, b) == IF a * b = 0 THEN 0 ELSE (a * b - 1) \div ONE + 1
DivDown(a, b) == (a * ONE) \div b
DivUp(a, b) == IF a = 0 THEN 0 ELSE (a * ONE - 1) \div b + 1

\* 1 - x, or 0 when there is nothing left.
Complement(x) == IF x < ONE THEN ONE - x ELSE 0

\* Math.divDown(Math.mul(a, b), c) and its mirror image: no intermediate loss.
MulDivDown(a, b, c) == (a * b) \div c
MulDivUp(a, b, c) == IF a * b = 0 THEN 0 ELSE (a * b - 1) \div c + 1
=============================================================================
