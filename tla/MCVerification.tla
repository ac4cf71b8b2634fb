---------------------------- MODULE MCVerification ----------------------------
EXTENDS Verification, TLC

CONSTANTS pool, rebalancer, math, poolSol, mathSol, rebalancerSol, otherSol

MCFileOrder == <<rebalancer, pool>>
MCSourceOrder == <<otherSol, mathSol, rebalancerSol, poolSol>>
MCBase == (poolSol :> pool) @@ (mathSol :> math)
          @@ (rebalancerSol :> rebalancer) @@ (otherSol :> rebalancer)
MCImports == (poolSol :> {rebalancerSol}) @@ (rebalancerSol :> {mathSol})
             @@ (mathSol :> {}) @@ (otherSol :> {})

\* The second compilation has another version of the sources of the pool, and a
\* source with the base name of one of them.
MCCompilations == {[sources |-> {mathSol, rebalancerSol, poolSol}, version |-> 1],
                   [sources |-> Sources, version |-> 2]}
=============================================================================
