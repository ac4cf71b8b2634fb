--------------------------- MODULE TetuShareValue ---------------------------
(***************************************************************************)
(* The rate of a Tetu smart vault as TetuShareValueHelper computes it: the *)
(* tokens in the vault and those its strategy has invested, for each share *)
(* of the supply.  The strategy is set by the protocol's controller after  *)
(* the vault was made, and may be replaced.                                *)
(*                                                                         *)
(* The vault is external: it counts what it holds and what its strategy    *)
(* holds, and rounds against the user.                                     *)
(***************************************************************************)
EXTENDS WrappedTokens

CONSTANTS MaxAssets,  \* bound on the tokens of the vault
          MaxSupply   \* bound on its shares

ASSUME TetuAssumption == {MaxAssets, MaxSupply} \subseteq Nat

VARIABLES inVault,   \* underlyingBalanceInVault
          strategy,  \* is there one?
          invested,  \* its investedUnderlyingBalance
          supply     \* shares

vars == <<inVault, strategy, invested, supply>>

Init == /\ inVault = 0
        /\ strategy \in BOOLEAN
        /\ invested = 0
        /\ supply = 0

-----------------------------------------------------------------------------
\* TetuShareValueHelper.

DefaultRate == ONE

DefaultAlways == DefaultRate  \* mutant
\* Without a strategy, the default rate stands for its balance.
StrategyInvestedUnderlyingBalance == IF strategy THEN invested ELSE DefaultRate

Idle == inVault  \* mutant: forgets what is invested
Balance == inVault + StrategyInvestedUnderlyingBalance

GetTokenRate == TokenRate([protocol |-> "tetu", assets |-> Balance, shares |-> supply])

-----------------------------------------------------------------------------
\* The vault.

Holdings == inVault + invested

Deposit(a) ==
    LET issued == IF supply = 0 THEN a ELSE MulDivDown(a, supply, Holdings)
    IN  /\ Holdings + a <= MaxAssets
        /\ supply > 0 => Holdings > 0
        /\ issued > 0 /\ supply + issued <= MaxSupply
        /\ inVault' = inVault + a
        /\ supply' = supply + issued
        /\ UNCHANGED <<strategy, invested>>

\* What is missing in the vault comes out of the strategy.
Withdraw(shares) ==
    LET paid == MulDivDown(shares, Holdings, supply)
    IN  /\ shares <= supply
        /\ inVault' = IF paid <= inVault THEN inVault - paid ELSE 0
        /\ invested' = IF paid <= inVault THEN invested ELSE invested - (paid - inVault)
        /\ supply' = supply - shares
        /\ UNCHANGED strategy

Invest == /\ strategy
          /\ inVault > 0
          /\ \E a \in 1 .. inVault : /\ inVault' = inVault - a
                                     /\ invested' = invested + a
          /\ UNCHANGED <<strategy, supply>>

Divest == /\ strategy
          /\ \E a \in 1 .. invested : /\ inVault' = inVault + a
                                      /\ invested' = invested - a
          /\ UNCHANGED <<strategy, supply>>

Earn == /\ strategy /\ invested > 0
        /\ Holdings < MaxAssets
        /\ invested' = invested + 1
        /\ UNCHANGED <<inVault, strategy, supply>>

SetStrategy == /\ ~strategy
               /\ strategy' = TRUE
               /\ UNCHANGED <<inVault, invested, supply>>

Next == \/ \E n \in 1 .. MaxAssets : Deposit(n) \/ Withdraw(n)
        \/ Invest \/ Divest \/ Earn
        \/ SetStrategy

Spec == Init /\ [][Next]_vars

-----------------------------------------------------------------------------
\* Properties.

\* The rate does not change when the vault moves tokens to its strategy or back.
InvestingInvisible ==
    [][(Invest \/ Divest) => GetTokenRate' = GetTokenRate]_vars

\* With a strategy, the rate never falls while there are shares: the pool is not
\* quoted less because others deposit or withdraw.
RateNeverFalls ==
    [][strategy /\ supply > 0 /\ supply' > 0 => GetTokenRate' >= GetTokenRate]_vars
=============================================================================
