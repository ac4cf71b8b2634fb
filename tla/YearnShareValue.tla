-------------------------- MODULE YearnShareValue --------------------------
(***************************************************************************)
(* The share value of a Yearn vault as YearnShareValueHelper computes it.  *)
(* A vault locks the profit of a report and releases it over time, so that *)
(* nobody can buy shares just before a report and sell them just after it. *)
(* The helper repeats the vault's computation from its public state, at    *)
(* the time of the call and with a formula that rounds differently; the    *)
(* pool prices wrapped tokens with it, and the rebalancer decides with it  *)
(* how much to deposit.                                                    *)
(*                                                                         *)
(* The vault is external.  It rounds what it locks up and what it gives    *)
(* down.                                                                   *)
(***************************************************************************)
EXTENDS WrappedTokens

CONSTANTS Degradation,  \* lockedProfitDegradation: the part released per tick
          MaxAssets,    \* bound on the tokens of the vault
          MaxSupply,    \* bound on its shares
          MaxTime       \* bound on the timestamp

ASSUME YearnAssumption == /\ Degradation \in Nat
                          /\ {MaxAssets, MaxSupply, MaxTime} \subseteq Nat

VARIABLES now,           \* block timestamp
          totalAssets,
          totalSupply,
          lockedProfit,  \* at the last report
          lastReport

vars == <<now, totalAssets, totalSupply, lockedProfit, lastReport>>

Init == /\ now = 0
        /\ totalAssets = 0
        /\ totalSupply = 0
        /\ lockedProfit = 0
        /\ lastReport = 0

-----------------------------------------------------------------------------
\* The helper.

LockedFundsRatio == (now - lastReport) * Degradation

RatioTaken == MulDown(lockedProfit, LockedFundsRatio)    \* mutant: what is free
Unbounded == MulDown(lockedProfit, ONE - LockedFundsRatio) \* mutant: no saturation
NeverReleased == lockedProfit                            \* mutant
Deduction == MulDown(lockedProfit, Complement(LockedFundsRatio))

CalculateFreeFunds == totalAssets - Deduction

Vault == [protocol |-> "yearn", assets |-> CalculateFreeFunds, shares |-> totalSupply]

Gross(shares) == \* mutant: all the assets
    IF totalSupply = 0 THEN shares ELSE MulDivDown(shares, totalAssets, totalSupply)
ShareValue(shares) == SharesToAmount(Vault, shares)

-----------------------------------------------------------------------------
\* The vault.

Locked == IF LockedFundsRatio < ONE
          THEN lockedProfit - (LockedFundsRatio * lockedProfit) \div ONE
          ELSE 0
FreeFunds == totalAssets - Locked
VaultValue(shares) == IF totalSupply = 0 THEN shares
                      ELSE MulDivDown(shares, FreeFunds, totalSupply)

Deposit(a) ==
    LET issued == IF totalSupply = 0 THEN a ELSE MulDivDown(a, totalSupply, FreeFunds)
    IN  /\ totalAssets + a <= MaxAssets
        /\ totalSupply > 0 => FreeFunds > 0
        /\ issued > 0 /\ totalSupply + issued <= MaxSupply
        /\ totalAssets' = totalAssets + a
        /\ totalSupply' = totalSupply + issued
        /\ UNCHANGED <<now, lockedProfit, lastReport>>

Withdraw(shares) ==
    /\ shares <= totalSupply
    /\ totalAssets' = totalAssets - VaultValue(shares)
    /\ totalSupply' = totalSupply - shares
    /\ UNCHANGED <<now, lockedProfit, lastReport>>

\* A report locks the profit; a loss is first taken from what is locked.
Report(gain) ==
    /\ totalSupply > 0
    /\ totalAssets + gain <= MaxAssets
    /\ totalAssets' = totalAssets + gain
    /\ lockedProfit' = Locked + gain
    /\ lastReport' = now
    /\ UNCHANGED <<now, totalSupply>>

ReportLoss(loss) ==
    /\ loss <= totalAssets
    /\ totalAssets' = totalAssets - loss
    /\ lockedProfit' = IF Locked > loss THEN Locked - loss ELSE 0
    /\ lastReport' = now
    /\ UNCHANGED <<now, totalSupply>>

Tick == /\ now < MaxTime
        /\ now' = now + 1
        /\ UNCHANGED <<totalAssets, totalSupply, lockedProfit, lastReport>>

Next == \/ \E n \in 1 .. MaxAssets : \/ Deposit(n)
                                     \/ Withdraw(n)
                                     \/ Report(n)
                                     \/ ReportLoss(n)
        \/ Tick

Spec == Init /\ [][Next]_vars

-----------------------------------------------------------------------------
\* Types.  The free funds are a subtraction that reverts when its result is
\* negative, and the pool with it: they are always defined, whatever is
\* withdrawn or lost while profit is locked.
TypeOK == /\ now \in Nat
          /\ totalAssets \in Nat
          /\ totalSupply \in Nat
          /\ lockedProfit \in Nat
          /\ lastReport \in 0 .. now
          /\ CalculateFreeFunds \in Nat

\* The helper's value of any number of shares is what the vault would pay, or
\* one unit more: the pool's rate never promises less than the vault gives.
AgreesWithVault ==
    \A s \in 0 .. totalSupply :
        ShareValue(s) - VaultValue(s) \in 0 .. 1

\* A profitable report does not raise the value of any shares, nor lower it by
\* more than a unit: the pool's rate does not jump for somebody to trade on.
ReportsDoNotJump ==
    [][totalAssets' > totalAssets /\ totalSupply' = totalSupply =>
          \A s \in 0 .. totalSupply : ShareValue(s)' - ShareValue(s) \in -1 .. 0]_vars

\* Without a loss, no deposit, withdrawal, report or passing of time costs those
\* who stay more than a unit.
Loses == totalAssets' < totalAssets /\ totalSupply' = totalSupply
StayersKeepValue ==
    [][~Loses => \A s \in 0 .. totalSupply :
                     s <= totalSupply' => ShareValue(s)' >= ShareValue(s) - 1]_vars
=============================================================================
