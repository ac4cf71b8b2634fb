----------------------- MODULE LinearPoolRebalancing -----------------------
(***************************************************************************)
(* A Linear Pool, its rebalancer, the Vault that holds the pool's tokens   *)
(* and the protocol of its wrapped token.                                  *)
(*                                                                         *)
(* rebalance brings the main token balance of the pool to the middle of    *)
(* its targets by a swap that the pool only quotes: the rebalancer takes   *)
(* one token out of the pool as its asset manager, wraps or unwraps it at  *)
(* the protocol, and deposits exactly what the quoted swap would have put  *)
(* in.  What is left of the main token is the caller's reward.             *)
(*                                                                         *)
(* The quote uses the rate the pool reads, at 18 decimals and rounded for  *)
(* the pool; the protocol converts by its own arithmetic.  If the second   *)
(* gives less than the first promised, the deposit fails and the whole     *)
(* transaction is reverted.                                                *)
(***************************************************************************)
EXTENDS WrappedTokens

CONSTANTS Kinds,        \* protocols to choose from
          TargetPairs,  \* targets the owner may set: records lower, upper
          Fee,          \* swap fee, a fraction of ONE
          ExtraMains,   \* main tokens a caller may add to a rebalance
          MaxAssets,    \* bound on the main tokens of the protocol's vault
          MaxShares,    \* bound on the wrapped tokens
          MaxMain,      \* bound on the main tokens of the pool
          MaxHeld       \* bound on those a caller leaves in the rebalancer

ASSUME RebalancingAssumption ==
    /\ Kinds \subseteq Protocols
    /\ \A t \in TargetPairs : /\ t.lower \in Nat /\ t.upper \in Nat
                              /\ t.lower <= t.upper
    /\ Fee \in 1 .. ONE - 1
    /\ ExtraMains \subseteq Nat
    /\ {MaxAssets, MaxShares, MaxMain, MaxHeld} \subseteq Nat

VARIABLES vault,    \* the protocol's vault
          cash,     \* the pool's tokens in the Vault: [main, wrapped]
          held,     \* the tokens of the rebalancer
          targets,  \* of the pool
          pc,       \* where the running rebalance is, or "idle"
          swap,     \* the quoted swap: [kind, main, wrapped, extra]
          journal   \* what a revert restores

vars == <<vault, cash, held, targets, pc, swap, journal>>

None == [main |-> 0, wrapped |-> 0]
NoSwap == [kind |-> "none", main |-> 0, wrapped |-> 0, extra |-> 0]
Snapshot == [vault |-> vault, cash |-> cash, held |-> held]
Backed(a, s) == [protocol |-> vault.protocol, assets |-> a, shares |-> s]

Init == /\ \E p \in Kinds : vault = [protocol |-> p, assets |-> 0, shares |-> 0]
        /\ cash = None
        /\ held = None
        /\ targets \in {t \in TargetPairs : t.lower = 0}
        /\ pc = "idle"
        /\ swap = NoSwap
        /\ journal = <<>>

-----------------------------------------------------------------------------
\* The pool's quote.

\* Main tokens minus the fees that are due outside the targets.
ToNominal(real) ==
    IF real < targets.lower
    THEN real - MulDown(targets.lower - real, Fee)
    ELSE IF real <= targets.upper THEN real
    ELSE real - MulDown(real - targets.upper, Fee)

Rate == GetWrappedTokenRate(vault)

WrappedOutPerMainIn(m) == DivDown(ToNominal(cash.main + m) - ToNominal(cash.main), Rate)
WrappedInRoundedDown(m) == \* mutant: in the user's favour
    DivDown(ToNominal(cash.main) - ToNominal(cash.main - m), Rate)
WrappedInPerMainOut(m) == DivUp(ToNominal(cash.main) - ToNominal(cash.main - m), Rate)

DesiredMainTokenBalance == (targets.lower + targets.upper) \div 2

-----------------------------------------------------------------------------
\* rebalance and rebalanceWithExtraMain.

WithinBounds(extra) == /\ vault.assets <= MaxAssets
                       /\ vault.shares <= MaxShares
                       /\ held.main + extra <= MaxHeld

Rebalance(extra) ==
    LET desired == DesiredMainTokenBalance
        lack == desired - cash.main
        excess == cash.main - desired
    IN  /\ pc = "idle"
        /\ WithinBounds(extra)
        /\ held' = [held EXCEPT !.main = @ + extra]
        /\ \/ /\ lack > 0
              /\ ~RateReverts(vault) /\ Rate > 0
              /\ swap' = [kind |-> "lack", main |-> lack,
                          wrapped |-> WrappedOutPerMainIn(lack), extra |-> extra]
              /\ pc' = "withdraw"
              /\ journal' = Snapshot
           \/ /\ excess > 0
              /\ ~RateReverts(vault) /\ Rate > 0
              /\ swap' = [kind |-> "excess", main |-> excess,
                          wrapped |-> WrappedInPerMainOut(excess), extra |-> extra]
              /\ pc' = "withdraw"
              /\ journal' = Snapshot
           \/ /\ lack = 0
              /\ UNCHANGED <<swap, pc, journal>>
        /\ UNCHANGED <<vault, cash, targets>>

\* _withdrawFromPool: one call of the Vault that makes the amount managed
\* (WITHDRAW) and clears the managed balance (UPDATE), which therefore is zero
\* before and after; _depositToPool is the converse.
WithdrawWrapped ==
    /\ pc = "withdraw" /\ swap.kind = "lack"
    /\ cash.wrapped >= swap.wrapped
    /\ cash' = [cash EXCEPT !.wrapped = @ - swap.wrapped]
    /\ held' = [held EXCEPT !.wrapped = @ + swap.wrapped]
    /\ pc' = "convert"
    /\ UNCHANGED <<vault, targets, swap, journal>>

WithdrawMain ==
    /\ pc = "withdraw" /\ swap.kind = "excess"
    /\ cash.main >= swap.main
    /\ cash' = [cash EXCEPT !.main = @ - swap.main]
    /\ held' = [held EXCEPT !.main = @ + swap.main]
    /\ pc' = "convert"
    /\ UNCHANGED <<vault, targets, swap, journal>>

Unwrap ==
    LET u == UnwrapTokens(vault, swap.wrapped)
    IN  /\ pc = "convert" /\ swap.kind = "lack"
        /\ Live(vault)
        /\ u.burnt <= held.wrapped
        /\ u.main <= vault.assets
        /\ vault' = Backed(vault.assets - u.main, vault.shares - u.burnt)
        /\ held' = [main |-> held.main + u.main, wrapped |-> held.wrapped - u.burnt]
        /\ pc' = "deposit"
        /\ UNCHANGED <<cash, targets, swap, journal>>

Wrap ==
    LET amount == GetRequiredTokensToWrap(vault, swap.wrapped)
        shares == WrapTokens(vault, amount)
    IN  /\ pc = "convert" /\ swap.kind = "excess"
        /\ Live(vault)
        /\ amount <= held.main
        /\ vault' = Backed(vault.assets + amount, vault.shares + shares)
        /\ held' = [main |-> held.main - amount, wrapped |-> held.wrapped + shares]
        /\ pc' = "deposit"
        /\ UNCHANGED <<cash, targets, swap, journal>>

DepositAllMain == \* mutant: deposits whatever there is
    /\ pc = "deposit" /\ swap.kind = "lack"
    /\ cash' = [cash EXCEPT !.main = @ + held.main]
    /\ held' = [held EXCEPT !.main = 0]
    /\ pc' = "pay"
    /\ UNCHANGED <<vault, targets, swap, journal>>

DepositUnchecked == \* mutant: more than it has
    /\ pc = "deposit" /\ swap.kind = "lack"
    /\ cash' = [cash EXCEPT !.main = @ + swap.main]
    /\ held' = [held EXCEPT !.main = @ - swap.main]
    /\ pc' = "pay"
    /\ UNCHANGED <<vault, targets, swap, journal>>

DepositMain ==
    /\ pc = "deposit" /\ swap.kind = "lack"
    /\ held.main >= swap.main
    /\ cash' = [cash EXCEPT !.main = @ + swap.main]
    /\ held' = [held EXCEPT !.main = @ - swap.main]
    /\ pc' = "pay"
    /\ UNCHANGED <<vault, targets, swap, journal>>

DepositWrapped ==
    /\ pc = "deposit" /\ swap.kind = "excess"
    /\ held.wrapped >= swap.wrapped
    /\ cash' = [cash EXCEPT !.wrapped = @ + swap.wrapped]
    /\ held' = [held EXCEPT !.wrapped = @ - swap.wrapped]
    /\ pc' = "pay"
    /\ UNCHANGED <<vault, targets, swap, journal>>

\* The reward is the whole balance.
Pay == /\ pc = "pay"
       /\ held' = [held EXCEPT !.main = 0]
       /\ pc' = "idle"
       /\ swap' = NoSwap
       /\ journal' = <<>>
       /\ UNCHANGED <<vault, cash, targets>>

Revert == /\ pc # "idle"
          /\ vault' = journal.vault
          /\ cash' = journal.cash
          /\ held' = journal.held
          /\ pc' = "idle"
          /\ swap' = NoSwap
          /\ journal' = <<>>
          /\ UNCHANGED targets

-----------------------------------------------------------------------------
\* Everybody else, between transactions.

OthersShares == vault.shares - cash.wrapped - held.wrapped

\* The pool's balances change by swaps, joins and exits of its users, which the
\* pool refuses when the fees exceed the balance.
Trade == /\ pc = "idle"
         /\ \/ \E m \in {cash.main - 1, cash.main + 1} \cap 0 .. MaxMain :
                  ToNominal(m) >= 0 /\ cash' = [cash EXCEPT !.main = m]
            \/ /\ OthersShares > 0
               /\ cash' = [cash EXCEPT !.wrapped = @ + 1]
            \/ /\ cash.wrapped > 0
               /\ cash' = [cash EXCEPT !.wrapped = @ - 1]
         /\ UNCHANGED <<vault, held, targets, pc, swap, journal>>

\* Deposits and withdrawals of others at the protocol, its yield and losses.
Market ==
    /\ pc = "idle"
    /\ \E a \in 0 .. MaxAssets, s \in 0 .. MaxShares :
          /\ a - vault.assets \in -1 .. 1 /\ s - vault.shares \in -1 .. 1
          /\ s - vault.shares >= -OthersShares
          /\ s > 0 => a > 0
          /\ vault' = Backed(a, s)
    /\ UNCHANGED <<cash, held, targets, pc, swap, journal>>

\* setTargets: the balance must be within the old and the new targets.
Within(t) == t.lower <= cash.main /\ cash.main <= t.upper
SetTargets == /\ pc = "idle"
              /\ Within(targets)
              /\ \E t \in TargetPairs : Within(t) /\ targets' = t
              /\ UNCHANGED <<vault, cash, held, pc, swap, journal>>

Next == \/ \E extra \in ExtraMains : Rebalance(extra)
        \/ WithdrawWrapped \/ WithdrawMain
        \/ Unwrap \/ Wrap
        \/ DepositMain \/ DepositWrapped
        \/ Pay
        \/ Revert
        \/ Trade
        \/ Market
        \/ SetTargets

Spec == Init /\ [][Next]_vars

-----------------------------------------------------------------------------
Amounts == [main : Nat, wrapped : Nat]
Swaps == [kind : {"none", "lack", "excess"}, main : Nat, wrapped : Nat, extra : Nat]

TypeOK == /\ vault \in Vaults /\ vault.protocol \in Kinds
          /\ cash \in Amounts
          /\ held \in Amounts
          /\ targets \in TargetPairs
          /\ pc \in {"idle", "withdraw", "convert", "deposit", "pay"}
          /\ swap \in Swaps

-----------------------------------------------------------------------------
\* Properties.

\* "We add one to ensure the returned value will always be enough": the tokens
\* that _getRequiredTokensToWrap asks for yield, when wrapped, the wrapped
\* tokens the rebalancer owes to the pool, so that its deposit cannot fail.  The
\* required amount is computed from the state of the protocol before the
\* deposit, with a price that each protocol rounds in its own way.
RequiredSuffices ==
    pc = "deposit" /\ swap.kind = "excess" => held.wrapped >= swap.wrapped

\* That is so for the protocols whose rebalancers convert with the price itself,
\* not with one cut off at 18 decimals: the unit they add covers the protocol's
\* rounding in every state of its vault, without the wrapped tokens that earlier
\* rebalances have left in the rebalancer.
ExactRequiredSuffices ==
    vault.protocol \in ExactProtocols /\ pc = "deposit" /\ swap.kind = "excess" =>
        held.wrapped >= journal.held.wrapped + swap.wrapped

\* What was withdrawn from the pool can be unwrapped: the conversion back and
\* forth that the Silo and Euler rebalancers make (wrapped to main, which the
\* protocol turns into the shares to burn) never burns more than the tokens
\* withdrawn nor asks for more than the protocol has.
UnwrapCovered ==
    pc = "convert" /\ swap.kind = "lack" /\ Live(vault) =>
        LET u == UnwrapTokens(vault, swap.wrapped)
        IN  u.burnt <= swap.wrapped /\ u.main <= vault.assets

\* The pool's rounding and that of the protocol never cost more than the price
\* of one wrapped token, the digits the rate has lost (one main token for every
\* ONE wrapped ones) and two main tokens: whoever adds that much to a
\* rebalance has enough to pay for the wrapping, and for the deposit after
\* unwrapping, inside the targets as well, where no fees help.
ExtraMainSuffices ==
    pc \in {"convert", "deposit"}
    /\ swap.extra * ONE >= swap.wrapped + GetWrappedTokenRate(journal.vault) + 2 * ONE =>
        /\ pc = "convert" /\ swap.kind = "excess" /\ Live(vault) =>
               held.main >= GetRequiredTokensToWrap(vault, swap.wrapped)
        /\ pc = "deposit" /\ swap.kind = "lack" => held.main >= swap.main

\* A rebalance never takes from those who provide the pool's liquidity: at the
\* rate it was quoted with, the pool is worth as much as before, although its
\* tokens left it, were converted elsewhere and came back.
PoolValue(c, r) == ToNominal(c.main) * ONE + c.wrapped * r
PoolNotPoorer ==
    pc = "pay" => LET r == GetWrappedTokenRate(journal.vault)
                  IN  PoolValue(cash, r) >= PoolValue(journal.cash, r)

\* A rebalance that succeeds leaves the pool in the middle of its targets,
\* whatever rounding cost.
Balanced == pc = "pay" => cash.main = DesiredMainTokenBalance
=============================================================================
