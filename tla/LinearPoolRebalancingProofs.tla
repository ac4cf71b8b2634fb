-------------------- MODULE LinearPoolRebalancingProofs --------------------
(***************************************************************************)
(* What a rebalance does to a Linear Pool, for every fee, targets, amounts *)
(* and mix of protocols.  IInv follows the tokens from the quote to the    *)
(* deposit; Funded adds how far the quote can be from the rate and what    *)
(* the rebalancer has besides, for what a caller must add.                 *)
(***************************************************************************)
EXTENDS LinearPoolRebalancing, WrappedTokensProofs

LEMMA ConstantsType ==
    /\ ONE \in Nat \ {0} /\ Nano \in Nat \ {0} /\ RAY \in Nat \ {0}
    /\ Fee \in Nat /\ Fee < ONE
    /\ Kinds \subseteq Protocols
    /\ \A t \in TargetPairs : t.lower \in Nat /\ t.upper \in Nat /\ t.lower <= t.upper
    /\ ExtraMains \subseteq Nat
BY OneAssumption, NanoAssumption, RebalancingAssumption DEF RAY

-----------------------------------------------------------------------------
\* Fees: they grow with the distance from the targets, but more slowly than it.

LEMMA FeeGrowsSlowly ==
    ASSUME NEW a \in Nat, NEW b \in Nat, a <= b
    PROVE  /\ MulDown(a, Fee) \in Nat /\ MulDown(b, Fee) \in Nat
           /\ MulDown(a, Fee) <= MulDown(b, Fee)
           /\ MulDown(b, Fee) - MulDown(a, Fee) <= b - a
           /\ MulDown(a, Fee) <= a
<1> DEFINE p == (a * Fee) \div ONE
           q == (b * Fee) \div ONE
           d == b - a
<1>1. ONE \in Nat \ {0} /\ Fee \in Nat /\ Fee < ONE /\ d \in Nat
  BY ConstantsType
<1>2. a * Fee \in Nat /\ b * Fee \in Nat /\ d * Fee \in Nat
  BY <1>1
<1>3. p \in Nat /\ ONE * p <= a * Fee /\ a * Fee < ONE * p + ONE
  BY <1>1, <1>2, DivBounds, DivType
<1>4. q \in Nat /\ ONE * q <= b * Fee
  BY <1>1, <1>2, DivBounds, DivType
<1>5. b * Fee = a * Fee + d * Fee
  BY <1>1
<1>6. ASSUME NEW x \in Nat PROVE x * Fee <= x * ONE
  BY <1>1, <1>6
<1>7. p <= q
  BY <1>1, <1>2, <1>3, <1>5, DivAtLeast
<1> HIDE DEF p, q, d
<1>8. q <= p + d
  <2>1. d * Fee <= d * ONE
    BY <1>1, <1>6
  <2>2. (p + d) * ONE + ONE = ONE * p + d * ONE + ONE /\ d * ONE \in Nat /\ ONE * p \in Nat
    BY <1>1, <1>3
  <2>3. b * Fee < (p + d) * ONE + ONE
    BY <1>1, <1>2, <1>3, <1>5, <2>1, <2>2
  <2> DEFINE z == p + d
  <2>4. z \in Nat /\ b * Fee < z * ONE + ONE
    BY <1>1, <1>3, <2>3
  <2> HIDE DEF z
  <2>5. ASSUME z + 1 <= q PROVE FALSE
    <3>1. (z + 1) * ONE <= q * ONE
      BY <1>1, <1>4, <2>4, <2>5, MulMono
    <3>2. (z + 1) * ONE = z * ONE + ONE /\ q * ONE = ONE * q
          /\ z * ONE \in Nat /\ ONE * q \in Nat
      BY <1>1, <1>4, <2>4
    <3> QED BY <1>1, <1>2, <1>4, <2>4, <3>1, <3>2
  <2>6. q <= z
    BY <1>4, <2>4, <2>5
  <2> QED BY <2>6 DEF z
<1>9. p <= a
  BY <1>1, <1>2, <1>6, DivAtMost DEF p
<1> QED BY <1>1, <1>3, <1>4, <1>7, <1>8, <1>9 DEF MulDown, p, q, d

\* A pool with more main tokens has a higher nominal balance, whatever the fees.
LEMMA NominalMonotone ==
    ASSUME targets \in TargetPairs, NEW m \in Nat, NEW n \in Nat, m <= n
    PROVE  ToNominal(m) \in Int /\ ToNominal(n) \in Int /\ ToNominal(m) <= ToNominal(n)
<1> DEFINE l == targets.lower
           u == targets.upper
           F(x) == MulDown(x, Fee)
<1>1. l \in Nat /\ u \in Nat /\ l <= u
  BY ConstantsType
<1> HIDE DEF l, u
<1>2. \A x \in Nat : F(x) \in Nat /\ F(x) <= x
  BY FeeGrowsSlowly
<1>3. \A x, y \in Nat : x <= y => F(x) <= F(y) /\ F(y) - F(x) <= y - x
  BY FeeGrowsSlowly
<1> HIDE DEF F
<1>4. \A x \in Nat : ToNominal(x) = IF x < l THEN x - F(l - x)
                                    ELSE IF x <= u THEN x ELSE x - F(x - u)
  BY DEF ToNominal, F, l, u
<1>5. CASE n < l
  <2>1. l - m \in Nat /\ l - n \in Nat /\ l - n <= l - m
    BY <1>1, <1>5
  <2>2. F(l - m) \in Nat /\ F(l - n) \in Nat /\ F(l - n) <= F(l - m)
    BY <1>2, <1>3, <2>1
  <2>3. ToNominal(m) = m - F(l - m) /\ ToNominal(n) = n - F(l - n)
    BY <1>1, <1>4, <1>5
  <2> QED BY <2>2, <2>3
<1>6. CASE l <= n /\ n <= u
  <2>1. ToNominal(n) = n
    BY <1>1, <1>4, <1>6
  <2>2. ToNominal(m) \in Int /\ ToNominal(m) <= m
    <3>1. m < l => l - m \in Nat /\ F(l - m) \in Nat
      BY <1>1, <1>2
    <3> QED BY <1>1, <1>4, <1>6, <3>1
  <2> QED BY <2>1, <2>2
<1>7. CASE u < n
  <2>1. n - u \in Nat /\ F(n - u) \in Nat /\ F(n - u) <= n - u
    BY <1>1, <1>2, <1>7
  <2>2. ToNominal(n) = n - F(n - u)
    BY <1>1, <1>4, <1>7
  <2>3. CASE m <= u
    <3>1. m < l => l - m \in Nat /\ F(l - m) \in Nat
      BY <1>1, <1>2
    <3>2. ToNominal(m) \in Int /\ ToNominal(m) <= m
      BY <1>1, <1>4, <2>3, <3>1
    <3> QED BY <1>1, <2>1, <2>2, <2>3, <3>2
  <2>4. CASE u < m
    <3>1. m - u \in Nat /\ m - u <= n - u
      BY <1>1, <2>4
    <3>2. F(m - u) \in Nat /\ F(n - u) - F(m - u) <= (n - u) - (m - u)
      BY <1>2, <1>3, <2>1, <3>1
    <3>3. ToNominal(m) = m - F(m - u)
      BY <1>1, <1>4, <2>4
    <3> QED BY <1>1, <2>1, <2>2, <3>2, <3>3
  <2> QED BY <1>1, <2>3, <2>4
<1> QED BY <1>1, <1>5, <1>6, <1>7

-----------------------------------------------------------------------------
\* The inductive invariant.

\* All wrapped tokens of the pool and of the rebalancer exist at the protocol.
SupplyCovers == cash.wrapped + held.wrapped <= vault.shares

Backups == [vault : Vaults, cash : Amounts, held : Amounts]

\* What the running rebalance would restore is a state between transactions.
JournalOK ==
    pc # "idle" =>
        /\ journal \in Backups /\ journal.vault.protocol \in Kinds
        /\ journal.cash.wrapped + journal.held.wrapped <= journal.vault.shares

QuotedRate == GetWrappedTokenRate(journal.vault)
NominalChange(low, high) == ToNominal(high) - ToNominal(low)

\* The swap brings the main balance the rebalance began with to the middle of
\* the targets, at a price for the pool.
Quoted ==
    pc # "idle" =>
        /\ swap.kind \in {"lack", "excess"}
        /\ ~RateReverts(journal.vault) /\ QuotedRate \in Nat \ {0}
        /\ swap.kind = "lack" =>
               /\ journal.cash.main + swap.main = DesiredMainTokenBalance
               /\ swap.wrapped * QuotedRate
                    <= NominalChange(journal.cash.main, DesiredMainTokenBalance) * ONE
        /\ swap.kind = "excess" =>
               /\ journal.cash.main - swap.main = DesiredMainTokenBalance
               /\ NominalChange(DesiredMainTokenBalance, journal.cash.main) * ONE
                    <= swap.wrapped * QuotedRate

\* Where the tokens of the swap are at each stage.
Placed ==
    /\ pc \in {"withdraw", "convert"} => vault = journal.vault
    /\ pc = "withdraw" => cash = journal.cash
    /\ pc \in {"convert", "deposit", "pay"} /\ swap.kind = "lack" =>
           /\ cash.main = journal.cash.main + (IF pc = "pay" THEN swap.main ELSE 0)
           /\ cash.wrapped = journal.cash.wrapped - swap.wrapped
    /\ pc \in {"convert", "deposit", "pay"} /\ swap.kind = "excess" =>
           /\ cash.main = journal.cash.main - swap.main
           /\ cash.wrapped = journal.cash.wrapped + (IF pc = "pay" THEN swap.wrapped ELSE 0)
    /\ pc = "convert" /\ swap.kind = "lack" => swap.wrapped <= held.wrapped
    /\ pc = "withdraw" \/ (pc = "convert" /\ swap.kind = "excess") =>
           held.wrapped = journal.held.wrapped

IInv == TypeOK /\ SupplyCovers /\ JournalOK /\ Quoted /\ Placed

LEMMA InitInv == Init => IInv
BY RebalancingAssumption DEF Init, IInv, TypeOK, SupplyCovers, JournalOK, Quoted, Placed,
   Vaults, Amounts, Swaps, None, NoSwap

LEMMA DesiredType ==
    ASSUME targets \in TargetPairs
    PROVE  DesiredMainTokenBalance \in Nat
BY ConstantsType DEF DesiredMainTokenBalance

\* The quote is rounded for the pool, in both directions.
LEMMA QuoteDown ==
    ASSUME NEW d \in Nat, NEW r \in Nat \ {0}
    PROVE  DivDown(d, r) \in Nat /\ DivDown(d, r) * r <= d * ONE
<1>1. d * ONE \in Nat
  BY ConstantsType
<1> DEFINE q == (d * ONE) \div r
<1>2. q \in Nat /\ r * q <= d * ONE
  BY <1>1, DivBounds, DivType
<1>3. DivDown(d, r) = q
  BY DEF DivDown
<1> HIDE DEF q
<1>4. q * r = r * q
  BY <1>2
<1> QED BY <1>2, <1>3, <1>4

LEMMA QuoteUp ==
    ASSUME NEW d \in Nat, NEW r \in Nat \ {0}
    PROVE  DivUp(d, r) \in Nat /\ d * ONE <= DivUp(d, r) * r
<1>1. d * ONE \in Nat /\ (d = 0 <=> d * ONE = 0)
  BY ConstantsType
<1> QED BY <1>1, RoundUpCovers DEF DivUp

LEMMA RebalanceStep ==
    ASSUME IInv, NEW extra \in ExtraMains, Rebalance(extra)
    PROVE  IInv'
<1> USE DEF IInv
<1> DEFINE desired == DesiredMainTokenBalance
           r == Rate
<1>1. /\ TypeOK /\ extra \in Nat /\ desired \in Nat /\ cash.main \in Nat
      /\ cash \in Amounts /\ vault \in Vaults /\ held \in Amounts
      /\ pc = "idle" /\ vault' = vault /\ cash' = cash /\ targets' = targets
      /\ targets \in TargetPairs
  BY ConstantsType, DesiredType DEF TypeOK, Rebalance, Amounts
<1>2. held' \in Amounts /\ held'.wrapped = held.wrapped
  BY <1>1 DEF Rebalance, Amounts
<1>3. desired' = desired
  BY <1>1 DEF DesiredMainTokenBalance
<1>4. CASE desired - cash.main = 0 /\ UNCHANGED <<swap, pc, journal>>
  BY <1>1, <1>2, <1>4 DEF TypeOK, SupplyCovers, JournalOK, Quoted, Placed
<1>5. ASSUME ~RateReverts(vault), r > 0, pc' = "withdraw", journal' = Snapshot,
             swap' \in Swaps, swap'.kind \in {"lack", "excess"},
             swap'.kind = "lack" =>
                 /\ cash.main + swap'.main = desired
                 /\ swap'.wrapped * r <= NominalChange(cash.main, desired) * ONE,
             swap'.kind = "excess" =>
                 /\ cash.main - swap'.main = desired
                 /\ NominalChange(desired, cash.main) * ONE <= swap'.wrapped * r
      PROVE  IInv'
  <2>1. journal'.vault = vault /\ journal'.cash = cash /\ journal'.held = held
        /\ journal' \in Backups
    BY <1>1, <1>5 DEF Snapshot, Backups
  <2>2. r \in Nat \ {0}
    BY <1>1, <1>5, RateType DEF Rate
  <2>3. QuotedRate' = r
    BY <2>1 DEF QuotedRate, Rate
  <2>4. \A a, b : NominalChange(a, b)' = NominalChange(a, b)
    BY <1>1 DEF NominalChange, ToNominal
  <2>5. TypeOK'
    BY <1>1, <1>2, <1>5 DEF TypeOK
  <2>6. SupplyCovers' /\ JournalOK'
    BY <1>1, <1>2, <2>1 DEF SupplyCovers, JournalOK, TypeOK
  <2>7. Quoted'
    BY <1>1, <1>3, <1>5, <2>1, <2>2, <2>3, <2>4 DEF Quoted
  <2>8. Placed'
    BY <1>1, <1>2, <1>5, <2>1 DEF Placed
  <2> QED BY <2>5, <2>6, <2>7, <2>8
<1>6. CASE /\ desired - cash.main > 0
           /\ ~RateReverts(vault) /\ r > 0
           /\ swap' = [kind |-> "lack", main |-> desired - cash.main,
                       wrapped |-> WrappedOutPerMainIn(desired - cash.main), extra |-> extra]
           /\ pc' = "withdraw"
           /\ journal' = Snapshot
  <2> DEFINE d == NominalChange(cash.main, desired)
  <2>1. d \in Nat
    BY <1>1, <1>6, NominalMonotone DEF NominalChange
  <2>2. r \in Nat \ {0}
    BY <1>1, <1>6, RateType DEF Rate
  <2>3. WrappedOutPerMainIn(desired - cash.main) = DivDown(d, r)
    <3>1. cash.main + (desired - cash.main) = desired
      BY <1>1
    <3> QED BY <3>1 DEF WrappedOutPerMainIn, NominalChange
  <2> HIDE DEF d, r
  <2>4. DivDown(d, r) \in Nat /\ DivDown(d, r) * r <= d * ONE
    BY <2>1, <2>2, QuoteDown
  <2>5. desired - cash.main \in Nat /\ cash.main + (desired - cash.main) = desired
    BY <1>1, <1>6
  <2>6. swap' \in Swaps
    BY <1>1, <1>6, <2>3, <2>4, <2>5 DEF Swaps
  <2> QED BY <1>5, <1>6, <2>3, <2>4, <2>5, <2>6 DEF d, r
<1>7. CASE /\ cash.main - desired > 0
           /\ ~RateReverts(vault) /\ r > 0
           /\ swap' = [kind |-> "excess", main |-> cash.main - desired,
                       wrapped |-> WrappedInPerMainOut(cash.main - desired), extra |-> extra]
           /\ pc' = "withdraw"
           /\ journal' = Snapshot
  <2> DEFINE d == NominalChange(desired, cash.main)
  <2>1. d \in Nat
    BY <1>1, <1>7, NominalMonotone DEF NominalChange
  <2>2. r \in Nat \ {0}
    BY <1>1, <1>7, RateType DEF Rate
  <2>3. WrappedInPerMainOut(cash.main - desired) = DivUp(d, r)
    <3>1. cash.main - (cash.main - desired) = desired
      BY <1>1
    <3> QED BY <3>1 DEF WrappedInPerMainOut, NominalChange
  <2> HIDE DEF d, r
  <2>4. DivUp(d, r) \in Nat /\ d * ONE <= DivUp(d, r) * r
    BY <2>1, <2>2, QuoteUp
  <2>5. cash.main - desired \in Nat /\ cash.main - (cash.main - desired) = desired
    BY <1>1, <1>7
  <2>6. swap' \in Swaps
    BY <1>1, <1>7, <2>3, <2>4, <2>5 DEF Swaps
  <2> QED BY <1>5, <1>7, <2>3, <2>4, <2>5, <2>6 DEF d, r
<1> QED BY <1>4, <1>6, <1>7 DEF Rebalance

\* Within a rebalance, and between two, most of the invariant stays as it is.
LEMMA WithinRebalance ==
    ASSUME IInv, pc # "idle", UNCHANGED <<targets, swap, journal>>
    PROVE  JournalOK' /\ Quoted'
<1>1. JournalOK'
  BY DEF IInv, JournalOK
<1>2. QuotedRate' = QuotedRate /\ DesiredMainTokenBalance' = DesiredMainTokenBalance
      /\ \A a, b : NominalChange(a, b)' = NominalChange(a, b)
  BY DEF QuotedRate, DesiredMainTokenBalance, NominalChange, ToNominal
<1>3. Quoted'
  BY <1>2 DEF IInv, Quoted
<1> QED BY <1>1, <1>3

LEMMA BetweenRebalances ==
    ASSUME pc' = "idle"
    PROVE  JournalOK' /\ Quoted' /\ Placed'
BY DEF JournalOK, Quoted, Placed

LEMMA WithdrawWrappedStep == ASSUME IInv, WithdrawWrapped PROVE IInv'
<1>1. /\ cash \in Amounts /\ held \in Amounts /\ swap \in Swaps
      /\ pc = "withdraw" /\ pc' = "convert" /\ UNCHANGED <<vault, targets, swap, journal>>
      /\ swap.kind = "lack" /\ cash.wrapped >= swap.wrapped
  BY DEF WithdrawWrapped, IInv, TypeOK
<1>2. cash' \in Amounts /\ cash'.main = cash.main
      /\ cash'.wrapped = cash.wrapped - swap.wrapped
  BY <1>1 DEF WithdrawWrapped, Amounts, Swaps
<1>3. held' \in Amounts /\ held'.main = held.main
      /\ held'.wrapped = held.wrapped + swap.wrapped
  BY <1>1 DEF WithdrawWrapped, Amounts, Swaps
<1>4. TypeOK'
  BY <1>1, <1>2, <1>3 DEF IInv, TypeOK
<1>5. SupplyCovers'
  BY <1>1, <1>2, <1>3 DEF IInv, TypeOK, SupplyCovers, Amounts, Swaps, Vaults
<1>6. JournalOK' /\ Quoted'
  BY <1>1, WithinRebalance
<1>7. Placed'
  <2>1. journal.cash.main \in Nat /\ journal.cash = cash /\ vault = journal.vault
    BY <1>1 DEF IInv, Placed, JournalOK, Backups, Amounts
  <2> QED BY <1>1, <1>2, <1>3, <2>1 DEF Placed, Amounts, Swaps
<1> QED BY <1>4, <1>5, <1>6, <1>7 DEF IInv

LEMMA WithdrawMainStep == ASSUME IInv, WithdrawMain PROVE IInv'
<1>1. /\ cash \in Amounts /\ held \in Amounts /\ swap \in Swaps
      /\ pc = "withdraw" /\ pc' = "convert" /\ UNCHANGED <<vault, targets, swap, journal>>
      /\ swap.kind = "excess" /\ cash.main >= swap.main
  BY DEF WithdrawMain, IInv, TypeOK
<1>2. cash' \in Amounts /\ cash'.wrapped = cash.wrapped
      /\ cash'.main = cash.main - swap.main
  BY <1>1 DEF WithdrawMain, Amounts, Swaps
<1>3. held' \in Amounts /\ held'.wrapped = held.wrapped
  BY <1>1 DEF WithdrawMain, Amounts, Swaps
<1>4. TypeOK'
  BY <1>1, <1>2, <1>3 DEF IInv, TypeOK
<1>5. SupplyCovers'
  BY <1>1, <1>2, <1>3 DEF IInv, SupplyCovers
<1>6. JournalOK' /\ Quoted'
  BY <1>1, WithinRebalance
<1>7. Placed'
  <2>1. journal.cash.wrapped \in Nat /\ journal.cash = cash /\ vault = journal.vault
    BY <1>1 DEF IInv, Placed, JournalOK, Backups, Amounts
  <2>2. held'.wrapped = journal.held.wrapped
    BY <1>1, <1>3 DEF IInv, Placed
  <2> QED BY <1>1, <1>2, <1>3, <2>1, <2>2 DEF Placed, Amounts, Swaps
<1> QED BY <1>4, <1>5, <1>6, <1>7 DEF IInv

\* Outside the Vault and the protocol, the wrapped tokens that are unwrapped are
\* among those the protocol has issued.
LEMMA UnwrapSafe ==
    ASSUME IInv, pc = "convert", swap.kind = "lack", Live(vault)
    PROVE  LET u == UnwrapTokens(vault, swap.wrapped)
           IN  /\ u.main \in Nat /\ u.main <= vault.assets
               /\ u.burnt \in Nat /\ u.burnt <= swap.wrapped
<1>1. /\ vault \in Vaults /\ held \in Amounts /\ cash \in Amounts /\ swap \in Swaps
      /\ vault = journal.vault /\ swap.wrapped <= held.wrapped
      /\ cash.wrapped + held.wrapped <= vault.shares
  BY DEF IInv, TypeOK, Placed, SupplyCovers
<1>2. ~RateReverts(vault)
  BY <1>1 DEF IInv, Quoted
<1>3. swap.wrapped \in Nat /\ swap.wrapped <= vault.shares
  BY <1>1 DEF Amounts, Swaps, Vaults
<1> QED BY <1>1, <1>2, <1>3, UnwrapNeverExceeds

LEMMA UnwrapStep == ASSUME IInv, Unwrap PROVE IInv'
<1> DEFINE u == UnwrapTokens(vault, swap.wrapped)
<1>1. /\ cash \in Amounts /\ held \in Amounts /\ vault \in Vaults /\ swap \in Swaps
      /\ vault.protocol \in Kinds
      /\ pc = "convert" /\ pc' = "deposit" /\ UNCHANGED <<cash, targets, swap, journal>>
      /\ swap.kind = "lack"
  BY DEF Unwrap, IInv, TypeOK
<1>2. /\ u.main \in Nat /\ u.main <= vault.assets
      /\ u.burnt \in Nat /\ u.burnt <= held.wrapped
  BY <1>1, UnwrapSafe DEF Unwrap
<1>3. /\ vault' = [protocol |-> vault.protocol, assets |-> vault.assets - u.main,
                   shares |-> vault.shares - u.burnt]
      /\ held' = [main |-> held.main + u.main, wrapped |-> held.wrapped - u.burnt]
  BY DEF Unwrap, Backed
<1> HIDE DEF u
<1>4. /\ held.main \in Nat /\ held.wrapped \in Nat /\ cash.wrapped \in Nat
      /\ vault.assets \in Nat /\ vault.shares \in Nat /\ vault.protocol \in Protocols
      /\ cash.wrapped + held.wrapped <= vault.shares
  BY <1>1 DEF Amounts, Vaults, IInv, SupplyCovers
<1>5. held' \in Amounts /\ held'.wrapped = held.wrapped - u.burnt
  BY <1>2, <1>3, <1>4 DEF Amounts
<1>6. vault' \in Vaults /\ vault'.protocol \in Kinds /\ vault'.shares = vault.shares - u.burnt
  BY <1>1, <1>2, <1>3, <1>4 DEF Vaults
<1>7. TypeOK'
  BY <1>1, <1>5, <1>6 DEF IInv, TypeOK
<1>8. SupplyCovers'
  BY <1>1, <1>2, <1>4, <1>5, <1>6 DEF SupplyCovers
<1>9. JournalOK' /\ Quoted'
  BY <1>1, WithinRebalance
<1>10. Placed'
  BY <1>1 DEF IInv, Placed
<1> QED BY <1>7, <1>8, <1>9, <1>10 DEF IInv

LEMMA WrapStep == ASSUME IInv, Wrap PROVE IInv'
<1> DEFINE amount == GetRequiredTokensToWrap(vault, swap.wrapped)
           shares == WrapTokens(vault, amount)
<1>1. /\ cash \in Amounts /\ held \in Amounts /\ vault \in Vaults /\ swap \in Swaps
      /\ vault.protocol \in Kinds /\ Live(vault) /\ amount <= held.main
      /\ pc = "convert" /\ pc' = "deposit" /\ UNCHANGED <<cash, targets, swap, journal>>
      /\ swap.kind = "excess"
  BY DEF Wrap, IInv, TypeOK
<1>2. ~RateReverts(vault)
  BY <1>1 DEF IInv, Placed, Quoted
<1>3. amount \in Nat /\ shares \in Nat
  BY <1>1, <1>2, RequiredType, WrapType DEF Swaps
<1>4. /\ vault' = [protocol |-> vault.protocol, assets |-> vault.assets + amount,
                   shares |-> vault.shares + shares]
      /\ held' = [main |-> held.main - amount, wrapped |-> held.wrapped + shares]
  BY DEF Wrap, Backed
<1> HIDE DEF amount, shares
<1>5. /\ held.main \in Nat /\ held.wrapped \in Nat /\ cash.wrapped \in Nat
      /\ vault.assets \in Nat /\ vault.shares \in Nat /\ vault.protocol \in Protocols
      /\ cash.wrapped + held.wrapped <= vault.shares
  BY <1>1 DEF Amounts, Vaults, IInv, SupplyCovers
<1>6. held' \in Amounts /\ held'.wrapped = held.wrapped + shares
  BY <1>1, <1>3, <1>4, <1>5 DEF Amounts
<1>7. vault' \in Vaults /\ vault'.protocol \in Kinds /\ vault'.shares = vault.shares + shares
  BY <1>1, <1>3, <1>4, <1>5 DEF Vaults
<1>8. TypeOK'
  BY <1>1, <1>6, <1>7 DEF IInv, TypeOK
<1>9. SupplyCovers'
  BY <1>1, <1>3, <1>5, <1>6, <1>7 DEF SupplyCovers
<1>10. JournalOK' /\ Quoted'
  BY <1>1, WithinRebalance
<1>11. Placed'
  BY <1>1 DEF IInv, Placed
<1> QED BY <1>8, <1>9, <1>10, <1>11 DEF IInv

LEMMA DepositMainStep == ASSUME IInv, DepositMain PROVE IInv'
<1>1. /\ cash \in Amounts /\ held \in Amounts /\ swap \in Swaps
      /\ pc = "deposit" /\ pc' = "pay" /\ UNCHANGED <<vault, targets, swap, journal>>
      /\ swap.kind = "lack" /\ held.main >= swap.main
  BY DEF DepositMain, IInv, TypeOK
<1>2. cash' \in Amounts /\ cash'.wrapped = cash.wrapped
      /\ cash'.main = cash.main + swap.main
  BY <1>1 DEF DepositMain, Amounts, Swaps
<1>3. held' \in Amounts /\ held'.wrapped = held.wrapped
  BY <1>1 DEF DepositMain, Amounts, Swaps
<1>4. TypeOK'
  BY <1>1, <1>2, <1>3 DEF IInv, TypeOK
<1>5. SupplyCovers'
  BY <1>1, <1>2, <1>3 DEF IInv, SupplyCovers
<1>6. JournalOK' /\ Quoted'
  BY <1>1, WithinRebalance
<1>7. Placed'
  <2>1. /\ cash.wrapped = journal.cash.wrapped - swap.wrapped
        /\ cash.main = journal.cash.main + 0 /\ journal.cash.main \in Nat
    BY <1>1 DEF IInv, Placed, JournalOK, Backups, Amounts
  <2> QED BY <1>1, <1>2, <2>1 DEF Placed
<1> QED BY <1>4, <1>5, <1>6, <1>7 DEF IInv

LEMMA DepositWrappedStep == ASSUME IInv, DepositWrapped PROVE IInv'
<1>1. /\ cash \in Amounts /\ held \in Amounts /\ swap \in Swaps
      /\ pc = "deposit" /\ pc' = "pay" /\ UNCHANGED <<vault, targets, swap, journal>>
      /\ swap.kind = "excess" /\ held.wrapped >= swap.wrapped
  BY DEF DepositWrapped, IInv, TypeOK
<1>2. cash' \in Amounts /\ cash'.main = cash.main
      /\ cash'.wrapped = cash.wrapped + swap.wrapped
  BY <1>1 DEF DepositWrapped, Amounts, Swaps
<1>3. held' \in Amounts /\ held'.wrapped = held.wrapped - swap.wrapped
  BY <1>1 DEF DepositWrapped, Amounts, Swaps
<1>4. TypeOK'
  BY <1>1, <1>2, <1>3 DEF IInv, TypeOK
<1>5. SupplyCovers'
  BY <1>1, <1>2, <1>3 DEF IInv, SupplyCovers, Amounts, Swaps, TypeOK, Vaults
<1>6. JournalOK' /\ Quoted'
  BY <1>1, WithinRebalance
<1>7. Placed'
  <2>1. /\ cash.main = journal.cash.main - swap.main
        /\ cash.wrapped = journal.cash.wrapped + 0 /\ journal.cash.wrapped \in Nat
    BY <1>1 DEF IInv, Placed, JournalOK, Backups, Amounts
  <2> QED BY <1>1, <1>2, <2>1 DEF Placed
<1> QED BY <1>4, <1>5, <1>6, <1>7 DEF IInv

LEMMA PayStep == ASSUME IInv, Pay PROVE IInv'
<1>1. /\ pc' = "idle" /\ swap' = NoSwap /\ UNCHANGED <<vault, cash, targets>>
      /\ held \in Amounts
  BY DEF Pay, IInv, TypeOK
<1>2. held' \in Amounts /\ held'.wrapped = held.wrapped
  BY <1>1 DEF Pay, Amounts
<1>3. TypeOK' /\ SupplyCovers'
  BY <1>1, <1>2 DEF IInv, TypeOK, SupplyCovers, NoSwap, Swaps
<1> QED BY <1>1, <1>3, BetweenRebalances DEF IInv

LEMMA RevertStep == ASSUME IInv, Revert PROVE IInv'
<1>1. /\ pc' = "idle" /\ swap' = NoSwap /\ targets' = targets
      /\ vault' = journal.vault /\ cash' = journal.cash /\ held' = journal.held
      /\ journal \in Backups /\ journal.vault.protocol \in Kinds
      /\ journal.cash.wrapped + journal.held.wrapped <= journal.vault.shares
  BY DEF Revert, IInv, JournalOK
<1>2. TypeOK' /\ SupplyCovers'
  BY <1>1 DEF IInv, TypeOK, SupplyCovers, NoSwap, Swaps, Backups
<1> QED BY <1>1, <1>2, BetweenRebalances DEF IInv

LEMMA TradeStep == ASSUME IInv, Trade PROVE IInv'
<1>1. /\ pc = "idle" /\ UNCHANGED <<vault, held, targets, pc, swap, journal>>
      /\ cash \in Amounts /\ held \in Amounts /\ vault \in Vaults
      /\ cash.wrapped + held.wrapped <= vault.shares
  BY DEF Trade, IInv, TypeOK, SupplyCovers
<1>2. MaxMain \in Nat
  BY RebalancingAssumption
<1>3. cash' \in Amounts /\ cash'.wrapped + held.wrapped <= vault.shares
  <2>1. ASSUME NEW m \in 0 .. MaxMain, cash' = [cash EXCEPT !.main = m]
        PROVE  cash' \in Amounts /\ cash'.wrapped = cash.wrapped
    BY <1>1, <1>2, <2>1 DEF Amounts
  <2>2. ASSUME OthersShares > 0, cash' = [cash EXCEPT !.wrapped = @ + 1]
        PROVE  cash' \in Amounts /\ cash'.wrapped + held.wrapped <= vault.shares
    BY <1>1, <2>2 DEF Amounts, Vaults, OthersShares
  <2>3. ASSUME cash.wrapped > 0, cash' = [cash EXCEPT !.wrapped = @ - 1]
        PROVE  cash' \in Amounts /\ cash'.wrapped + held.wrapped <= vault.shares
    BY <1>1, <2>3 DEF Amounts, Vaults
  <2> QED BY <1>1, <2>1, <2>2, <2>3 DEF Trade
<1>4. TypeOK' /\ SupplyCovers'
  BY <1>1, <1>3 DEF IInv, TypeOK, SupplyCovers
<1> QED BY <1>1, <1>4, BetweenRebalances DEF IInv

LEMMA MarketStep == ASSUME IInv, Market PROVE IInv'
<1>1. /\ pc = "idle" /\ UNCHANGED <<cash, held, targets, pc, swap, journal>>
      /\ cash \in Amounts /\ held \in Amounts /\ vault \in Vaults
      /\ vault.protocol \in Kinds
  BY DEF Market, IInv, TypeOK
<1>2. PICK a \in 0 .. MaxAssets, s \in 0 .. MaxShares :
          s - vault.shares >= -OthersShares /\ vault' = Backed(a, s)
  BY DEF Market
<1>3. a \in Nat /\ s \in Nat
  BY RebalancingAssumption
<1>4. vault' \in Vaults /\ vault'.protocol \in Kinds /\ vault'.shares = s
  BY <1>1, <1>2, <1>3 DEF Backed, Vaults
<1>5. cash.wrapped + held.wrapped <= s
  BY <1>1, <1>2, <1>3 DEF OthersShares, Amounts, Vaults
<1>6. TypeOK' /\ SupplyCovers'
  BY <1>1, <1>4, <1>5 DEF IInv, TypeOK, SupplyCovers
<1> QED BY <1>1, <1>6, BetweenRebalances DEF IInv

LEMMA SetTargetsStep == ASSUME IInv, SetTargets PROVE IInv'
<1>1. pc' = "idle" /\ TypeOK' /\ SupplyCovers'
  BY DEF SetTargets, IInv, TypeOK, SupplyCovers
<1> QED BY <1>1, BetweenRebalances DEF IInv

LEMMA StepInv == IInv /\ [Next]_vars => IInv'
<1> SUFFICES ASSUME IInv, [Next]_vars PROVE IInv'
  OBVIOUS
<1>1. CASE UNCHANGED vars
  <2>1. TypeOK' /\ SupplyCovers' /\ JournalOK'
    BY <1>1 DEF vars, IInv, TypeOK, SupplyCovers, JournalOK
  <2>2. QuotedRate' = QuotedRate /\ DesiredMainTokenBalance' = DesiredMainTokenBalance
        /\ \A a, b : NominalChange(a, b)' = NominalChange(a, b)
    BY <1>1 DEF vars, QuotedRate, DesiredMainTokenBalance, NominalChange, ToNominal
  <2>3. Quoted' /\ Placed'
    BY <1>1, <2>2 DEF vars, IInv, Quoted, Placed
  <2> QED BY <2>1, <2>3 DEF IInv
<1>2. ASSUME NEW extra \in ExtraMains, Rebalance(extra) PROVE IInv'
  BY <1>2, RebalanceStep
<1> QED BY <1>1, <1>2, WithdrawWrappedStep, WithdrawMainStep, UnwrapStep, WrapStep,
           DepositMainStep, DepositWrappedStep, PayStep, RevertStep, TradeStep,
           MarketStep, SetTargetsStep DEF Next

-----------------------------------------------------------------------------
\* Theorems.

\* The invariant holds: in particular no step of a rebalance makes a balance of
\* the pool, the rebalancer or the protocol negative.
THEOREM TypeCorrect == Spec => []TypeOK
<1>1. IInv => TypeOK
  BY DEF IInv
<1> QED BY <1>1, InitInv, StepInv, PTL DEF Spec

\* _unwrapTokens, all protocols: what was withdrawn suffices for what is burnt.
THEOREM UnwrapIsCovered == Spec => []UnwrapCovered
<1>1. IInv => UnwrapCovered
  BY UnwrapSafe DEF UnwrapCovered
<1> QED BY <1>1, InitInv, StepInv, PTL DEF Spec

\* rebalance ends with the main balance in the middle of the targets.
THEOREM RebalanceBalances == Spec => []Balanced
<1>1. IInv => Balanced
  <2> SUFFICES ASSUME IInv, pc = "pay" PROVE cash.main = DesiredMainTokenBalance
    BY DEF Balanced
  <2>1. cash \in Amounts /\ swap.kind \in {"lack", "excess"}
    BY DEF IInv, TypeOK, Quoted
  <2> QED BY <2>1 DEF IInv, Quoted, Placed
<1> QED BY <1>1, InitInv, StepInv, PTL DEF Spec

LEMMA WorthMore ==
    ASSUME NEW n1 \in Int, NEW n2 \in Int, NEW b \in Int, NEW w \in Int, NEW r \in Nat,
           w * r <= (n2 - n1) * ONE
    PROVE  n2 * ONE + (b - w) * r >= n1 * ONE + b * r
<1>1. ONE \in Nat
  BY OneAssumption
<1>2. (n2 - n1) * ONE = n2 * ONE - n1 * ONE /\ (b - w) * r = b * r - w * r
  BY <1>1
<1>3. n2 * ONE \in Int /\ n1 * ONE \in Int /\ b * r \in Int /\ w * r \in Int
  BY <1>1
<1> QED BY <1>2, <1>3

\* rebalance never takes value from the pool, valued at the rate of its quote.
THEOREM RebalanceIsFair == Spec => []PoolNotPoorer
<1>1. IInv => PoolNotPoorer
  <2> SUFFICES ASSUME IInv, pc = "pay"
               PROVE  PoolValue(cash, QuotedRate) >= PoolValue(journal.cash, QuotedRate)
    BY DEF PoolNotPoorer, QuotedRate
  <2> DEFINE j == journal.cash
             r == QuotedRate
             n1 == ToNominal(j.main)
             n2 == ToNominal(cash.main)
  <2>1. /\ cash \in Amounts /\ j \in Amounts /\ swap \in Swaps /\ targets \in TargetPairs
        /\ r \in Nat /\ swap.kind \in {"lack", "excess"}
        /\ cash.main = DesiredMainTokenBalance
    <3>1. cash.main = DesiredMainTokenBalance
      BY DEF IInv, Quoted, Placed
    <3> QED BY <3>1 DEF IInv, TypeOK, JournalOK, Quoted, Backups
  <2>2. n1 \in Int /\ n2 \in Int /\ j.wrapped \in Nat /\ swap.wrapped \in Nat
        /\ cash.wrapped \in Nat
    BY <2>1, NominalMonotone DEF Amounts, Swaps
  <2>3. CASE swap.kind = "lack"
    <3>1. swap.wrapped * r <= (n2 - n1) * ONE /\ cash.wrapped = j.wrapped - swap.wrapped
      BY <2>1, <2>3 DEF IInv, Quoted, Placed, NominalChange
    <3> HIDE DEF n1, n2, r
    <3>2. n2 * ONE + (j.wrapped - swap.wrapped) * r >= n1 * ONE + j.wrapped * r
      BY <2>1, <2>2, <3>1, WorthMore
    <3> QED BY <3>1, <3>2 DEF PoolValue, n1, n2, r
  <2>4. CASE swap.kind = "excess"
    <3>1. (n1 - n2) * ONE <= swap.wrapped * r /\ cash.wrapped = j.wrapped + swap.wrapped
      BY <2>1, <2>4 DEF IInv, Quoted, Placed, NominalChange
    <3> DEFINE w == -swap.wrapped
    <3> HIDE DEF n1, n2, r
    <3>2. w * r <= (n2 - n1) * ONE
      <4>1. (-swap.wrapped) * r = -(swap.wrapped * r)
            /\ (n2 - n1) * ONE = -((n1 - n2) * ONE)
        BY <2>1, <2>2, ConstantsType
      <4>2. swap.wrapped * r \in Int /\ (n1 - n2) * ONE \in Int
        BY <2>1, <2>2, ConstantsType
      <4> QED BY <3>1, <4>1, <4>2
    <3>3. w \in Int /\ n1 \in Int /\ n2 \in Int /\ j.wrapped \in Int /\ r \in Nat
      BY <2>1, <2>2
    <3>4. j.wrapped - w = cash.wrapped
      BY <2>2, <3>1
    <3> HIDE DEF w
    <3>5. n2 * ONE + (j.wrapped - w) * r >= n1 * ONE + j.wrapped * r
      BY <3>2, <3>3, WorthMore
    <3> QED BY <3>4, <3>5 DEF PoolValue, n1, n2, r
  <2> QED BY <2>1, <2>3, <2>4
<1> QED BY <1>1, InitInv, StepInv, PTL DEF Spec

\* _getRequiredTokensToWrap asks for enough: with the protocols whose rebalancers
\* do not truncate the price to 18 decimals, no deposit of wrapped tokens fails
\* for want of them.
THEOREM RequiredIsEnough == Spec => []ExactRequiredSuffices
<1>1. Init => ExactRequiredSuffices
  BY DEF Init, ExactRequiredSuffices
<1>2. IInv /\ ExactRequiredSuffices /\ [Next]_vars => ExactRequiredSuffices'
  <2> SUFFICES ASSUME IInv, ExactRequiredSuffices, [Next]_vars,
                      vault'.protocol \in ExactProtocols,
                      pc' = "deposit", swap'.kind = "excess"
               PROVE  held'.wrapped >= journal'.held.wrapped + swap'.wrapped
    BY DEF ExactRequiredSuffices
  <2>1. CASE UNCHANGED vars
    BY <2>1 DEF vars, ExactRequiredSuffices
  <2>2. CASE Wrap
    <3> DEFINE amount == GetRequiredTokensToWrap(vault, swap.wrapped)
               shares == WrapTokens(vault, amount)
    <3>1. /\ vault \in Vaults /\ held \in Amounts /\ swap \in Swaps /\ Live(vault)
          /\ swap' = swap /\ journal' = journal
          /\ held.wrapped = journal.held.wrapped
      BY <2>2 DEF Wrap, IInv, TypeOK, Placed
    <3>2. vault.protocol \in ExactProtocols
      BY <2>2, <3>1 DEF Wrap, Backed, Vaults
    <3>3. /\ swap.wrapped \in Nat /\ held.wrapped \in Nat /\ amount \in Nat
      BY <3>1, <3>2, RequiredTokensAreEnough DEF Swaps, Amounts
    <3>4. shares \in Nat /\ swap.wrapped <= shares
      BY <3>1, <3>2, <3>3, WrapType, RequiredTokensAreEnough
    <3>5. held'.wrapped = held.wrapped + shares
      BY <2>2 DEF Wrap
    <3> QED BY <3>1, <3>3, <3>4, <3>5
  <2> QED BY <2>1, <2>2 DEF Next, Rebalance, WithdrawWrapped, WithdrawMain, Unwrap,
             DepositMain, DepositWrapped, Pay, Revert, Trade, Market, SetTargets
<1> QED BY <1>1, <1>2, InitInv, StepInv, PTL DEF Spec

\* So it is for every required amount, when no other protocol is used.
COROLLARY AllRequiredIsEnough ==
    ASSUME Kinds \subseteq ExactProtocols
    PROVE  Spec => []RequiredSuffices
<1>1. IInv /\ ExactRequiredSuffices => RequiredSuffices
  <2> SUFFICES ASSUME IInv, ExactRequiredSuffices, pc = "deposit", swap.kind = "excess"
               PROVE  held.wrapped >= swap.wrapped
    BY DEF RequiredSuffices
  <2>1. held.wrapped >= journal.held.wrapped + swap.wrapped
    BY DEF IInv, TypeOK, ExactRequiredSuffices
  <2>2. held.wrapped \in Nat /\ swap.wrapped \in Nat /\ journal.held.wrapped \in Nat
    BY DEF IInv, TypeOK, JournalOK, Backups, Amounts, Swaps
  <2> QED BY <2>1, <2>2
<1> QED BY <1>1, RequiredIsEnough, InitInv, StepInv, PTL DEF Spec

-----------------------------------------------------------------------------
\* What the caller adds.

\* The quote promises the pool's rate, to one wrapped token.
Priced ==
    pc # "idle" =>
        /\ swap.kind = "lack" =>
               swap.main * ONE <= swap.wrapped * QuotedRate + QuotedRate
        /\ swap.kind = "excess" =>
               swap.wrapped * QuotedRate <= swap.main * ONE + QuotedRate

\* The rebalancer has what the caller added beside what it withdrew, and then
\* what its protocol paid for that.
Purse ==
    /\ pc \in {"withdraw", "convert"} => held.main >= swap.extra
    /\ pc = "convert" /\ swap.kind = "excess" => held.main >= swap.main + swap.extra
    /\ pc = "deposit" /\ swap.kind = "lack" =>
           swap.wrapped * QuotedRate + swap.extra * ONE <= (held.main + 1) * ONE

Funded == Priced /\ Purse

LEMMA QuoteNear ==
    ASSUME NEW d \in Nat, NEW r \in Nat \ {0}
    PROVE  /\ d * ONE <= DivDown(d, r) * r + r
           /\ DivUp(d, r) * r <= d * ONE + r
<1> PICK a : a = d * ONE
  OBVIOUS
<1>1. a \in Nat /\ (a = 0 <=> d = 0)
  BY ConstantsType
<1>2. a <= DivDown(d, r) * r + r
  <2> PICK q : q = a \div r
    OBVIOUS
  <2>1. q \in Nat /\ a < r * q + r
    BY <1>1, DivBounds, DivType
  <2>2. q * r = r * q
    BY <2>1
  <2> QED BY <1>1, <2>1, <2>2 DEF DivDown
<1>3. DivUp(d, r) * r <= a + r
  <2>1. CASE d = 0
    BY <1>1, <2>1 DEF DivUp
  <2>2. CASE d # 0
    <3>1. a - 1 \in Nat
      BY <1>1, <2>2
    <3> PICK q : q = (a - 1) \div r
      OBVIOUS
    <3>2. q \in Nat /\ r * q <= a - 1
      BY <3>1, DivBounds, DivType
    <3>3. (q + 1) * r = r * q + r /\ r * q \in Nat
      BY <3>2
    <3>4. DivUp(d, r) = q + 1
      BY <2>2 DEF DivUp
    <3> QED BY <1>1, <3>2, <3>3, <3>4
  <2> QED BY <2>1, <2>2
<1> QED BY <1>2, <1>3

\* The middle of the targets has no fees, and no balance a bonus.
LEMMA NominalBounds ==
    ASSUME targets \in TargetPairs, NEW m \in Nat
    PROVE  /\ ToNominal(m) \in Int /\ ToNominal(m) <= m
           /\ ToNominal(DesiredMainTokenBalance) = DesiredMainTokenBalance
<1> PICK l, u : l = targets.lower /\ u = targets.upper
  OBVIOUS
<1>1. l \in Nat /\ u \in Nat /\ l <= u
  BY ConstantsType
<1>2. l <= (l + u) \div 2 /\ (l + u) \div 2 <= u
  BY <1>1
<1>3. ToNominal(DesiredMainTokenBalance) = DesiredMainTokenBalance
  BY <1>1, <1>2 DEF DesiredMainTokenBalance, ToNominal
<1>4. \A x \in Nat : MulDown(x, Fee) \in Nat
  BY FeeGrowsSlowly
<1>5. ToNominal(m) \in Int /\ ToNominal(m) <= m
  BY <1>1, <1>4 DEF ToNominal
<1> QED BY <1>3, <1>5

LEMMA RebalanceFunds ==
    ASSUME IInv, NEW extra \in ExtraMains, Rebalance(extra)
    PROVE  Funded'
<1> DEFINE desired == DesiredMainTokenBalance
           r == Rate
<1>1. /\ extra \in Nat /\ desired \in Nat /\ cash.main \in Nat
      /\ vault \in Vaults /\ held \in Amounts /\ held.main \in Nat
      /\ pc = "idle" /\ targets \in TargetPairs
  BY ConstantsType, DesiredType DEF IInv, TypeOK, Rebalance, Amounts
<1>2. held'.main = held.main + extra
  BY <1>1 DEF Rebalance, Amounts
<1>3. CASE pc' = "idle"
  BY <1>3 DEF Funded, Priced, Purse
<1>4. ASSUME NEW m \in Nat, NEW w \in Nat, NEW k \in {"lack", "excess"},
             swap' = [kind |-> k, main |-> m, wrapped |-> w, extra |-> extra],
             pc' = "withdraw", journal' = Snapshot,
             k = "lack" => m * ONE <= w * r + r,
             k = "excess" => w * r <= m * ONE + r
      PROVE  Funded'
  <2>1. journal'.vault = vault
    BY <1>4 DEF Snapshot
  <2>2. QuotedRate' = r
    BY <2>1 DEF QuotedRate, Rate
  <2> HIDE DEF r
  <2>3. Priced'
    BY <1>4, <2>2 DEF Priced
  <2>4. Purse'
    BY <1>1, <1>2, <1>4 DEF Purse
  <2> QED BY <2>3, <2>4 DEF Funded
<1>5. CASE /\ desired - cash.main > 0
           /\ ~RateReverts(vault) /\ r > 0
           /\ swap' = [kind |-> "lack", main |-> desired - cash.main,
                       wrapped |-> WrappedOutPerMainIn(desired - cash.main), extra |-> extra]
           /\ pc' = "withdraw"
           /\ journal' = Snapshot
  <2> DEFINE m == desired - cash.main
             d == desired - ToNominal(cash.main)
             w == WrappedOutPerMainIn(m)
  <2>1. r \in Nat \ {0}
    BY <1>1, <1>5, RateType DEF Rate
  <2>2. m \in Nat /\ d \in Nat /\ m <= d
    BY <1>1, <1>5, NominalBounds
  <2>3. w = DivDown(d, r)
    <3>1. cash.main + m = desired
      BY <1>1
    <3>2. ToNominal(desired) = desired
      BY <1>1, NominalBounds
    <3> QED BY <3>1, <3>2 DEF WrappedOutPerMainIn
  <2>4. swap' = [kind |-> "lack", main |-> m, wrapped |-> w, extra |-> extra]
    BY <1>5
  <2> HIDE DEF m, d, w, r
  <2>5. w \in Nat /\ d * ONE <= w * r + r
    BY <2>1, <2>2, <2>3, QuoteDown, QuoteNear
  <2>6. m * ONE <= d * ONE /\ m * ONE \in Nat /\ d * ONE \in Nat /\ w * r \in Nat
    BY <2>1, <2>2, <2>5, MulMono, ConstantsType
  <2>7. m * ONE <= w * r + r
    BY <2>1, <2>5, <2>6
  <2> QED BY <1>4, <1>5, <2>2, <2>4, <2>5, <2>7
<1>6. CASE /\ cash.main - desired > 0
           /\ ~RateReverts(vault) /\ r > 0
           /\ swap' = [kind |-> "excess", main |-> cash.main - desired,
                       wrapped |-> WrappedInPerMainOut(cash.main - desired), extra |-> extra]
           /\ pc' = "withdraw"
           /\ journal' = Snapshot
  <2> DEFINE m == cash.main - desired
             d == ToNominal(cash.main) - desired
             w == WrappedInPerMainOut(m)
  <2>1. r \in Nat \ {0}
    BY <1>1, <1>6, RateType DEF Rate
  <2>2. ToNominal(desired) = desired /\ ToNominal(cash.main) \in Int
        /\ ToNominal(cash.main) <= cash.main
    BY <1>1, NominalBounds
  <2>3. ToNominal(desired) <= ToNominal(cash.main)
    BY <1>1, <1>6, NominalMonotone
  <2>4. m \in Nat /\ d \in Nat /\ d <= m
    BY <1>1, <1>6, <2>2, <2>3
  <2>5. w = DivUp(d, r)
    <3>1. cash.main - m = desired
      BY <1>1
    <3> QED BY <2>2, <3>1 DEF WrappedInPerMainOut
  <2>6. swap' = [kind |-> "excess", main |-> m, wrapped |-> w, extra |-> extra]
    BY <1>6
  <2> HIDE DEF m, d, w, r
  <2>7. w \in Nat /\ w * r <= d * ONE + r
    BY <2>1, <2>4, <2>5, QuoteUp, QuoteNear
  <2>8. d * ONE <= m * ONE /\ m * ONE \in Nat /\ d * ONE \in Nat /\ w * r \in Nat
    BY <2>1, <2>4, <2>7, MulMono, ConstantsType
  <2>9. w * r <= m * ONE + r
    BY <2>1, <2>7, <2>8
  <2> QED BY <1>4, <1>6, <2>4, <2>6, <2>7, <2>9
<1> QED BY <1>1, <1>3, <1>5, <1>6 DEF Rebalance

LEMMA UnwrapFunds == ASSUME IInv, Funded, Unwrap PROVE Funded'
<1> PICK m : m = UnwrapTokens(vault, swap.wrapped).main
  OBVIOUS
<1>1. /\ pc = "convert" /\ pc' = "deposit" /\ swap.kind = "lack"
      /\ UNCHANGED <<swap, journal>> /\ Live(vault)
      /\ vault \in Vaults /\ vault = journal.vault /\ ~RateReverts(vault)
      /\ held \in Amounts /\ swap \in Swaps /\ swap.wrapped <= held.wrapped
  BY DEF Unwrap, IInv, TypeOK, Placed, Quoted
<1>2. cash \in Amounts /\ cash.wrapped + held.wrapped <= vault.shares
  BY DEF IInv, TypeOK, SupplyCovers
<1>3. swap.wrapped \in Nat /\ swap.extra \in Nat /\ held.main \in Nat
      /\ swap.wrapped <= vault.shares
  BY <1>1, <1>2 DEF Amounts, Swaps, Vaults
<1>4. m \in Nat
  BY <1>1, UnwrapSafe
<1>5. held'.main = held.main + m
  BY DEF Unwrap
<1>6. swap.wrapped * GetWrappedTokenRate(vault) <= ONE * (m + 1)
  BY <1>1, <1>3, UnwrapBound
<1>7. QuotedRate' = QuotedRate /\ QuotedRate = GetWrappedTokenRate(vault) /\ QuotedRate \in Nat
  BY <1>1 DEF QuotedRate, IInv, Quoted
<1>8. Priced'
  BY <1>1, <1>7 DEF Funded, Priced
<1>9. swap.wrapped * QuotedRate + swap.extra * ONE <= (held.main + m + 1) * ONE
  <2> PICK x, e, h : x = swap.wrapped * QuotedRate /\ e = swap.extra /\ h = held.main
    OBVIOUS
  <2>1. x \in Nat /\ e \in Nat /\ h \in Nat /\ ONE \in Nat /\ e <= h
    BY <1>1, <1>3, <1>7, ConstantsType DEF Funded, Purse
  <2>2. x <= ONE * (m + 1)
    BY <1>6, <1>7
  <2>3. e * ONE <= h * ONE
    BY <2>1, MulMono
  <2>4. (h + m + 1) * ONE = h * ONE + ONE * (m + 1)
        /\ e * ONE \in Nat /\ h * ONE \in Nat /\ ONE * (m + 1) \in Nat
    <3> PICK one : one = ONE
      OBVIOUS
    <3>1. one \in Nat
      BY <2>1
    <3>2. ASSUME NEW a \in Nat, NEW b \in Nat
          PROVE  (a + b + 1) * one = a * one + one * (b + 1)
      BY <3>1
    <3>3. e * one \in Nat /\ h * one \in Nat /\ one * (m + 1) \in Nat
      BY <1>4, <2>1, <3>1
    <3> QED BY <1>4, <2>1, <3>2, <3>3
  <2>5. x + e * ONE <= (h + m + 1) * ONE
    BY <2>1, <2>2, <2>3, <2>4
  <2> QED BY <2>5
<1>10. Purse'
  BY <1>1, <1>5, <1>7, <1>9 DEF Purse
<1> QED BY <1>8, <1>10 DEF Funded

LEMMA FundsStay ==
    ASSUME IInv, Funded, pc # "idle", UNCHANGED <<swap, journal>>,
           pc' = "pay" \/ (pc' = "deposit" /\ swap.kind = "excess")
    PROVE  Funded'
<1>1. QuotedRate' = QuotedRate
  BY DEF QuotedRate
<1>2. Priced'
  BY <1>1 DEF Funded, Priced
<1>3. Purse'
  BY DEF Purse, IInv, Quoted
<1> QED BY <1>2, <1>3 DEF Funded

LEMMA WithdrawFunds == ASSUME IInv, Funded, WithdrawWrapped \/ WithdrawMain PROVE Funded'
<1>1. /\ pc = "withdraw" /\ pc' = "convert" /\ UNCHANGED <<swap, journal>>
      /\ held \in Amounts /\ swap \in Swaps
  BY DEF WithdrawWrapped, WithdrawMain, IInv, TypeOK
<1>2. QuotedRate' = QuotedRate
  BY <1>1 DEF QuotedRate
<1>3. Priced'
  BY <1>1, <1>2 DEF Funded, Priced
<1>4. /\ held.main \in Nat /\ swap.main \in Nat /\ swap.extra \in Nat
      /\ held.main >= swap.extra
  BY <1>1 DEF Amounts, Swaps, Funded, Purse
<1>5. CASE WithdrawWrapped
  <2>1. held'.main = held.main /\ swap.kind = "lack"
    BY <1>1, <1>5 DEF WithdrawWrapped, Amounts
  <2> QED BY <1>1, <1>3, <1>4, <2>1 DEF Funded, Purse
<1>6. CASE WithdrawMain
  <2>1. held'.main = held.main + swap.main
    BY <1>1, <1>6 DEF WithdrawMain, Amounts
  <2>2. Purse'
    BY <1>1, <1>4, <2>1 DEF Purse
  <2> QED BY <1>3, <2>2 DEF Funded
<1> QED BY <1>5, <1>6

LEMMA FundedStep == IInv /\ Funded /\ [Next]_vars => Funded'
<1> SUFFICES ASSUME IInv, Funded, [Next]_vars PROVE Funded'
  OBVIOUS
<1>1. CASE UNCHANGED vars
  BY <1>1 DEF vars, Funded, Priced, Purse, QuotedRate
<1>2. ASSUME NEW extra \in ExtraMains, Rebalance(extra) PROVE Funded'
  BY <1>2, RebalanceFunds
<1>3. CASE WithdrawWrapped \/ WithdrawMain
  BY <1>3, WithdrawFunds
<1>4. CASE Unwrap
  BY <1>4, UnwrapFunds
<1>5. CASE Wrap \/ DepositMain \/ DepositWrapped
  <2>1. /\ pc # "idle" /\ UNCHANGED <<swap, journal>>
        /\ pc' = "pay" \/ (pc' = "deposit" /\ swap.kind = "excess")
    BY <1>5 DEF Wrap, DepositMain, DepositWrapped
  <2> QED BY <2>1, FundsStay
<1>6. CASE Pay \/ Revert \/ Trade \/ Market \/ SetTargets
  <2>1. pc' = "idle"
    BY <1>6 DEF Pay, Revert, Trade, Market, SetTargets
  <2> QED BY <2>1 DEF Funded, Priced, Purse
<1> QED BY <1>1, <1>2, <1>3, <1>4, <1>5, <1>6 DEF Next

\* Whoever adds the price of one wrapped token, the digits the rate has lost and
\* two main tokens has enough, with every protocol: whatever the pool's quote
\* and the protocol have rounded, _wrapTokens has what it must wrap and the main
\* tokens that the pool is owed are there.
THEOREM AddingMainIsEnough == Spec => []ExtraMainSuffices
<1>1. IInv /\ Funded => ExtraMainSuffices
  <2> SUFFICES ASSUME IInv, Funded, pc \in {"convert", "deposit"},
                      swap.extra * ONE >= swap.wrapped + QuotedRate + 2 * ONE
               PROVE  /\ pc = "convert" /\ swap.kind = "excess" /\ Live(vault) =>
                             held.main >= GetRequiredTokensToWrap(vault, swap.wrapped)
                      /\ pc = "deposit" /\ swap.kind = "lack" => held.main >= swap.main
    BY DEF ExtraMainSuffices, QuotedRate
  <2> PICK w, m, e, h, r, x : /\ w = swap.wrapped /\ m = swap.main /\ e = swap.extra
                              /\ h = held.main /\ r = QuotedRate /\ x = w * r
    OBVIOUS
  <2>1. /\ w \in Nat /\ m \in Nat /\ e \in Nat /\ h \in Nat /\ r \in Nat /\ x \in Nat
        /\ ONE \in Nat \ {0}
    <3>1. swap \in Swaps /\ held \in Amounts /\ QuotedRate \in Nat
      BY DEF IInv, TypeOK, Quoted
    <3> QED BY <3>1, ConstantsType DEF Swaps, Amounts
  <2>2. e * ONE >= w + r + 2 * ONE
    OBVIOUS
  <2>3. m * ONE \in Nat /\ e * ONE \in Nat /\ h * ONE \in Nat
    BY <2>1
  <2>4. ASSUME pc = "convert", swap.kind = "excess", Live(vault)
        PROVE  h >= GetRequiredTokensToWrap(vault, w)
    <3> PICK k : k = GetRequiredTokensToWrap(vault, w)
      OBVIOUS
    <3>1. vault \in Vaults /\ ~RateReverts(vault) /\ r = GetWrappedTokenRate(vault)
      BY <2>4 DEF IInv, TypeOK, Placed, Quoted, QuotedRate
    <3>2. k \in Nat /\ ONE * k <= x + w + 2 * ONE
      BY <2>1, <2>4, <3>1, RequiredType, RequiredBound
    <3>3. x <= m * ONE + r /\ h >= m + e
      BY <2>4 DEF Funded, Priced, Purse
    <3>4. (m + e) * ONE <= h * ONE /\ (m + e) * ONE = m * ONE + e * ONE
      <4>1. (m + e) * ONE <= h * ONE
        BY <2>1, <3>3, MulMono
      <4> QED BY <2>1, <4>1
    <3>5. k * ONE = ONE * k /\ ONE * k \in Nat
      BY <2>1, <3>2
    <3>6. k * ONE <= h * ONE
      BY ONLY <2>1, <2>2, <2>3, <3>2, <3>3, <3>4, <3>5
    <3>7. k <= h
      BY <2>1, <3>2, <3>6, Cancel
    <3> QED BY <2>1, <3>2, <3>7
  <2>5. ASSUME pc = "deposit", swap.kind = "lack"
        PROVE  h >= m
    <3>1. m * ONE <= x + r
      BY <2>5 DEF Funded, Priced
    <3>2. x + e * ONE <= (h + 1) * ONE
      BY <2>5 DEF Funded, Purse
    <3>3. (h + 1) * ONE = h * ONE + ONE
      BY <2>1
    <3>4. m * ONE <= h * ONE
      BY ONLY <2>1, <2>2, <2>3, <3>1, <3>2, <3>3
    <3>5. m <= h
      BY <2>1, <3>4, Cancel
    <3> QED BY <2>1, <3>5
  <2> QED BY <2>4, <2>5
<1>2. Init => Funded
  BY DEF Init, Funded, Priced, Purse
<1> QED BY <1>1, <1>2, InitInv, StepInv, FundedStep, PTL DEF Spec
=============================================================================
