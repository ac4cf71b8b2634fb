-------------------------- MODULE ShareValueProofs --------------------------
(***************************************************************************)
(* Proofs about the share value helpers, for every vault and every history *)
(* of it.                                                                  *)
(*                                                                         *)
(* Yearn: the inductive invariant is that a vault has what it has locked;  *)
(* the rest is about how far two roundings can be apart, for every rate of *)
(* release.                                                                *)
(*                                                                         *)
(* Tetu, an instance of its own with four more variables: the invariant is *)
(* that nothing is invested without a strategy, so that a first strategy   *)
(* starts with nothing.                                                    *)
(***************************************************************************)
EXTENDS YearnShareValue, WrappedTokensProofs

Types == /\ now \in Nat /\ totalAssets \in Nat /\ totalSupply \in Nat
         /\ lockedProfit \in Nat /\ lastReport \in 0 .. now

IInv == Types /\ Locked <= totalAssets

\* What is locked of a profit, and the helper's deduction, at a ratio of release.
LockedOf(profit, ratio) ==
    IF ratio < ONE THEN profit - (ratio * profit) \div ONE ELSE 0
DeductionOf(profit, ratio) == MulDown(profit, Complement(ratio))

\* What shares are worth of the given funds.
ValueOf(shares, funds, supply) ==
    IF supply = 0 THEN shares ELSE (shares * funds) \div supply

-----------------------------------------------------------------------------
\* Arithmetic.

\* The vault rounds up what the helper rounds down.
LEMMA DeductionBounds ==
    ASSUME NEW l \in Nat, NEW r \in Nat
    PROVE  /\ LockedOf(l, r) \in Nat /\ DeductionOf(l, r) \in Nat
           /\ DeductionOf(l, r) <= LockedOf(l, r)
           /\ LockedOf(l, r) <= DeductionOf(l, r) + 1
           /\ LockedOf(l, r) <= l
<1>1. ONE \in Nat \ {0}
  BY OneAssumption
<1>2. CASE r >= ONE
  <2>1. DeductionOf(l, r) = 0
    BY <1>1, <1>2 DEF DeductionOf, MulDown, Complement
  <2> QED BY <1>1, <1>2, <2>1 DEF LockedOf
<1>3. CASE r < ONE
  <2> DEFINE free == (r * l) \div ONE
             kept == (l * (ONE - r)) \div ONE
  <2>1. ONE - r \in Nat /\ r * l \in Nat /\ l * (ONE - r) \in Nat
    BY <1>1, <1>3
  <2>2. free \in Nat /\ ONE * free <= r * l /\ r * l < ONE * free + ONE
    BY <1>1, <2>1, DivBounds, DivType
  <2>3. kept \in Nat /\ ONE * kept <= l * (ONE - r) /\ l * (ONE - r) < ONE * kept + ONE
    BY <1>1, <2>1, DivBounds, DivType
  <2>4. LockedOf(l, r) = l - free /\ DeductionOf(l, r) = kept
    BY <1>3 DEF LockedOf, DeductionOf, MulDown, Complement
  <2> HIDE DEF free, kept
  <2>5. r * l + l * (ONE - r) = l * ONE
    BY <1>1
  <2>6. (kept + free) * ONE <= l * ONE /\ l * ONE < (kept + free + 2) * ONE
    BY <1>1, <2>1, <2>2, <2>3, <2>5
  <2>7. kept + free <= l
    BY <1>1, <2>2, <2>3, <2>6, Cancel
  <2>8. l < kept + free + 2
    <3>1. ASSUME kept + free + 2 <= l PROVE FALSE
      <4>1. (kept + free + 2) * ONE <= l * ONE /\ (kept + free + 2) * ONE \in Nat
            /\ l * ONE \in Nat
        BY <1>1, <2>2, <2>3, <3>1, MulMono
      <4> QED BY <2>6, <4>1
    <3> QED BY <2>2, <2>3, <3>1
  <2> QED BY <2>2, <2>3, <2>4, <2>7, <2>8
<1> QED BY <1>1, <1>2, <1>3

\* As time passes, no more is locked or deducted.
LEMMA ReleaseOnly ==
    ASSUME NEW l \in Nat, NEW r \in Nat, NEW q \in Nat, r <= q
    PROVE  LockedOf(l, q) <= LockedOf(l, r) /\ DeductionOf(l, q) <= DeductionOf(l, r)
<1>1. ONE \in Nat \ {0}
  BY OneAssumption
<1>2. CASE q >= ONE
  <2>1. LockedOf(l, q) = 0 /\ DeductionOf(l, q) = 0
    BY <1>1, <1>2 DEF LockedOf, DeductionOf, MulDown, Complement
  <2>2. LockedOf(l, r) \in Nat /\ DeductionOf(l, r) \in Nat
    BY DeductionBounds
  <2> QED BY <2>1, <2>2
<1>3. CASE q < ONE
  <2>1. r * l <= q * l /\ r * l \in Nat /\ q * l \in Nat
    BY MulMono
  <2>2. (r * l) * ONE <= (q * l) * ONE
    BY <1>1, <2>1, MulMono
  <2>3. (r * l) \div ONE <= (q * l) \div ONE
    BY <1>1, <2>1, <2>2, QuotientAtMost
  <2>4. (ONE - q) * l <= (ONE - r) * l /\ (ONE - q) * l \in Nat /\ (ONE - r) * l \in Nat
    BY <1>1, <1>3, MulMono
  <2>5. ((ONE - q) * l) * ONE <= ((ONE - r) * l) * ONE
    BY <1>1, <2>4, MulMono
  <2>6. ((ONE - q) * l) \div ONE <= ((ONE - r) * l) \div ONE
    BY <1>1, <2>4, <2>5, QuotientAtMost
  <2>7. (ONE - q) * l = l * (ONE - q) /\ (ONE - r) * l = l * (ONE - r)
    BY <1>1
  <2>8. DeductionOf(l, q) <= DeductionOf(l, r)
    BY <1>1, <1>3, <2>6, <2>7 DEF DeductionOf, MulDown, Complement
  <2>9. LockedOf(l, q) <= LockedOf(l, r)
    <3>1. (r * l) \div ONE \in Int /\ (q * l) \div ONE \in Int
      BY <1>1, <2>1, DivType
    <3> QED BY <1>1, <1>3, <2>3, <3>1 DEF LockedOf
  <2> QED BY <2>8, <2>9
<1> QED BY <1>1, <1>2, <1>3

LEMMA ValueType ==
    ASSUME NEW s \in Nat, NEW f \in Nat, NEW n \in Nat
    PROVE  ValueOf(s, f, n) \in Nat
<1>1. s * f \in Nat
  OBVIOUS
<1> QED BY <1>1, DivType DEF ValueOf

\* Shares are worth more of more funds, and no more than a unit more of one more.
LEMMA ValueBounds ==
    ASSUME NEW n \in Nat, NEW s \in 0 .. n, NEW f \in Nat, NEW g \in Nat, f <= g
    PROVE  /\ ValueOf(s, f, n) \in Nat /\ ValueOf(s, g, n) \in Nat
           /\ ValueOf(s, f, n) <= ValueOf(s, g, n)
           /\ g <= f + 1 => ValueOf(s, g, n) <= ValueOf(s, f, n) + 1
<1>1. CASE n = 0
  BY <1>1 DEF ValueOf
<1>2. CASE n # 0
  <2>1. s \in Nat /\ s <= n /\ n \in Nat \ {0} /\ s * f \in Nat /\ s * g \in Nat
    BY <1>2
  <2>2. s * f <= s * g
    <3>1. f * s <= g * s /\ f * s = s * f /\ g * s = s * g
      BY <2>1, MulMono
    <3> QED BY <3>1
  <2>3. (s * f) * n <= (s * g) * n
    BY <2>1, <2>2, MulMono
  <2>4. (s * f) \div n <= (s * g) \div n
    BY <2>1, <2>3, QuotientAtMost
  <2>5. ASSUME g <= f + 1 PROVE (s * g) \div n <= (s * f) \div n + 1
    <3>1. g = f \/ g = f + 1
      BY <2>5
    <3>2. s * g <= s * f + n
      BY <2>1, <3>1
    <3>3. s * f + n \in Nat /\ (s * f + n) * n = (s * f) * n + n * n
      BY <2>1
    <3>4. (s * g) * n <= (s * f + n) * n
      BY <2>1, <3>2, <3>3, MulMono
    <3> QED BY <2>1, <3>3, <3>4, QuotientAtMostOneMore
  <2> QED BY <1>2, <2>1, <2>4, <2>5, DivType DEF ValueOf
<1> QED BY <1>1, <1>2

\* A deposit is given no more shares than its part of the vault's own funds f,
\* which costs the others less than a unit of what the helper counts, h.
LEMMA DepositIsFair ==
    ASSUME NEW n \in Nat \ {0}, NEW s \in 0 .. n, NEW f \in Nat \ {0}, NEW h \in Nat,
           f <= h, h <= f + 1, NEW a \in Nat, NEW i \in Nat, i * f <= a * n
    PROVE  ValueOf(s, h, n) <= ValueOf(s, h + a, n + i) + 1
<1>1. s \in Nat /\ s <= n /\ n + i \in Nat \ {0} /\ h + a \in Nat
  OBVIOUS
<1>2. i * h <= a * n + i
  <2>1. h = f \/ h = f + 1
    OBVIOUS
  <2>2. i * (f + 1) = i * f + i /\ i * f \in Nat /\ a * n \in Nat
    OBVIOUS
  <2> QED BY <2>1, <2>2
<1>3. s * (i * h) <= s * (a * n + i)
  <2>1. i * h \in Nat /\ a * n + i \in Nat
    OBVIOUS
  <2>2. (i * h) * s <= (a * n + i) * s
    BY <1>1, <1>2, <2>1, MulMono
  <2> QED BY <1>1, <2>1, <2>2
<1>4. s * (a * n + i) = (s * a) * n + s * i /\ s * i <= n * i /\ s * a \in Nat
      /\ s * i \in Nat /\ n * i \in Nat
  BY <1>1, MulMono
<1>5. (s * h) * (n + i) = (s * h) * n + s * (i * h)
  BY <1>1
<1>6. (s * (h + a)) * n = (s * h) * n + (s * a) * n
  BY <1>1
<1>7. n * (n + i) = n * n + n * i /\ n * n \in Nat
  OBVIOUS
<1>8. (s * h) * (n + i) <= (s * (h + a)) * n + n * (n + i)
  <2>1. (s * h) * n \in Nat /\ (s * a) * n \in Nat /\ s * (i * h) \in Nat
    BY <1>1
  <2> QED BY <1>3, <1>4, <1>5, <1>6, <1>7, <2>1
<1>9. s * h \in Nat /\ s * (h + a) \in Nat
  BY <1>1
<1> QED BY <1>1, <1>8, <1>9, QuotientAtMostOneMore DEF ValueOf

\* A withdrawal is paid no more than its part, of which the others lose nothing.
LEMMA WithdrawalIsFair ==
    ASSUME NEW n \in Nat \ {0}, NEW m \in 0 .. n, NEW s \in 0 .. n - m, NEW h \in Nat,
           NEW p \in Nat, p <= h, p * n <= m * h
    PROVE  ValueOf(s, h, n) <= ValueOf(s, h - p, n - m)
<1>1. s \in Nat /\ m \in Nat /\ n - m \in Nat /\ h - p \in Nat
  OBVIOUS
<1>2. CASE n = m
  BY <1>1, <1>2 DEF ValueOf
<1>3. CASE n # m
  <2>1. n - m \in Nat \ {0}
    BY <1>1, <1>3
  <2>2. (p * n) * s <= (m * h) * s
    <3>1. p * n \in Nat /\ m * h \in Nat
      BY <1>1
    <3> QED BY <1>1, <3>1, MulMono
  <2>3. (s * h) * (n - m) = (s * h) * n - (m * h) * s
    BY <1>1
  <2>4. (s * (h - p)) * n = (s * h) * n - (p * n) * s
    BY <1>1
  <2>5. (s * h) * (n - m) <= (s * (h - p)) * n
    <3>1. (s * h) * n \in Int /\ (m * h) * s \in Int /\ (p * n) * s \in Int
      BY <1>1
    <3> QED BY <2>2, <2>3, <2>4, <3>1
  <2>6. s * h \in Nat /\ s * (h - p) \in Nat
    BY <1>1
  <2> QED BY <1>3, <2>1, <2>5, <2>6, QuotientAtMost DEF ValueOf
<1> QED BY <1>2, <1>3

-----------------------------------------------------------------------------
\* The vault and the helper, in these terms.

Valued == /\ LockedFundsRatio \in Nat
          /\ Locked = LockedOf(lockedProfit, LockedFundsRatio)
          /\ Deduction = DeductionOf(lockedProfit, LockedFundsRatio)
          /\ Locked \in Nat /\ FreeFunds = totalAssets - Locked
          /\ FreeFunds \in Nat /\ CalculateFreeFunds \in Nat
          /\ FreeFunds <= CalculateFreeFunds /\ CalculateFreeFunds <= FreeFunds + 1
          /\ \A s : /\ ShareValue(s) = ValueOf(s, CalculateFreeFunds, totalSupply)
                    /\ VaultValue(s) = ValueOf(s, FreeFunds, totalSupply)

LEMMA StateValues == IInv => Valued
<1> SUFFICES ASSUME IInv PROVE Valued
  OBVIOUS
<1>1. /\ now - lastReport \in Nat /\ Degradation \in Nat
      /\ totalAssets \in Nat /\ lockedProfit \in Nat /\ Locked <= totalAssets
  BY YearnAssumption DEF IInv, Types
<1>2. /\ LockedFundsRatio \in Nat
      /\ Locked = LockedOf(lockedProfit, LockedFundsRatio)
      /\ Deduction = DeductionOf(lockedProfit, LockedFundsRatio)
  BY <1>1 DEF LockedFundsRatio, Locked, LockedOf, Deduction, DeductionOf
<1>3. \A s : /\ ShareValue(s) = ValueOf(s, CalculateFreeFunds, totalSupply)
            /\ VaultValue(s) = ValueOf(s, FreeFunds, totalSupply)
  BY DEF ShareValue, VaultValue, ValueOf, SharesToAmount, Vault, MulDivDown
<1>4. /\ Locked \in Nat /\ Deduction \in Nat
      /\ Deduction <= Locked /\ Locked <= Deduction + 1
  BY <1>1, <1>2, DeductionBounds
<1>5. /\ FreeFunds = totalAssets - Locked /\ CalculateFreeFunds = totalAssets - Deduction
  BY DEF FreeFunds, CalculateFreeFunds
<1> HIDE DEF Valued
<1> QED BY <1>1, <1>2, <1>3, <1>4, <1>5 DEF Valued

\* At a report nothing of the locked profit is released yet.
LEMMA JustLocked ==
    ASSUME NEW l \in Nat PROVE LockedOf(l, 0) = l /\ DeductionOf(l, 0) = l
<1>1. ONE \in Nat \ {0} /\ 0 * l = 0 /\ 0 \div ONE = 0 /\ (l * ONE) \div ONE = l
  <2>1. ONE \in Nat \ {0}
    BY OneAssumption
  <2>2. l * ONE \in Nat /\ l <= (l * ONE) \div ONE /\ (l * ONE) \div ONE <= l
        /\ (l * ONE) \div ONE \in Nat
    BY <2>1, DivAtLeast, DivAtMost, DivType
  <2> QED BY <2>1, <2>2
<1> QED BY <1>1 DEF LockedOf, DeductionOf, MulDown, Complement

-----------------------------------------------------------------------------
\* One lemma for each action: the invariant, and the funds before and after.

LEMMA DepositStep ==
    ASSUME IInv, NEW a \in Nat \ {0}, Deposit(a)
    PROVE  /\ IInv'
           /\ CalculateFreeFunds' = CalculateFreeFunds + a
           /\ totalSupply' > totalSupply
           /\ totalSupply > 0 => /\ FreeFunds > 0 /\ totalSupply' - totalSupply \in Nat
                                 /\ (totalSupply' - totalSupply) * FreeFunds <= a * totalSupply
<1> DEFINE issued == IF totalSupply = 0 THEN a ELSE MulDivDown(a, totalSupply, FreeFunds)
<1>1. /\ totalSupply > 0 => FreeFunds > 0
      /\ issued > 0 /\ totalAssets' = totalAssets + a /\ totalSupply' = totalSupply + issued
      /\ UNCHANGED <<now, lockedProfit, lastReport>>
  BY DEF Deposit
<1>2. Types /\ Valued /\ totalSupply \in Nat
  BY StateValues DEF IInv, Types
<1>3. issued \in Nat /\ (totalSupply > 0 => issued * FreeFunds <= a * totalSupply)
  <2>1. CASE totalSupply = 0
    BY <2>1
  <2>2. CASE totalSupply # 0
    <3>1. a * totalSupply \in Nat /\ FreeFunds \in Nat \ {0}
      BY <1>1, <1>2, <2>2 DEF Valued
    <3> DEFINE q == (a * totalSupply) \div FreeFunds
    <3>2. q \in Nat /\ FreeFunds * q <= a * totalSupply
      BY <3>1, DivBounds, DivType
    <3>3. issued = q
      BY <2>2 DEF MulDivDown
    <3> HIDE DEF q, issued
    <3> QED BY <3>1, <3>2, <3>3
  <2> QED BY <2>1, <2>2
<1> HIDE DEF issued
<1>4. Locked' = Locked /\ Deduction' = Deduction
  BY <1>1 DEF Locked, Deduction, LockedFundsRatio
<1>5. IInv'
  <2>1. /\ totalAssets \in Nat /\ totalAssets' \in Nat /\ totalAssets <= totalAssets'
        /\ totalSupply' \in Nat
    BY <1>1, <1>2, <1>3 DEF Types
  <2>2. Locked \in Nat /\ Locked' <= totalAssets'
    BY <1>2, <1>4, <2>1 DEF IInv, Valued
  <2> QED BY <1>1, <1>2, <2>1, <2>2 DEF IInv, Types
<1>6. CalculateFreeFunds' = CalculateFreeFunds + a
  <2>1. totalAssets \in Nat /\ Deduction \in Int
    BY <1>2, DeductionBounds DEF Types, Valued
  <2> QED BY <1>1, <1>4, <2>1 DEF CalculateFreeFunds
<1> QED BY <1>1, <1>2, <1>3, <1>5, <1>6

LEMMA WithdrawStep ==
    ASSUME IInv, NEW n \in Nat \ {0}, Withdraw(n)
    PROVE  /\ IInv' /\ totalSupply \in Nat \ {0} /\ n <= totalSupply
           /\ totalSupply' = totalSupply - n
           /\ \E p \in Nat : /\ p <= CalculateFreeFunds /\ totalAssets' = totalAssets - p
                             /\ CalculateFreeFunds' = CalculateFreeFunds - p
                             /\ p * totalSupply <= n * CalculateFreeFunds
<1> DEFINE p == (n * FreeFunds) \div totalSupply
<1>1. /\ Types /\ Valued /\ totalSupply \in Nat \ {0} /\ n <= totalSupply
      /\ totalSupply' = totalSupply - n
      /\ UNCHANGED <<now, lockedProfit, lastReport>>
  BY StateValues DEF IInv, Types, Withdraw
<1>2. totalAssets' = totalAssets - p
  BY <1>1 DEF Withdraw, Valued, ValueOf
<1>3. n * FreeFunds \in Nat /\ n * CalculateFreeFunds \in Nat
  BY <1>1 DEF Valued
<1>4. p \in Nat /\ totalSupply * p <= n * FreeFunds
  BY <1>1, <1>3, DivBounds, DivType
<1>5. p <= FreeFunds
  <2>1. FreeFunds \in Nat /\ n * FreeFunds <= totalSupply * FreeFunds
    BY <1>1, MulMono DEF Valued
  <2>2. n * FreeFunds <= FreeFunds * totalSupply
    BY <1>1, <2>1
  <2> QED BY <1>1, <1>3, <2>1, <2>2, DivAtMost
<1>6. n * FreeFunds <= n * CalculateFreeFunds
  <2>1. FreeFunds * n <= CalculateFreeFunds * n
    BY <1>1, MulMono DEF Valued
  <2> QED BY <1>1, <2>1 DEF Valued
<1> HIDE DEF p
<1>7. Locked' = Locked /\ Deduction' = Deduction
  BY <1>1 DEF Locked, Deduction, LockedFundsRatio
<1>8. totalAssets \in Nat /\ Deduction \in Int
  BY <1>1, DeductionBounds DEF Types, Valued
<1>9. CalculateFreeFunds' = CalculateFreeFunds - p
  BY <1>2, <1>4, <1>7, <1>8 DEF CalculateFreeFunds
<1>10. IInv'
  <2>1. FreeFunds = totalAssets - Locked /\ Locked \in Nat
    BY <1>1 DEF Valued
  <2>2. totalAssets' \in Nat /\ Locked' <= totalAssets'
    BY <1>2, <1>4, <1>5, <1>7, <1>8, <2>1
  <2> QED BY <1>1, <2>2 DEF IInv, Types
<1>11. p <= CalculateFreeFunds /\ p * totalSupply <= n * CalculateFreeFunds
  <2>1. p * totalSupply = totalSupply * p /\ p * totalSupply \in Nat
    BY <1>1, <1>4
  <2>2. FreeFunds \in Nat /\ CalculateFreeFunds \in Nat /\ FreeFunds <= CalculateFreeFunds
    BY <1>1 DEF Valued
  <2> QED BY <1>3, <1>4, <1>5, <1>6, <2>1, <2>2
<1> QED BY <1>1, <1>2, <1>4, <1>9, <1>10, <1>11

LEMMA ReportStep ==
    ASSUME IInv, NEW n \in Nat \ {0}, Report(n)
    PROVE  IInv' /\ CalculateFreeFunds' = FreeFunds /\ totalSupply' = totalSupply
<1>1. /\ Types /\ Valued /\ totalAssets' = totalAssets + n /\ lockedProfit' = Locked + n
      /\ lastReport' = now /\ UNCHANGED <<now, totalSupply>> /\ Locked <= totalAssets
  BY StateValues DEF IInv, Report
<1>2. Locked + n \in Nat /\ now \in Nat /\ totalAssets \in Nat /\ Degradation \in Nat
  BY <1>1, YearnAssumption DEF Valued, Types
<1>3. LockedFundsRatio' = 0
  BY <1>1, <1>2 DEF LockedFundsRatio
<1>4. Locked' = LockedOf(Locked + n, 0) /\ Deduction' = DeductionOf(Locked + n, 0)
  BY <1>1, <1>3 DEF Locked, LockedOf, Deduction, DeductionOf
<1>5. Locked' = Locked + n /\ Deduction' = Locked + n
  BY <1>2, <1>4, JustLocked
<1>6. IInv'
  <2>1. /\ lockedProfit' \in Nat /\ totalAssets' \in Nat /\ totalSupply \in Nat
        /\ Locked' <= totalAssets' /\ lastReport' \in 0 .. now
    BY <1>1, <1>2, <1>5 DEF Types, Valued
  <2> QED BY <1>1, <1>2, <2>1 DEF IInv, Types
<1>7. CalculateFreeFunds' = FreeFunds
  BY <1>1, <1>2, <1>5 DEF CalculateFreeFunds, FreeFunds, Valued
<1> QED BY <1>1, <1>6, <1>7

LEMMA LossStep ==
    ASSUME IInv, NEW n \in Nat \ {0}, ReportLoss(n)
    PROVE  IInv' /\ totalAssets' < totalAssets /\ totalSupply' = totalSupply
<1> DEFINE rest == IF Locked > n THEN Locked - n ELSE 0
<1>1. /\ Types /\ Valued /\ n <= totalAssets /\ totalAssets' = totalAssets - n
      /\ lockedProfit' = rest /\ lastReport' = now /\ UNCHANGED <<now, totalSupply>>
      /\ Locked <= totalAssets
  BY StateValues DEF IInv, ReportLoss
<1>2. rest \in Nat /\ rest <= totalAssets - n /\ now \in Nat /\ totalAssets \in Nat
      /\ Degradation \in Nat
  BY <1>1, YearnAssumption DEF Valued, Types
<1> HIDE DEF rest
<1>3. LockedFundsRatio' = 0
  BY <1>1, <1>2 DEF LockedFundsRatio
<1>4. Locked' = LockedOf(rest, 0)
  BY <1>1, <1>3 DEF Locked, LockedOf
<1>5. Locked' = rest
  BY <1>2, <1>4, JustLocked
<1> QED BY <1>1, <1>2, <1>5 DEF IInv, Types

LEMMA TickStep ==
    ASSUME IInv, Tick
    PROVE  IInv' /\ CalculateFreeFunds <= CalculateFreeFunds'
           /\ UNCHANGED <<totalAssets, totalSupply>>
<1>1. /\ Types /\ Valued /\ now' = now + 1 /\ Locked <= totalAssets
      /\ UNCHANGED <<totalAssets, totalSupply, lockedProfit, lastReport>>
  BY StateValues DEF IInv, Tick
<1>2. /\ now \in Nat /\ lastReport \in 0 .. now /\ Degradation \in Nat
      /\ lockedProfit \in Nat /\ totalAssets \in Nat
  BY <1>1, YearnAssumption DEF Types
<1>3. LockedFundsRatio' \in Nat /\ LockedFundsRatio <= LockedFundsRatio'
  <2>1. /\ LockedFundsRatio' = (now + 1 - lastReport) * Degradation
        /\ now - lastReport \in Nat /\ now + 1 - lastReport \in Nat
    BY <1>1, <1>2 DEF LockedFundsRatio
  <2> QED BY <1>2, <2>1, MulMono DEF LockedFundsRatio
<1>4. /\ Locked' = LockedOf(lockedProfit, LockedFundsRatio')
      /\ Deduction' = DeductionOf(lockedProfit, LockedFundsRatio')
  BY <1>1 DEF Locked, LockedOf, Deduction, DeductionOf
<1>5. /\ Locked' <= Locked /\ Deduction' <= Deduction
      /\ {Locked', Locked, Deduction', Deduction} \subseteq Nat
  BY <1>1, <1>2, <1>3, <1>4, ReleaseOnly, DeductionBounds DEF Valued
<1>6. IInv'
  BY <1>1, <1>2, <1>5 DEF IInv, Types
<1>7. CalculateFreeFunds <= CalculateFreeFunds'
  BY <1>1, <1>2, <1>5 DEF CalculateFreeFunds
<1> QED BY <1>1, <1>6, <1>7

LEMMA InitInv == Init => IInv
<1> SUFFICES ASSUME Init PROVE IInv
  OBVIOUS
<1>1. Types
  BY DEF Init, Types
<1>2. LockedFundsRatio = 0
  BY YearnAssumption DEF Init, LockedFundsRatio
<1>3. Locked = LockedOf(0, 0)
  BY <1>2 DEF Init, Locked, LockedOf
<1> QED BY <1>1, <1>3, JustLocked DEF Init, IInv

LEMMA Invariance == IInv /\ [Next]_vars => IInv'
<1> SUFFICES ASSUME IInv, [Next]_vars PROVE IInv'
  OBVIOUS
<1>1. ASSUME NEW n \in 1 .. MaxAssets, Deposit(n) \/ Withdraw(n) \/ Report(n) \/ ReportLoss(n)
      PROVE  IInv'
  <2>1. n \in Nat \ {0}
    BY YearnAssumption
  <2> QED BY <1>1, <2>1, DepositStep, WithdrawStep, ReportStep, LossStep
<1>2. CASE UNCHANGED vars
  BY <1>2 DEF vars, IInv, Types, Locked, LockedFundsRatio
<1> QED BY <1>1, <1>2, TickStep DEF Next

LEMMA Invariant == Spec => []IInv
BY InitInv, Invariance, PTL DEF Spec

-----------------------------------------------------------------------------
\* The free funds of the helper never underflow, so that the pool's rate is always
\* defined, whatever is withdrawn or lost while profit is locked
\* (_calculateFreeFunds in YearnShareValueHelper.sol).
THEOREM TypeCorrect == Spec => []TypeOK
<1>1. IInv => TypeOK
  BY StateValues DEF IInv, Types, Valued, TypeOK
<1> QED BY <1>1, Invariant, PTL

\* The helper's value of shares is the vault's, or one unit more, in every state
\* of every vault (_sharesToAmount).
THEOREM HelperAgrees == Spec => []AgreesWithVault
<1>1. ASSUME IInv PROVE AgreesWithVault
  <2> SUFFICES ASSUME NEW s \in 0 .. totalSupply PROVE ShareValue(s) - VaultValue(s) \in 0 .. 1
    BY DEF AgreesWithVault
  <2> DEFINE f == FreeFunds
             g == CalculateFreeFunds
             n == totalSupply
  <2>1. /\ n \in Nat /\ s \in 0 .. n /\ f \in Nat /\ g \in Nat /\ f <= g /\ g <= f + 1
        /\ ShareValue(s) = ValueOf(s, g, n) /\ VaultValue(s) = ValueOf(s, f, n)
    BY <1>1, StateValues DEF IInv, Types, Valued
  <2> HIDE DEF f, g, n
  <2>2. ValueOf(s, f, n) <= ValueOf(s, g, n) /\ ValueOf(s, g, n) <= ValueOf(s, f, n) + 1
        /\ ValueOf(s, f, n) \in Nat /\ ValueOf(s, g, n) \in Nat
    BY <2>1, ValueBounds
  <2> QED BY <2>1, <2>2
<1> QED BY <1>1, Invariant, PTL

\* A profitable report leaves the value of shares as it is, or takes one unit of
\* it: the profit is locked to the last unit (_calculateFreeFunds).
THEOREM ReportsAreSmooth == Spec => ReportsDoNotJump
<1>1. ASSUME IInv, IInv', Next, totalAssets' > totalAssets, totalSupply' = totalSupply,
             NEW s \in 0 .. totalSupply
      PROVE  ShareValue(s)' - ShareValue(s) \in -1 .. 0
  <2> DEFINE f == FreeFunds
             g == CalculateFreeFunds
             n == totalSupply
  <2>1. /\ n \in Nat /\ s \in 0 .. n /\ f \in Nat /\ g \in Nat /\ f <= g /\ g <= f + 1
        /\ ShareValue(s) = ValueOf(s, g, n)
    BY <1>1, StateValues DEF IInv, Types, Valued
  <2>2. ShareValue(s)' = ValueOf(s, CalculateFreeFunds', n)
    <3>1. Valued'
      BY <1>1, StateValues, PTL
    <3> QED BY <1>1, <3>1 DEF Valued
  <2>3. CalculateFreeFunds' = f
    <3>1. \E a \in Nat \ {0} : Report(a)
      <4>1. ASSUME NEW a \in 1 .. MaxAssets, Deposit(a) \/ Withdraw(a) \/ ReportLoss(a) PROVE FALSE
        <5>1. a \in Nat \ {0}
          BY YearnAssumption
        <5>2. CASE Deposit(a)
          BY <1>1, <2>1, <5>1, <5>2, DepositStep
        <5>3. CASE Withdraw(a)
          BY <1>1, <2>1, <5>1, <5>3, WithdrawStep
        <5>4. CASE ReportLoss(a)
          BY <1>1, <5>1, <5>4, LossStep DEF IInv, Types
        <5> QED BY <4>1, <5>2, <5>3, <5>4
      <4>2. ~Tick
        BY <1>1 DEF Tick, IInv, Types
      <4> QED BY <1>1, <4>1, <4>2, YearnAssumption DEF Next
    <3> QED BY <1>1, <3>1, ReportStep
  <2> HIDE DEF f, g, n
  <2>4. ValueOf(s, f, n) <= ValueOf(s, g, n) /\ ValueOf(s, g, n) <= ValueOf(s, f, n) + 1
        /\ ValueOf(s, f, n) \in Nat /\ ValueOf(s, g, n) \in Nat
    BY <2>1, ValueBounds
  <2> QED BY <2>1, <2>2, <2>3, <2>4
<1>2. IInv /\ IInv' /\ [Next]_vars =>
        [totalAssets' > totalAssets /\ totalSupply' = totalSupply =>
            \A s \in 0 .. totalSupply : ShareValue(s)' - ShareValue(s) \in -1 .. 0]_vars
  BY <1>1
<1> QED BY <1>2, Invariant, PTL DEF Spec, ReportsDoNotJump

\* The same of the supply after the deposit.
LEMMA SharesIssuedFairly ==
    ASSUME NEW n \in Nat \ {0}, NEW m \in Nat, NEW f \in Nat \ {0}, NEW a \in Nat \ {0}, NEW h \in Nat,
           f <= h, h <= f + 1, NEW s \in 0 .. n, m - n \in Nat, (m - n) * f <= a * n
    PROVE  ValueOf(s, h, n) <= ValueOf(s, h + a, m) + 1
<1> PICK i \in Nat : i = m - n
  OBVIOUS
<1>1. m = n + i
  OBVIOUS
<1>2. i * f <= a * n
  OBVIOUS
<1> QED BY <1>1, <1>2, DepositIsFair

\* Without a loss, those who stay do not lose more than a unit by what others do
\* or by the passing of time (_sharesToAmount, between any two calls).
THEOREM StayersAreSafe == Spec => StayersKeepValue
<1>1. ASSUME IInv, IInv', Next, ~Loses, NEW s \in 0 .. totalSupply, s <= totalSupply'
      PROVE  ShareValue(s)' >= ShareValue(s) - 1
  <2> PICK h, f, n, k, m : /\ h = CalculateFreeFunds /\ f = FreeFunds /\ n = totalSupply
                           /\ k = CalculateFreeFunds' /\ m = totalSupply'
    OBVIOUS
  <2>1. /\ n \in Nat /\ s \in 0 .. n /\ f \in Nat /\ h \in Nat /\ f <= h /\ h <= f + 1
        /\ m \in Nat /\ k \in Nat /\ s \in 0 .. m
        /\ ShareValue(s) = ValueOf(s, h, n) /\ ShareValue(s)' = ValueOf(s, k, m)
    <3>1. Valued /\ Valued'
      BY <1>1, StateValues, PTL
    <3>2. totalSupply \in Nat /\ totalSupply' \in Nat
      BY <1>1 DEF IInv, Types
    <3> QED BY <1>1, <3>1, <3>2 DEF Valued
  <2>2. ValueOf(s, h, n) \in Nat /\ ValueOf(s, k, m) \in Nat
    <3>1. s \in Nat
      BY <2>1
    <3> QED BY <2>1, <3>1, ValueType
  <2>3. ASSUME NEW a \in Nat \ {0}, Deposit(a) PROVE ValueOf(s, h, n) <= ValueOf(s, k, m) + 1
    <3>1. CASE n = 0
      <4>1. ValueOf(s, h, n) = 0
        BY <2>1, <3>1 DEF ValueOf
      <4> QED BY <2>2, <4>1
    <3>2. CASE n # 0
      <4>1. k = h + a /\ f > 0 /\ m - n \in Nat /\ (m - n) * f <= a * n
        <5>1. totalSupply > 0
          BY <2>1, <3>2
        <5> QED BY <1>1, <2>3, <5>1, DepositStep
      <4>2. n \in Nat \ {0} /\ f \in Nat \ {0}
        BY <2>1, <3>2, <4>1
      <4>3. ValueOf(s, h, n) <= ValueOf(s, h + a, m) + 1
        BY <2>1, <4>1, <4>2, SharesIssuedFairly
      <4> QED BY <4>1, <4>3
    <3> QED BY <3>1, <3>2
  <2>4. ASSUME NEW b \in Nat \ {0}, Withdraw(b) PROVE ValueOf(s, h, n) <= ValueOf(s, k, m)
    <3>1. PICK p \in Nat : p <= h /\ k = h - p /\ p * n <= b * h
      BY <1>1, <2>4, WithdrawStep
    <3>2. n \in Nat \ {0} /\ b <= n /\ m = n - b
      BY <1>1, <2>4, WithdrawStep
    <3>3. b \in 0 .. n /\ s \in 0 .. n - b
      BY <2>1, <3>2
    <3> QED BY <2>1, <3>1, <3>2, <3>3, WithdrawalIsFair
  <2>5. ASSUME NEW a \in Nat \ {0}, Report(a) PROVE ValueOf(s, h, n) <= ValueOf(s, k, m) + 1
    <3>1. k = f /\ m = n
      BY <1>1, <2>5, ReportStep
    <3> QED BY <2>1, <3>1, ValueBounds
  <2>6. ASSUME NEW a \in Nat \ {0}, ReportLoss(a) PROVE FALSE
    BY <1>1, <2>6, LossStep DEF Loses
  <2>7. ASSUME Tick PROVE ValueOf(s, h, n) <= ValueOf(s, k, m)
    <3>1. h <= k /\ m = n
      BY <1>1, <2>7, TickStep
    <3> QED BY <2>1, <3>1, ValueBounds
  <2>8. Tick \/ \E a \in Nat \ {0} : Deposit(a) \/ Withdraw(a) \/ Report(a) \/ ReportLoss(a)
    BY <1>1, YearnAssumption DEF Next
  <2>9. ValueOf(s, h, n) <= ValueOf(s, k, m) + 1
    BY <2>2, <2>3, <2>4, <2>5, <2>6, <2>7, <2>8
  <2> QED BY <2>1, <2>2, <2>9
<1>2. IInv /\ IInv' /\ [Next]_vars =>
        [~Loses => \A s \in 0 .. totalSupply :
                      s <= totalSupply' => ShareValue(s)' >= ShareValue(s) - 1]_vars
  BY <1>1
<1> QED BY <1>2, Invariant, PTL DEF Spec, StayersKeepValue

-----------------------------------------------------------------------------
\* A Tetu vault.

VARIABLES inVault, strategy, invested, supply

Tetu == INSTANCE TetuShareValue

\* Only a strategy has anything invested.
Counted == /\ inVault \in Nat /\ invested \in Nat /\ supply \in Nat /\ strategy \in BOOLEAN
           /\ strategy \/ invested = 0

LEMMA CountedInit == Tetu!Init => Counted
BY DEF Tetu!Init, Counted

\* A deposit is issued shares, and a withdrawal paid tokens, for no more than
\* they are worth.
LEMMA IssuedWorth ==
    ASSUME NEW h \in Nat \ {0}, NEW s \in Nat \ {0}, NEW a \in Nat
    PROVE  LET issued == MulDivDown(a, s, h)
           IN  /\ issued \in Nat
               /\ h * (s + issued) <= (h + a) * s
<1> PICK k : k = (a * s) \div h
  OBVIOUS
<1>1. a * s \in Nat
  OBVIOUS
<1>2. k \in Nat /\ h * k <= a * s
  BY <1>1, DivBounds, DivType
<1>3. h * (s + k) = h * s + h * k /\ (h + a) * s = h * s + a * s
      /\ h * s \in Nat /\ h * k \in Nat
  BY <1>2
<1>4. h * (s + k) <= (h + a) * s
  BY <1>1, <1>2, <1>3
<1> QED BY <1>2, <1>4 DEF MulDivDown

LEMMA PaidWorth ==
    ASSUME NEW h \in Nat, NEW s \in Nat \ {0}, NEW n \in Nat, n <= s
    PROVE  LET paid == MulDivDown(n, h, s)
           IN  /\ paid \in Nat /\ paid <= h
               /\ h * (s - n) <= (h - paid) * s
<1> PICK k : k = (n * h) \div s
  OBVIOUS
<1>1. n * h \in Nat
  OBVIOUS
<1>2. k \in Nat /\ s * k <= n * h
  BY <1>1, DivBounds, DivType
<1>3. n * h <= h * s
  <2>1. n * h <= s * h
    BY MulMono
  <2>2. s * h = h * s
    OBVIOUS
  <2> QED BY <2>1, <2>2
<1>4. k <= h
  BY <1>1, <1>3, DivAtMost
<1>5. h * (s - n) = h * s - n * h /\ (h - k) * s = h * s - s * k
      /\ h * s \in Nat /\ s * k \in Nat
  BY <1>2
<1>6. h * (s - n) <= (h - k) * s
  BY <1>1, <1>2, <1>5
<1> QED BY <1>2, <1>4, <1>6 DEF MulDivDown

\* What a step does to the vault's books: with a strategy, it never leaves less
\* for each share, and neither way of the investments leaves more.
Kept == inVault' + invested' = inVault + invested /\ supply' = supply
Worth == strategy' = strategy
         /\ (supply > 0 /\ supply' > 0 =>
                (inVault + invested) * supply' <= (inVault' + invested') * supply)

LEMMA DepositBooks ==
    ASSUME Counted, NEW a \in 1 .. MaxAssets, Tetu!Deposit(a)
    PROVE  Counted' /\ Worth
<1> PICK h, s : h = inVault + invested /\ s = supply
  OBVIOUS
<1>1. h \in Nat /\ s \in Nat /\ a \in Nat /\ (s > 0 => h > 0)
      /\ UNCHANGED <<strategy, invested>> /\ inVault' = inVault + a
  BY DEF Counted, Tetu!Deposit, Tetu!Holdings
<1>2. CASE s = 0
  <2>1. supply' = a
    BY <1>1, <1>2 DEF Tetu!Deposit, Tetu!Holdings
  <2> QED BY <1>1, <1>2, <2>1 DEF Counted, Worth
<1>3. CASE s # 0
  <2> PICK k : k = MulDivDown(a, s, h)
    OBVIOUS
  <2>1. supply' = s + k
    BY <1>3 DEF Tetu!Deposit, Tetu!Holdings, Tetu!MulDivDown, MulDivDown
  <2>2. k \in Nat /\ h * (s + k) <= (h + a) * s
    <3>1. h \in Nat \ {0} /\ s \in Nat \ {0} /\ a \in Nat
      BY <1>1, <1>3
    <3> QED BY <3>1, IssuedWorth
  <2>3. inVault' + invested' = h + a
    BY <1>1 DEF Counted
  <2> QED BY <1>1, <2>1, <2>2, <2>3 DEF Counted, Worth
<1> QED BY <1>2, <1>3

LEMMA PaidOut ==
    ASSUME NEW v \in Nat, NEW i \in Nat, NEW p \in Nat, p <= v + i
    PROVE  LET V == IF p <= v THEN v - p ELSE 0
               I == IF p <= v THEN i ELSE i - (p - v)
           IN  V \in Nat /\ I \in Nat /\ V + I = (v + i) - p /\ (i = 0 => I = 0)
OBVIOUS

LEMMA WithdrawBooks ==
    ASSUME Counted, NEW n \in 1 .. MaxAssets, Tetu!Withdraw(n)
    PROVE  Counted' /\ Worth
<1> DEFINE h == inVault + invested
           paid == MulDivDown(n, h, supply)
<1>1. /\ n <= supply /\ strategy' = strategy /\ supply' = supply - n
      /\ inVault' = IF paid <= inVault THEN inVault - paid ELSE 0
      /\ invested' = IF paid <= inVault THEN invested ELSE invested - (paid - inVault)
  BY DEF Tetu!Withdraw, Tetu!Holdings, Tetu!MulDivDown, MulDivDown
<1>2. /\ inVault \in Nat /\ invested \in Nat /\ h \in Nat /\ n \in Nat
      /\ supply \in Nat \ {0} /\ supply - n \in Nat
  BY <1>1 DEF Counted
<1>3. paid \in Nat /\ paid <= h /\ h * (supply - n) <= (h - paid) * supply
  BY <1>1, <1>2, PaidWorth
<1> HIDE DEF paid
<1>4. /\ inVault' \in Nat /\ invested' \in Nat /\ inVault' + invested' = h - paid
      /\ invested = 0 => invested' = 0
  BY <1>1, <1>2, <1>3, PaidOut
<1> HIDE DEF h
<1>5. Counted'
  BY <1>1, <1>2, <1>4 DEF Counted
<1>6. Worth
  BY <1>1, <1>3, <1>4 DEF Worth, h
<1> QED BY <1>5, <1>6

LEMMA MoveBooks ==
    ASSUME Counted, Tetu!Invest \/ Tetu!Divest
    PROVE  Counted' /\ strategy /\ strategy' /\ Kept
<1>1. /\ strategy /\ UNCHANGED <<strategy, supply>>
      /\ \/ \E a \in 1 .. inVault : inVault' = inVault - a /\ invested' = invested + a
         \/ \E a \in 1 .. invested : inVault' = inVault + a /\ invested' = invested - a
  BY DEF Tetu!Invest, Tetu!Divest
<1>2. PICK a \in Nat : \/ a <= inVault /\ inVault' = inVault - a /\ invested' = invested + a
                       \/ a <= invested /\ inVault' = inVault + a /\ invested' = invested - a
  BY <1>1 DEF Counted
<1> QED BY <1>1, <1>2 DEF Counted, Kept

LEMMA EarnBooks ==
    ASSUME Counted, Tetu!Earn
    PROVE  Counted' /\ Worth
<1>1. /\ strategy /\ UNCHANGED <<inVault, strategy, supply>> /\ invested' = invested + 1
  BY DEF Tetu!Earn
<1>2. (inVault + invested) * supply <= (inVault + invested + 1) * supply
  BY MulMono DEF Counted
<1> QED BY <1>1, <1>2 DEF Counted, Worth

LEMMA KeptIsWorth == ASSUME Counted, Kept, strategy' = strategy PROVE Worth
BY DEF Counted, Kept, Worth

\* The rate with a strategy.
LEMMA TetuRateIs ==
    ASSUME strategy, supply # 0
    PROVE  Tetu!GetTokenRate = ((inVault + invested) * ONE) \div supply
BY DEF Tetu!GetTokenRate, Tetu!Balance, Tetu!StrategyInvestedUnderlyingBalance,
       Tetu!TokenRate, Tetu!DivDown

LEMMA TetuStep ==
    ASSUME Counted, [Tetu!Next]_Tetu!vars
    PROVE  Counted' /\ (strategy => Worth)
<1>1. CASE UNCHANGED Tetu!vars
  BY <1>1, KeptIsWorth DEF Tetu!vars, Counted, Kept
<1>2. ASSUME NEW n \in 1 .. MaxAssets, Tetu!Deposit(n) \/ Tetu!Withdraw(n)
      PROVE  Counted' /\ Worth
  BY <1>2, DepositBooks, WithdrawBooks
<1>3. CASE Tetu!Invest \/ Tetu!Divest
  <2>1. Counted' /\ strategy /\ strategy' /\ Kept
    BY <1>3, MoveBooks
  <2>2. strategy' = strategy
    BY <1>3 DEF Tetu!Invest, Tetu!Divest
  <2> QED BY <2>1, <2>2, KeptIsWorth
<1>4. CASE Tetu!Earn
  BY <1>4, EarnBooks
<1>5. CASE Tetu!SetStrategy
  BY <1>5 DEF Tetu!SetStrategy, Counted
<1> QED BY <1>1, <1>2, <1>3, <1>4, <1>5 DEF Tetu!Next

LEMMA TetuInvariant == Tetu!Spec => []Counted
BY CountedInit, TetuStep, PTL DEF Tetu!Spec

\* The view counts what the vault holds and what its strategy has invested, so
\* that moving tokens between them does not show in the pool's rate.
THEOREM InvestingIsInvisible == Tetu!Spec => Tetu!InvestingInvisible
<1>1. Counted /\ [Tetu!Next]_Tetu!vars
          => [(Tetu!Invest \/ Tetu!Divest) => Tetu!GetTokenRate' = Tetu!GetTokenRate]_Tetu!vars
  <2> SUFFICES ASSUME Counted, Tetu!Invest \/ Tetu!Divest
               PROVE  Tetu!GetTokenRate' = Tetu!GetTokenRate
    OBVIOUS
  <2>1. strategy /\ strategy' /\ Kept
    BY MoveBooks
  <2> QED BY <2>1 DEF Kept, Tetu!GetTokenRate, Tetu!Balance,
             Tetu!StrategyInvestedUnderlyingBalance
<1> QED BY <1>1, TetuInvariant, PTL DEF Tetu!Spec, Tetu!InvestingInvisible

LEMMA RatioRises ==
    ASSUME NEW h \in Nat, NEW s \in Nat \ {0}, NEW k \in Nat, NEW n \in Nat \ {0},
           h * n <= k * s
    PROVE  (h * ONE) \div s <= (k * ONE) \div n
<1>1. ONE \in Nat /\ h * n \in Nat /\ k * s \in Nat /\ h * ONE \in Nat /\ k * ONE \in Nat
  BY OneAssumption
<1>2. (h * n) * ONE <= (k * s) * ONE
  BY <1>1, MulMono
<1>3. (h * n) * ONE = (h * ONE) * n /\ (k * s) * ONE = (k * ONE) * s
  BY <1>1
<1> QED BY <1>1, <1>2, <1>3, QuotientAtMost

LEMMA CountedTypes ==
    Counted => inVault + invested \in Nat /\ supply \in Nat
BY DEF Counted

\* As long as there are shares, what others do at a vault with a strategy never
\* lowers the pool's rate.
THEOREM TetuRateIsMonotonic == Tetu!Spec => Tetu!RateNeverFalls
<1>1. Counted /\ [Tetu!Next]_Tetu!vars
          => [strategy /\ supply > 0 /\ supply' > 0
                => Tetu!GetTokenRate' >= Tetu!GetTokenRate]_Tetu!vars
  <2> SUFFICES ASSUME Counted, [Tetu!Next]_Tetu!vars, strategy, supply > 0, supply' > 0
               PROVE  Tetu!GetTokenRate' >= Tetu!GetTokenRate
    OBVIOUS
  <2>1. Counted' /\ Worth
    BY TetuStep
  <2>2. inVault + invested \in Nat /\ supply \in Nat \ {0}
    BY CountedTypes
  <2>3. (inVault + invested)' \in Nat /\ supply' \in Nat
    <3>1. (inVault + invested \in Nat /\ supply \in Nat)'
      BY <2>1, CountedTypes, PTL
    <3> QED BY <3>1
  <2>4. supply' # 0 /\ strategy'
    BY <2>1, <2>3 DEF Worth
  <2>5. (inVault + invested) * supply' <= (inVault' + invested') * supply
    BY <2>1 DEF Worth
  <2>6. ((inVault + invested) * ONE) \div supply
            <= ((inVault' + invested') * ONE) \div supply'
    BY <2>2, <2>3, <2>4, <2>5, RatioRises
  <2>7. Tetu!GetTokenRate = ((inVault + invested) * ONE) \div supply
    BY <2>2, TetuRateIs
  <2>8. Tetu!GetTokenRate' = ((inVault' + invested') * ONE) \div supply'
    <3>1. (strategy /\ supply # 0 =>
              Tetu!GetTokenRate = ((inVault + invested) * ONE) \div supply)'
      BY TetuRateIs, PTL
    <3> QED BY <2>4, <3>1
  <2>9. Tetu!GetTokenRate \in Nat /\ Tetu!GetTokenRate' \in Nat
    <3>1. (inVault + invested) * ONE \in Nat /\ (inVault' + invested') * ONE \in Nat
      BY <2>2, <2>3, OneAssumption
    <3> QED BY <2>2, <2>3, <2>4, <2>7, <2>8, <3>1, DivType
  <2> QED BY <2>6, <2>7, <2>8, <2>9
<1> QED BY <1>1, TetuInvariant, PTL DEF Tetu!Spec, Tetu!RateNeverFalls
=============================================================================
