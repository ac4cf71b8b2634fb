----------------------- MODULE SiloExchangeRateProofs -----------------------
(***************************************************************************)
(* Proofs about the exchange rate of a Silo, for every unit, fee, interest *)
(* rate and width of the integers.  The inductive invariant is that a      *)
(* share is backed by one main token at least and that nobody owes a Silo  *)
(* that was never used.  The view wraps silently where the Silo clamps its *)
(* fees; the proof shows that the two agree as soon as the product the     *)
(* Silo checks does not overflow, and that no operation, rounded against   *)
(* its user, makes a share worth less.                                     *)
(***************************************************************************)
EXTENDS SiloExchangeRate, WrappedTokensProofs

\* The state without what the view computes, that shares are backed one for one at
\* least, and that nobody has borrowed from a Silo that was not used.
Storage == /\ now \in Nat \ {0}
           /\ timestamp \in 0 .. now
           /\ totalDeposits \in 0 .. MaxUint /\ totalBorrowAmount \in 0 .. MaxUint
           /\ shares \in 0 .. MaxUint /\ protocolFees \in 0 .. MaxUint
Backed == shares <= totalDeposits
Unused == timestamp = 0 => totalBorrowAmount = 0
IInv == Storage /\ Backed /\ Unused

\* What the protocol takes of an interest i when it has the fees p.
FeeOn(i, p) == LET fee == (i * ProtocolShareFee) \div ONE
               IN  IF fee > MaxUint - p THEN MaxUint - p ELSE fee

LEMMA Constants == /\ ProtocolShareFee \in Nat /\ ProtocolShareFee <= ONE /\ ONE \in Nat \ {0}
                   /\ MaxUint \in Nat /\ InterestRate \in Nat /\ MaxAmount \in Nat /\ MaxTime \in Nat
BY SiloAssumption, OneAssumption

\* The protocol takes a part of the interest, up to where its fees can be stored.
LEMMA FeeBounds ==
    ASSUME NEW i \in Nat, NEW p \in 0 .. MaxUint
    PROVE  /\ (i * ProtocolShareFee) \div ONE \in 0 .. i
           /\ FeeOn(i, p) \in 0 .. i /\ p + FeeOn(i, p) \in 0 .. MaxUint
<1> PICK F, m, fee : F = ProtocolShareFee /\ m = MaxUint /\ fee = (i * ProtocolShareFee) \div ONE
  OBVIOUS
<1>1. F \in Nat /\ F <= ONE /\ ONE \in Nat \ {0} /\ m \in Nat /\ p \in Nat /\ p <= m
  BY Constants
<1>2. i * F \in Nat /\ F * i <= ONE * i
  BY <1>1, MulMono
<1>3. i * F <= i * ONE
  BY <1>1, <1>2
<1>4. fee \in Nat /\ fee <= i
  BY <1>1, <1>2, <1>3, DivType, DivAtMost
<1>5. FeeOn(i, p) = IF fee > m - p THEN m - p ELSE fee
  BY DEF FeeOn
<1> QED BY <1>1, <1>4, <1>5

\* What is left of an interest grows with it.
LEMMA NetGrows ==
    ASSUME NEW i \in Nat, NEW j \in Nat, i <= j, NEW p \in 0 .. MaxUint
    PROVE  i - FeeOn(i, p) <= j - FeeOn(j, p)
<1> PICK F, m, f, g : /\ F = ProtocolShareFee /\ m = MaxUint
                      /\ f = (i * ProtocolShareFee) \div ONE /\ g = (j * ProtocolShareFee) \div ONE
  OBVIOUS
<1> PICK k \in Nat : j = i + k
  OBVIOUS
<1>1. F \in Nat /\ F <= ONE /\ ONE \in Nat \ {0} /\ m \in Nat /\ p \in Nat /\ p <= m
  BY Constants
<1>2. f \in Nat /\ g \in Nat /\ i * F \in Nat /\ k * F \in Nat /\ k * ONE \in Nat /\ j * F \in Nat
  BY <1>1, FeeBounds
<1>3. i * F < (f + 1) * ONE /\ f + 1 \in Nat
  BY <1>1, <1>2, PlusOneExceeds
<1>4. g * ONE <= j * F
  <2>1. ONE * g <= j * F
    BY <1>1, <1>2, DivBounds
  <2>2. ONE * g = g * ONE
    BY <1>1, <1>2
  <2> QED BY <2>1, <2>2
<1>5. j * F = i * F + k * F
  BY <1>1
<1>6. k * F <= k * ONE
  <2>1. F * k <= ONE * k
    BY <1>1, MulMono
  <2>2. F * k = k * F /\ ONE * k = k * ONE
    BY <1>1
  <2> QED BY <2>1, <2>2
<1>7. g <= f + k
  <2> SUFFICES ASSUME g >= f + k + 1 PROVE FALSE
    BY <1>1, <1>2
  <2> PICK x \in Nat : x = f + k + 1
    BY <1>2
  <2>1. x * ONE <= g * ONE
    BY <1>1, <1>2, MulMono
  <2>2. x * ONE = (f + 1) * ONE + k * ONE
    <3>1. x = (f + 1) + k /\ f + 1 \in Nat
      BY <1>2
    <3> QED BY <1>1, <3>1
  <2>3. (f + 1) * ONE \in Nat /\ g * ONE \in Nat /\ x * ONE \in Nat
    BY <1>1, <1>2
  <2> QED BY <1>2, <1>3, <1>4, <1>5, <1>6, <2>1, <2>2, <2>3
<1>8. FeeOn(i, p) = (IF f > m - p THEN m - p ELSE f) /\ FeeOn(j, p) = (IF g > m - p THEN m - p ELSE g)
  BY DEF FeeOn
<1> QED BY <1>1, <1>2, <1>7, <1>8

\* The protocol's share wraps around only where the whole does not fit.
LEMMA WrapFits == \A n \in Nat : Wrap(n) \in 0 .. MaxUint /\ Wrap(n) <= n /\ (n <= MaxUint => Wrap(n) = n)
<1> TAKE n \in Nat
<1> PICK m \in Nat : m = MaxUint + 1
  BY Constants
<1>1. n % m \in 0 .. m - 1 /\ (n < m => n % m = n)
  BY Constants
<1>2. n % m <= n
  BY <1>1, Constants
<1> QED BY <1>1, <1>2, Constants DEF Wrap

\* The interest that the view adds, and what it leaves to the depositors, is that of
\* the Silo, as long as what is owed can be computed.
LEMMA ShareIsFee ==
    ASSUME protocolFees \in 0 .. MaxUint, NEW i \in Nat, i * ONE <= MaxUint
    PROVE  ProtocolShare(i) = FeeOn(i, protocolFees)
<1> PICK F, m, p, fee : /\ F = ProtocolShareFee /\ m = MaxUint /\ p = protocolFees
                        /\ fee = (i * ProtocolShareFee) \div ONE
  OBVIOUS
<1>1. /\ F \in Nat /\ F <= ONE /\ ONE \in Nat \ {0} /\ m \in Nat /\ p \in Nat /\ p <= m /\ p \in 0 .. MaxUint
      /\ i * ONE <= m
  BY Constants
<1>2. fee \in Nat /\ fee <= i /\ i * F \in Nat /\ i <= i * ONE
  BY <1>1, FeeBounds
<1>3. i * F <= i * ONE
  <2>1. F * i <= ONE * i
    BY <1>1, MulMono
  <2>2. F * i = i * F /\ ONE * i = i * ONE /\ F * i \in Nat /\ ONE * i \in Nat
    BY <1>1
  <2> QED BY <2>1, <2>2
<1>4. i * F <= m /\ fee <= m
  <2>1. i * ONE \in Nat
    BY <1>1
  <2> QED BY <1>1, <1>2, <1>3, <2>1
<1>5. Wrap(i * ProtocolShareFee) \div ONE = fee
  BY <1>2, <1>4, WrapFits
<1>6. ProtocolShare(i) = IF Wrap(p + fee) < p THEN m - p ELSE fee
  BY <1>5 DEF ProtocolShare
<1>7. Wrap(p + fee) < p <=> fee > m - p
  <2>1. CASE p + fee <= m
    <3>1. Wrap(p + fee) = p + fee
      BY <1>1, <1>2, <2>1, WrapFits
    <3> QED BY <1>1, <1>2, <2>1, <3>1
  <2>2. CASE p + fee > m
    <3> PICK n, w : n = p + fee /\ w = m + 1
      OBVIOUS
    <3>1. n \in Nat /\ w \in Nat \ {0} /\ n - w \in 0 .. w - 1
      BY <1>1, <1>2, <1>4, <2>2
    <3>2. n % w = n - w
      BY <3>1
    <3>3. Wrap(p + fee) = n - w
      BY <3>2 DEF Wrap
    <3> QED BY <1>1, <1>2, <1>4, <2>2, <3>3
  <2> QED BY <1>1, <1>2, <2>1, <2>2
<1>8. FeeOn(i, p) = IF fee > m - p THEN m - p ELSE fee
  BY DEF FeeOn
<1> QED BY <1>6, <1>7, <1>8

\* Owed(b, t): the interest of a loan b in t ticks.
Owed(b, t) == (b * (InterestRate * t)) \div ONE

LEMMA OwedIs ==
    /\ \A b, t \in Nat : b * (InterestRate * t) \in Nat /\ Owed(b, t) \in Nat
    /\ \A b, t, n \in Nat : t <= n => b * (InterestRate * t) <= b * (InterestRate * n) /\ Owed(b, t) <= Owed(b, n)
    /\ \A b \in Nat : Owed(b, 0) = 0 /\ Owed(0, b) = 0
    /\ \A b, t \in Nat : Owed(b, t) * ONE <= b * (InterestRate * t)
<1> PICK R \in Nat : R = InterestRate
  BY Constants
<1>0. ONE \in Nat \ {0}
  BY Constants
<1>1. ASSUME NEW b \in Nat, NEW t \in Nat PROVE b * (R * t) \in Nat /\ Owed(b, t) \in Nat /\ Owed(b, t) * ONE <= b * (R * t)
  <2> PICK x : x = b * (R * t)
    OBVIOUS
  <2>1. R * t \in Nat
    OBVIOUS
  <2>2. x \in Nat
    BY <2>1
  <2>3. Owed(b, t) = x \div ONE /\ x \div ONE \in Nat
    BY <1>0, <2>2, DivType DEF Owed
  <2>4. ONE * (x \div ONE) <= x /\ ONE * (x \div ONE) = (x \div ONE) * ONE
    BY <1>0, <2>2, <2>3, DivBounds
  <2> QED BY <2>2, <2>3, <2>4
<1>2. ASSUME NEW b \in Nat, NEW t \in Nat, NEW n \in Nat, t <= n
      PROVE  b * (R * t) <= b * (R * n) /\ Owed(b, t) <= Owed(b, n)
  <2> PICK x, y, u, v : x = b * (R * t) /\ y = b * (R * n) /\ u = R * t /\ v = R * n
    OBVIOUS
  <2>1. u \in Nat /\ v \in Nat /\ u <= v
    <3>1. t * R <= n * R
      BY <1>2, MulMono
    <3>2. t * R = u /\ n * R = v
      OBVIOUS
    <3> QED BY <3>1, <3>2
  <2>2. x \in Nat /\ y \in Nat /\ x <= y
    <3>1. u * b <= v * b /\ u * b \in Nat /\ v * b \in Nat
      BY <2>1, MulMono
    <3>2. u * b = x /\ v * b = y
      BY <2>1
    <3> QED BY <3>1, <3>2
  <2>3. x * ONE <= y * ONE
    BY <1>0, <2>2, MulMono
  <2>4. x \div ONE <= y \div ONE
    BY <1>0, <2>2, <2>3, QuotientAtMost
  <2> QED BY <2>2, <2>4 DEF Owed
<1>3. ASSUME NEW b \in Nat PROVE Owed(b, 0) = 0 /\ Owed(0, b) = 0
  <2>1. b * (R * 0) = 0 /\ 0 * (R * b) = 0
    OBVIOUS
  <2>2. 0 \div ONE = 0
    BY <1>0
  <2> QED BY <2>1, <2>2 DEF Owed
<1> QED BY <1>1, <1>2, <1>3

\* What the Silo has, once its interest is counted.
Accrued == totalDeposits + (Owed(totalBorrowAmount, now - timestamp)
                            - FeeOn(Owed(totalBorrowAmount, now - timestamp), protocolFees))

LEMMA ViewIsAccrual ==
    ASSUME IInv, totalBorrowAmount * CompoundInterestRate <= MaxUint
    PROVE  /\ Interest = Owed(totalBorrowAmount, now - timestamp)
           /\ FeesTaken = FeeOn(Interest, protocolFees)
           /\ CurrentDeposits = Accrued /\ Deposits = Accrued
           /\ DepositorsShare \in 0 .. MaxUint
           /\ Interest \in Nat /\ FeesTaken \in 0 .. Interest /\ protocolFees + FeesTaken \in 0 .. MaxUint
           /\ Accrued \in Nat /\ totalDeposits <= Accrued
<1> PICK b, t, R, d, p, m, i : /\ b = totalBorrowAmount /\ t = now - timestamp /\ R = InterestRate
                               /\ d = totalDeposits /\ p = protocolFees /\ m = MaxUint
                               /\ i = Owed(totalBorrowAmount, now - timestamp)
  OBVIOUS
<1>1. /\ b \in Nat /\ t \in Nat /\ R \in Nat /\ d \in Nat /\ p \in 0 .. MaxUint /\ m \in Nat /\ p <= m
      /\ ONE \in Nat \ {0}
  BY Constants DEF IInv, Storage
<1>2. /\ i \in Nat /\ b * (R * t) \in Nat /\ i * ONE <= b * (R * t) /\ b * (R * t) <= m
      /\ i = (b * (R * t)) \div ONE
  <2>1. i \in Nat /\ b * (R * t) \in Nat /\ i * ONE <= b * (R * t)
    BY <1>1, OwedIs
  <2>2. b * (R * t) <= m
    BY DEF CompoundInterestRate
  <2> QED BY <2>1, <2>2 DEF Owed
<1>3. i * ONE \in Nat /\ i * ONE <= m /\ i <= i * ONE
  <2>1. i * ONE \in Nat /\ i <= i * ONE
    BY <1>1, <1>2
  <2> QED BY <1>1, <1>2, <2>1
<1> PICK f : f = FeeOn(i, p)
  OBVIOUS
<1>4. f \in 0 .. i /\ p + f \in 0 .. m
  BY <1>1, <1>2, FeeBounds
<1>5. ProtocolShare(i) = f
  BY <1>1, <1>2, <1>3, ShareIsFee
<1>6. AccruedInterest = i
  BY <1>2 DEF AccruedInterest, MulDown, CompoundInterestRate
<1>7. DepositorsShare = i - f
  BY <1>5, <1>6 DEF DepositorsShare
<1>8. Interest = i
  <2>1. CASE timestamp = 0
    <3>1. b = 0 /\ Interest = 0
      BY <2>1 DEF IInv, Unused, Interest
    <3> QED BY <1>1, <3>1, OwedIs
  <2>2. CASE timestamp # 0
    <3>1. (b * R) * t = b * (R * t)
      BY <1>1
    <3>2. Interest = ((b * R) * t) \div ONE
      BY <2>2 DEF Interest
    <3> QED BY <1>2, <3>1, <3>2
  <2> QED BY <2>1, <2>2
<1>9. FeesTaken = f
  BY <1>8 DEF FeesTaken, FeeOn
<1>10. Deposits = d + i - f
  BY <1>8, <1>9 DEF Deposits
<1>11. CurrentDeposits = d + (i - f)
  <2>1. CASE timestamp = now
    <3>1. i = 0
      <4>1. t = 0
        BY <2>1 DEF IInv, Storage
      <4> QED BY <1>1, <4>1, OwedIs
    <3> QED BY <1>1, <1>4, <2>1, <3>1 DEF CurrentDeposits
  <2>2. CASE timestamp # now
    BY <1>7, <2>2 DEF CurrentDeposits
  <2> QED BY <2>1, <2>2
<1>12. Accrued = d + (i - f)
  BY DEF Accrued
<1>13. d + i - f = d + (i - f) /\ d + (i - f) \in Nat /\ d <= d + (i - f) /\ i - f \in 0 .. m
  BY <1>1, <1>2, <1>3, <1>4
<1> QED BY <1>2, <1>4, <1>7, <1>8, <1>9, <1>10, <1>11, <1>12, <1>13

\* The same, of one state or the next.
ViewSound == totalBorrowAmount * CompoundInterestRate <= MaxUint =>
                 /\ CurrentDeposits = Accrued /\ CurrentDeposits \in Nat
                 /\ Owed(totalBorrowAmount, now - timestamp) \in Nat

LEMMA ViewIsSound == IInv => ViewSound
BY ViewIsAccrual DEF ViewSound

-----------------------------------------------------------------------------
\* Every operation stores what the view has counted, and then its own.
LEMMA AccrueStep ==
    ASSUME IInv, NEW d \in Int, NEW l \in Int, NEW c \in Int, Accrue(d, l, c)
    PROVE  /\ totalDeposits' = Accrued + d /\ shares' = shares + c
           /\ shares' \in 0 .. MaxUint /\ shares' <= totalDeposits' => IInv'
           /\ CurrentDeposits' = Accrued + d /\ CurrentDeposits = Accrued
           /\ Accrued \in Nat /\ shares <= Accrued /\ totalDeposits' \in 0 .. MaxUint
<1>1. /\ totalBorrowAmount * CompoundInterestRate <= MaxUint
      /\ totalDeposits' = Deposits + d
      /\ protocolFees' = protocolFees + FeesTaken
      /\ shares' = shares + c
      /\ timestamp' = now /\ now' = now
      /\ totalDeposits' \in 0 .. MaxUint /\ totalBorrowAmount' \in 0 .. MaxUint
  BY DEF Accrue
<1>2. /\ Deposits = Accrued /\ CurrentDeposits = Accrued /\ protocolFees + FeesTaken \in 0 .. MaxUint
      /\ Accrued \in Nat /\ totalDeposits <= Accrued
  BY <1>1, ViewIsAccrual
<1>3. CurrentDeposits' = totalDeposits'
  BY <1>1 DEF CurrentDeposits
<1>4. shares <= Accrued
  BY <1>2 DEF IInv, Storage, Backed
<1>5. now' \in Nat \ {0} /\ timestamp' \in 0 .. now' /\ timestamp' # 0
  BY <1>1 DEF IInv, Storage
<1>6. ASSUME shares' \in 0 .. MaxUint, shares' <= totalDeposits' PROVE IInv'
  <2>1. Storage' /\ Backed'
    BY <1>1, <1>2, <1>5, <1>6 DEF Storage, Backed
  <2>2. Unused'
    BY <1>5 DEF Unused
  <2> QED BY <2>1, <2>2 DEF IInv
<1> QED BY <1>1, <1>2, <1>3, <1>4, <1>6

\* What an operation does to the deposits and the shares is fair if the rate, as a
\* fraction, does not fall.
Fair(D, S, E, T) == D * T <= E * S

LEMMA FairRate ==
    ASSUME NEW D \in Nat, NEW S \in Nat \ {0}, NEW E \in Nat, NEW T \in Nat \ {0}, Fair(D, S, E, T)
    PROVE  DivDown(D, S) <= DivDown(E, T) /\ DivDown(D, S) \in Nat /\ DivDown(E, T) \in Nat
<1> PICK x, y : x = D * T /\ y = E * S
  OBVIOUS
<1>1. x \in Nat /\ y \in Nat /\ x <= y /\ ONE \in Nat
  BY OneAssumption DEF Fair
<1>2. x * ONE <= y * ONE
  BY <1>1, MulMono
<1>3. D * ONE \in Nat /\ E * ONE \in Nat
  BY <1>1
<1>4. (D * ONE) * T = x * ONE /\ (E * ONE) * S = y * ONE
  BY <1>1
<1>5. (D * ONE) \div S <= (E * ONE) \div T
  BY <1>2, <1>3, <1>4, QuotientAtMost
<1> QED BY <1>3, <1>5, DivType DEF DivDown

\* Shares that are issued are rounded down.
LEMMA DepositStep ==
    ASSUME IInv, NEW a \in Nat \ {0}, Deposit(a)
    PROVE  IInv' /\ (shares > 0 => Fair(CurrentDeposits, shares, CurrentDeposits', shares'))
<1> PICK D, S, n : /\ D = Accrued /\ S = shares
                   /\ n = IF shares = 0 THEN a ELSE MulDivDown(a, shares, Deposits)
  OBVIOUS
<1>1. n > 0 /\ shares + n <= MaxUint /\ Accrue(a, 0, n)
  BY DEF Deposit
<1>2. Deposits = D /\ D \in Nat /\ S \in Nat /\ S <= D
  <2>1. totalBorrowAmount * CompoundInterestRate <= MaxUint
    BY <1>1 DEF Accrue
  <2>2. Deposits = D /\ D \in Nat /\ totalDeposits <= D
    BY <2>1, ViewIsAccrual
  <2> QED BY <2>2 DEF IInv, Storage, Backed
<1>3. CASE S = 0
  <2>1. n = a /\ a \in Int /\ 0 \in Int
    BY <1>3
  <2>2. totalDeposits' = D + a /\ shares' = S + a /\ (shares' \in 0 .. MaxUint /\ shares' <= totalDeposits' => IInv')
    BY <1>1, <2>1, AccrueStep
  <2>3. shares' \in 0 .. MaxUint /\ shares' <= totalDeposits'
    BY <1>1, <1>2, <1>3, <2>1, <2>2, Constants
  <2> QED BY <1>3, <2>2, <2>3
<1>4. CASE S # 0
  <2>1. n = (a * S) \div D /\ D \in Nat \ {0} /\ S \in Nat \ {0} /\ a * S \in Nat
    BY <1>2, <1>4 DEF MulDivDown
  <2>2. n \in Nat /\ D * n <= a * S
    BY <2>1, DivType, DivBounds
  <2>3. n <= a
    <3>1. a * S <= a * D
      <4>1. S * a <= D * a
        BY <1>2, MulMono
      <4>2. S * a = a * S /\ D * a = a * D
        BY <1>2
      <4> QED BY <4>1, <4>2
    <3> QED BY <2>1, <3>1, DivAtMost
  <2>4. /\ totalDeposits' = D + a /\ shares' = S + n
        /\ CurrentDeposits' = D + a /\ CurrentDeposits = D
        /\ shares' \in 0 .. MaxUint /\ shares' <= totalDeposits' => IInv'
    <3>1. n \in Int /\ a \in Int /\ 0 \in Int
      BY <2>2
    <3> QED BY <1>1, <3>1, AccrueStep
  <2>5. shares' \in 0 .. MaxUint /\ shares' <= totalDeposits'
    <3>1. S + n \in Nat /\ S + n <= MaxUint /\ S + n <= D + a
      BY <1>1, <1>2, <2>2, <2>3
    <3> QED BY <2>4, <3>1, Constants
  <2>6. D * (S + n) <= (D + a) * S
    <3>1. D * (S + n) = D * S + D * n /\ (D + a) * S = D * S + a * S
      BY <2>1, <2>2
    <3>2. D * S \in Nat /\ D * n \in Nat
      BY <2>1, <2>2
    <3> QED BY <2>1, <2>2, <3>1, <3>2
  <2> QED BY <2>4, <2>5, <2>6 DEF Fair
<1> QED BY <1>3, <1>4

\* Shares that are burnt are rounded up.
LEMMA WithdrawStep ==
    ASSUME IInv, NEW a \in Nat \ {0}, Withdraw(a)
    PROVE  IInv' /\ Fair(CurrentDeposits, shares, CurrentDeposits', shares')
<1> PICK D, S, n : D = Accrued /\ S = shares /\ n = MulDivUp(a, shares, Deposits)
  OBVIOUS
<1>1. shares > 0 /\ n <= shares /\ a <= Deposits - totalBorrowAmount - Interest /\ Accrue(-a, 0, -n)
  BY DEF Withdraw
<1>2. Deposits = D /\ D \in Nat \ {0} /\ S \in Nat \ {0} /\ S <= D /\ S <= MaxUint /\ a <= D
  <2>1. totalBorrowAmount * CompoundInterestRate <= MaxUint
    BY <1>1 DEF Accrue
  <2>2. Deposits = D /\ D \in Nat /\ totalDeposits <= D /\ Interest \in Nat
    BY <2>1, ViewIsAccrual
  <2>3. totalBorrowAmount \in Nat /\ S \in Nat \ {0} /\ totalDeposits \in Nat /\ S <= totalDeposits /\ S <= MaxUint
    BY <1>1, Constants DEF IInv, Storage, Backed
  <2> QED BY <1>1, <2>2, <2>3
<1>3. n \in Nat /\ a * S <= n * D
  <2>1. a * S \in Nat
    BY <1>2
  <2>2. n = IF a * S = 0 THEN 0 ELSE (a * S - 1) \div D + 1
    BY <1>2 DEF MulDivUp
  <2> QED BY <1>2, <2>1, <2>2, RoundUpCovers
<1>4. /\ totalDeposits' = D - a /\ shares' = S - n
      /\ CurrentDeposits' = D - a /\ CurrentDeposits = D
      /\ shares' \in 0 .. MaxUint /\ shares' <= totalDeposits' => IInv'
  <2>1. -n \in Int /\ -a \in Int /\ 0 \in Int
    BY <1>3
  <2>2. /\ totalDeposits' = D + (-a) /\ shares' = S + (-n)
        /\ CurrentDeposits' = D + (-a) /\ CurrentDeposits = D
        /\ shares' \in 0 .. MaxUint /\ shares' <= totalDeposits' => IInv'
    BY <1>1, <2>1, AccrueStep
  <2>3. D + (-a) = D - a /\ S + (-n) = S - n
    BY <1>2, <1>3
  <2> QED BY <2>2, <2>3
<1>5. D * (S - n) <= (D - a) * S
  <2>1. D * (S - n) = D * S - D * n /\ (D - a) * S = D * S - a * S /\ D * n = n * D
    BY <1>2, <1>3
  <2>2. D * S \in Nat /\ D * n \in Nat /\ a * S \in Nat
    BY <1>2, <1>3
  <2> QED BY <1>3, <2>1, <2>2
<1>6. S - n <= D - a
  <2> SUFFICES ASSUME S - n > D - a PROVE FALSE
    BY <1>2, <1>3
  <2> PICK x, y : x = S - n /\ y = D - a
    OBVIOUS
  <2>1. x \in Nat /\ y \in Nat /\ y + 1 <= x
    BY <1>1, <1>2, <1>3
  <2>2. (y + 1) * D <= x * D
    BY <1>2, <2>1, MulMono
  <2>3. y * S <= y * D
    <3>1. S * y <= D * y
      BY <1>2, <2>1, MulMono
    <3>2. S * y = y * S /\ D * y = y * D
      BY <1>2, <2>1
    <3> QED BY <3>1, <3>2
  <2>4. (y + 1) * D = y * D + D /\ x * D = D * x
    BY <1>2, <2>1
  <2>5. y * D \in Nat /\ D * x \in Nat /\ y * S \in Nat
    BY <1>2, <2>1
  <2> QED BY <1>2, <1>5, <2>2, <2>3, <2>4, <2>5
<1>7. shares' \in 0 .. MaxUint /\ shares' <= totalDeposits'
  <2>1. S - n \in Nat /\ S - n <= MaxUint
    BY <1>1, <1>2, <1>3, Constants
  <2> QED BY <1>4, <1>6, <2>1, Constants
<1> QED BY <1>4, <1>5, <1>7 DEF Fair

\* Loans do not change what there is.
LEMMA LoanStep ==
    ASSUME IInv, NEW l \in Int, Accrue(0, l, 0)
    PROVE  /\ IInv' /\ shares' = shares /\ CurrentDeposits' = CurrentDeposits
           /\ Fair(CurrentDeposits, shares, CurrentDeposits', shares')
<1> PICK D, S : D = Accrued /\ S = shares
  OBVIOUS
<1>1. /\ totalDeposits' = D + 0 /\ shares' = S + 0 /\ CurrentDeposits' = D + 0 /\ CurrentDeposits = D
      /\ shares' \in 0 .. MaxUint /\ shares' <= totalDeposits' => IInv'
      /\ D \in Nat /\ S <= D
  <2>1. 0 \in Int
    OBVIOUS
  <2> QED BY <2>1, AccrueStep
<1>2. S \in 0 .. MaxUint /\ S \in Nat
  BY Constants DEF IInv, Storage
<1>3. shares' = S /\ CurrentDeposits' = D /\ totalDeposits' = D
  BY <1>1, <1>2
<1>4. D * S <= D * S
  <2>1. D * S \in Nat
    BY <1>1, <1>2
  <2> QED BY <2>1
<1> QED BY <1>1, <1>2, <1>3, <1>4 DEF Fair

\* Time only adds interest.
LEMMA TickStep ==
    ASSUME IInv, Tick
    PROVE  /\ IInv'
           /\ totalBorrowAmount * CompoundInterestRate <= MaxUint
              /\ (totalBorrowAmount * CompoundInterestRate <= MaxUint)' =>
                    Fair(CurrentDeposits, shares, CurrentDeposits', shares')
<1>1. /\ now' = now + 1
      /\ UNCHANGED <<totalDeposits, totalBorrowAmount, shares, protocolFees, timestamp>>
  BY DEF Tick, silo
<1>2. IInv'
  BY <1>1 DEF IInv, Storage, Backed, Unused
<1>3. ASSUME totalBorrowAmount * CompoundInterestRate <= MaxUint,
             (totalBorrowAmount * CompoundInterestRate <= MaxUint)'
      PROVE  Fair(CurrentDeposits, shares, CurrentDeposits', shares')
  <2>1. ViewSound /\ ViewSound'
    BY <1>2, ViewIsSound, PTL
  <2>2. /\ CurrentDeposits = Accrued /\ CurrentDeposits \in Nat
        /\ CurrentDeposits' = Accrued' /\ CurrentDeposits' \in Nat
    BY <1>3, <2>1 DEF ViewSound
  <2> PICK b, t, d, p, S, D, E, i, j :
            /\ b = totalBorrowAmount /\ t = now - timestamp /\ d = totalDeposits /\ p = protocolFees
            /\ S = shares /\ D = CurrentDeposits /\ E = CurrentDeposits'
            /\ i = Owed(totalBorrowAmount, now - timestamp)
            /\ j = Owed(totalBorrowAmount', now' - timestamp')
    OBVIOUS
  <2>3. /\ b \in Nat /\ t \in Nat /\ d \in Nat /\ p \in 0 .. MaxUint /\ S \in Nat /\ now \in Int /\ timestamp \in Int
    BY Constants DEF IInv, Storage
  <2>4. j = Owed(b, t + 1)
    <3>1. now' - timestamp' = t + 1
      BY <1>1, <2>3
    <3> QED BY <1>1, <3>1
  <2>5. i \in Nat /\ j \in Nat /\ i <= j
    <3>1. t <= t + 1 /\ t + 1 \in Nat
      BY <2>3
    <3> QED BY <2>3, <2>4, <3>1, OwedIs
  <2>6. D = d + (i - FeeOn(i, p)) /\ E = d + (j - FeeOn(j, p)) /\ D \in Nat /\ E \in Nat
    <3>1. Accrued' = d + (j - FeeOn(j, p))
      BY <1>1 DEF Accrued
    <3>2. Accrued = d + (i - FeeOn(i, p))
      BY DEF Accrued
    <3> QED BY <2>2, <3>1, <3>2
  <2>7. i - FeeOn(i, p) <= j - FeeOn(j, p) /\ FeeOn(i, p) \in Nat /\ FeeOn(j, p) \in Nat
    BY <2>3, <2>5, NetGrows, FeeBounds
  <2>8. D <= E
    BY <2>3, <2>5, <2>6, <2>7
  <2>9. D * S <= E * S
    BY <2>3, <2>6, <2>8, MulMono
  <2> QED BY <1>1, <2>9 DEF Fair
<1> QED BY <1>2, <1>3

LEMMA Init0 == Init => IInv
BY Constants DEF Init, IInv, Storage, Backed, Unused

LEMMA Step ==
    ASSUME IInv, [Next]_vars
    PROVE  /\ IInv'
           /\ RateDefined /\ RateDefined' => Fair(CurrentDeposits, shares, CurrentDeposits', shares')
<1>0. \A a \in 1 .. MaxAmount : a \in Nat \ {0} /\ -a \in Int /\ a \in Int
  BY Constants
<1>1. CASE AccrueInterest \/ \E a \in 1 .. MaxAmount : Borrow(a) \/ Repay(a)
  <2>1. \E l \in Int : Accrue(0, l, 0)
    <3>1. 0 \in Int
      OBVIOUS
    <3> QED BY <1>0, <1>1, <3>1 DEF AccrueInterest, Borrow, Repay
  <2> QED BY <2>1, LoanStep
<1>2. ASSUME NEW a \in 1 .. MaxAmount, Deposit(a)
      PROVE  IInv' /\ (RateDefined /\ RateDefined' => Fair(CurrentDeposits, shares, CurrentDeposits', shares'))
  BY <1>0, <1>2, DepositStep DEF RateDefined
<1>3. ASSUME NEW a \in 1 .. MaxAmount, Withdraw(a)
      PROVE  IInv' /\ (RateDefined /\ RateDefined' => Fair(CurrentDeposits, shares, CurrentDeposits', shares'))
  BY <1>0, <1>3, WithdrawStep
<1>4. CASE Tick
  BY <1>4, TickStep DEF RateDefined
<1>5. CASE UNCHANGED vars
  <2>1. IInv'
    BY <1>5 DEF vars, silo, IInv, Storage, Backed, Unused
  <2>2. CurrentDeposits' = CurrentDeposits /\ shares' = shares
    BY <1>5 DEF vars, silo, CurrentDeposits, DepositorsShare, AccruedInterest, ProtocolShare,
                CompoundInterestRate
  <2>3. ASSUME RateDefined PROVE CurrentDeposits * shares <= CurrentDeposits * shares
    <3> PICK D, S : D = CurrentDeposits /\ S = shares
      OBVIOUS
    <3>1. D \in Nat /\ S \in Nat
      BY <2>3, ViewIsAccrual DEF RateDefined, IInv, Storage
    <3>2. D * S \in Nat
      BY <3>1
    <3> QED BY <3>2
  <2> QED BY <2>1, <2>2, <2>3 DEF Fair
<1> QED BY <1>1, <1>2, <1>3, <1>4, <1>5 DEF Next

LEMMA Invariant == Spec => []IInv
BY Init0, Step, PTL DEF Spec

\* The storage keeps its types, and what the view computes as the depositors' share,
\* in unchecked arithmetic, is never negative (_getCurrentDeposits).
THEOREM TypeCorrect == Spec => []TypeOK
<1>1. IInv => TypeOK
  BY ViewIsAccrual DEF IInv, Storage, TypeOK
<1> QED BY <1>1, Invariant, PTL

\* The accrual stores what the view has counted: it moves no pool's rate, whoever
\* makes the Silo accrue (SiloExchangeRateModel.calculateExchangeValue).
THEOREM AccrualMovesNothing == Spec => AccrualInvisible
<1>1. ASSUME IInv, AccrueInterest PROVE CalculateRate' = CalculateRate
  <2>1. CurrentDeposits' = CurrentDeposits /\ shares' = shares
    <3>1. 0 \in Int
      OBVIOUS
    <3> QED BY <1>1, <3>1, LoanStep DEF AccrueInterest
  <2> QED BY <2>1 DEF CalculateRate, DivDown
<1>2. IInv /\ [Next]_vars => [AccrueInterest /\ RateDefined => CalculateRate' = CalculateRate]_vars
  BY <1>1
<1> QED BY <1>2, Invariant, PTL DEF Spec, AccrualInvisible

\* Without losses the rate of the pool never falls, by nobody's deposit, withdrawal,
\* loan or repayment, and not with time.
THEOREM RateIsMonotonic == Spec => RateNeverFalls
<1>1. ASSUME IInv, IInv', [Next]_vars, RateDefined, RateDefined' PROVE CalculateRate' >= CalculateRate
  <2>1. ViewSound /\ ViewSound'
    BY <1>1, ViewIsSound, PTL
  <2>2. CurrentDeposits \in Nat /\ CurrentDeposits' \in Nat
    BY <1>1, <2>1 DEF ViewSound, RateDefined
  <2>9. shares \in Nat \ {0} /\ shares' \in Nat \ {0}
    BY <1>1 DEF RateDefined, IInv, Storage
  <2> PICK D, S, E, T : D = CurrentDeposits /\ S = shares /\ E = CurrentDeposits' /\ T = shares'
    OBVIOUS
  <2>3. D \in Nat /\ S \in Nat \ {0} /\ E \in Nat /\ T \in Nat \ {0}
    BY <2>2, <2>9
  <2>4. Fair(D, S, E, T)
    BY <1>1, Step
  <2>5. DivDown(D, S) <= DivDown(E, T) /\ DivDown(D, S) \in Nat /\ DivDown(E, T) \in Nat
    BY <2>3, <2>4, FairRate
  <2>6. CalculateRate = DivDown(D, S) /\ CalculateRate' = DivDown(E, T)
    BY DEF CalculateRate
  <2> QED BY <2>5, <2>6
<1>2. IInv /\ IInv' /\ [Next]_vars => [RateDefined /\ RateDefined' => CalculateRate' >= CalculateRate]_vars
  BY <1>1
<1> QED BY <1>2, Invariant, PTL DEF Spec, RateNeverFalls
=============================================================================
