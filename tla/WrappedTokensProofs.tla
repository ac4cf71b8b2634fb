------------------------ MODULE WrappedTokensProofs ------------------------
(***************************************************************************)
(* What integer division does, in the form the proofs about rates use it,  *)
(* and what follows for the rebalancers' conversions: wrapping the         *)
(* required amount yields at least the tokens wanted, for every vault and  *)
(* amount, with the protocols whose price is not truncated to 18 decimals  *)
(* on the way.                                                             *)
(***************************************************************************)
EXTENDS WrappedTokens, TLAPS

LEMMA DivType == \A a \in Nat, b \in Nat \ {0} : a \div b \in Nat
OBVIOUS

LEMMA DivBounds ==
    ASSUME NEW a \in Nat, NEW b \in Nat \ {0}
    PROVE  /\ b * (a \div b) <= a
           /\ a < b * (a \div b) + b
OBVIOUS

LEMMA MulMono ==
    ASSUME NEW a \in Nat, NEW b \in Nat, NEW c \in Nat, a <= b
    PROVE  /\ a * c <= b * c
           /\ a * c \in Nat /\ b * c \in Nat
OBVIOUS

\* A quotient is at least k as soon as k times the divisor fits.
LEMMA DivAtLeast ==
    ASSUME NEW a \in Nat, NEW b \in Nat \ {0}, NEW k \in Nat, k * b <= a
    PROVE  k <= a \div b
<1> DEFINE q == a \div b
<1>1. q \in Nat /\ a < b * q + b
  BY DivBounds, DivType
<1> HIDE DEF q
<1>2. ASSUME q < k PROVE FALSE
  <2>1. q + 1 <= k
    BY <1>1, <1>2
  <2>2. (q + 1) * b <= k * b
    BY <2>1, <1>1, MulMono
  <2>3. (q + 1) * b = b * q + b
    BY <1>1
  <2> QED BY <2>2, <2>3, <1>1
<1> QED BY <1>1, <1>2 DEF q

\* One more than the rounded down quotient exceeds the exact one.
LEMMA PlusOneExceeds ==
    ASSUME NEW a \in Nat, NEW b \in Nat \ {0}
    PROVE  /\ a < (a \div b + 1) * b
           /\ a \div b + 1 \in Nat
<1>1. a \div b \in Nat /\ a < b * (a \div b) + b
  BY DivBounds, DivType
<1> DEFINE q == a \div b
<1> HIDE DEF q
<1>2. q \in Nat /\ a < b * q + b
  BY <1>1 DEF q
<1>3. (q + 1) * b = b * q + b
  BY <1>2
<1> QED BY <1>2, <1>3 DEF q

\* Rounding up covers the exact quotient.
LEMMA RoundUpCovers ==
    ASSUME NEW a \in Nat, NEW b \in Nat \ {0}
    PROVE  LET q == IF a = 0 THEN 0 ELSE (a - 1) \div b + 1
           IN  q \in Nat /\ a <= q * b
<1>1. CASE a = 0
  BY <1>1
<1>2. CASE a # 0
  <2>1. a - 1 \in Nat
    BY <1>2
  <2>2. a - 1 < ((a - 1) \div b + 1) * b /\ (a - 1) \div b + 1 \in Nat
    BY <2>1, PlusOneExceeds
  <2> DEFINE q == (a - 1) \div b + 1
  <2>3. q \in Nat /\ a - 1 < q * b
    BY <2>2
  <2> HIDE DEF q
  <2>4. q * b \in Nat
    BY <2>3
  <2>5. a <= q * b
    BY <2>3, <2>4
  <2> QED BY <1>2, <2>3, <2>5 DEF q
<1> QED BY <1>1, <1>2

\* Dividing twice is dividing by the product, as far as the bound goes.
LEMMA NestedDiv ==
    ASSUME NEW a \in Nat, NEW b \in Nat \ {0}, NEW c \in Nat \ {0}
    PROVE  LET q == (a \div b) \div c + 1
           IN  q \in Nat /\ a <= q * (b * c)
<1> DEFINE x == a \div b
           y == x \div c
<1>1. x \in Nat /\ a < (x + 1) * b
  BY PlusOneExceeds, DivType
<1> HIDE DEF x
<1>2. y \in Nat /\ x < (y + 1) * c
  BY <1>1, PlusOneExceeds, DivType
<1> HIDE DEF y
<1>3. (y + 1) * c \in Nat
  BY <1>2
<1>4. x + 1 <= (y + 1) * c
  BY <1>1, <1>2, <1>3
<1>5. (x + 1) * b <= ((y + 1) * c) * b
  BY <1>1, <1>3, <1>4, MulMono
<1>6. ((y + 1) * c) * b = (y + 1) * (b * c)
  BY <1>2
<1>7. (x + 1) * b \in Nat /\ (y + 1) * (b * c) \in Nat
  BY <1>1, <1>2
<1>8. a <= (y + 1) * (b * c)
  BY <1>1, <1>5, <1>6, <1>7
<1> QED BY <1>2, <1>8 DEF x, y

LEMMA RoundedType ==
    /\ \A a, b \in Nat : a * b \in Nat /\ MulDown(a, b) \in Nat /\ MulUp(a, b) \in Nat
    /\ \A a \in Nat, b \in Nat \ {0} : DivDown(a, b) \in Nat /\ DivUp(a, b) \in Nat
    /\ \A a, b \in Nat, c \in Nat \ {0} :
          MulDivDown(a, b, c) \in Nat /\ MulDivUp(a, b, c) \in Nat
<1>1. \A a, b \in Nat : a * b \in Nat
  OBVIOUS
<1>2. ASSUME NEW a \in Nat, NEW c \in Nat \ {0}
      PROVE  /\ a \div c \in Nat
             /\ (IF a = 0 THEN 0 ELSE (a - 1) \div c + 1) \in Nat
  BY RoundUpCovers, DivType
<1>3. ONE \in Nat \ {0}
  BY OneAssumption
<1>4. \A a, b \in Nat : MulDown(a, b) \in Nat /\ MulUp(a, b) \in Nat
  BY <1>1, <1>2, <1>3 DEF MulDown, MulUp
<1>5. ASSUME NEW a \in Nat, NEW b \in Nat \ {0}
      PROVE  DivDown(a, b) \in Nat /\ DivUp(a, b) \in Nat
  <2>1. a * ONE \in Nat /\ (a = 0 <=> a * ONE = 0)
    BY <1>3
  <2> QED BY <2>1, <1>2 DEF DivDown, DivUp
<1>6. \A a, b \in Nat, c \in Nat \ {0} :
          MulDivDown(a, b, c) \in Nat /\ MulDivUp(a, b, c) \in Nat
  BY <1>1, <1>2 DEF MulDivDown, MulDivUp
<1> QED BY <1>1, <1>4, <1>5, <1>6

LEMMA DivAtMost ==
    ASSUME NEW a \in Nat, NEW b \in Nat \ {0}, NEW k \in Nat, a <= k * b
    PROVE  a \div b <= k
<1> DEFINE q == a \div b
<1>1. q \in Nat /\ b * q <= a
  BY DivBounds, DivType
<1> HIDE DEF q
<1>2. ASSUME k < q PROVE FALSE
  <2>1. k + 1 <= q
    BY <1>1, <1>2
  <2>2. (k + 1) * b <= q * b
    BY <2>1, <1>1, MulMono
  <2>3. (k + 1) * b = k * b + b /\ q * b = b * q /\ k * b \in Nat /\ b * q \in Nat
    BY <1>1
  <2> QED BY <2>2, <2>3, <1>1
<1> QED BY <1>1, <1>2 DEF q

LEMMA CeilAtMost ==
    ASSUME NEW a \in Nat, NEW b \in Nat \ {0}, NEW k \in Nat, a <= k * b
    PROVE  (IF a = 0 THEN 0 ELSE (a - 1) \div b + 1) <= k
<1>1. CASE a = 0
  BY <1>1
<1>2. CASE a # 0
  <2>1. k # 0 /\ k - 1 \in Nat /\ a - 1 \in Nat
    BY <1>2
  <2> DEFINE q == (a - 1) \div b
  <2>2. q \in Nat /\ b * q <= a - 1
    BY <2>1, DivBounds, DivType
  <2> HIDE DEF q
  <2>3. ASSUME k <= q PROVE FALSE
    <3>1. k * b <= q * b
      BY <2>2, <2>3, MulMono
    <3>2. q * b = b * q /\ k * b \in Nat /\ b * q \in Nat
      BY <2>2
    <3> QED BY <3>1, <3>2, <2>2
  <2>4. q + 1 <= k
    BY <2>2, <2>3
  <2> QED BY <1>2, <2>4 DEF q
<1> QED BY <1>1, <1>2

LEMMA Cancel ==
    ASSUME NEW a \in Nat, NEW b \in Nat, NEW c \in Nat \ {0}, a * c <= b * c
    PROVE  a <= b
<1>1. ASSUME b < a PROVE FALSE
  <2>1. (b + 1) * c <= a * c
    BY <1>1, MulMono
  <2>2. (b + 1) * c = b * c + c /\ b * c \in Nat /\ a * c \in Nat
    OBVIOUS
  <2> QED BY <2>1, <2>2
<1> QED BY <1>1

\* Quotients are compared by multiplying crosswise, even those rounded down.
LEMMA QuotientAtMost ==
    ASSUME NEW a \in Nat, NEW b \in Nat \ {0}, NEW c \in Nat, NEW d \in Nat \ {0},
           a * d <= c * b
    PROVE  a \div b <= c \div d
<1> DEFINE q == a \div b
<1>1. q \in Nat /\ b * q <= a
  BY DivBounds, DivType
<1> HIDE DEF q
<1>2. (b * q) * d <= a * d
  <2>1. b * q \in Nat
    BY <1>1
  <2> QED BY <1>1, <2>1, MulMono
<1>3. (b * q) * d = (q * d) * b /\ q * d \in Nat /\ a * d \in Nat /\ c * b \in Nat
      /\ (q * d) * b \in Nat
  BY <1>1
<1>4. (q * d) * b <= c * b
  BY <1>2, <1>3
<1>5. q * d <= c
  BY <1>3, <1>4, Cancel
<1> QED BY <1>1, <1>5, DivAtLeast DEF q

\* And a quotient that exceeds another by one at most still does when rounded.
LEMMA QuotientAtMostOneMore ==
    ASSUME NEW a \in Nat, NEW b \in Nat \ {0}, NEW c \in Nat, NEW d \in Nat \ {0},
           a * d <= c * b + b * d
    PROVE  a \div b <= c \div d + 1
<1>1. c + d \in Nat /\ (c + d) * b = c * b + b * d
  OBVIOUS
<1>2. a \div b <= (c + d) \div d
  BY <1>1, QuotientAtMost
<1> DEFINE q == c \div d
<1>3. q \in Nat /\ c < d * q + d
  BY DivBounds, DivType
<1> HIDE DEF q
<1>4. c + d <= (q + 2) * d /\ c + d < (q + 2) * d
  BY <1>3
<1>5. ASSUME q + 2 <= (c + d) \div d PROVE FALSE
  <2> DEFINE k == (c + d) \div d
  <2>1. k \in Nat /\ d * k <= c + d
    BY <1>1, DivBounds, DivType
  <2>2. q + 2 <= k
    BY <1>5
  <2> HIDE DEF k
  <2>3. (q + 2) * d <= k * d
    BY <1>3, <2>1, <2>2, MulMono
  <2>4. k * d = d * k /\ k * d \in Nat /\ (q + 2) * d \in Nat
    BY <1>3, <2>1
  <2> QED BY <1>4, <2>1, <2>3, <2>4
<1>6. (c + d) \div d \in Nat /\ a \div b \in Nat
  BY <1>1, DivType
<1> QED BY <1>2, <1>3, <1>5, <1>6 DEF q

-----------------------------------------------------------------------------
\* Protocol by protocol: each rounds its price in its own place.

\* Any amount r that covers the exact price of w tokens buys them from a vault
\* that keeps totals.
LEMMA CoverBuysShares ==
    ASSUME NEW v \in Vaults, Live(v), ~Empty(v), NEW w \in Nat, NEW r \in Nat,
           w * v.assets <= r * v.shares
    PROVE  w <= ToShares(v, r)
<1>1. v.assets \in Nat \ {0} /\ v.shares \in Nat \ {0}
  BY DEF Live, Empty, Vaults
<1>2. r * v.shares \in Nat
  BY <1>1
<1>3. w <= (r * v.shares) \div v.assets
  BY <1>1, <1>2, DivAtLeast
<1> QED BY <1>3 DEF ToShares, MulDivDown

\* Yearn and Euler: the exact price rounded down, and one more.
LEMMA FloorPlusOneCovers ==
    ASSUME NEW v \in Vaults, Live(v), NEW w \in Nat
    PROVE  /\ ToAssets(v, w) + 1 \in Nat
           /\ w <= ToShares(v, ToAssets(v, w) + 1)
<1>1. CASE Empty(v)
  BY <1>1 DEF ToAssets, ToShares
<1>2. CASE ~Empty(v)
  <2> DEFINE r == (w * v.assets) \div v.shares + 1
  <2>1. v.assets \in Nat \ {0} /\ v.shares \in Nat \ {0} /\ w * v.assets \in Nat
    BY <1>2 DEF Live, Empty, Vaults
  <2>2. ToAssets(v, w) + 1 = r
    BY <1>2 DEF ToAssets, MulDivDown
  <2>3. r \in Nat /\ w * v.assets < r * v.shares
    BY <2>1, PlusOneExceeds
  <2> HIDE DEF r
  <2>4. r * v.shares \in Nat /\ w * v.assets <= r * v.shares
    BY <2>1, <2>3
  <2> QED BY <1>2, <2>2, <2>3, <2>4, CoverBuysShares
<1> QED BY <1>1, <1>2

\* ERC-4626: the exact price rounded up.
LEMMA PreviewMintCovers ==
    ASSUME NEW v \in Vaults, Live(v), NEW w \in Nat
    PROVE  /\ PreviewMint(v, w) \in Nat
           /\ w <= ToShares(v, PreviewMint(v, w))
<1>1. CASE Empty(v)
  BY <1>1 DEF PreviewMint, ToShares
<1>2. CASE ~Empty(v)
  <2>1. v.assets \in Nat \ {0} /\ v.shares \in Nat \ {0} /\ w * v.assets \in Nat
    BY <1>2 DEF Live, Empty, Vaults
  <2>2. PreviewMint(v, w) \in Nat /\ w * v.assets <= PreviewMint(v, w) * v.shares
    BY <1>2, <2>1, RoundUpCovers DEF PreviewMint, MulDivUp
  <2> QED BY <1>2, <2>2, CoverBuysShares
<1> QED BY <1>1, <1>2

LEMMA PricesType ==
    ASSUME NEW v \in Vaults, Live(v)
    PROVE  /\ RAY \in Nat \ {0}
           /\ Ray(v) \in Nat \ {0}
           /\ ExchangeRate(v) \in Nat \ {0}
<1>1. RAY \in Nat \ {0}
  BY OneAssumption, NanoAssumption DEF RAY
<1>2. CASE Empty(v)
  BY <1>1, <1>2, OneAssumption DEF Ray, ExchangeRate
<1>3. CASE ~Empty(v)
  <2>1. v.assets \in Nat /\ v.shares \in Nat \ {0} /\ Ray(v) > 0 /\ ExchangeRate(v) > 0
    BY <1>3 DEF Live, Empty, Vaults
  <2>2. v.assets * RAY \in Nat /\ v.assets * ONE \in Nat
    BY <2>1, <1>1, OneAssumption
  <2>3. Ray(v) \in Nat /\ ExchangeRate(v) \in Nat
    BY <1>3, <2>1, <2>2, DivType DEF Ray, ExchangeRate, DivDown
  <2> QED BY <1>1, <2>1, <2>3
<1> QED BY <1>2, <1>3

\* Gearbox: the price in rays, rounded down twice, and one more.
LEMMA GearboxCovers ==
    ASSUME NEW v \in Vaults, Live(v), NEW w \in Nat
    PROVE  /\ GearboxRequired(v, w) \in Nat
           /\ w <= GearboxWrap(v, GearboxRequired(v, w))
<1> DEFINE r == Ray(v)
           a == ((w * r) \div ONE) \div Nano + 1
<1>1. r \in Nat \ {0} /\ RAY \in Nat \ {0} /\ w * r \in Nat
  BY PricesType
<1>2. GearboxRequired(v, w) = a
  BY DEF GearboxRequired, FromDiesel, MulDown
<1>3. a \in Nat /\ w * r <= a * (ONE * Nano)
  BY <1>1, OneAssumption, NanoAssumption, NestedDiv
<1> HIDE DEF a, r
<1>4. a * RAY \in Nat /\ w * r <= a * RAY
  BY <1>1, <1>3 DEF RAY
<1>5. w <= (a * RAY) \div r
  BY <1>1, <1>4, DivAtLeast
<1> QED BY <1>2, <1>3, <1>5 DEF GearboxWrap, r

\* Midas: the 18 decimal price the protocol converts with, rounded up.
LEMMA MidasCovers ==
    ASSUME NEW v \in Vaults, Live(v), NEW w \in Nat
    PROVE  /\ MidasRequired(v, w) \in Nat
           /\ w <= MidasWrap(v, MidasRequired(v, w))
<1> DEFINE p == ExchangeRate(v)
           x == MulUp(w, p)
           a == DivUp(x, ONE)
<1>1. p \in Nat \ {0} /\ w * p \in Nat /\ ONE \in Nat \ {0}
  BY PricesType, OneAssumption
<1>2. x \in Nat /\ w * p <= x * ONE
  BY <1>1, RoundUpCovers DEF MulUp
<1> HIDE DEF x
<1>3. a \in Nat /\ x * ONE <= a * ONE
  <2>1. x * ONE \in Nat
    BY <1>1, <1>2
  <2>2. x = 0 <=> x * ONE = 0
    BY <1>1, <1>2
  <2> QED BY <1>1, <1>2, <2>1, <2>2, RoundUpCovers DEF DivUp
<1> HIDE DEF a
<1>4. w * p <= a * ONE /\ a * ONE \in Nat
  BY <1>1, <1>2, <1>3
<1>5. w <= (a * ONE) \div p
  BY <1>1, <1>4, DivAtLeast
<1> QED BY <1>3, <1>5 DEF MidasRequired, MidasWrap, DivDown, p, x, a

\* Aave: rays rounded half up in both directions, and one more.
LEMMA AaveCovers ==
    ASSUME NEW v \in Vaults, Live(v), NEW w \in Nat
    PROVE  /\ AaveRequired(v, w) \in Nat
           /\ w <= AaveWrap(v, AaveRequired(v, w))
<1> DEFINE r == Ray(v)
           h == RAY \div 2
           k == r \div 2
           a == (w * r + h) \div RAY + 1
<1>1. r \in Nat \ {0} /\ RAY \in Nat \ {0} /\ w * r \in Nat
  BY PricesType
<1>2. h \in Nat /\ k \in Nat
  BY <1>1
<1>3. AaveRequired(v, w) = a
  BY DEF AaveRequired, RayMul
<1> HIDE DEF h, k, r
<1>4. a \in Nat /\ w * r + h < a * RAY
  BY <1>1, <1>2, PlusOneExceeds
<1> HIDE DEF a
<1>5. a * RAY \in Nat /\ a * RAY + k \in Nat /\ w * r <= a * RAY + k
  BY <1>1, <1>2, <1>4
<1>6. w <= (a * RAY + k) \div r
  BY <1>1, <1>5, DivAtLeast
<1> QED BY <1>3, <1>4, <1>6 DEF AaveWrap, RayDiv, r, k

-----------------------------------------------------------------------------
\* For every vault with a price and every amount, wrapping what
\* _getRequiredTokensToWrap returns yields at least that amount, with all
\* protocols but Silo and Tetu, whose rebalancers use a price of 18 decimals.
THEOREM RequiredTokensAreEnough ==
    ASSUME NEW v \in Vaults, Live(v), v.protocol \in ExactProtocols, NEW w \in Nat
    PROVE  /\ GetRequiredTokensToWrap(v, w) \in Nat
           /\ w <= WrapTokens(v, GetRequiredTokensToWrap(v, w))
<1>1. CASE v.protocol = "aave"
  BY <1>1, AaveCovers DEF GetRequiredTokensToWrap, WrapTokens
<1>2. CASE v.protocol = "erc4626"
  BY <1>2, PreviewMintCovers DEF GetRequiredTokensToWrap, WrapTokens, ERC4626Required
<1>3. CASE v.protocol = "yearn"
  <2>1. YearnRequired(v, w) = ToAssets(v, w) + 1
    BY DEF YearnRequired, SharesToAmount, ToAssets, Empty
  <2> QED BY <1>3, <2>1, FloorPlusOneCovers DEF GetRequiredTokensToWrap, WrapTokens
<1>4. CASE v.protocol = "midas"
  BY <1>4, MidasCovers DEF GetRequiredTokensToWrap, WrapTokens
<1>5. CASE v.protocol = "gearbox"
  BY <1>5, GearboxCovers DEF GetRequiredTokensToWrap, WrapTokens
<1>6. CASE v.protocol = "euler"
  BY <1>6, FloorPlusOneCovers DEF GetRequiredTokensToWrap, WrapTokens, EulerRequired
<1> QED BY <1>1, <1>2, <1>3, <1>4, <1>5, <1>6 DEF ExactProtocols

-----------------------------------------------------------------------------
\* Types of the conversions.

\* Every vault has a rate, but an empty one of Silo.
LEMMA RateType ==
    ASSUME NEW v \in Vaults, ~RateReverts(v)
    PROVE  GetWrappedTokenRate(v) \in Nat
<1>1. v.assets \in Nat /\ v.shares \in Nat /\ v.protocol \in Protocols
  BY DEF Vaults
<1>2. RAY \in Nat \ {0} /\ ONE \in Nat \ {0} /\ Nano \in Nat \ {0}
  BY OneAssumption, NanoAssumption DEF RAY
<1>3. Ray(v) \in Nat
  BY <1>1, <1>2, RoundedType, DivType DEF Ray, Empty
<1>4. Ray(v) \div Nano \in Nat
  BY <1>2, <1>3, DivType
<1>5. ToAssets(v, ONE) \in Nat /\ SharesToAmount(v, ONE) \in Nat
  BY <1>1, <1>2, RoundedType DEF ToAssets, SharesToAmount, Empty
<1>6. ExchangeRate(v) \in Nat /\ TokenRate(v) \in Nat
  BY <1>1, <1>2, RoundedType DEF ExchangeRate, TokenRate, Empty
<1>7. v.protocol = "silo" => CalculateExchangeValue(v) \in Nat
  BY <1>1, RoundedType DEF CalculateExchangeValue, RateReverts
<1> QED BY <1>4, <1>5, <1>6, <1>7 DEF GetWrappedTokenRate, AaveRate, ERC4626Rate,
           YearnRate, SiloRate, MidasRate, GearboxRate, EulerRate, TetuRate

LEMMA RequiredType ==
    ASSUME NEW v \in Vaults, Live(v), ~RateReverts(v), NEW w \in Nat
    PROVE  GetRequiredTokensToWrap(v, w) \in Nat
<1>1. CASE v.protocol \in ExactProtocols
  BY <1>1, RequiredTokensAreEnough
<1>2. CASE v.protocol = "silo"
  <2>1. CalculateExchangeValue(v) \in Nat
    BY <1>2, RoundedType DEF CalculateExchangeValue, RateReverts, Vaults
  <2>2. SiloRequired(v, w) \in Nat
    <3>1. MulDown(w, CalculateExchangeValue(v)) \in Nat
      BY <2>1, RoundedType
    <3> QED BY <3>1 DEF SiloRequired, ConvertWrappedToMain
  <2> QED BY <1>2, <2>2 DEF GetRequiredTokensToWrap
<1>3. CASE v.protocol = "tetu"
  <2>1. TokenRate(v) \in Nat
    BY OneAssumption, RoundedType DEF TokenRate, Vaults
  <2> QED BY <1>3, <2>1, RoundedType DEF GetRequiredTokensToWrap, TetuRequired
<1> QED BY <1>1, <1>2, <1>3 DEF Vaults, Protocols, TruncatingProtocols

LEMMA WrapType ==
    ASSUME NEW v \in Vaults, Live(v), NEW a \in Nat
    PROVE  WrapTokens(v, a) \in Nat
<1>1. RAY \in Nat \ {0} /\ Ray(v) \in Nat \ {0} /\ ExchangeRate(v) \in Nat \ {0}
  BY PricesType
<1>2. AaveWrap(v, a) \in Nat
  <2> DEFINE k == Ray(v) \div 2
  <2>1. k \in Nat
    BY <1>1
  <2> HIDE DEF k
  <2>2. a * RAY \in Nat
    BY <1>1
  <2>3. a * RAY + k \in Nat
    BY <2>1, <2>2
  <2>4. (a * RAY + k) \div Ray(v) \in Nat
    BY <1>1, <2>3, DivType
  <2> QED BY <2>4 DEF AaveWrap, RayDiv, k
<1>3. MidasWrap(v, a) \in Nat
  BY <1>1, RoundedType DEF MidasWrap
<1>4. GearboxWrap(v, a) \in Nat
  BY <1>1, RoundedType, DivType DEF GearboxWrap
<1>5. ToShares(v, a) \in Nat
  <2>1. v.assets \in Nat /\ v.shares \in Nat /\ (~Empty(v) => v.assets # 0)
    BY DEF Live, Empty, Vaults
  <2> QED BY <2>1, RoundedType DEF ToShares
<1> QED BY <1>2, <1>3, <1>4, <1>5 DEF WrapTokens

-----------------------------------------------------------------------------
\* Unwrapping.

\* If a main tokens are worth no more than w of the shares of a vault that keeps
\* totals, withdrawing them burns at most w shares.
LEMMA BurntCovered ==
    ASSUME NEW v \in Vaults, Live(v), ~Empty(v), NEW w \in Nat, w <= v.shares,
           NEW a \in Nat, a * v.shares <= w * v.assets
    PROVE  /\ SharesBurnt(v, a) \in Nat /\ SharesBurnt(v, a) <= w
           /\ a <= v.assets
<1>1. v.assets \in Nat \ {0} /\ v.shares \in Nat \ {0}
  BY DEF Live, Empty, Vaults
<1>2. SharesBurnt(v, a) \in Nat
  BY <1>1, RoundedType DEF SharesBurnt
<1>3. a * v.shares \in Nat
  BY <1>1
<1>4. SharesBurnt(v, a) <= w
  BY <1>1, <1>3, CeilAtMost DEF SharesBurnt, MulDivUp
<1>5. w * v.assets <= v.shares * v.assets
  BY <1>1, MulMono
<1>6. v.shares * v.assets = v.assets * v.shares /\ w * v.assets \in Nat
      /\ v.assets * v.shares \in Nat
  BY <1>1
<1>7. a * v.shares <= v.assets * v.shares
  BY <1>3, <1>5, <1>6
<1>8. a <= v.assets
  BY <1>1, <1>7, Cancel
<1> QED BY <1>2, <1>4, <1>8

\* Prices rounded down do not overvalue the shares.
LEMMA PriceBounds ==
    ASSUME NEW v \in Vaults, Live(v), NEW w \in Nat, w <= v.shares
    PROVE  /\ w * Ray(v) \in Nat /\ w * Ray(v) <= v.assets * RAY
           /\ w * ExchangeRate(v) \in Nat /\ w * ExchangeRate(v) <= v.assets * ONE
<1> DEFINE r == Ray(v)
           p == ExchangeRate(v)
<1>1. r \in Nat /\ p \in Nat /\ RAY \in Nat /\ ONE \in Nat
  BY PricesType, OneAssumption
<1>2. v.assets \in Nat /\ v.shares \in Nat
  BY DEF Vaults
<1>3. w * r \in Nat /\ w * p \in Nat /\ v.assets * RAY \in Nat /\ v.assets * ONE \in Nat
  BY <1>1, <1>2
<1>4. CASE Empty(v)
  <2> HIDE DEF r, p
  <2>1. w = 0
    BY <1>4, <1>2 DEF Empty
  <2>2. w * r = 0 /\ w * p = 0
    BY <1>1, <2>1
  <2> QED BY <1>3, <2>2 DEF r, p
<1>5. CASE ~Empty(v)
  <2>1. v.shares \in Nat \ {0}
    BY <1>2, <1>5 DEF Empty
  <2>2. v.shares * r <= v.assets * RAY
    BY <1>3, <1>5, <2>1, DivBounds DEF Ray
  <2>3. v.shares * p <= v.assets * ONE
    BY <1>3, <1>5, <2>1, DivBounds DEF ExchangeRate, DivDown
  <2> HIDE DEF r, p
  <2>4. w * r <= v.shares * r /\ w * p <= v.shares * p
    BY <1>1, <1>2, MulMono
  <2>5. v.shares * r \in Nat /\ v.shares * p \in Nat
    BY <1>1, <1>2
  <2> QED BY <1>3, <2>2, <2>3, <2>4, <2>5 DEF r, p
<1> QED BY <1>4, <1>5

LEMMA AaveUnwrapCovered ==
    ASSUME NEW v \in Vaults, Live(v), NEW w \in Nat, w <= v.shares
    PROVE  LET m == RayMul(w, Ray(v)) IN m \in Nat /\ m <= v.assets
<1> DEFINE x == w * Ray(v)
           h == RAY \div 2
<1>1. RAY \in Nat \ {0} /\ v.assets \in Nat
  BY PricesType DEF Vaults
<1>2. x \in Nat /\ x <= v.assets * RAY /\ v.assets * RAY \in Nat
  BY <1>1, PriceBounds
<1>3. h \in Nat /\ h < RAY
  BY <1>1
<1> HIDE DEF x, h
<1>4. x + h \in Nat
  BY <1>2, <1>3
<1> DEFINE q == (x + h) \div RAY
<1>5. q \in Nat /\ RAY * q <= x + h
  BY <1>1, <1>4, DivBounds, DivType
<1> HIDE DEF q
<1>6. ASSUME v.assets < q PROVE FALSE
  <2>1. (v.assets + 1) * RAY <= q * RAY
    BY <1>1, <1>5, <1>6, MulMono
  <2>2. (v.assets + 1) * RAY = v.assets * RAY + RAY /\ q * RAY = RAY * q /\ RAY * q \in Nat
    BY <1>1, <1>5
  <2> QED BY <1>1, <1>2, <1>3, <1>5, <2>1, <2>2
<1>7. q <= v.assets
  BY <1>1, <1>5, <1>6
<1> QED BY <1>5, <1>7 DEF RayMul, q, x, h

LEMMA GearboxUnwrapCovered ==
    ASSUME NEW v \in Vaults, Live(v), NEW w \in Nat, w <= v.shares
    PROVE  FromDiesel(v, w) \in Nat /\ FromDiesel(v, w) <= v.assets
<1> DEFINE x == w * Ray(v)
           y == x \div ONE
<1>1. ONE \in Nat \ {0} /\ Nano \in Nat \ {0} /\ v.assets \in Nat
  BY OneAssumption, NanoAssumption DEF Vaults
<1>2. x \in Nat /\ x <= v.assets * (ONE * Nano)
  BY PriceBounds DEF RAY
<1> HIDE DEF x
<1>3. v.assets * (ONE * Nano) = (v.assets * Nano) * ONE /\ v.assets * Nano \in Nat
  BY <1>1
<1>4. y \in Nat /\ y <= v.assets * Nano
  BY <1>1, <1>2, <1>3, DivAtMost, DivType
<1> HIDE DEF y
<1>5. y \div Nano \in Nat /\ y \div Nano <= v.assets
  BY <1>1, <1>4, DivAtMost, DivType
<1> QED BY <1>5 DEF FromDiesel, MulDown, x, y

LEMMA MidasUnwrapCovered ==
    ASSUME NEW v \in Vaults, Live(v), NEW w \in Nat, w <= v.shares
    PROVE  LET m == MulDown(w, ExchangeRate(v)) IN m \in Nat /\ m <= v.assets
<1>1. ONE \in Nat \ {0} /\ v.assets \in Nat
  BY OneAssumption DEF Vaults
<1> QED BY <1>1, PriceBounds, DivAtMost, DivType DEF MulDown

\* What shares are worth, by the totals of the vault and by the 18 decimals that
\* Silo keeps of them.
LEMMA ToAssetsBound ==
    ASSUME NEW v \in Vaults, ~Empty(v), NEW w \in Nat
    PROVE  ToAssets(v, w) \in Nat /\ ToAssets(v, w) * v.shares <= w * v.assets
<1>1. v.assets \in Nat /\ v.shares \in Nat \ {0} /\ w * v.assets \in Nat
  BY DEF Empty, Vaults
<1> DEFINE q == (w * v.assets) \div v.shares
<1>2. q \in Nat /\ v.shares * q <= w * v.assets
  BY <1>1, DivBounds, DivType
<1>3. ToAssets(v, w) = q
  BY DEF ToAssets, MulDivDown
<1> HIDE DEF q
<1>4. v.shares * q = q * v.shares
  BY <1>1, <1>2
<1> QED BY <1>2, <1>3, <1>4

LEMMA SiloBound ==
    ASSUME NEW v \in Vaults, ~Empty(v), NEW w \in Nat
    PROVE  /\ ConvertWrappedToMain(v, w) \in Nat
           /\ ConvertWrappedToMain(v, w) * v.shares <= w * v.assets
<1> DEFINE s == v.shares
           t == v.assets
           p == (t * ONE) \div s
           a == (w * p) \div ONE
<1>1. t \in Nat /\ s \in Nat \ {0} /\ ONE \in Nat \ {0}
  BY OneAssumption DEF Empty, Vaults
<1>2. ConvertWrappedToMain(v, w) = a
  BY DEF ConvertWrappedToMain, CalculateExchangeValue, MulDown, DivDown
<1> HIDE DEF s, t
<1>3. t * ONE \in Nat
  BY <1>1
<1>4. p \in Nat /\ s * p <= t * ONE
  BY <1>1, <1>3, DivBounds, DivType
<1> HIDE DEF p
<1>5. w * p \in Nat
  BY <1>4
<1>6. a \in Nat /\ ONE * a <= w * p
  BY <1>1, <1>5, DivBounds, DivType
<1> HIDE DEF a
<1>7. (ONE * a) * s <= (w * p) * s
  BY <1>1, <1>5, <1>6, MulMono
<1>8. (s * p) * w <= (t * ONE) * w
  BY <1>1, <1>3, <1>4, MulMono
<1>9. (ONE * a) * s = (a * s) * ONE /\ (w * p) * s = (s * p) * w
      /\ (t * ONE) * w = (w * t) * ONE
  BY <1>1, <1>4, <1>6
<1>10. a * s \in Nat /\ w * t \in Nat /\ (a * s) * ONE \in Nat /\ (s * p) * w \in Nat
       /\ (w * t) * ONE \in Nat
  BY <1>1, <1>4, <1>6
<1>11. (a * s) * ONE <= (w * t) * ONE
  BY <1>7, <1>8, <1>9, <1>10
<1>12. a * s <= w * t
  BY <1>1, <1>10, <1>11, Cancel
<1> QED BY <1>2, <1>6, <1>12 DEF s, t

\* For every vault with a price and every amount of wrapped tokens in it, all
\* protocols: unwrapping burns at most these tokens, also where the rebalancer
\* converts them to main tokens and the protocol back (Silo, Euler), and the
\* vault has the main tokens.
THEOREM UnwrapNeverExceeds ==
    ASSUME NEW v \in Vaults, Live(v), ~RateReverts(v), NEW w \in Nat, w <= v.shares
    PROVE  LET u == UnwrapTokens(v, w)
           IN  /\ u.main \in Nat /\ u.main <= v.assets
               /\ u.burnt \in Nat /\ u.burnt <= w
<1>1. CASE v.protocol = "aave"
  BY <1>1, AaveUnwrapCovered DEF UnwrapTokens, AaveUnwrap
<1>2. CASE v.protocol = "midas"
  BY <1>2, MidasUnwrapCovered DEF UnwrapTokens, MidasUnwrap
<1>3. CASE v.protocol = "gearbox"
  BY <1>3, GearboxUnwrapCovered DEF UnwrapTokens, GearboxUnwrap
<1>4. ASSUME ~Empty(v)
      PROVE  /\ ToAssets(v, w) \in Nat /\ ToAssets(v, w) <= v.assets
             /\ SharesBurnt(v, ToAssets(v, w)) \in Nat
             /\ SharesBurnt(v, ToAssets(v, w)) <= w
  BY <1>4, ToAssetsBound, BurntCovered
<1>5. ASSUME Empty(v)
      PROVE  w = 0 /\ ToAssets(v, w) = 0 /\ SharesBurnt(v, 0) = 0 /\ v.assets \in Nat
  BY <1>5 DEF Empty, Vaults, ToAssets, SharesBurnt
<1>6. CASE v.protocol = "silo"
  <2>1. ~Empty(v)
    BY <1>6 DEF RateReverts, Empty
  <2> DEFINE a == ConvertWrappedToMain(v, w)
  <2>2. a \in Nat /\ a * v.shares <= w * v.assets
    BY <2>1, SiloBound
  <2> HIDE DEF a
  <2>3. SharesBurnt(v, a) \in Nat /\ SharesBurnt(v, a) <= w /\ a <= v.assets
    BY <2>1, <2>2, BurntCovered
  <2> QED BY <1>6, <2>2, <2>3 DEF UnwrapTokens, SiloUnwrap, a
<1>7. CASE v.protocol = "euler"
  BY <1>4, <1>5, <1>7 DEF UnwrapTokens, EulerUnwrap
<1>8. CASE v.protocol \in {"erc4626", "yearn", "tetu"}
  BY <1>4, <1>5, <1>8 DEF UnwrapTokens, SharesUnwrap
<1> QED BY <1>1, <1>2, <1>3, <1>6, <1>7, <1>8
        DEF Vaults, Protocols, ExactProtocols, TruncatingProtocols

-----------------------------------------------------------------------------
\* How far the conversions are from the rate the pool reads.

\* n main tokens for d wrapped ones is a price that has the rate r when it is cut
\* off at 18 decimals.
HasRate(n, d, r) == r * d <= n * ONE /\ n * ONE <= (r + 1) * d

LEMMA RateOfQuotient ==
    ASSUME NEW n \in Nat, NEW d \in Nat \ {0}
    PROVE  (n * ONE) \div d \in Nat /\ HasRate(n, d, (n * ONE) \div d)
<1> DEFINE a == n * ONE
           q == a \div d
<1>1. a \in Nat
  BY OneAssumption
<1>2. q \in Nat /\ d * q <= a /\ a < d * q + d
  BY <1>1, DivBounds, DivType
<1> HIDE DEF a, q
<1>3. q * d = d * q /\ (q + 1) * d = d * q + d /\ d * q \in Nat
  BY <1>2
<1>4. q * d <= a /\ a <= (q + 1) * d
  BY <1>1, <1>2, <1>3
<1> QED BY <1>2, <1>4 DEF HasRate, a, q

LEMMA OwnRate == ASSUME NEW r \in Nat PROVE HasRate(r, ONE, r)
<1>1. ONE \in Nat \ {0}
  BY OneAssumption
<1>2. (r + 1) * ONE = r * ONE + ONE /\ r * ONE \in Nat
  BY <1>1
<1> QED BY <1>1, <1>2 DEF HasRate

\* j main tokens that w wrapped ones pay for at that price are at most what the
\* next rate gives.
LEMMA PaidAtRate ==
    ASSUME NEW n \in Nat, NEW d \in Nat \ {0}, NEW r \in Nat, HasRate(n, d, r),
           NEW w \in Nat, NEW j \in Nat, d * j <= w * n
    PROVE  ONE * j <= w * (r + 1)
<1> PICK one : one = ONE
  OBVIOUS
<1>1. one \in Nat \ {0}
  BY OneAssumption
<1>2. n * one <= (r + 1) * d
  BY DEF HasRate
<1>3. (d * j) * one <= (w * n) * one
  <2>1. d * j \in Nat /\ w * n \in Nat
    OBVIOUS
  <2> QED BY <1>1, <2>1, MulMono
<1>4. (n * one) * w <= ((r + 1) * d) * w
  <2>1. n * one \in Nat /\ (r + 1) * d \in Nat
    BY <1>1
  <2> QED BY <1>2, <2>1, MulMono
<1>5. /\ (d * j) * one = (one * j) * d /\ (w * n) * one = (n * one) * w
      /\ ((r + 1) * d) * w = (w * (r + 1)) * d
  BY <1>1
<1>6. /\ one * j \in Nat /\ w * (r + 1) \in Nat /\ (one * j) * d \in Nat
      /\ (n * one) * w \in Nat /\ (w * (r + 1)) * d \in Nat
  BY <1>1
<1>7. (one * j) * d <= (w * (r + 1)) * d
  BY <1>3, <1>4, <1>5, <1>6
<1> QED BY <1>6, <1>7, Cancel

\* And k that cover w at that price do so at the rate.
LEMMA CoveredAtRate ==
    ASSUME NEW n \in Nat, NEW d \in Nat \ {0}, NEW r \in Nat, HasRate(n, d, r),
           NEW w \in Nat, NEW k \in Nat, w * n <= k * d
    PROVE  w * r <= ONE * k
<1> PICK one : one = ONE
  OBVIOUS
<1>1. one \in Nat \ {0}
  BY OneAssumption
<1>2. r * d <= n * one
  BY DEF HasRate
<1>3. (w * n) * one <= (k * d) * one
  <2>1. k * d \in Nat /\ w * n \in Nat
    OBVIOUS
  <2> QED BY <1>1, <2>1, MulMono
<1>4. (r * d) * w <= (n * one) * w
  <2>1. n * one \in Nat /\ r * d \in Nat
    BY <1>1
  <2> QED BY <1>2, <2>1, MulMono
<1>5. /\ (r * d) * w = (w * r) * d /\ (w * n) * one = (n * one) * w
      /\ (k * d) * one = (one * k) * d
  BY <1>1
<1>6. /\ one * k \in Nat /\ w * r \in Nat /\ (one * k) * d \in Nat
      /\ (n * one) * w \in Nat /\ (w * r) * d \in Nat
  BY <1>1
<1>7. (w * r) * d <= (one * k) * d
  BY <1>3, <1>4, <1>5, <1>6
<1> QED BY <1>6, <1>7, Cancel

\* The price in rays, and its rate.
LEMMA RayRate ==
    ASSUME NEW v \in Vaults, Live(v)
    PROVE  Ray(v) \div Nano \in Nat /\ HasRate(Ray(v), RAY, Ray(v) \div Nano)
<1> PICK R, one, nano : R = Ray(v) /\ one = ONE /\ nano = Nano
  OBVIOUS
<1>1. R \in Nat /\ one \in Nat \ {0} /\ nano \in Nat \ {0}
  BY PricesType, OneAssumption, NanoAssumption
<1> PICK q : q = R \div nano
  OBVIOUS
<1>2. q \in Nat /\ nano * q <= R /\ R < nano * q + nano
  BY <1>1, DivBounds, DivType
<1>3. nano * q \in Nat /\ nano * q + nano \in Nat
  BY <1>1, <1>2
<1>4. (nano * q) * one <= R * one /\ R * one <= (nano * q + nano) * one
  BY <1>1, <1>2, <1>3, MulMono
<1>5. (nano * q) * one = q * (one * nano) /\ (nano * q + nano) * one = (q + 1) * (one * nano)
  BY <1>1, <1>2
<1> QED BY <1>2, <1>4, <1>5 DEF HasRate, RAY

\* A required amount within two of what w wrapped tokens are worth costs at most
\* two tokens, and the digits the rate has lost, more than the rate says.
LEMMA CostAtRate ==
    ASSUME NEW n \in Nat, NEW d \in Nat \ {0}, NEW r \in Nat, HasRate(n, d, r),
           NEW w \in Nat, NEW j \in Nat, d * j <= w * n, NEW k \in Nat, k <= j + 2
    PROVE  ONE * k <= w * r + w + 2 * ONE
<1>1. ONE * j <= w * (r + 1)
  BY PaidAtRate
<1> PICK one : one = ONE
  OBVIOUS
<1>2. one \in Nat
  BY OneAssumption
<1>3. one * k <= one * (j + 2)
  <2>1. k * one <= (j + 2) * one
    BY <1>2, MulMono
  <2> QED BY <1>2, <2>1
<1>4. one * (j + 2) = one * j + 2 * one /\ w * (r + 1) = w * r + w
      /\ one * j \in Nat /\ w * r \in Nat /\ one * k \in Nat
  BY <1>2
<1> QED BY <1>1, <1>2, <1>3, <1>4

\* Rounding a quotient down and adding one, or rounding it up, is within two.
LEMMA DownNear ==
    ASSUME NEW a \in Nat, NEW b \in Nat \ {0}
    PROVE  \E j \in Nat : b * j <= a /\ a \div b + 1 <= j + 2 /\ a \div b = j
<1>1. a \div b \in Nat /\ b * (a \div b) <= a
  BY DivBounds, DivType
<1> QED BY <1>1

LEMMA UpNear ==
    ASSUME NEW a \in Nat, NEW b \in Nat \ {0}
    PROVE  LET k == IF a = 0 THEN 0 ELSE (a - 1) \div b + 1
           IN  \E j \in Nat : b * j <= a /\ k <= j + 2
<1>1. CASE a = 0
  <2>1. b * 0 <= a
    BY <1>1
  <2> QED BY <1>1, <2>1
<1>2. CASE a # 0
  <2>1. a - 1 \in Nat
    BY <1>2
  <2> DEFINE j == (a - 1) \div b
  <2>2. j \in Nat /\ b * j <= a - 1
    BY <2>1, DivBounds, DivType
  <2> HIDE DEF j
  <2>3. b * j \in Nat
    BY <2>2
  <2>4. b * j <= a /\ j + 1 <= j + 2
    BY <2>2, <2>3
  <2> QED BY <1>2, <2>2, <2>4 DEF j
<1> QED BY <1>1, <1>2

LEMMA HalfUpNear ==
    ASSUME NEW a \in Nat, NEW b \in Nat \ {0}
    PROVE  \E j \in Nat : b * j <= a /\ (a + b \div 2) \div b + 1 <= j + 2
<1> DEFINE h == b \div 2
           j == a \div b
<1>1. h \in Nat /\ h <= b
  OBVIOUS
<1>2. j \in Nat /\ b * j <= a
  BY DivBounds, DivType
<1>3. (a + h) * b <= a * b + b * b /\ a + h \in Nat
  <2>1. a + h \in Nat /\ a + b \in Nat /\ a + h <= a + b
    BY <1>1
  <2>2. (a + h) * b <= (a + b) * b
    BY <2>1, MulMono
  <2>3. (a + b) * b = a * b + b * b
    OBVIOUS
  <2> QED BY <2>1, <2>2, <2>3
<1>4. (a + h) \div b <= j + 1
  BY <1>3, QuotientAtMostOneMore
<1>5. (a + h) \div b \in Nat
  BY <1>3, DivType
<1> HIDE DEF h, j
<1>6. (a + h) \div b + 1 <= j + 2
  BY <1>2, <1>4, <1>5
<1> QED BY <1>2, <1>6 DEF h

LEMMA TwiceNear ==
    ASSUME NEW a \in Nat, NEW b \in Nat \ {0}, NEW c \in Nat \ {0}
    PROVE  (b * c) * ((a \div b) \div c) <= a /\ (a \div b) \div c \in Nat
<1> PICK x : x = a \div b
  OBVIOUS
<1>1. x \in Nat /\ b * x <= a
  BY DivBounds, DivType
<1> PICK y : y = x \div c
  OBVIOUS
<1>2. y \in Nat /\ c * y <= x
  BY <1>1, DivBounds, DivType
<1>3. (c * y) * b <= x * b
  <2>1. c * y \in Nat
    BY <1>2
  <2> QED BY <1>1, <1>2, <2>1, MulMono
<1>4. (c * y) * b = (b * c) * y /\ x * b = b * x /\ b * x \in Nat /\ (b * c) * y \in Nat
  BY <1>1, <1>2
<1> QED BY <1>1, <1>2, <1>3, <1>4

\* What the rebalancers ask for, all protocols.
LEMMA RequiredBound ==
    ASSUME NEW v \in Vaults, Live(v), ~RateReverts(v), NEW w \in Nat
    PROVE  ONE * GetRequiredTokensToWrap(v, w)
               <= w * GetWrappedTokenRate(v) + w + 2 * ONE
<1> DEFINE A == v.assets
           S == v.shares
           Bound(k, r) == ONE * k <= w * r + w + 2 * ONE
<1>1. /\ A \in Nat /\ S \in Nat /\ w * A \in Nat
      /\ ONE \in Nat \ {0} /\ Nano \in Nat \ {0}
  BY OneAssumption, NanoAssumption DEF Vaults
<1>2. Ray(v) \in Nat /\ RAY \in Nat \ {0} /\ w * Ray(v) \in Nat
  BY PricesType
<1>3. ASSUME NEW k \in Nat, k <= w + 1 PROVE Bound(k, ONE)
  <2>1. HasRate(ONE, ONE, ONE)
    BY <1>1, OwnRate
  <2>2. ONE * w <= w * ONE /\ k <= w + 2
    BY <1>1, <1>3
  <2> QED BY <1>1, <2>1, <2>2, CostAtRate
<1>4. ASSUME ~Empty(v), NEW k \in Nat, NEW j \in Nat, S * j <= w * A, k <= j + 2
      PROVE  Bound(k, (A * ONE) \div S)
  <2>1. S \in Nat \ {0}
    BY <1>1, <1>4 DEF Empty
  <2>2. (A * ONE) \div S \in Nat /\ HasRate(A, S, (A * ONE) \div S)
    BY <1>1, <2>1, RateOfQuotient
  <2> QED BY <1>1, <1>4, <2>1, <2>2, CostAtRate
<1>5. GetRequiredTokensToWrap(v, w) \in Nat
  BY RequiredType
<1>6. ASSUME Empty(v), ToAssets(v, w) = w, ToAssets(v, ONE) = ONE,
             v.protocol \in {"erc4626", "yearn", "euler"}
      PROVE  Bound(GetRequiredTokensToWrap(v, w), GetWrappedTokenRate(v))
  <2>1. GetWrappedTokenRate(v) = ONE
    BY <1>6 DEF GetWrappedTokenRate, ERC4626Rate, YearnRate, EulerRate, SharesToAmount, Empty
  <2>2. GetRequiredTokensToWrap(v, w) \in {w, w + 1}
    BY <1>6 DEF GetRequiredTokensToWrap, ERC4626Required, YearnRequired, EulerRequired,
               SharesToAmount, PreviewMint, Empty
  <2> QED BY <1>3, <1>5, <2>1, <2>2
<1>7. ASSUME ~Empty(v), v.protocol \in {"erc4626", "yearn", "euler"}
      PROVE  Bound(GetRequiredTokensToWrap(v, w), GetWrappedTokenRate(v))
  <2>1. S \in Nat \ {0}
    BY <1>1, <1>7 DEF Empty
  <2>2. GetWrappedTokenRate(v) = (A * ONE) \div S
    <3>1. ONE * A = A * ONE
      BY <1>1
    <3> QED BY <1>7, <3>1 DEF GetWrappedTokenRate, ERC4626Rate, YearnRate, EulerRate,
                   SharesToAmount, ToAssets, MulDivDown, Empty
  <2>3. \/ GetRequiredTokensToWrap(v, w) = (w * A) \div S + 1
        \/ GetRequiredTokensToWrap(v, w)
               = IF w * A = 0 THEN 0 ELSE (w * A - 1) \div S + 1
    BY <1>7 DEF GetRequiredTokensToWrap, ERC4626Required, YearnRequired, EulerRequired,
               SharesToAmount, PreviewMint, ToAssets, MulDivDown, MulDivUp, Empty
  <2>4. \E j \in Nat : S * j <= w * A /\ GetRequiredTokensToWrap(v, w) <= j + 2
    <3> PICK x : x = w * A
      OBVIOUS
    <3>1. x \in Nat
      BY <1>1
    <3>2. /\ \E j \in Nat : S * j <= x /\ x \div S + 1 <= j + 2
          /\ \E j \in Nat : S * j <= x /\ (IF x = 0 THEN 0 ELSE (x - 1) \div S + 1) <= j + 2
      BY <2>1, <3>1, DownNear, UpNear
    <3> QED BY <2>3, <3>2
  <2> QED BY <1>4, <1>5, <1>7, <2>2, <2>4
<1>8. ASSUME NEW r \in Nat, NEW k \in Nat, NEW j \in Nat, ONE * j <= w * r, k <= j + 2
      PROVE  Bound(k, r)
  BY <1>1, <1>8, OwnRate, CostAtRate
<1>9. GetWrappedTokenRate(v) \in Nat
  BY RateType
<1>10. w * GetWrappedTokenRate(v) \in Nat
  BY <1>9
<1>11. CASE v.protocol = "silo"
  <2>1. GetRequiredTokensToWrap(v, w) = (w * GetWrappedTokenRate(v)) \div ONE + 1
    BY <1>11 DEF GetRequiredTokensToWrap, GetWrappedTokenRate, SiloRequired, SiloRate,
                ConvertWrappedToMain, MulDown
  <2>2. \E j \in Nat : ONE * j <= w * GetWrappedTokenRate(v)
                       /\ GetRequiredTokensToWrap(v, w) <= j + 2
    BY <1>1, <1>10, <2>1, DownNear
  <2> QED BY <1>5, <1>8, <1>9, <2>2
<1>12. CASE v.protocol = "tetu"
  <2>1. GetRequiredTokensToWrap(v, w) = MulUp(GetWrappedTokenRate(v), w)
    BY <1>12 DEF GetRequiredTokensToWrap, GetWrappedTokenRate, TetuRequired, TetuRate
  <2>2. GetWrappedTokenRate(v) * w = w * GetWrappedTokenRate(v)
    BY <1>9
  <2>3. \E j \in Nat : ONE * j <= w * GetWrappedTokenRate(v)
                       /\ GetRequiredTokensToWrap(v, w) <= j + 2
    BY <1>1, <1>10, <2>1, <2>2, UpNear DEF MulUp
  <2> QED BY <1>5, <1>8, <1>9, <2>3
<1>13. CASE v.protocol = "midas"
  <2> DEFINE x == MulUp(w, GetWrappedTokenRate(v))
  <2>1. GetRequiredTokensToWrap(v, w) = DivUp(x, ONE)
    BY <1>13 DEF GetRequiredTokensToWrap, GetWrappedTokenRate, MidasRequired, MidasRate
  <2>2. x \in Nat
    BY <1>9, RoundedType
  <2>3. \E j \in Nat : ONE * j <= w * GetWrappedTokenRate(v) /\ x <= j + 2
    BY <1>1, <1>10, UpNear DEF MulUp
  <2> HIDE DEF x
  <2>4. x * ONE \in Nat /\ (x = 0 <=> x * ONE = 0)
    BY <1>1, <2>2
  <2>5. DivUp(x, ONE) <= x
    BY <1>1, <2>2, <2>4, CeilAtMost DEF DivUp
  <2>6. \E j \in Nat : ONE * j <= w * GetWrappedTokenRate(v)
                       /\ GetRequiredTokensToWrap(v, w) <= j + 2
    BY <1>5, <2>1, <2>2, <2>3, <2>5
  <2> QED BY <1>5, <1>8, <1>9, <2>6
<1>14. ASSUME NEW k \in Nat, NEW j \in Nat, RAY * j <= w * Ray(v), k <= j + 2
       PROVE  Bound(k, Ray(v) \div Nano)
  BY <1>2, <1>14, RayRate, CostAtRate
<1>15. CASE v.protocol = "aave"
  <2>1. GetRequiredTokensToWrap(v, w) = (w * Ray(v) + RAY \div 2) \div RAY + 1
        /\ GetWrappedTokenRate(v) = Ray(v) \div Nano
    BY <1>15 DEF GetRequiredTokensToWrap, GetWrappedTokenRate, AaveRequired, AaveRate, RayMul
  <2>2. \E j \in Nat : RAY * j <= w * Ray(v) /\ GetRequiredTokensToWrap(v, w) <= j + 2
    BY <1>2, <2>1, HalfUpNear
  <2> QED BY <1>5, <1>14, <2>1, <2>2
<1>16. CASE v.protocol = "gearbox"
  <2> DEFINE j == ((w * Ray(v)) \div ONE) \div Nano
  <2>1. GetRequiredTokensToWrap(v, w) = j + 1 /\ GetWrappedTokenRate(v) = Ray(v) \div Nano
    BY <1>16 DEF GetRequiredTokensToWrap, GetWrappedTokenRate, GearboxRequired, GearboxRate,
                FromDiesel, MulDown
  <2>2. (ONE * Nano) * j <= w * Ray(v) /\ j \in Nat
    BY <1>1, <1>2, TwiceNear
  <2> HIDE DEF j
  <2>3. RAY * j <= w * Ray(v) /\ j + 1 <= j + 2 /\ j + 1 \in Nat
    BY <2>2 DEF RAY
  <2> QED BY <1>14, <2>1, <2>2, <2>3
<1>17. Empty(v) => ToAssets(v, w) = w /\ ToAssets(v, ONE) = ONE
  BY DEF ToAssets
<1> QED BY <1>6, <1>7, <1>11, <1>12, <1>13, <1>15, <1>16, <1>17
        DEF Vaults, Protocols, ExactProtocols, TruncatingProtocols

\* What unwrapping yields is less than one main token short of the rate.
LEMMA UnwrapBound ==
    ASSUME NEW v \in Vaults, Live(v), ~RateReverts(v), NEW w \in Nat, w <= v.shares
    PROVE  w * GetWrappedTokenRate(v) <= ONE * (UnwrapTokens(v, w).main + 1)
<1> DEFINE A == v.assets
           S == v.shares
           m == UnwrapTokens(v, w).main
           r == GetWrappedTokenRate(v)
<1>1. /\ A \in Nat /\ S \in Nat /\ w * A \in Nat
      /\ ONE \in Nat \ {0} /\ Nano \in Nat \ {0}
  BY OneAssumption, NanoAssumption DEF Vaults
<1>2. Ray(v) \in Nat /\ RAY \in Nat \ {0} /\ w * Ray(v) \in Nat
  BY PricesType
<1>3. m \in Nat /\ r \in Nat /\ m + 1 \in Nat /\ w * r \in Nat
  BY UnwrapNeverExceeds, RateType
<1> SUFFICES w * r <= ONE * (m + 1)
  OBVIOUS
<1> HIDE DEF m, r
<1>4. ASSUME w * r <= (m + 1) * ONE PROVE w * r <= ONE * (m + 1)
  BY <1>1, <1>3, <1>4
<1>5. CASE v.protocol \in {"silo", "midas"}
  <2>1. m = (w * r) \div ONE
    BY <1>5 DEF m, r, UnwrapTokens, GetWrappedTokenRate, SiloUnwrap, MidasUnwrap,
                SiloRate, MidasRate, ConvertWrappedToMain, MulDown
  <2>2. w * r < (m + 1) * ONE /\ (m + 1) * ONE \in Nat
    BY <1>1, <1>3, <2>1, PlusOneExceeds
  <2> QED BY <1>3, <1>4, <2>2
<1>6. CASE v.protocol \in {"erc4626", "yearn", "euler", "tetu"} /\ Empty(v)
  <2>1. m = w /\ r = ONE
    BY <1>6 DEF m, r, UnwrapTokens, GetWrappedTokenRate, SharesUnwrap, EulerUnwrap,
                ERC4626Rate, YearnRate, EulerRate, TetuRate, SharesToAmount, TokenRate,
                ToAssets, Empty
  <2>2. w * ONE <= (w + 1) * ONE
    BY <1>1, MulMono
  <2> QED BY <1>4, <2>1, <2>2
<1>7. CASE v.protocol \in {"erc4626", "yearn", "euler", "tetu"} /\ ~Empty(v)
  <2>1. S \in Nat \ {0}
    BY <1>1, <1>7 DEF Empty
  <2>2. r = (A * ONE) \div S
    <3>1. ONE * A = A * ONE
      BY <1>1
    <3> QED BY <1>7, <3>1 DEF r, GetWrappedTokenRate, ERC4626Rate, YearnRate, EulerRate,
                   TetuRate, SharesToAmount, TokenRate, ToAssets, MulDivDown, DivDown, Empty
  <2>3. m = (w * A) \div S
    BY <1>7 DEF m, UnwrapTokens, SharesUnwrap, EulerUnwrap, ToAssets, MulDivDown
  <2>4. w * A < (m + 1) * S /\ (m + 1) * S \in Nat
    BY <1>1, <1>3, <2>1, <2>3, PlusOneExceeds
  <2>5. w * A <= (m + 1) * S
    BY <1>1, <2>4
  <2>6. HasRate(A, S, r)
    BY <1>1, <2>1, <2>2, RateOfQuotient
  <2> QED BY <1>1, <1>3, <2>1, <2>5, <2>6, CoveredAtRate
<1>8. ASSUME w * Ray(v) <= (m + 1) * RAY, r = Ray(v) \div Nano
      PROVE  w * r <= ONE * (m + 1)
  BY <1>2, <1>3, <1>8, RayRate, CoveredAtRate
<1>9. CASE v.protocol = "aave"
  <2> DEFINE h == RAY \div 2
             x == w * Ray(v)
  <2>1. m = (x + h) \div RAY /\ r = Ray(v) \div Nano
    BY <1>9 DEF m, r, UnwrapTokens, GetWrappedTokenRate, AaveUnwrap, AaveRate, RayMul
  <2>2. h \in Nat /\ x \in Nat
    BY <1>2
  <2> HIDE DEF h, x
  <2>3. x + h < (m + 1) * RAY /\ (m + 1) * RAY \in Nat
    <3>1. x + h \in Nat
      BY <2>2
    <3> DEFINE y == x + h
    <3>2. y \in Nat /\ m = y \div RAY
      BY <2>1, <3>1
    <3> HIDE DEF y
    <3>3. y < (y \div RAY + 1) * RAY
      BY <1>2, <3>2, PlusOneExceeds
    <3>4. (m + 1) * RAY \in Nat
      BY <1>2, <1>3
    <3> QED BY <3>2, <3>3, <3>4 DEF y
  <2>4. x <= (m + 1) * RAY
    BY <2>2, <2>3
  <2> QED BY <1>8, <2>1, <2>4 DEF x
<1>10. CASE v.protocol = "gearbox"
  <2>1. m = ((w * Ray(v)) \div ONE) \div Nano /\ r = Ray(v) \div Nano
    BY <1>10 DEF m, r, UnwrapTokens, GetWrappedTokenRate, GearboxUnwrap, GearboxRate,
                FromDiesel, MulDown
  <2>2. w * Ray(v) <= (m + 1) * (ONE * Nano)
    BY <1>1, <1>2, <2>1, NestedDiv
  <2> QED BY <1>8, <2>1, <2>2 DEF RAY
<1> QED BY <1>5, <1>6, <1>7, <1>9, <1>10
        DEF Vaults, Protocols, ExactProtocols, TruncatingProtocols

\* Amounts j that cost as much as w wrapped tokens at the rate r of a vault buy w
\* but for one share and what the rate has lost.
LEMMA TruncatedCost ==
    ASSUME NEW a \in Nat \ {0}, NEW s \in Nat \ {0}, NEW r \in Nat, HasRate(a, s, r),
           NEW w \in Nat, NEW j \in Nat, w * r <= ONE * j
    PROVE  w * (ONE * a) <= ((j * s) \div a + 1) * (ONE * a) + w * s
<1> PICK one, k : one = ONE /\ k = (j * s) \div a + 1
  OBVIOUS
<1>1. one \in Nat \ {0} /\ j * s \in Nat
  BY OneAssumption
<1>2. k \in Nat /\ j * s < k * a
  BY <1>1, PlusOneExceeds
<1>3. (j * s) * one <= (k * a) * one /\ (w * r) * s <= (one * j) * s
  <2>1. k * a \in Nat /\ w * r \in Nat /\ one * j \in Nat /\ j * s <= k * a
    BY <1>1, <1>2
  <2> QED BY <1>1, <2>1, MulMono
<1>4. (a * one) * w <= ((r + 1) * s) * w
  <2>1. a * one <= (r + 1) * s /\ a * one \in Nat /\ (r + 1) * s \in Nat
    BY <1>1 DEF HasRate
  <2> QED BY <2>1, MulMono
<1>5. /\ (j * s) * one = (one * j) * s /\ (k * a) * one = k * (one * a)
      /\ (a * one) * w = w * (one * a) /\ ((r + 1) * s) * w = (w * r) * s + w * s
  BY <1>1, <1>2
<1>6. /\ (one * j) * s \in Nat /\ k * (one * a) \in Nat /\ w * (one * a) \in Nat
      /\ (w * r) * s \in Nat /\ w * s \in Nat
  BY <1>1, <1>2
<1>7. w * (one * a) <= k * (one * a) + w * s
  BY <1>3, <1>4, <1>5, <1>6
<1> QED BY <1>7

\* What _getRequiredTokensToWrap of Silo and Tetu can lack, for every vault with a
\* price and every amount: less than one share beyond the digits that the price
\* loses at 18 decimals, which are w shares divided by ONE times the price.
THEOREM ShortfallIsBounded ==
    ASSUME NEW v \in Vaults, Live(v), ~RateReverts(v), v.protocol \in TruncatingProtocols,
           NEW w \in Nat
    PROVE  w * (ONE * v.assets)
               <= (WrapTokens(v, GetRequiredTokensToWrap(v, w)) + 1) * (ONE * v.assets)
                      + w * v.shares
<1> PICK a, s, r, k : /\ a = v.assets /\ s = v.shares /\ r = GetWrappedTokenRate(v)
                      /\ k = GetRequiredTokensToWrap(v, w)
  OBVIOUS
<1>1. a \in Nat /\ s \in Nat /\ ONE \in Nat \ {0} /\ r \in Nat /\ k \in Nat /\ w * r \in Nat
  <2>1. a \in Nat /\ s \in Nat /\ r \in Nat /\ k \in Nat
    BY RateType, RequiredType DEF Vaults
  <2> QED BY <2>1, OneAssumption
<1>2. w * r <= ONE * k
  <2>1. CASE v.protocol = "silo"
    <3>1. k = (w * r) \div ONE + 1
      BY <2>1 DEF GetRequiredTokensToWrap, GetWrappedTokenRate, SiloRequired, SiloRate,
                  ConvertWrappedToMain, MulDown
    <3>2. w * r < k * ONE /\ k * ONE = ONE * k /\ k * ONE \in Nat
      <4>1. w * r < k * ONE
        BY <1>1, <3>1, PlusOneExceeds
      <4> QED BY <1>1, <4>1
    <3> QED BY <1>1, <3>2
  <2>2. CASE v.protocol = "tetu"
    <3>1. r * w = w * r
      BY <1>1
    <3>2. k = IF w * r = 0 THEN 0 ELSE (w * r - 1) \div ONE + 1
      BY <2>2, <3>1 DEF GetRequiredTokensToWrap, GetWrappedTokenRate, TetuRequired, TetuRate,
                       MulUp
    <3>3. w * r <= k * ONE
      BY <1>1, <3>2, RoundUpCovers
    <3>4. k * ONE = ONE * k
      BY <1>1
    <3> QED BY <3>3, <3>4
  <2> QED BY <2>1, <2>2 DEF TruncatingProtocols
<1>3. WrapTokens(v, k) = IF s = 0 THEN k ELSE (k * s) \div a
  BY DEF TruncatingProtocols, WrapTokens, ToShares, MulDivDown, Empty
<1>4. CASE s = 0
  <2>1. r = ONE
    BY <1>4 DEF RateReverts, TruncatingProtocols, GetWrappedTokenRate, TetuRate, TokenRate
  <2>2. w * ONE <= k * ONE
    BY <1>1, <1>2, <2>1
  <2>3. w <= k + 1
    BY <1>1, <2>2, Cancel
  <2>4. ONE * a \in Nat /\ k + 1 \in Nat
    BY <1>1
  <2>5. w * (ONE * a) <= (k + 1) * (ONE * a)
    BY <2>3, <2>4, MulMono
  <2>6. w * s = 0 /\ (k + 1) * (ONE * a) \in Nat
    BY <1>1, <1>4, <2>4
  <2> QED BY <1>3, <1>4, <2>5, <2>6
<1>5. CASE s # 0
  <2>1. a \in Nat \ {0} /\ s \in Nat \ {0}
    BY <1>1, <1>5 DEF Live, Empty
  <2>2. r = (a * ONE) \div s
    BY <1>5 DEF TruncatingProtocols, GetWrappedTokenRate, TetuRate, TokenRate, SiloRate,
               CalculateExchangeValue, DivDown
  <2>3. HasRate(a, s, r)
    BY <2>1, <2>2, RateOfQuotient
  <2> QED BY <1>1, <1>2, <1>3, <1>5, <2>1, <2>3, TruncatedCost
<1> QED BY <1>4, <1>5
=============================================================================
