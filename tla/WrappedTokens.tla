--------------------------- MODULE WrappedTokens ---------------------------
(***************************************************************************)
(* The wrapped tokens of the eight protocols, as the pools and rebalancers *)
(* of this repository use them: the rate a pool reads, what wrapping and   *)
(* unwrapping do, and how many main tokens a rebalancer believes it must   *)
(* wrap to get a given amount of wrapped tokens back.                      *)
(*                                                                         *)
(* A vault of `assets` main tokens backs the `shares` wrapped tokens of a  *)
(* protocol; both tokens have 18 decimals.  How a protocol computes its    *)
(* amounts is not in the repository: the operators marked external round   *)
(* against the user, as those protocols do, except Aave, which rounds half *)
(* up.  What the repository adds (the rate, the required amount, the calls *)
(* of wrap and unwrap) follows its source, one operator each.              *)
(***************************************************************************)
EXTENDS FixedPoint

CONSTANT Nano   \* 10^9: what the 27 decimals of a ray have over 18

ExactProtocols == {"aave", "erc4626", "yearn", "midas", "gearbox", "euler"}
TruncatingProtocols == {"silo", "tetu"}

Protocols == ExactProtocols \cup TruncatingProtocols

ASSUME NanoAssumption == Nano \in Nat \ {0}

Vaults == [protocol : Protocols, assets : Nat, shares : Nat]

\* An empty vault starts at one for one.
Empty(v) == v.shares = 0

-----------------------------------------------------------------------------
\* External: the arithmetic of the protocols.

RAY == ONE * Nano
RayMul(a, r) == (a * r + RAY \div 2) \div RAY
RayDiv(a, r) == (a * RAY + r \div 2) \div r

\* getReserveNormalizedIncome, getDieselRate_RAY
Ray(v) == IF Empty(v) THEN RAY ELSE (v.assets * RAY) \div v.shares
\* exchangeRateHypothetical
ExchangeRate(v) == IF Empty(v) THEN ONE ELSE DivDown(v.assets, v.shares)
\* convertToAssets, convertBalanceToUnderlying
ToAssets(v, w) == IF Empty(v) THEN w ELSE MulDivDown(w, v.assets, v.shares)
\* deposit of the protocols that keep totals
ToShares(v, a) == IF Empty(v) THEN a ELSE MulDivDown(a, v.shares, v.assets)
\* shares burnt by the protocols that withdraw an amount of main tokens
SharesBurnt(v, a) == IF Empty(v) THEN a ELSE MulDivUp(a, v.shares, v.assets)
PreviewMint(v, w) == IF Empty(v) THEN w ELSE MulDivUp(w, v.assets, v.shares)

-----------------------------------------------------------------------------
\* _getRequiredTokensToWrap: main tokens to wrap for w wrapped ones.

AaveRequiredInRays(v, w) == (w * Ray(v)) \div ONE + 1  \* mutant: 27 decimals
AaveRequired(v, w) == RayMul(w, Ray(v)) + 1

ERC4626Required(v, w) == PreviewMint(v, w)

\* _sharesToAmount, with the vault's free funds as assets
SharesToAmount(v, w) == IF v.shares = 0 THEN w
                        ELSE MulDivDown(w, v.assets, v.shares)
YearnRequiredBare(v, w) == SharesToAmount(v, w)  \* mutant: one unit short
YearnRequired(v, w) == SharesToAmount(v, w) + 1

\* _calculateExchangeValue has 18 decimals only, however many shares there are.
CalculateExchangeValue(v) == DivDown(v.assets, v.shares)
ConvertWrappedToMain(v, w) == MulDown(w, CalculateExchangeValue(v))
SiloRequired(v, w) == ConvertWrappedToMain(v, w) + 1

\* _divisor is 10^18 when both tokens have the same decimals.
MidasRequired(v, w) == DivUp(MulUp(w, ExchangeRate(v)), ONE)

FromDiesel(v, w) == MulDown(w, Ray(v)) \div Nano
GearboxRequired(v, w) == FromDiesel(v, w) + 1

EulerRequired(v, w) == ToAssets(v, w) + 1

\* _getTokenRate of a vault with a strategy
TokenRate(v) == IF v.shares = 0 THEN ONE ELSE DivDown(v.assets, v.shares)
TetuRequired(v, w) == MulUp(TokenRate(v), w)

GetRequiredTokensToWrap(v, w) ==
    IF v.protocol = "aave" THEN AaveRequired(v, w)
    ELSE IF v.protocol = "erc4626" THEN ERC4626Required(v, w)
    ELSE IF v.protocol = "yearn" THEN YearnRequired(v, w)
    ELSE IF v.protocol = "silo" THEN SiloRequired(v, w)
    ELSE IF v.protocol = "midas" THEN MidasRequired(v, w)
    ELSE IF v.protocol = "gearbox" THEN GearboxRequired(v, w)
    ELSE IF v.protocol = "euler" THEN EulerRequired(v, w)
    ELSE TetuRequired(v, w)

-----------------------------------------------------------------------------
\* _wrapTokens: shares received for a main tokens.

AaveWrap(v, a) == RayDiv(a, Ray(v))
MidasWrap(v, a) == DivDown(a, ExchangeRate(v))
GearboxWrap(v, a) == (a * RAY) \div Ray(v)

WrapTokens(v, a) ==
    IF v.protocol = "aave" THEN AaveWrap(v, a)
    ELSE IF v.protocol = "midas" THEN MidasWrap(v, a)
    ELSE IF v.protocol = "gearbox" THEN GearboxWrap(v, a)
    ELSE ToShares(v, a)

\* _unwrapTokens: main tokens received, and shares burnt, for w shares.
AaveUnwrap(v, w) == [main |-> RayMul(w, Ray(v)), burnt |-> w]
MidasUnwrap(v, w) == [main |-> MulDown(w, ExchangeRate(v)), burnt |-> w]
GearboxUnwrap(v, w) == [main |-> FromDiesel(v, w), burnt |-> w]
SiloUnwrap(v, w) == LET a == ConvertWrappedToMain(v, w)
                    IN  [main |-> a, burnt |-> SharesBurnt(v, a)]
EulerUnwrapMore(v, w) == LET a == ToAssets(v, w) + 1  \* mutant
                         IN  [main |-> a, burnt |-> SharesBurnt(v, a)]
EulerUnwrap(v, w) == LET a == ToAssets(v, w)
                     IN  [main |-> a, burnt |-> SharesBurnt(v, a)]
SharesUnwrap(v, w) == [main |-> ToAssets(v, w), burnt |-> w]

UnwrapTokens(v, w) ==
    IF v.protocol = "aave" THEN AaveUnwrap(v, w)
    ELSE IF v.protocol = "midas" THEN MidasUnwrap(v, w)
    ELSE IF v.protocol = "gearbox" THEN GearboxUnwrap(v, w)
    ELSE IF v.protocol = "silo" THEN SiloUnwrap(v, w)
    ELSE IF v.protocol = "euler" THEN EulerUnwrap(v, w)
    ELSE SharesUnwrap(v, w)

-----------------------------------------------------------------------------
\* _getWrappedTokenRate: main tokens for one wrapped token, with 18 decimals.

AaveRate(v) == Ray(v) \div Nano
ERC4626Rate(v) == ToAssets(v, ONE)
YearnRate(v) == SharesToAmount(v, ONE)
SiloRate(v) == CalculateExchangeValue(v)
MidasRate(v) == ExchangeRate(v)
GearboxRate(v) == Ray(v) \div Nano
EulerRate(v) == ToAssets(v, ONE)
TetuRate(v) == TokenRate(v)

\* Vaults whose prices are not zero: dealing with any other one divides by it.
Live(v) == Empty(v) \/ (v.assets > 0 /\ Ray(v) > 0 /\ ExchangeRate(v) > 0)

GetWrappedTokenRate(v) ==
    IF v.protocol = "aave" THEN AaveRate(v)
    ELSE IF v.protocol = "erc4626" THEN ERC4626Rate(v)
    ELSE IF v.protocol = "yearn" THEN YearnRate(v)
    ELSE IF v.protocol = "silo" THEN SiloRate(v)
    ELSE IF v.protocol = "midas" THEN MidasRate(v)
    ELSE IF v.protocol = "gearbox" THEN GearboxRate(v)
    ELSE IF v.protocol = "euler" THEN EulerRate(v)
    ELSE TetuRate(v)

\* Silo divides by the supply without looking at it first.
RateReverts(v) == v.protocol = "silo" /\ v.shares = 0
=============================================================================
