-------------------------- MODULE SiloExchangeRate --------------------------
(***************************************************************************)
(* The exchange rate of a Silo as SiloExchangeRateModel computes it.  A    *)
(* Silo accrues interest when it is used: it adds to its deposits what the *)
(* borrowers owe since the last time, less the protocol's share.  The rate *)
(* of the pool must not wait for that, nor change when it happens, so the  *)
(* model computes the accrual in a view, without storing it.               *)
(*                                                                         *)
(* The Silo is external: Interest and FeesTaken are its own accrual, which *)
(* every operation begins with; it rounds against the user.  Integers go   *)
(* to MaxUint; the model's arithmetic is checked except for the protocol's *)
(* share.                                                                  *)
(***************************************************************************)
EXTENDS WrappedTokens

CONSTANTS MaxUint,          \* type(uint256).max
          ProtocolShareFee, \* the part of the interest the protocol takes
          InterestRate,     \* getCompoundInterestRate for one tick
          MaxAmount,        \* bound on a deposit, withdrawal, loan or repayment
          MaxTime           \* bound on the timestamp

ASSUME SiloAssumption == /\ ProtocolShareFee \in 0 .. ONE
                         /\ {InterestRate, MaxUint, MaxAmount, MaxTime} \subseteq Nat

VARIABLES now,              \* block timestamp
          totalDeposits,
          totalBorrowAmount,
          shares,           \* supply of the collateral token
          protocolFees,
          timestamp         \* interestRateTimestamp, 0 before the first use

silo == <<totalDeposits, totalBorrowAmount, shares, protocolFees, timestamp>>
vars == <<now, silo>>

\* A new Silo, or one that everybody has left.
Init == /\ now = 1
        /\ totalDeposits = 0
        /\ totalBorrowAmount = 0
        /\ shares = 0
        /\ protocolFees \in 0 .. MaxUint
        /\ timestamp = IF protocolFees = 0 THEN 0 ELSE now

-----------------------------------------------------------------------------
\* SiloExchangeRateModel.

Wrap(n) == n % (MaxUint + 1)

SinceStart == InterestRate * now  \* mutant: not since the last accrual
CompoundInterestRate == InterestRate * (now - timestamp)
AccruedInterest == MulDown(totalBorrowAmount, CompoundInterestRate)

FeeWithoutUnit(interest) == Wrap(interest * ProtocolShareFee)         \* mutant
FeeUnclamped(interest) == Wrap(interest * ProtocolShareFee) \div ONE  \* mutant
ProtocolShare(interest) ==
    LET share == Wrap(interest * ProtocolShareFee) \div ONE
    IN  IF Wrap(protocolFees + share) < protocolFees
        THEN MaxUint - protocolFees ELSE share

DepositorsShare == AccruedInterest - ProtocolShare(AccruedInterest)

CurrentDeposits == IF timestamp # now THEN totalDeposits + DepositorsShare
                   ELSE totalDeposits

CalculateRate == DivDown(CurrentDeposits, shares)

\* The rate reverts on overflow and without shares.
RateDefined == /\ shares > 0
               /\ totalBorrowAmount * CompoundInterestRate <= MaxUint
               /\ CurrentDeposits * ONE <= MaxUint

-----------------------------------------------------------------------------
\* The Silo.

Interest == IF timestamp = 0 THEN 0
            ELSE (totalBorrowAmount * InterestRate * (now - timestamp)) \div ONE
FeesTaken == LET fee == (Interest * ProtocolShareFee) \div ONE
             IN  IF fee > MaxUint - protocolFees THEN MaxUint - protocolFees ELSE fee
Deposits == totalDeposits + Interest - FeesTaken

\* accrueInterest, then deposits, loans and shares change by the given amounts.
Accrue(deposits, loans, change) ==
    /\ totalBorrowAmount * CompoundInterestRate <= MaxUint
    /\ totalDeposits' = Deposits + deposits
    /\ totalBorrowAmount' = totalBorrowAmount + Interest + loans
    /\ protocolFees' = protocolFees + FeesTaken
    /\ shares' = shares + change
    /\ timestamp' = now
    /\ {totalDeposits', totalBorrowAmount'} \subseteq 0 .. MaxUint
    /\ UNCHANGED now

AccrueInterest == Accrue(0, 0, 0)

Deposit(a) ==
    LET issued == IF shares = 0 THEN a ELSE MulDivDown(a, shares, Deposits)
    IN  /\ issued > 0 /\ shares + issued <= MaxUint
        /\ Accrue(a, 0, issued)

Withdraw(a) ==
    LET burnt == MulDivUp(a, shares, Deposits)
    IN  /\ shares > 0 /\ Deposits > 0
        /\ burnt <= shares
        /\ a <= Deposits - totalBorrowAmount - Interest
        /\ Accrue(-a, 0, -burnt)

Borrow(a) == /\ a <= Deposits - totalBorrowAmount - Interest
             /\ Accrue(0, a, 0)

Repay(a) == /\ a <= totalBorrowAmount + Interest
            /\ Accrue(0, -a, 0)

Tick == /\ now < MaxTime
        /\ now' = now + 1
        /\ UNCHANGED silo

Next == \/ AccrueInterest
        \/ \E a \in 1 .. MaxAmount : \/ Deposit(a)
                                     \/ Withdraw(a)
                                     \/ Borrow(a)
                                     \/ Repay(a)
        \/ Tick

Spec == Init /\ [][Next]_vars

-----------------------------------------------------------------------------
\* Types, of the storage and of what the view computes: its unchecked
\* subtraction does not wrap, because a product that would is refused before.
TypeOK == /\ now \in Nat \ {0}
          /\ timestamp \in 0 .. now
          /\ {totalDeposits, totalBorrowAmount, shares, protocolFees} \subseteq 0 .. MaxUint
          /\ totalBorrowAmount * CompoundInterestRate <= MaxUint =>
                 DepositorsShare \in 0 .. MaxUint

\* Whoever makes the Silo accrue does not move the pool's rate: the view has
\* already counted what is then stored, the clamped fees included.
AccrualInvisible ==
    [][AccrueInterest /\ RateDefined => CalculateRate' = CalculateRate]_vars

\* A Silo makes no losses here, and the pool's rate never falls: neither with
\* time, nor when others deposit, withdraw, borrow or repay in a block in which
\* interest was not yet accrued.
RateNeverFalls ==
    [][RateDefined /\ RateDefined' => CalculateRate' >= CalculateRate]_vars
=============================================================================
