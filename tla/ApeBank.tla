------------------------------- MODULE ApeBank -------------------------------
(***************************************************************************)
(* The flash-loan bank (ApeBankV3.sol): deposits and withdrawals, the      *)
(* treasury's skimming, and loans, in ETH, WETH and other tokens.          *)
(*                                                                         *)
(* Sending ETH and calling a borrower run code of others in the middle of  *)
(* an operation, and that code may use the bank again.  Such an operation  *)
(* is two steps here, with a frame between them that holds its copy of     *)
(* the bank's state and the bank to return to if it is reverted.  The      *)
(* tokens call nobody.                                                     *)
(*                                                                         *)
(* The five tokens are handled by the same code; token balances are kept   *)
(* in units of a token's multiplier, in 32 bits, of which Capacity is the  *)
(* bound.  The refunds of gas (burns of native contracts, GST2 and CHI,    *)
(* their prices) and the nomination of a treasury are not modelled.        *)
(***************************************************************************)
EXTENDS Naturals, Sequences, FiniteSets, FiniteSetsExt

CONSTANTS
    Users,      \* the depositors
    Tokens,     \* the tokens that are lent, WETH among them
    Weth,       \* TOKEN_WETH
    Multiplier, \* per token: the amount that is one unit
    Capacity,   \* 2^32: bound of the units of a token
    Amounts,    \* per asset: the amounts that are deposited and withdrawn here
    Loans,      \* the sets of assets that are borrowed together here
    Gifts,      \* the amounts that are sent to the bank, with a call or without
    MaxEnded,   \* bound: operations that have ended
    MaxHolds,   \* bound, per asset: what the bank has after something is sent to it
    MaxDepth    \* bound: operations that are under way, one within another

Eth == "eth"

Assets == Tokens \union {Eth}

ASSUME BankAssumption ==
    /\ IsFiniteSet(Users)
    /\ Weth \in Tokens
    /\ Eth \notin Tokens
    /\ Multiplier \in [Tokens -> Nat \ {0, 1}]
    /\ Capacity \in Nat \ {0}
    /\ Amounts \in [Assets -> SUBSET (Nat \ {0})]
    /\ Loans \subseteq SUBSET Assets
    /\ Gifts \subseteq Nat \ {0}
    /\ MaxEnded \in Nat
    /\ MaxHolds \in [Assets -> Nat]
    /\ MaxDepth \in Nat \ {0}

VARIABLES
    bank,    \* holds: the balances; units: the token balances on record; calls:
             \* numCalls; total: totalDeposits; shares: the balances of the users
    frames   \* the operations under way, the outermost first

bankVars == <<bank, frames>>

-----------------------------------------------------------------------------
OnRecord(b, t) == b.units[t] * Multiplier[t]

NewBank ==
    [holds |-> [a \in Assets |-> 0], units |-> [t \in Tokens |-> 0], calls |-> 0,
     total |-> [a \in Assets |-> 0], shares |-> [u \in Users |-> [a \in Assets |-> 0]]]

BankInit == bank = NewBank /\ frames = <<>>

\* The frame of an operation that starts now: its copy of the state, and what else
\* the rest of it works with.
Frame(op, rest) == [op |-> op, units |-> bank.units, calls |-> bank.calls, before |-> bank, rest |-> rest]

NoRest == [others |-> {}, combined |-> FALSE, oldEth |-> 0]

Top == frames[Len(frames)]

Pop == frames' = SubSeq(frames, 1, Len(frames) - 1)

\* The bounds of this instance.
MayRun == bank.calls < MaxEnded /\ bank.calls + Len(frames) <= MaxEnded

MayStart == Len(frames) < MaxDepth /\ bank.calls + Len(frames) < MaxEnded

\* Mutant of NoneSince: the check is left out.
AnySince(f) == TRUE

\* numCalls is as it was when the state was copied: no other operation ended since.
NoneSince(f) == f.calls = bank.calls

\* The copy is written back, with its count of calls one higher.
Ended(b, units, count) == [b EXCEPT !.units = units, !.calls = count + 1]

-----------------------------------------------------------------------------
\* Mutant of DepositEth: only the totals of the tokens are counted.
DepositEthOffTotal(u, n) ==
    /\ MayRun
    /\ bank.holds[Eth] + n <= MaxHolds[Eth]
    /\ bank' = [bank EXCEPT !.holds[Eth] = @ + n, !.shares[u][Eth] = @ + n, !.calls = @ + 1]
    /\ UNCHANGED frames

\* deposit() of ETH, and of a token in whole units.
DepositEth(u, n) ==
    /\ MayRun
    /\ bank.holds[Eth] + n <= MaxHolds[Eth]
    /\ bank' = [bank EXCEPT !.holds[Eth] = @ + n, !.shares[u][Eth] = @ + n,
                            !.total[Eth] = @ + n, !.calls = @ + 1]
    /\ UNCHANGED frames

DepositToken(u, t, n) ==
    LET delta == n \div Multiplier[t]
    IN  /\ MayRun
        /\ bank.holds[t] + n <= MaxHolds[t]
        /\ n % Multiplier[t] = 0
        /\ bank.units[t] + delta < Capacity
        /\ bank' = [bank EXCEPT !.holds[t] = @ + n, !.shares[u][t] = @ + n, !.total[t] = @ + n,
                                !.units[t] = @ + delta, !.calls = @ + 1]
        /\ UNCHANGED frames

\* Mutant of WithdrawToken: the total of the deposits is left as it was.
WithdrawTokenKeepingTotal(u, t, n) ==
    LET delta == n \div Multiplier[t]
    IN  /\ MayRun
        /\ n % Multiplier[t] = 0
        /\ bank.shares[u][t] >= n
        /\ bank.units[t] >= delta
        /\ bank.holds[t] >= n
        /\ bank' = [bank EXCEPT !.holds[t] = @ - n, !.shares[u][t] = @ - n,
                                !.units[t] = @ - delta, !.calls = @ + 1]
        /\ UNCHANGED frames

\* What withdraw() requires; its three subtractions are checked ones.
MayWithdraw(u, a, n) ==
    /\ bank.total[a] >= n
    /\ bank.shares[u][a] >= n
    /\ bank.holds[a] >= n
    /\ a # Eth => n % Multiplier[a] = 0 /\ bank.units[a] >= n \div Multiplier[a]

\* withdraw() of a token.
WithdrawToken(u, t, n) ==
    LET delta == n \div Multiplier[t]
    IN  /\ MayRun
        /\ MayWithdraw(u, t, n)
        /\ bank' = [bank EXCEPT !.holds[t] = @ - n, !.shares[u][t] = @ - n, !.total[t] = @ - n,
                                !.units[t] = @ - delta, !.calls = @ + 1]
        /\ UNCHANGED frames

\* Mutant of BeginWithdrawEth: the balance of the user is not compared.
BeginWithdrawEthOfAnyone(u, n) ==
    /\ MayStart
    /\ bank.total[Eth] >= n
    /\ bank.holds[Eth] >= n
    /\ bank' = [bank EXCEPT !.holds[Eth] = @ - n, !.shares[u][Eth] = @ - n, !.total[Eth] = @ - n]
    /\ frames' = Append(frames, Frame("send", NoRest))

\* withdraw() of ETH, up to and including the call that sends it.
BeginWithdrawEth(u, n) ==
    /\ MayStart
    /\ MayWithdraw(u, Eth, n)
    /\ bank' = [bank EXCEPT !.holds[Eth] = @ - n, !.shares[u][Eth] = @ - n, !.total[Eth] = @ - n]
    /\ frames' = Append(frames, Frame("send", NoRest))

\* skimExcessBalances keeps the deposits and one more.
MinBalanceToKeep(a) == bank.total[a] + 1

\* Mutant of SkimToken: the units on record are left as they were.
SkimTokenOffRecord(t) ==
    /\ MayRun
    /\ bank.holds[t] > MinBalanceToKeep(t)
    /\ bank' = [bank EXCEPT !.holds[t] = MinBalanceToKeep(t), !.calls = @ + 1]
    /\ UNCHANGED frames

SkimToken(t) ==
    /\ MayRun
    /\ bank.holds[t] > MinBalanceToKeep(t)
    /\ bank' = [bank EXCEPT !.holds[t] = MinBalanceToKeep(t),
                            !.units[t] = (MinBalanceToKeep(t) \div Multiplier[t]) % Capacity,
                            !.calls = @ + 1]
    /\ UNCHANGED frames

BeginSkimEth ==
    /\ MayStart
    /\ bank.holds[Eth] > MinBalanceToKeep(Eth)
    /\ bank' = [bank EXCEPT !.holds[Eth] = MinBalanceToKeep(Eth)]
    /\ frames' = Append(frames, Frame("send", NoRest))

\* The rest of a withdrawal or skimming of ETH.
EndSend ==
    /\ frames # <<>>
    /\ Top.op = "send"
    /\ NoneSince(Top)
    /\ bank' = Ended(bank, Top.units, Top.calls)
    /\ Pop

-----------------------------------------------------------------------------
\* flashApe, up to and including the call of the borrower: the tokens on record and
\* all ETH but one, for value sent along.  cover is FLAG_COVER_WETH.
BeginLoan(borrow, cover, value) ==
    LET eth  == bank.holds[Eth] + value
        rest == [others |-> borrow \ {Eth, Weth}, combined |-> Weth \in borrow \/ cover,
                 oldEth |-> eth - value]
    IN  /\ MayStart
        /\ \A t \in borrow \ {Eth} : bank.holds[t] >= OnRecord(bank, t)
        /\ Eth \in borrow => eth >= 1
        /\ eth <= MaxHolds[Eth]
        /\ bank' = [bank EXCEPT !.holds =
                       [a \in Assets |-> IF a = Eth THEN IF Eth \in borrow THEN 1 ELSE eth
                                         ELSE IF a \in borrow THEN @[a] - OnRecord(bank, a)
                                         ELSE @[a]]]
        /\ frames' = Append(frames, Frame("loan", rest))

-----------------------------------------------------------------------------
\* More than what is on record must be back: the comparison is strict.
Returned(f, t) ==
    /\ bank.holds[t] < Capacity * Multiplier[t]
    /\ bank.holds[t] > f.units[t] * Multiplier[t]

\* The end of flashApe: the other tokens are checked and the copy is written back.
Settle(f, eth, weth, wethUnits) ==
    /\ \A t \in f.rest.others : Returned(f, t)
    /\ NoneSince(f)
    /\ bank' = Ended([bank EXCEPT !.holds[Eth] = eth, !.holds[Weth] = weth],
                     [t \in Tokens |-> IF t = Weth THEN wethUnits
                                       ELSE IF t \in f.rest.others THEN (bank.holds[t] \div Multiplier[t]) % Capacity
                                       ELSE f.units[t]],
                     f.calls)
    /\ Pop

\* The first check where ETH and WETH may cover for one another.
TogetherReturned(f) ==
    /\ bank.holds[Weth] < Capacity * Multiplier[Weth]
    /\ bank.holds[Eth] + bank.holds[Weth] > f.rest.oldEth + f.units[Weth] * Multiplier[Weth]

\* Not enough WETH came back: the rest and one more is wrapped.
CoverWithEth(f) ==
    LET record  == f.units[Weth] * Multiplier[Weth]
        toCover == record + 1 - bank.holds[Weth]
    IN  /\ bank.holds[Weth] <= record
        /\ bank.holds[Eth] >= f.rest.oldEth + toCover
        /\ Settle(f, bank.holds[Eth] - toCover, record + 1, f.units[Weth])

\* Not enough ETH came back: what is missing is unwrapped.
CoverWithWeth(f) ==
    LET record == f.units[Weth] * Multiplier[Weth]
        short  == f.rest.oldEth - bank.holds[Eth]
        weth   == bank.holds[Weth] - short
    IN  /\ bank.holds[Weth] > record
        /\ bank.holds[Eth] < f.rest.oldEth
        /\ bank.holds[Weth] > record + short
        /\ Settle(f, f.rest.oldEth, weth, (weth \div Multiplier[Weth]) % Capacity)

NothingToCover(f) ==
    /\ bank.holds[Weth] > f.units[Weth] * Multiplier[Weth]
    /\ bank.holds[Eth] >= f.rest.oldEth
    /\ Settle(f, bank.holds[Eth], bank.holds[Weth],
              (bank.holds[Weth] \div Multiplier[Weth]) % Capacity)

WithoutWeth(f) ==
    /\ bank.holds[Eth] >= f.rest.oldEth
    /\ Settle(f, bank.holds[Eth], bank.holds[Weth], f.units[Weth])

\* The rest of flashApe, once the borrower has returned.
EndLoan ==
    /\ frames # <<>>
    /\ Top.op = "loan"
    /\ \/ /\ Top.rest.combined
          /\ TogetherReturned(Top)
          /\ CoverWithEth(Top) \/ CoverWithWeth(Top) \/ NothingToCover(Top)
       \/ ~Top.rest.combined /\ WithoutWeth(Top)

-----------------------------------------------------------------------------
\* Anyone may send ETH or tokens to the bank: a borrower what it returns, or a gift.
Send(a, n) ==
    /\ bank.holds[a] + n <= MaxHolds[a]
    /\ bank' = [bank EXCEPT !.holds[a] = @ + n]
    /\ UNCHANGED frames

\* A check fails, or the code that was called does: all of the operation is undone.
Revert ==
    /\ frames # <<>>
    /\ bank' = Top.before
    /\ Pop

BankNext ==
    \/ \E u \in Users, n \in Amounts[Eth] : DepositEth(u, n) \/ BeginWithdrawEth(u, n)
    \/ \E u \in Users, t \in Tokens : \E n \in Amounts[t] : DepositToken(u, t, n) \/ WithdrawToken(u, t, n)
    \/ \E t \in Tokens : SkimToken(t)
    \/ BeginSkimEth
    \/ EndSend
    \/ \E borrow \in Loans, cover \in BOOLEAN, value \in {0} \union Gifts :
           BeginLoan(borrow, cover, value)
    \/ EndLoan
    \/ \E a \in Assets, n \in Gifts : Send(a, n)
    \/ Revert

BankSpec == BankInit /\ [][BankNext]_bankVars

-----------------------------------------------------------------------------
\* The bank as everyone sees it who is not called by it: while an operation is under
\* way, the one it started from.
Visible == IF frames = <<>> THEN bank ELSE frames[1].before

\* Whatever is called in the middle of an operation, and whatever it does with the
\* bank, operations take effect one at a time and as a whole, and no loan ends with
\* less than what was on record: the copy of the state that is written back, and its
\* numCalls, never hide what another operation did (ApeBankV3.sol:425-427).
Atomic == INSTANCE AtomicBank
              WITH kept <- [a \in Assets |-> IF a = Eth THEN Visible.holds[Eth] ELSE OnRecord(Visible, a)],
                   shares <- Visible.shares

ImplementsAtomicBank == Atomic!Spec

\* What is deposited is on record and in the bank, in whole units of each token.
Covered(b) ==
    /\ b.total[Eth] <= b.holds[Eth]
    /\ \A t \in Tokens : /\ b.total[t] % Multiplier[t] = 0
                         /\ b.total[t] <= OnRecord(b, t)
                         /\ OnRecord(b, t) <= b.holds[t]

\* Every deposit is there to be withdrawn, after any sequence of deposits, loans, gifts
\* and skimmings, one within another: the rounding to units, the currency a loan comes
\* back in and the excess that is taken never reach into the deposits.
DepositsAreThere == Covered(Visible)

\* totalDeposits, which a withdrawal is checked against and a skimming leaves, is what
\* the users have deposited and not withdrawn, all together.
TotalsAreSums == \A a \in Assets : Visible.total[a] = Atomic!Deposited(a)

\* Whoever has deposited can withdraw all of it at once: whatever was lent, given and
\* skimmed before, neither the totals, the units on record nor what the bank has stop it.
EveryDepositCanBeWithdrawn ==
    frames = <<>> => \A u \in Users, a \in Assets : MayWithdraw(u, a, bank.shares[u][a])

BankType ==
    [holds : [Assets -> Nat], units : [Tokens -> 0 .. (Capacity - 1)], calls : 0 .. MaxEnded,
     total : [Assets -> Nat], shares : [Users -> [Assets -> Nat]]]

BankTypeOK ==
    /\ bank \in BankType
    /\ Len(frames) <= MaxDepth
    /\ \A i \in DOMAIN frames :
           /\ frames[i].op \in {"send", "loan"}
           /\ frames[i].before \in BankType
           /\ frames[i].units = frames[i].before.units /\ frames[i].calls = frames[i].before.calls

\* b is what sending ETH has left of a: what a user has withdrawn is gone, or of what
\* exceeds the deposits some.
SentFrom(a, b) ==
    \/ b.shares = a.shares /\ b.holds[Eth] >= a.total[Eth]
    \/ \E u \in Users, n \in Amounts[Eth] :
           /\ a.shares[u][Eth] >= n
           /\ b.shares = [a.shares EXCEPT ![u][Eth] = @ - n]
           /\ b.holds[Eth] >= a.holds[Eth] - n

\* The inductive invariant behind DepositsAreThere and ImplementsAtomicBank.  An operation ends only if none
\* within it has, so what must be known of the bank while the outermost one is under
\* way is what holds as long as the count of calls is that of its copy.
Underway(f, b) ==
    /\ b.calls >= f.calls
    /\ b.calls = f.calls =>
           /\ b.units = f.units
           /\ f.op = "send" => Covered(b) /\ SentFrom(f.before, b)
           /\ f.op = "loan" =>
                 /\ b.total = f.before.total /\ b.shares = f.before.shares
                 /\ f.rest.oldEth = f.before.holds[Eth]
                 /\ f.rest.others \subseteq Tokens \ {Weth}
                 /\ \A t \in Tokens \ f.rest.others :
                        (t = Weth /\ f.rest.combined) \/ b.holds[t] >= OnRecord(f.before, t)

BankInv ==
    /\ Covered(Visible)
    /\ Len(frames) = 1 => Underway(frames[1], bank)
    /\ Len(frames) >= 2 => Underway(frames[1], frames[2].before)
=============================================================================
