----------------------------- MODULE AtomicBank -----------------------------
(***************************************************************************)
(* What the Ape bank promises its depositors, in a bank where every        *)
(* operation is one step: what is deposited can be withdrawn, the          *)
(* treasury takes only what exceeds the deposits, and a loan leaves at     *)
(* least what was there.  Anyone may send more at any time.                *)
(***************************************************************************)
EXTENDS Naturals, FiniteSets, FiniteSetsExt

CONSTANTS Users, Assets, Amounts

VARIABLES
    kept,   \* per asset: what the bank vouches for
    shares  \* per user and asset: what was deposited and not withdrawn

vars == <<kept, shares>>

Deposited(a) == MapThenSumSet(LAMBDA u : shares[u][a], Users)

Init ==
    /\ kept = [a \in Assets |-> 0]
    /\ shares = [u \in Users |-> [a \in Assets |-> 0]]

\* At least floor is kept: gifts may come with every step.
Keep(floor) == kept' \in [Assets -> Nat] /\ \A a \in Assets : kept'[a] >= floor[a]

Deposit(u, a, n) ==
    /\ shares' = [shares EXCEPT ![u][a] = @ + n]
    /\ Keep([kept EXCEPT ![a] = @ + n])

Withdraw(u, a, n) ==
    /\ shares[u][a] >= n
    /\ shares' = [shares EXCEPT ![u][a] = @ - n]
    /\ Keep([kept EXCEPT ![a] = @ - n])

Skim(a) ==
    /\ UNCHANGED shares
    /\ Keep([kept EXCEPT ![a] = Deposited(a)])

Loan ==
    /\ UNCHANGED shares
    /\ Keep(kept)

Next ==
    \/ Loan
    \/ \E u \in Users, a \in Assets : \E n \in Amounts[a] : Deposit(u, a, n) \/ Withdraw(u, a, n)
    \/ \E a \in Assets : Skim(a)

Spec == Init /\ [][Next]_vars
=============================================================================
