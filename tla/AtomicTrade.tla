---------------------------- MODULE AtomicTrade ----------------------------
(***************************************************************************)
(* What the arbitrage transactions promise to the owner of the executor:   *)
(* each one that succeeds gains, all at once, more than the minimal profit *)
(* of its evaluation, and hands 99 percent of the gain, rounded down, to   *)
(* the block's producer.  One that does not succeed changes nothing.       *)
(***************************************************************************)
EXTENDS Integers

CONSTANTS MinProfit  \* FINNEY

VARIABLES
    earned,  \* what the executor holds beyond what its owner put in
    paid     \* what the producers of the blocks were given

Share(gain) == (gain * 99) \div 100

Init == earned = 0 /\ paid = 0

Trade ==
    LET gain == (earned' + paid') - (earned + paid)
    IN  /\ gain > MinProfit
        /\ paid' = paid + Share(gain)

Next == Trade

Spec == Init /\ [][Next]_<<earned, paid>>
=============================================================================
