----------------------------- MODULE MCApeBank -----------------------------
(***************************************************************************)
(* The instance of ApeBank that TLC checks: two depositors, WETH and one   *)
(* other token, whose units are two each, so that a gift of one is a part  *)
(* of a unit.  WETH is borrowed alone, with or without ETH to cover for    *)
(* it; ETH and the other token are borrowed together.                      *)
(***************************************************************************)
EXTENDS ApeBank, TLC

CONSTANTS WETH, DAI

MCMultiplier == [t \in Tokens |-> 2]
MCAmounts == [a \in Assets |-> IF a = Eth THEN {1} ELSE {2}]
MCLoans == {{WETH}, {Eth, DAI}}
MCMaxHolds == [a \in Assets |-> IF a = DAI THEN 4 ELSE 2]
MCSymmetry == Permutations(Users)
=============================================================================
