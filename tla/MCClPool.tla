------------------------------ MODULE MCClPool ------------------------------
(* Small instances of ClPool: a price unit of 16 with four ticks to the unit,  *)
(* so that the price at a tick t is 16 + 4t and the lowest tick is at price 0, *)
(* as the lowest ticks are in the code.                                        *)
EXTENDS ClPool, TLC

MCMinTick == -4
Symmetry == Permutations(Users)
=============================================================================
