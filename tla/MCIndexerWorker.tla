-------------------------- MODULE MCIndexerWorker --------------------------
(* Small histories of one pool for the worker runs.                        *)
EXTENDS IndexerWorker
CONSTANT P
Pools == {P}
NoPools == {}
Rec(seq, kind, ledger, price, liq, empty) ==
  [seq |-> seq, kind |-> kind, pool |-> P, ledger |-> ledger, price |-> price,
   liq |-> liq, empty |-> empty]
Created == Rec(1, "created", 1, 1, 0, FALSE)
Swap2 == Rec(2, "swap", 2, 2, 0, FALSE)
Minted2 == Rec(2, "minted", 2, 0, 5, FALSE)
Burned3 == Rec(3, "burned", 3, 0, 0, FALSE)
CreatedMint == {Created, Minted2}
SwapBurn == {Swap2, Burned3}
CreatedSwap == {Created, Swap2}
=============================================================================
