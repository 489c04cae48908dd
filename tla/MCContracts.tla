----------------------------- MODULE MCContracts -----------------------------
(***************************************************************************)
(* The two pool contracts, each with an oracle adapter of its own, the       *)
(* factory with the router, and the fee collector, checked in one run: a     *)
(* behaviour exercises what `contract` names.  The newer pool is looked at   *)
(* twice: "book" trades over several positions and leaves oracle, tokens     *)
(* and clock alone, "cl_pool" trades over one position for as long as it     *)
(* takes the oracle's buffer to wrap.                                        *)
(***************************************************************************)
EXTENDS MCClPool, LegacyPool, PoolRouting, FeeCollector

CONSTANTS BookSwaps,                          \* bound on the swaps of "book"
          OneLiquidity, OneAmount, TwoLimits  \* what "cl_pool" is called with

ASSUME InstanceAssumption ==
  OneLiquidity \in Liquidities /\ OneAmount \in AmountsIn /\ TwoLimits \subseteq PriceLimits

VARIABLE contract

(* Square root prices of the ticks, half a step of the scale apart at the lower end. *)
MCSqrtPriceOf == [t \in MinTick .. MaxTick |-> <<9, 10, 12, 14, 16, 18, 21>>[t - MinTick + 1]]

(* Users and the ids that callers choose are interchangeable. *)
ContractSymmetry == Permutations(Users) \cup Permutations(PoolIds)

(* Two owners, and two wasm hashes, one of which is not on the network. *)
MCFactoryConfigs ==
  {[owner |-> o, mathLib |-> "m", wasm |-> w, uploaded |-> w = "pool"] : o \in {"o1", "o2"}, w \in {"pool", "none"}}

legacyOnly == <<poolState, tickVars, poolPositions, poolBalance, wiringVars, poolCalls>>
clPoolOnly == <<poolVars, bookVars, balance, nftVars, oracle, now, boundVars>>
contractVars == <<contract, vars, legacyOnly, routingVars, feeVars>>

ContractsInit ==
  /\ contract \in {"pool", "book", "cl_pool", "router", "fee_collector"}
  /\ Init
  /\ LegacyInit /\ (contract # "pool" => poolState.price = Q96)
  /\ RoutingInit /\ factory = [owner |-> "o1", mathLib |-> "m", wasm |-> "pool", uploaded |-> TRUE]
  /\ FeesInit

(* The calls that change the book, of one owner. *)
BookCalls ==
  /\ AddStep \/ RemoveStep \/ CollectStep \/ (swaps < BookSwaps /\ SwapStep)
  /\ \A a, b \in DOMAIN positions' : positions'[a].owner = positions'[b].owner

OneAdd  == \E u \in Users, lower, upper \in TickRange :
             nextPositionId = 0 /\ AddLiquidity(u, lower, upper, OneLiquidity)
OneSwap == \E zeroForOne \in BOOLEAN, limit \in TwoLimits : Swap(zeroForOne, OneAmount, limit)
OracleCalls == OneAdd \/ (\E u \in Users, id \in DOMAIN positions : RemoveAll(u, id))
               \/ OneSwap \/ TransferStep \/ SetOracle \/ CloseLedger

ClPoolCalls ==
  /\ \/ contract = "book" /\ BookCalls
     \/ contract = "cl_pool" /\ OracleCalls
  /\ UNCHANGED <<contract, legacyOnly, routingVars, feeVars>>
PoolCalls ==
  contract = "pool" /\ LegacyNext /\ UNCHANGED <<contract, clPoolOnly, routingVars, feeVars>>
RouterCalls ==
  contract = "router" /\ RoutingNext /\ UNCHANGED <<contract, vars, legacyOnly, feeVars>>
CollectorCalls ==
  contract = "fee_collector" /\ FeesNext /\ UNCHANGED <<contract, vars, legacyOnly, routingVars>>

ContractsSpec ==
  ContractsInit /\ [][ClPoolCalls \/ PoolCalls \/ RouterCalls \/ CollectorCalls]_contractVars

(* The older pool's ticks and bits hold what its positions hold (pool/src/lib.rs:239), a routed  *)
(* swap moves what was asked through the one pool of the pair (router/src/lib.rs:265), and the    *)
(* collector holds what it has recorded (fee-collector/src/lib.rs:80).                           *)
ContractsInv == LegacyInv /\ RoutingInv /\ FeesInv
=============================================================================
