-------------------------- MODULE SdkTransactions --------------------------
(***************************************************************************)
(* One liquidity operation or swap of a user, from the reading of the       *)
(* position to its effect: the SDK builds an unsigned envelope              *)
(* (packages/sdk/src/{swap,liquidity,queries}.ts), the API hands it to      *)
(* Horizon (transactions.service.ts), the network includes it later, or     *)
(* never, and the answer may be lost.  The user tries again after any answer *)
(* that is not a success.                                                   *)
(***************************************************************************)
EXTENDS Integers, Sequences

CONSTANTS Liquidities,   \* what the position may hold, and what is added to it
          Shares,        \* liquidityBps the user asks for
          TxTimeout,     \* setTimeout(30), in ticks
          SwapDeadline,  \* DEFAULT_SWAP_DEADLINE_SECONDS, in ticks
          MaxTxs, MaxTxTime

ASSUME TxAssumption == /\ Liquidities \subseteq Nat \ {0} /\ Shares \subseteq 0..10000
                       /\ TxTimeout \in Nat \ {0} /\ SwapDeadline \in Nat \ {0}
                       /\ MaxTxTime \in Nat

VARIABLES deployed,      \* "pool" or "cl_pool": the contract at the pool's address
          held,          \* liquidity of the user's position on chain
          added,         \* liquidity of the positions add and rerange opened
          seen,          \* the position as last read: its liquidity, or Unread
          wish,          \* what the user wants done
          txs,           \* the envelopes built for it, oldest first
          txClock

txVars == <<deployed, held, added, seen, wish, txs, txClock>>

Unread == -1
Kinds == {"burn", "collect", "add", "rerange", "exactIn", "exactOut"}

TxInit ==
  /\ deployed \in {"pool", "cl_pool"}
  /\ held \in Liquidities /\ added = 0 /\ seen = Unread
  /\ wish \in Kinds
  /\ txs = <<>> /\ txClock = 0

(* A first try, or another one after an answer that is not a success.                     *)
MayBuild == /\ Len(txs) < MaxTxs
            /\ txs # <<>> => txs[Len(txs)].answer \notin {"none", "success"}

(***************************************************************************)
(* Reading                                                                 *)
(***************************************************************************)

(* detectPoolType: the contract's name; a caller that does not ask gets the default. *)
PoolTypes == {"pool", deployed}

(* What get_position returns through the simulation: void, an empty map, a wrapped void, the   *)
(* position wrapped or bare.                                                                  *)
RawPositions == {"void", "empty", "valueVoid", "value", "bare"}

(* getPosition: null for everything that holds no position. *)
PositionOf(raw) == IF raw \in {"value", "bare"} THEN held ELSE Unread

(* A burnt position's liquidity is gone from the contract; a failed call keeps the last reading. *)
(* A reading that no envelope is built from any more is left out.                              *)
ReadPosition(raw) ==
  /\ MayBuild
  /\ raw \in (IF held = 0 THEN RawPositions \ {"value", "bare"} ELSE {"value", "bare"})
  /\ seen' = PositionOf(raw)
  /\ UNCHANGED <<deployed, held, added, wish, txs, txClock>>

(***************************************************************************)
(* Building                                                                *)
(***************************************************************************)

(* What the contracts take: the number of arguments of each method. *)
Takes(contract, method) ==
  CASE contract = "pool"    /\ method \in {"burn", "mint"}    -> 5
    [] contract = "pool"    /\ method = "collect"             -> 3
    [] contract = "cl_pool" /\ method = "remove_liquidity"    -> 3
    [] contract = "cl_pool" /\ method = "add_liquidity"       -> 4
    [] contract = "cl_pool" /\ method = "collect"             -> 2
    [] contract = "router"  /\ method = "exact_input_single"  -> 1
    [] contract = "router"  /\ method = "exact_output_single" -> 1
    [] OTHER                                                  -> -1

Call(contract, method, args, liquidity) ==
  [contract |-> contract, method |-> method, args |-> args, liquidity |-> liquidity]

ShareUp(liquidity, bps) == (liquidity * bps + 9999) \div 10000
(* buildBurnTx: liquidityBps of the liquidity it was given, rounded down. *)
ShareOf(liquidity, bps) == (liquidity * bps) \div 10000

RemoveCall(type, n) == IF type = "cl_pool" THEN Call(deployed, "remove_liquidity", 3, n)
                                           ELSE Call(deployed, "burn", 4, n)
AddCall(type, n)    == IF type = "cl_pool" THEN Call(deployed, "add_liquidity", 4, n)
                                           ELSE Call(deployed, "mint", 4, n)
CollectCall(type)   == IF type = "cl_pool" THEN Call(deployed, "collect", 2, 0)
                                           ELSE Call(deployed, "collect", 3, 0)

Tx(calls, until, bps) ==
  [calls |-> calls, until |-> until, bps |-> bps, read |-> seen, built |-> txClock,
   at |-> "built", answer |-> "none", applied |-> -1, found |-> 0, left |-> 0]

Build(kind, calls, until, bps) ==
  /\ wish = kind /\ MayBuild
  /\ txs' = Append(txs, Tx(calls, until, bps))
  /\ UNCHANGED <<deployed, held, added, seen, wish, txClock>>

BuildBurnTx(bps, type) ==
  seen # Unread /\ Build("burn", <<RemoveCall(type, ShareOf(seen, bps))>>, txClock + TxTimeout, bps)

BuildCollectTx(type) ==
  seen # Unread /\ Build("collect", <<CollectCall(type)>>, txClock + TxTimeout, 0)

BuildAddLiquidityTx(liquidity, type) ==
  liquidity > 0 /\ Build("add", <<AddCall(type, liquidity)>>, txClock + TxTimeout, 0)

(* Both calls carry the liquidity that was read. *)
BuildRerangeTx(type) ==
  seen > 0 /\ Build("rerange", <<RemoveCall(type, seen), AddCall(type, seen)>>, txClock + TxTimeout, 0)

(* The deadline is an argument of the router's method and the envelope's maxTime. *)
BuildSwapTx(deadline) ==
  deadline > txClock /\ Build("exactIn", <<Call("router", "exact_input_single", 8, 0)>>, deadline, 0)

BuildExactOutputSwapTx(deadline) ==
  deadline > txClock /\ Build("exactOut", <<Call("router", "exact_output_single", 1, 0)>>, deadline, 0)

(***************************************************************************)
(* Submitting                                                              *)
(***************************************************************************)

(* TransactionsService.submit posts it; it reaches Horizon or not. *)
Submit(i) ==
  /\ txs[i].at = "built"
  /\ \E reached \in BOOLEAN :
       txs' = IF reached THEN [txs EXCEPT ![i].at = "pending"]
                         ELSE [txs EXCEPT ![i].at = "dropped", ![i].answer = "unknown"]
  /\ UNCHANGED <<deployed, held, added, seen, wish, txClock>>

(* A call the contract has, with as many arguments; exact output is refused by the router, and *)
(* a removal of nothing or of more than the position holds by the pool.                        *)
Accepted(c) ==
  /\ Takes(c.contract, c.method) = c.args
  /\ c.method # "exact_output_single"
  /\ c.method \in {"remove_liquidity", "burn"} => c.liquidity \in 1..held

RemovedBy(t) == IF t.calls[1].method \in {"remove_liquidity", "burn"} THEN t.calls[1].liquidity ELSE 0
AddedBy(t)   == LET c == t.calls[Len(t.calls)]
                IN  IF c.method \in {"add_liquidity", "mint"} THEN c.liquidity ELSE 0

(* The network includes a pending envelope, all of its calls or none. *)
Include(i) ==
  /\ txs[i].at = "pending" /\ txClock <= txs[i].until
  /\ \A n \in 1..Len(txs[i].calls) : Accepted(txs[i].calls[n])
  /\ held' = held - RemovedBy(txs[i])
  /\ added' = added + AddedBy(txs[i])
  /\ txs' = [txs EXCEPT ![i].at = "applied", ![i].applied = txClock,
                        ![i].found = held, ![i].left = held']
  /\ UNCHANGED <<deployed, seen, wish, txClock>>

(* Too late, malformed, or an operation of it failed. *)
Refuse(i) ==
  /\ txs[i].at = "pending"
  /\ txs' = [txs EXCEPT ![i].at = "dropped"]
  /\ UNCHANGED <<deployed, held, added, seen, wish, txClock>>

(* The response: Horizon's verdict when it has one, an error when it gave up waiting or the    *)
(* connection broke.                                                                          *)
Verdict(t) == CASE t.at = "applied" -> "success" [] t.at = "dropped" -> "failed" [] OTHER -> "unknown"

Respond(i) ==
  /\ txs[i].at # "built" /\ txs[i].answer = "none"
  /\ \E lost \in BOOLEAN :
       txs' = [txs EXCEPT ![i].answer = IF lost THEN "unknown" ELSE Verdict(txs[i])]
  /\ UNCHANGED <<deployed, held, added, seen, wish, txClock>>

(* Somebody else with the owner's key changes the position, or time passes. *)
Elsewhere ==
  /\ held > 0 /\ held' \in Liquidities \ {held}
  /\ txClock < MaxTxTime /\ txClock' = txClock + 1
  /\ UNCHANGED <<deployed, added, seen, wish, txs>>

TxTick == /\ txClock < MaxTxTime /\ txClock' = txClock + 1
          /\ UNCHANGED <<deployed, held, added, seen, wish, txs>>

TxNext ==
  \/ \E raw \in RawPositions : ReadPosition(raw)
  \/ \E type \in PoolTypes : \/ \E bps \in Shares : BuildBurnTx(bps, type)
                             \/ BuildCollectTx(type) \/ BuildRerangeTx(type)
                             \/ \E n \in Liquidities : BuildAddLiquidityTx(n, type)
  \/ \E d \in {txClock + SwapDeadline, MaxTxTime} : BuildSwapTx(d) \/ BuildExactOutputSwapTx(d)
  \/ \E i \in DOMAIN txs : Submit(i) \/ Include(i) \/ Refuse(i) \/ Respond(i)
  \/ Elsewhere \/ TxTick

TxSpec == TxInit /\ [][TxNext]_txVars

(***************************************************************************)
(* Properties                                                              *)
(***************************************************************************)

Applied == {i \in DOMAIN txs : txs[i].at = "applied"}

(* A liquidity envelope the user forgot about, or that the network held back, has no effect    *)
(* later than its timeout after it was built.                                                 *)
NothingLate ==
  wish \notin {"exactIn", "exactOut"} => \A i \in Applied : txs[i].applied <= txs[i].built + TxTimeout

(* Removing a part of a position closes it only if it has shrunk since it was read: the share   *)
(* is taken of the liquidity that was read, not of what is there.                              *)
PartLeavesSome ==
  \A i \in Applied : wish = "burn" /\ txs[i].bps < 10000 /\ txs[i].left = 0 =>
    txs[i].found < txs[i].read

(* Moving a position to another range moves all of what was read and loses nothing.            *)
RerangeKeeps ==
  wish = "rerange" => \A i \in Applied : txs[i].found - txs[i].left = AddedBy(txs[i])

(* What the user asked for once is done twice only after an answer that said nothing.          *)
TwiceOnlyBlind ==
  \A i, j \in Applied : i < j => txs[i].answer = "unknown"

(* The effects of one wish on the position.                                                   *)
TxInv == NothingLate /\ PartLeavesSome /\ RerangeKeeps /\ TwiceOnlyBlind
=============================================================================
