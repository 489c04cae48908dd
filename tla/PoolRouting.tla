----------------------------- MODULE PoolRouting -----------------------------
(***************************************************************************)
(* The pool factory (packages/contract/contracts/pool-factory), which keeps  *)
(* one pool for each pair of tokens and fee tier, and the router, which      *)
(* finds a pool there and trades with it for its caller.  The two agree on   *)
(* less than it seems: the factory knows a pair by the order of its tokens,  *)
(* a pool only by the order it was initialized with, by a call of its own    *)
(* that names any two tokens.                                                *)
(*                                                                         *)
(* An action is one completed call; a call that panics is not enabled, so    *)
(* exact_output_single, which always does, has none.  The factory's loading  *)
(* flag is set and cleared within create_pool.  What a swap moves is what    *)
(* ClPool allows: at most the offer in, any amount out.                      *)
(***************************************************************************)
EXTENDS Integers, FiniteSets

CONSTANTS
    RouteTokens,     \* tokens, as numbers ordered like their addresses
    FeeTiers,        \* 500, 3000 and 10000
    AskedTiers,      \* tiers that callers name
    FactoryConfigs,  \* what the owner may set: owner, mathLib, wasm and whether that code is uploaded
    RouteOffers,     \* amount_in
    RouteMinima,     \* amount_out_min
    MaxOut,          \* bound on what a pool pays
    MaxPools,        \* bound on the pools deployed
    MaxRouteTime     \* bound on the ledger's clock

ASSUME RoutingAssumption ==
    /\ RouteTokens \subseteq Int
    /\ RouteOffers \subseteq Nat /\ RouteMinima \subseteq Nat /\ MaxOut \in Nat

VARIABLES
    factory,         \* owner, math library and code that pools are deployed with
    registry,        \* keys of the pools the factory deployed; a key is also the salt of its address
    pools,           \* key -> the tokens its pool was initialized with, and whether liquidity is active
    routeTime,       \* ledger timestamp
    lastRoute        \* history: what the last routed swap was asked for, moved and reported

routingVars == <<factory, registry, pools, routeTime, lastRoute>>

Keys == [token0 : RouteTokens, token1 : RouteTokens, tier : AskedTiers]

NoRoute == [moved |-> FALSE]

----------------------------------------------------------------------------
(* The factory *)

(* normalize_pair; that the tokens differ is a guard of its callers. *)
KeyOf(a, b, tier) ==
    IF a < b THEN [token0 |-> a, token1 |-> b, tier |-> tier]
             ELSE [token0 |-> b, token1 |-> a, tier |-> tier]

CreatePool(a, b, tier) ==
    /\ Cardinality(registry) < MaxPools
    /\ tier \in FeeTiers
    /\ a # b
    /\ KeyOf(a, b, tier) \notin registry
    /\ factory.uploaded
    /\ registry' = registry \cup {KeyOf(a, b, tier)}
    /\ UNCHANGED <<factory, pools, routeTime, lastRoute>>

(* set_owner, set_math_lib or set_pool_wasm_hash, signed by the owner of the time. *)
Configure(config) ==
    /\ factory' \in {[factory EXCEPT !.owner = config.owner], [factory EXCEPT !.mathLib = config.mathLib],
                     [factory EXCEPT !.wasm = config.wasm, !.uploaded = config.uploaded]}
    /\ UNCHANGED <<registry, pools, routeTime, lastRoute>>

----------------------------------------------------------------------------
(* The pools, as the router meets them *)

(* initialize of the pool contract: once, with the tokens its caller names. *)
InitializePool(key, a, b) ==
    /\ key \in registry \ DOMAIN pools
    /\ pools' = [k \in DOMAIN pools \cup {key} |->
                    IF k = key THEN [token0 |-> a, token1 |-> b, active |-> FALSE] ELSE pools[k]]
    /\ UNCHANGED <<factory, registry, routeTime, lastRoute>>

(* Liquidity comes into range or leaves it. *)
LiquidityMoves(key) ==
    /\ key \in DOMAIN pools
    /\ pools' = [pools EXCEPT ![key].active = ~@]
    /\ UNCHANGED <<factory, registry, routeTime, lastRoute>>

(* What swap returns for token 0 and token 1, seen from the pool. *)
Deltas(zeroForOne, paid, out) == IF zeroForOne THEN <<paid, -out>> ELSE <<-out, paid>>

(* What the two transfers of swap do to the holdings of its sender. *)
HoldingsMove(pool, deltas) ==
    [t \in RouteTokens |-> IF t = pool.token0 THEN -deltas[1]
                           ELSE IF t = pool.token1 THEN -deltas[2] ELSE 0]

----------------------------------------------------------------------------
(* The router *)

(* The pool holds both tokens of the request, and is traded in that direction. *)
Trades(pool, tokenIn, tokenOut, zeroForOne) ==
    IF zeroForOne THEN tokenIn = pool.token0 /\ tokenOut = pool.token1
                  ELSE tokenIn # pool.token0 /\ tokenIn = pool.token1 /\ tokenOut = pool.token0

(* How execute_swap reads the deltas. *)
Result(zeroForOne, deltas) ==
    IF zeroForOne THEN [in |-> deltas[1], out |-> -deltas[2]] ELSE [in |-> deltas[2], out |-> -deltas[1]]

ExactInputSingle(tokenIn, tokenOut, tier, offer, minimum, deadline) ==
    LET key == KeyOf(tokenIn, tokenOut, tier)
    IN  /\ routeTime <= deadline
        /\ offer > 0
        /\ tokenIn # tokenOut
        /\ key \in registry /\ key \in DOMAIN pools
        /\ pools[key].active
        /\ \E zeroForOne \in BOOLEAN, paid \in 0 .. offer, out \in 0 .. MaxOut :
             LET deltas == Deltas(zeroForOne, paid, out)
             IN  /\ Trades(pools[key], tokenIn, tokenOut, zeroForOne)
                 /\ Result(zeroForOne, deltas).out >= minimum
                 /\ lastRoute' = [moved |-> TRUE, tokenIn |-> tokenIn, tokenOut |-> tokenOut,
                                  offer |-> offer, minimum |-> minimum,
                                  holdings |-> HoldingsMove(pools[key], deltas),
                                  result |-> Result(zeroForOne, deltas)]
        /\ UNCHANGED <<factory, registry, pools, routeTime>>

RouteTick ==
    /\ routeTime < MaxRouteTime
    /\ routeTime' = routeTime + 1
    /\ UNCHANGED <<factory, registry, pools, lastRoute>>

----------------------------------------------------------------------------
RoutingInit ==
    /\ factory \in FactoryConfigs
    /\ registry = {} /\ pools = [k \in {} |-> 0]
    /\ routeTime = 0 /\ lastRoute = NoRoute

RoutingNext ==
    \/ \E a, b \in RouteTokens, tier \in AskedTiers : CreatePool(a, b, tier)
    \/ \E config \in FactoryConfigs : Configure(config)
    \/ \E key \in Keys : LiquidityMoves(key) \/ \E a, b \in RouteTokens : InitializePool(key, a, b)
    \/ \E a, b \in RouteTokens, tier \in AskedTiers, offer \in RouteOffers, least \in RouteMinima,
          deadline \in 0 .. MaxRouteTime : ExactInputSingle(a, b, tier, offer, least, deadline)
    \/ RouteTick

RoutingSpec == RoutingInit /\ [][RoutingNext]_routingVars

----------------------------------------------------------------------------
(* Properties *)

(* A pair has at most one pool of a tier, in whichever order its tokens were named when the     *)
(* pool was created and when it is looked up (pool-factory/src/lib.rs:113).                     *)
OnePoolPerPair ==
    \A j, k \in registry :
        j.tier = k.tier /\ {j.token0, j.token1} = {k.token0, k.token1} => j = k

(* Whatever tokens a pool was initialized with, and in which order, a routed swap takes from its *)
(* caller no more than the offer and only of the token sold, gives at least the minimum of the   *)
(* token bought, touches no other token, and reports what it moved (router/src/lib.rs:265).      *)
MovesAsAsked ==
    lastRoute.moved =>
        LET r == lastRoute
        IN  /\ r.holdings[r.tokenIn] = -r.result.in /\ r.result.in \in 0 .. r.offer
            /\ r.holdings[r.tokenOut] = r.result.out /\ r.result.out >= r.minimum
            /\ \A t \in RouteTokens \ {r.tokenIn, r.tokenOut} : r.holdings[t] = 0

(* Routing finds the one pool of a pair and trades what was asked.                              *)
RoutingInv == OnePoolPerPair /\ MovesAsAsked
=============================================================================
