---------------------------- MODULE PriceChartFeed ----------------------------
(***************************************************************************)
(* usePriceCandles.ts under PriceChart.tsx: the last 168 candles of a pair  *)
(* from the API, which also names the pool, and a socket that adds to them  *)
(* and reconnects with a growing delay.                                     *)
(***************************************************************************)
EXTENDS Integers, FiniteSets

CONSTANTS ChartPairs,    \* pairs that the user can select, each with its own pool
          Intervals,
          MaxPicks,      \* bound on the selections
          MaxDrops,      \* bound on connections lost or refused
          MaxPrices      \* bound on price events

VARIABLES pick,          \* [pair, interval], or NoPick
          candleCalls,   \* requests in flight: the pick each is for
          candles,       \* pick whose candles are shown, or NoPick
          watched,       \* poolId
          sockets,       \* [effect, pool, state]: one per connect() of a run of the effect
          effect,        \* number of the present run of the effect
          retry,         \* timers armed: [effect, pool]
          picks, drops, prices,
          applied        \* history: pools of the price events taken since the pool was set

feedVars == <<pick, candleCalls, candles, watched, sockets, effect, retry, picks, drops, prices, applied>>

NoPick == [pair |-> "no pair", interval |-> "none"]
NoPool1 == "no pool"

FeedInit ==
  /\ pick = NoPick /\ candleCalls = {} /\ candles = NoPick /\ watched = NoPool1
  /\ sockets = {} /\ effect = 0 /\ retry = {}
  /\ picks = 0 /\ drops = 0 /\ prices = 0 /\ applied = {}

(* connect(): a socket that asks for the pool the effect was run with. *)
connect(s, run, pool) == s \cup {[effect |-> run, pool |-> pool, state |-> "connecting"]}

(* Variant: the effect has no cleanup of its own. *)
NeverDisposed(run, current) == FALSE
Disposed(run, current) == run # current

(* The cleanup of the effect closes its socket, which reports it later, and the next run connects. *)
Rerun(pool) ==
  /\ effect' = effect + 1
  /\ sockets' = connect({[s EXCEPT !.state = "closing"] : s \in sockets}, effect + 1, pool)
  /\ retry' = {r \in retry : ~Disposed(r.effect, effect + 1)}

(* A new pair or interval empties the chart, forgets the pool and asks for candles. *)
Pick(p) ==
  /\ picks < MaxPicks /\ p # pick /\ pick' = p /\ picks' = picks + 1
  /\ candles' = NoPick /\ watched' = NoPool1 /\ applied' = {}
  /\ candleCalls' = candleCalls \cup {p}
  /\ Rerun(NoPool1)
  /\ UNCHANGED <<drops, prices>>

(* The effect depends on the pool. *)
Rewatch(pool) == IF pool = watched THEN UNCHANGED <<sockets, effect, retry>> ELSE Rerun(pool)

(* Any answer is taken, also one for an earlier pick.  A refusal keeps the pool, an error forgets it. *)
CandlesAnswer ==
  \E c \in candleCalls :
    /\ candleCalls' = candleCalls \ {c}
    /\ \/ candles' = c /\ watched' = c.pair /\ Rewatch(c.pair)
          /\ applied' = IF c.pair = watched THEN applied ELSE {}
       \/ candles' = NoPick /\ UNCHANGED <<watched, sockets, effect, retry, applied>>
       \/ candles' = NoPick /\ watched' = NoPool1 /\ Rewatch(NoPool1) /\ applied' = {}
    /\ UNCHANGED <<pick, picks, drops, prices>>

Opens ==
  \E s \in sockets :
    /\ s.state = "connecting"
    /\ sockets' = (sockets \ {s}) \cup {[s EXCEPT !.state = "open"]}
    /\ UNCHANGED <<pick, candleCalls, candles, watched, effect, retry, picks, drops, prices, applied>>

Again(s) == [effect |-> s.effect, pool |-> s.pool]

(* A connection fails or is lost: onerror closes, onclose schedules, once. *)
Drops ==
  \E s \in sockets :
    /\ s.state \in {"connecting", "open"} /\ drops < MaxDrops /\ drops' = drops + 1
    /\ sockets' = sockets \ {s} /\ retry' = retry \cup {Again(s)}
    /\ UNCHANGED <<pick, candleCalls, candles, watched, effect, picks, prices, applied>>

(* onclose of a socket that its effect has closed. *)
Closes ==
  \E s \in sockets :
    /\ s.state = "closing" /\ sockets' = sockets \ {s}
    /\ retry' = IF Disposed(s.effect, effect) THEN retry ELSE retry \cup {Again(s)}
    /\ UNCHANGED <<pick, candleCalls, candles, watched, effect, picks, drops, prices, applied>>

RetryFires ==
  \E r \in retry :
    /\ retry' = retry \ {r} /\ sockets' = connect(sockets, r.effect, r.pool)
    /\ UNCHANGED <<pick, candleCalls, candles, watched, effect, picks, drops, prices, applied>>

(* A price event of the pool that the socket asked for. *)
PriceEvent ==
  \E s \in sockets :
    /\ s.state = "open" /\ s.pool # NoPool1
    /\ prices < MaxPrices /\ prices' = prices + 1
    /\ applied' = applied \cup {s.pool}
    /\ candles' = IF candles = NoPick THEN pick ELSE candles
    /\ UNCHANGED <<pick, candleCalls, watched, sockets, effect, retry, picks, drops>>

FeedStep == CandlesAnswer \/ Opens \/ Closes \/ RetryFires

FeedNext ==
  \/ FeedStep \/ Drops \/ PriceEvent
  \/ \E p \in ChartPairs, i \in Intervals : Pick([pair |-> p, interval |-> i])

FeedSpec == FeedInit /\ [][FeedNext]_feedVars

-----------------------------------------------------------------------------
(* Prices that went into the candles since the pool was set are those of that pool: no socket  *)
(* of an earlier pick is heard, however often it was lost and opened again.                    *)
EventsOfWatchedPool == applied \subseteq {watched}

=============================================================================
