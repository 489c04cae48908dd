----------------------------- MODULE MCServices -----------------------------
(***************************************************************************)
(* The request and job handlers of apps/api that share no state with each   *)
(* other, and the SDK's transactions and quotes, checked in one run: a       *)
(* behaviour exercises the one that `service` names, and the others keep     *)
(* their initial state.                                                     *)
(***************************************************************************)
EXTENDS RateLimiter, WalletAuth, Singleflight, PriceFanout, Candles, PoolStats, TokenEnrichment,
        SdkTransactions, LocalQuote, ReadFeeds, PositionViews, Monitoring,
        Analytics

VARIABLE service

CONSTANT Services    \* the services this run exercises

MCLimit == [x \in {"global", "candles", "auth", "ticks", "transactions"} \X BOOLEAN |->
              IF x[1] = "global" THEN 2 ELSE 1]

MCPrices == <<2, 1>>
MCRangesAsked == {[from |-> 1, to |-> 4]}
MCMaxPrices == [p \in Pools |-> IF p = "xlm" THEN 2 ELSE 0]

(* Square root prices of five ticks, the outer two standing for the ends of the scale. *)
MCRatio  == [t \in 0..4 |-> <<3, 5, 8, 12, 18>>[t + 1]]
MCRanges == {[lower |-> 1, upper |-> 2, liquidity |-> 6], [lower |-> 1, upper |-> 3, liquidity |-> 4],
             [lower |-> 2, upper |-> 3, liquidity |-> 8]}

(* Two positions side by side. *)
MCRangeOfNft == [t \in Nfts |-> IF t = "n1" THEN [lower |-> 1, upper |-> 3] ELSE [lower |-> 3, upper |-> 5]]

MCQueueOfJob == [j \in WatchedJobs |-> IF j = 1 THEN "swaps" ELSE "mints"]
MCQueueOrder == <<"swaps", "mints">>

(* Two intervals, of one bucket and of two; the overview goes with the series of its own day. *)
MCBuckets   == [i \in {"1d", "7d"} |-> IF i = "1d" THEN 1 ELSE 2]
MCKeySlices == {{<<"overview", "all">>, <<"volume", "1d">>}, {<<"tvl", "7d">>}}

requestVars == <<rateVars, authVars, flightVars, fanoutVars>>
jobVars  == <<servedVars, statsVars, tokenVars>>
readVars == <<txVars, ladderVars, feedVars, viewVars>>
adminVars == <<monitorVars, analyticsVars>>
vars == <<service, requestVars, jobVars, readVars, adminVars>>

Init ==
  /\ service \in Services
  /\ RateInit /\ (service # "rate" => linked)
  /\ AuthInit
  /\ FlightInit /\ (service # "flight" => poolRow = 0)
  /\ FanoutInit /\ ServedInit
  /\ StatsInit
  /\ TokenInit
  /\ TxInit     /\ (service # "submit" => deployed = "pool" /\ wish = "burn" /\ held = 1)
  /\ LadderInit /\ (service # "quote" => sqrtPrice = 5)
  /\ FeedInit   /\ (service # "feed" => feed = "swaps")
  /\ PositionViewsInit /\ (service # "positions" => onChain = <<>>)
  /\ MonitorInit
  /\ AnalyticsInit /\ (service # "analytics" => keys = {<<"tvl", "7d">>})

OnRequest(s, A) == service = s /\ A /\ UNCHANGED <<service, jobVars, readVars, adminVars>>
OnJob(s, A)     == service = s /\ A /\ UNCHANGED <<service, requestVars, readVars, adminVars>>
OnRead(s, A)    == service = s /\ A /\ UNCHANGED <<service, requestVars, jobVars, adminVars>>
OnAdmin(s, A)   == service = s /\ A /\ UNCHANGED <<service, requestVars, jobVars, readVars>>

Rate   == OnRequest("rate", RateNext /\ UNCHANGED <<authVars, flightVars, fanoutVars>>)
Auth   == OnRequest("auth", AuthNext /\ UNCHANGED <<rateVars, flightVars, fanoutVars>>)
Flight == OnRequest("flight", FlightNext /\ UNCHANGED <<rateVars, authVars, fanoutVars>>)
Fanout == OnRequest("fanout", FanoutNext /\ UNCHANGED <<rateVars, authVars, flightVars>>)
Candle == OnJob("candle", ServedNext /\ UNCHANGED <<statsVars, tokenVars>>)
Stats  == OnJob("stats", StatsNext /\ UNCHANGED <<servedVars, tokenVars>>)
Token  == OnJob("token", TokenNext /\ UNCHANGED <<servedVars, statsVars>>)
Send   == OnRead("submit", TxNext /\ UNCHANGED <<ladderVars, feedVars, viewVars>>)
Quote  == OnRead("quote", LadderNext /\ UNCHANGED <<txVars, feedVars, viewVars>>)
Page   == OnRead("feed", FeedNext /\ UNCHANGED <<txVars, ladderVars, viewVars>>)
Views  == OnRead("positions", PositionViewsNext /\ UNCHANGED <<txVars, ladderVars, feedVars>>)
Status == OnAdmin("status", QueueNext /\ UNCHANGED analyticsVars)
LagOf  == OnAdmin("lag", LagNext /\ UNCHANGED analyticsVars)
Admin  == OnAdmin("analytics", AnalyticsNext /\ UNCHANGED monitorVars)

Next == Rate \/ Auth \/ Flight \/ Fanout \/ Candle \/ Stats \/ Token \/ Send \/ Quote \/ Page \/ Views
        \/ Status \/ LagOf \/ Admin

(* What the processes and the clock keep doing: a command returns, a waiting request polls,   *)
(* time passes.  Nothing is assumed of new requests, of Redis or of other clients.            *)
Progress == OnRequest("flight", /\ FlightTick \/ \E p \in Readers : ReaderStep(p)
                                /\ UNCHANGED <<rateVars, authVars, fanoutVars>>)

Fairness == WF_vars(Progress)

Spec == Init /\ [][Next]_vars /\ Fairness

(* What the read-only endpoints and the operators' views say is what the rows, the queues, the     *)
(* ledgers and the events of the time say: the pages of ReadFeeds, the positions of               *)
(* PositionViews, the status and the lag of Monitoring, the figures of Analytics.               *)
ReadsAreHonest == FeedInv /\ PositionViewsInv /\ MonitorInv /\ AnalyticsInv
=============================================================================
