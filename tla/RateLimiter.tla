----------------------------- MODULE RateLimiter -----------------------------
(***************************************************************************)
(* RateLimitMiddleware (apps/api/src/rate-limit/rate-limit.middleware.ts).  *)
(* Every request but /health and /metrics is counted under one or two rules *)
(* in Redis.  The rules are counted side by side (Promise.all), each with   *)
(* three commands that other requests interleave with: INCR, EXPIRE by the  *)
(* one that found 1, TTL.  Redis and its counters outlive the process.      *)
(***************************************************************************)
EXTENDS Integers, FiniteSets

CONSTANTS Requests,      \* requests, each made once
          Routes,        \* a subset of AllRoutes that the requests use
          Callers,       \* what identityFor tells apart
          Internal,      \* the callers that send the internal key
          Limit,         \* [rule |-> limit] of the environment, or its default
          Window,        \* windowSeconds, in ticks of the clock
          Production     \* NODE_ENV = production

AllRoutes == {"health", "candles", "auth", "transactions.post", "transactions.get", "ticks", "other"}

RuleNames == {"global", "candles", "auth", "ticks", "transactions"}

ASSUME RateAssumption == /\ Routes \subseteq AllRoutes /\ Callers # {} /\ Internal \subseteq Callers
                         /\ \A x \in RuleNames \X BOOLEAN : Limit[x] \in Nat
                         /\ Window \in Nat \ {0} /\ Production \in BOOLEAN

VARIABLES counts,        \* Redis: [key |-> value], 0 when the key is absent
          expiry,        \* Redis: [key |-> remaining ticks], NoExpiry when none is set
          gate,          \* [request |-> where the middleware is with it]
          linked,        \* BOOLEAN: this.redis # null
          orphaned       \* history: keys whose EXPIRE was lost with a command or a process

rateVars == <<counts, expiry, gate, linked, orphaned>>

NoExpiry == -1

(* endpointRuleFor: the group of endpoints a route carries a stricter rule of. *)
EndpointRuleFor(route) ==
  CASE route \in {"candles", "auth", "ticks"} -> {route}
    [] route = "transactions.post"            -> {"transactions"}
    [] OTHER                                  -> {}

(* rulesFor: the global rule, and the endpoint's. *)
RulesFor(route) == {"global"} \cup EndpointRuleFor(route)

(* routeBucketFor: unlike the rule it does not look at the method. *)
RouteBucketFor(route) ==
  CASE route \in {"transactions.post", "transactions.get"} -> "transactions"
    [] route \in {"candles", "auth", "ticks"}              -> route
    [] OTHER                                               -> "global"

(* The key names rule (internal or not), identity and route bucket. *)
KeyOf(rule, who, route) ==
  [rule |-> rule, internal |-> who \in Internal, who |-> who, bucket |-> RouteBucketFor(route)]
Keys == {KeyOf(rule, who, route) : rule \in RuleNames, who \in Callers, route \in Routes}
LimitOf(key) == Limit[<<key.rule, key.internal>>]

Waiting == [at |-> "none", route |-> "other", who |-> CHOOSE w \in Callers : TRUE,
            step |-> [rule \in {} |-> "incr"], total |-> [rule \in {} |-> 0]]

RateInit == /\ counts = [k \in Keys |-> 0] /\ expiry = [k \in Keys |-> NoExpiry]
            /\ gate = [r \in Requests |-> Waiting]
            /\ linked \in BOOLEAN           \* connect() in onModuleInit resolves, or fails for good
            /\ orphaned = {}

RuleKey(r, rule) == KeyOf(rule, gate[r].who, gate[r].route)

(* handleRedisUnavailable: 503 in production, degraded headers elsewhere. *)
Unavailable == IF Production THEN "503" ELSE "uncounted"

(* The rules a request is counted under: none for /health, and none without Redis. *)
RulesOf(route) == IF linked /\ route # "health" THEN RulesFor(route) ELSE {}

(* use(), up to its first await. *)
Use(r) ==
  \E route \in Routes, who \in Callers :
    /\ gate[r].at = "none"
    /\ gate' = [gate EXCEPT ![r] =
         [at    |-> IF route = "health" THEN "passed" ELSE IF linked THEN "counting" ELSE Unavailable,
          route |-> route, who |-> who,
          step  |-> [rule \in RulesOf(route) |-> "incr"],
          total |-> [rule \in RulesOf(route) |-> 0]]]
    /\ UNCHANGED <<counts, expiry, linked, orphaned>>

Commands(r) == {rule \in DOMAIN gate[r].step : gate[r].step[rule] # "done"}

(* Variant: the second hit sets the expiry. *)
SecondExpires(before) == IF before = 1 THEN "expire" ELSE "ttl"
AfterIncr(before) == IF before = 0 THEN "expire" ELSE "ttl"

(* hit(): INCR; the one that finds 1 sets the expiry; TTL ends it. *)
Incr(r, rule) ==
  /\ gate[r].step[rule] = "incr"
  /\ LET k == RuleKey(r, rule) IN
       /\ counts' = [counts EXCEPT ![k] = @ + 1]
       /\ gate' = [gate EXCEPT ![r].total[rule] = counts[k] + 1,
                               ![r].step[rule] = AfterIncr(counts[k])]
  /\ UNCHANGED <<expiry, linked, orphaned>>

Expire(r, rule) ==
  /\ gate[r].step[rule] = "expire"
  /\ expiry' = [expiry EXCEPT ![RuleKey(r, rule)] = Window]
  /\ gate' = [gate EXCEPT ![r].step[rule] = "ttl"]
  /\ UNCHANGED <<counts, linked, orphaned>>

ReadTtl(r, rule) ==
  /\ gate[r].step[rule] = "ttl"
  /\ gate' = [gate EXCEPT ![r].step[rule] = "done"]
  /\ UNCHANGED <<counts, expiry, linked, orphaned>>

Exceeded(r) == \E rule \in DOMAIN gate[r].total :
                 gate[r].total[rule] > LimitOf(RuleKey(r, rule))

(* effectiveHit and the answer: the first exceeded rule blocks. *)
Answer(r) ==
  /\ gate[r].at = "counting" /\ Commands(r) = {}
  /\ gate' = [gate EXCEPT ![r].at = IF Exceeded(r) THEN "429" ELSE "passed"]
  /\ UNCHANGED <<counts, expiry, linked, orphaned>>

(* A command fails before or after Redis ran it: Promise.all rejects at once, the request is *)
(* answered, and the other rule's commands go on in the background.                          *)
CommandFails(r, rule) ==
  /\ gate[r].step[rule] \in {"incr", "expire", "ttl"}
  /\ LET k == RuleKey(r, rule)
         s == gate[r].step[rule] IN
       \E ran \in BOOLEAN :
         /\ counts' = IF s = "incr" /\ ran THEN [counts EXCEPT ![k] = @ + 1] ELSE counts
         /\ expiry' = IF s = "expire" /\ ran THEN [expiry EXCEPT ![k] = Window] ELSE expiry
         /\ orphaned' = IF \/ s = "incr" /\ ran /\ counts[k] = 0
                           \/ s = "expire" /\ ~ran
                        THEN orphaned \cup {k} ELSE orphaned
         /\ gate' = [gate EXCEPT ![r].at = IF @ = "counting" THEN Unavailable ELSE @,
                                 ![r].step[rule] = "done"]
  /\ UNCHANGED linked

(* The process dies and starts again: what it was doing is gone, the counters are not. *)
RateRestart ==
  /\ \E r \in Requests : gate[r].at = "counting"
  /\ orphaned' = orphaned \cup
       UNION {{RuleKey(r, rule) : rule \in {u \in Commands(r) : gate[r].step[u] = "expire"}}
              : r \in Requests}
  /\ gate' = [r \in Requests |->
       [gate[r] EXCEPT !.at = IF @ = "counting" THEN "dropped" ELSE @,
                       !.step = [rule \in DOMAIN @ |-> "done"]]]
  /\ linked' \in BOOLEAN
  /\ UNCHANGED <<counts, expiry>>

(* A tick of the clock: keys whose time is up are gone. *)
RateTick ==
  /\ \E k \in Keys : expiry[k] # NoExpiry
  /\ LET due == {k \in Keys : expiry[k] = 1} IN
       /\ counts' = [k \in Keys |-> IF k \in due THEN 0 ELSE counts[k]]
       /\ expiry' = [k \in Keys |-> IF k \in due \/ expiry[k] = NoExpiry THEN NoExpiry
                                    ELSE expiry[k] - 1]
       /\ orphaned' = orphaned \ due
  /\ UNCHANGED <<gate, linked>>

RateStep == \/ \E r \in Requests : Answer(r) \/ \E rule \in Commands(r) : Incr(r, rule) \/ Expire(r, rule) \/ ReadTtl(r, rule)
RateNext == \/ RateStep
            \/ \E r \in Requests : Use(r) \/ \E rule \in Commands(r) : CommandFails(r, rule)
            \/ RateRestart \/ RateTick

RateSpec == RateInit /\ [][RateNext]_rateVars

(***************************************************************************)
(* Properties                                                              *)
(***************************************************************************)

(* A counter without an expiry belongs to a request that is about to set one, or the command  *)
(* that would have set it was lost with a connection or a process: hit() at :300 has no other *)
(* way to leave a caller limited for good.                                                    *)
ExpiryArmed ==
  \A k \in Keys : counts[k] > 0 /\ expiry[k] = NoExpiry =>
    \/ k \in orphaned
    \/ \E r \in Requests : \E rule \in Commands(r) :
         RuleKey(r, rule) = k /\ gate[r].step[rule] = "expire"

(* In production a request gets through only counted, and within the limit, under every rule  *)
(* of its route: no failure of Redis in the middle of the two counts lets it through.         *)
PassMeansCounted ==
  Production => \A r \in Requests :
    gate[r].at \in {"passed", "uncounted"} /\ gate[r].route # "health" =>
      \A rule \in RulesFor(gate[r].route) : gate[r].total[rule] \in 1..LimitOf(RuleKey(r, rule))

(* No caller is limited for good, and none gets through uncounted.                            *)
RateInv == ExpiryArmed /\ PassMeansCounted
=============================================================================
