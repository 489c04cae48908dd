----------------------------- MODULE PriceFanout -----------------------------
(***************************************************************************)
(* Live prices: PriceGateway and PriceService (apps/api/src/price).  Web    *)
(* socket clients subscribe to pools; the service keeps both directions of  *)
(* the relation and a Redis subscription per watched pool, whose commands   *)
(* it does not await.  The Horizon poller hands each price to the local     *)
(* clients and publishes it, so that a client hears it on two paths.        *)
(***************************************************************************)
EXTENDS Integers, Sequences, SequencesExt, FiniteSets

CONSTANTS Clients, Pools,
          MaxSubscriptions,   \* getMaxSubscriptionsPerClient
          MaxPrices,          \* [pool |-> bound on its prices]
          MaxPipe             \* bound on the commands under way

ASSUME FanoutAssumption == MaxSubscriptions \in Nat \ {0} /\ MaxPrices \in [Pools -> Nat] /\ MaxPipe \in Nat

VARIABLES socket,        \* [client |-> "new", "open" or "closed"]
          subscriptions, \* [pool |-> clients]; the map has a key where this is not empty
          clientPools,   \* [client |-> pools]
          channels,      \* Redis: channels the subscriber connection listens to
          pipe,          \* its commands under way, in order
          subscriberUp,  \* BOOLEAN
          latest,        \* [pool |-> number of its last price]
          publishing,    \* the prices the poller has handed out but not yet published
          inbox,         \* messages under way to the subscriber
          heard,         \* [client |-> [pool |-> last price sent since it subscribed, 0 when none]]
          publishLost    \* history: pools of which a publication was lost

fanoutVars == <<socket, subscriptions, clientPools, channels, pipe, subscriberUp,
                latest, publishing, inbox, heard, publishLost>>

FanoutInit ==
  /\ socket = [c \in Clients |-> "new"]
  /\ subscriptions = [p \in Pools |-> {}] /\ clientPools = [c \in Clients |-> {}]
  /\ channels = {} /\ pipe = <<>> /\ subscriberUp = TRUE
  /\ latest = [p \in Pools |-> 0] /\ publishing = <<>> /\ inbox = <<>>
  /\ heard = [c \in Clients |-> [p \in Pools |-> 0]] /\ publishLost = {}

Watched == {p \in Pools : subscriptions[p] # {}}
Command(verb, pools) == [verb |-> verb, pools |-> pools]

pricesUnchanged == UNCHANGED <<latest, publishing, inbox, publishLost>>

(* afterInit: a connection with a valid token is kept, any other is closed. *)
Connect(c) ==
  /\ socket[c] = "new"
  /\ \E valid \in BOOLEAN : socket' = [socket EXCEPT ![c] = IF valid THEN "open" ELSE "closed"]
  /\ UNCHANGED <<subscriptions, clientPools, channels, pipe, subscriberUp, heard>> /\ pricesUnchanged

(* The message "subscribe": refused at the limit, even for a pool it already has. *)
Subscribe(c, p) ==
  /\ socket[c] = "open" /\ Cardinality(clientPools[c]) < MaxSubscriptions
  /\ Len(pipe) < MaxPipe
  /\ subscriptions' = [subscriptions EXCEPT ![p] = @ \cup {c}]
  /\ clientPools' = [clientPools EXCEPT ![c] = @ \cup {p}]
  /\ pipe' = IF p \in Watched THEN pipe ELSE Append(pipe, Command("subscribe", {p}))
  /\ UNCHANGED <<socket, channels, subscriberUp, heard>> /\ pricesUnchanged

(* Variant: every pool it leaves, watched by others or not. *)
AllLeft(c, ps) == {p \in ps : c \in subscriptions[p]}
GivenUp(c, ps) == {p \in ps : subscriptions[p] = {c}}

(* unsubscribe of c from the pools ps: the last to leave a pool gives its channel up. *)
Leave(c, ps) ==
  LET gone == GivenUp(c, ps) IN
    /\ subscriptions' = [p \in Pools |-> IF p \in ps THEN subscriptions[p] \ {c} ELSE subscriptions[p]]
    /\ clientPools' = [clientPools EXCEPT ![c] = @ \ ps]
    /\ heard' = [heard EXCEPT ![c] = [p \in Pools |-> IF p \in ps THEN 0 ELSE @[p]]]
    /\ pipe' = IF gone = {} THEN pipe ELSE Append(pipe, Command("unsubscribe", gone))

Unsubscribe(c, p) ==
  /\ socket[c] = "open" /\ Len(pipe) < MaxPipe
  /\ Leave(c, {p})
  /\ UNCHANGED <<socket, channels, subscriberUp>> /\ pricesUnchanged

(* Variant: the pools of a closed socket are kept. *)
Nothing(c) == {}
AllOf(c) == clientPools[c]

(* close, error, handleDisconnect: removeClient. *)
Disconnect(c) ==
  /\ socket[c] = "open" /\ Len(pipe) < MaxPipe
  /\ socket' = [socket EXCEPT ![c] = "closed"]
  /\ Leave(c, AllOf(c))
  /\ UNCHANGED <<channels, subscriberUp>> /\ pricesUnchanged

(* Redis runs the first command under way. *)
RunCommand ==
  /\ subscriberUp /\ pipe # <<>>
  /\ channels' = IF Head(pipe).verb = "subscribe" THEN channels \cup Head(pipe).pools
                 ELSE channels \ Head(pipe).pools
  /\ pipe' = Tail(pipe)
  /\ UNCHANGED <<socket, subscriptions, clientPools, subscriberUp, heard>> /\ pricesUnchanged

(* The connection breaks: its channels, the messages under way, and any commands are lost. *)
SubscriberDown ==
  /\ subscriberUp /\ Len(pipe) < MaxPipe
  /\ subscriberUp' = FALSE /\ channels' = {} /\ inbox' = <<>>
  /\ \E keep \in 0..Len(pipe) : pipe' = SubSeq(pipe, Len(pipe) - keep + 1, Len(pipe))
  /\ publishLost' = publishLost \cup {m.pool : m \in ToSet(inbox)}
  /\ UNCHANGED <<socket, subscriptions, clientPools, latest, publishing, heard>>

(* The 'ready' handler: subscribe to every pool that is watched now, behind what was queued. *)
SubscriberReady ==
  /\ ~subscriberUp
  /\ subscriberUp' = TRUE
  /\ pipe' = IF Watched = {} THEN pipe ELSE Append(pipe, Command("subscribe", Watched))
  /\ UNCHANGED <<socket, subscriptions, clientPools, channels, heard>> /\ pricesUnchanged

(* broadcastPrice. *)
Broadcast(p, n) ==
  heard' = [c \in Clients |-> IF c \in subscriptions[p] THEN [heard[c] EXCEPT ![p] = n] ELSE heard[c]]

PriceSent(p) == latest[p] + 1

(* The poller hands a price to the local clients, then publishes it; publish gives up quietly. *)
NewPrice(p) ==
  /\ publishing = <<>> /\ latest[p] < MaxPrices[p]
  /\ latest' = [latest EXCEPT ![p] = @ + 1]
  /\ Broadcast(p, PriceSent(p))
  /\ publishing' = <<[pool |-> p, n |-> PriceSent(p)]>>
  /\ UNCHANGED <<socket, subscriptions, clientPools, channels, pipe, subscriberUp, inbox, publishLost>>

Publish ==
  /\ publishing # <<>> /\ publishing' = <<>>
  /\ LET m == Head(publishing) IN
       \/ /\ m.pool \in channels /\ inbox' = Append(inbox, m) /\ UNCHANGED publishLost
       \/ /\ inbox' = inbox /\ publishLost' = publishLost \cup {m.pool}
  /\ UNCHANGED <<socket, subscriptions, clientPools, channels, pipe, subscriberUp, latest, heard>>

(* The 'message' handler: broadcast again, and remember the price in the cache for a while. *)
Message ==
  /\ inbox # <<>> /\ inbox' = Tail(inbox)
  /\ Broadcast(Head(inbox).pool, Head(inbox).n)
  /\ UNCHANGED <<socket, subscriptions, clientPools, channels, pipe, subscriberUp, latest, publishing, publishLost>>

FanoutStep == RunCommand \/ SubscriberReady \/ Publish \/ Message
FanoutNext == \/ FanoutStep \/ SubscriberDown
              \/ \E c \in Clients : Connect(c) \/ Disconnect(c)
                                    \/ \E p \in Pools : Subscribe(c, p) \/ Unsubscribe(c, p)
              \/ \E p \in Pools : NewPrice(p)
FanoutSpec == FanoutInit /\ [][FanoutNext]_fanoutVars

(***************************************************************************)
(* Properties                                                              *)
(***************************************************************************)

(* The two maps mirror each other, so that nothing is sent to a socket that is gone and no    *)
(* client holds more pools than the limit (price.gateway.ts:119).                             *)
MapsAgree ==
  \A c \in Clients : /\ clientPools[c] = {p \in Pools : c \in subscriptions[p]}
                     /\ socket[c] # "open" => clientPools[c] = {}
                     /\ Cardinality(clientPools[c]) <= MaxSubscriptions

(* When no command is under way every watched pool has its channel: a last leaver, a newcomer *)
(* and a reconnect, in any order, never leave a client on a channel nobody listens to.        *)
WatchedIsHeard == subscriberUp /\ pipe = <<>> => Watched \subseteq channels

(* When all is delivered a client's last price is the pool's latest, unless a publication was *)
(* lost: then an earlier one that comes in by Redis may have overwritten the one sent at once *)
(* (horizon.service.ts:171).                                                                  *)
LatestHeardLast ==
  publishing = <<>> /\ inbox = <<>> =>
    \A p \in Pools \ publishLost : \A c \in subscriptions[p] : heard[c][p] \in {0, latest[p]}

(* Every client hears the latest price of the pools it watches, and of no others.             *)
FanoutInv == MapsAgree /\ WatchedIsHeard /\ LatestHeardLast
=============================================================================
