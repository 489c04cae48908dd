----------------------------- MODULE PositionViews -----------------------------
(***************************************************************************)
(* GET /positions (positions.service.ts, positions.repository.ts) over the   *)
(* rows that the indexer's mint and burn handlers write, in whatever order   *)
(* their two queues run and retry them.  The liquidity, the fees and the     *)
(* range of a position come from reads that follow each other: the rows,     *)
(* then the swaps and the collected fees of their pool side by side, then    *)
(* the spot price, once for every position.  One pool, one wallet; counting  *)
(* and paging are those of ReadFeeds.                                       *)
(***************************************************************************)
EXTENDS Integers, Sequences, SequencesExt, FiniteSets, FiniteSetsExt

CONSTANTS Nfts,            \* the positions,
          RangeOfNft,      \* function: position -> [lower, upper], as prices
          Leaves,          \* what an event can leave in a position; 0 is "0"
          SpotPrices,      \* prices of the pool
          MaxHappenings    \* bound on the events, their handlings, the swaps and the prices

ASSUME PositionViewsAssumption ==
  /\ IsFiniteSet(Nfts)
  /\ Leaves \subseteq Nat /\ 0 \in Leaves /\ SpotPrices \subseteq Nat
  /\ \A t \in Nfts : /\ RangeOfNft[t].lower \in Nat /\ RangeOfNft[t].upper \in Nat
                      /\ RangeOfNft[t].lower < RangeOfNft[t].upper

VARIABLES onChain,      \* sequence of events: [nft, kind, leaves]
          handled,      \* set: indices of the events that were handled
          happenings,   \* how much of that there was
          nftRow,       \* function: position -> [liquidity, closed], or NoNft
          swapped, collected,   \* rows of the pool's swaps and of its collected fees, as sums
          rowPrice,     \* currentPrice of the pool row, 0 at first
          spot,         \* price:spot in the cache, or NoSpot
          toCache,      \* price events that were written to the row and are not in the cache
          listing       \* the request: [at, wanted, rows, price, vol, fees, shown], or NoListing;
                        \* since, begin and end are history

nftVars   == <<onChain, handled, nftRow>>
priceVars == <<rowPrice, spot, toCache>>
feeVars   == <<swapped, collected>>
viewVars  == <<nftVars, priceVars, feeVars, happenings, listing>>

NoNft  == [liquidity |-> -1, closed |-> FALSE]
NoSpot == -1
NotYet == -1
NoListing == [at |-> "none"]

(* Before the first event, or with positions that were minted before. *)
PositionViewsInit ==
  /\ \/ onChain = <<>> /\ handled = {} /\ nftRow = [t \in Nfts |-> NoNft]
     \/ /\ onChain = [i \in 1..Cardinality(Nfts) |-> [nft |-> SetToSeq(Nfts)[i], kind |-> "mint", leaves |-> 1]]
        /\ handled = DOMAIN onChain /\ nftRow = [t \in Nfts |-> [liquidity |-> 1, closed |-> FALSE]]
  /\ swapped = 0 /\ collected = 0 /\ happenings = 0
  /\ rowPrice = 0 /\ spot = NoSpot /\ toCache = <<>>
  /\ listing = NoListing

(***************************************************************************)
(* The chain and the indexer                                                *)
(***************************************************************************)

(* While an answer is looked at nothing happens. *)
Happens == listing.at # "shown" /\ happenings < MaxHappenings /\ happenings' = happenings + 1

Of(t) == {i \in DOMAIN onChain : onChain[i].nft = t}
Left(t) == IF Of(t) = {} THEN 0 ELSE onChain[Max(Of(t))].leaves

(* A mint leaves more in the position than there was, a burn less. *)
ChainEvent(t, kind, n) ==
  /\ Happens
  /\ IF kind = "mint" THEN n > Left(t) ELSE n < Left(t)
  /\ onChain' = Append(onChain, [nft |-> t, kind |-> kind, leaves |-> n])
  /\ UNCHANGED <<handled, nftRow, priceVars, feeVars, listing>>

(* Variant: what a burn leaves is not looked at. *)
ClosesAny(e) == TRUE
Closes(e) == e.leaves = 0

(* The upsert of the position; a job that is retried or replayed does it again.                    *)
Upserted(i, closes) ==
  /\ Happens
  /\ LET e == onChain[i]
     IN  nftRow' = [nftRow EXCEPT ![e.nft] = [liquidity |-> e.leaves, closed |-> @.closed \/ closes]]
  /\ handled' = handled \cup {i}
  /\ UNCHANGED <<onChain, priceVars, feeVars, listing>>

HandlePositionMinted(i) == onChain[i].kind = "mint" /\ Upserted(i, FALSE)
HandlePositionBurned(i) == onChain[i].kind = "burn" /\ Upserted(i, Closes(onChain[i]))

SwapOrCollect ==
  /\ Happens
  /\ \/ swapped' = swapped + 1 /\ UNCHANGED collected
     \/ collected < swapped /\ collected' = collected + 1 /\ UNCHANGED swapped
  /\ UNCHANGED <<nftVars, priceVars, listing>>

(* HorizonService: the pool row takes the price of an event, then it is published. *)
PriceEvent(price) ==
  /\ Happens
  /\ rowPrice' = price /\ toCache' = Append(toCache, price)
  /\ listing' = IF listing = NoListing THEN listing ELSE [listing EXCEPT !.since = @ \cup {price}]
  /\ UNCHANGED <<nftVars, feeVars, spot>>

(* PriceService: the published price is put into the cache, or lost; and it expires. *)
SpotArrives ==
  /\ listing.at # "shown" /\ toCache # <<>> /\ toCache' = Tail(toCache)
  /\ spot' \in {Head(toCache), spot}
  /\ UNCHANGED <<nftVars, feeVars, rowPrice, happenings, listing>>

SpotExpires ==
  /\ listing.at # "shown" /\ spot # NoSpot /\ spot' = NoSpot
  /\ UNCHANGED <<nftVars, feeVars, rowPrice, toCache, happenings, listing>>

(***************************************************************************)
(* The request                                                             *)
(***************************************************************************)

(* What is current while a request runs: the prices of the row and of the cache, and the events    *)
(* on their way between the two.                                                                *)
Current == {rowPrice} \cup ({spot} \ {NoSpot}) \cup {toCache[i] : i \in DOMAIN toCache}

(* listPositionsByWallet: the rows and their pool's. *)
Wanted(wanted, row) ==
  /\ row # NoNft
  /\ \/ wanted = "all"
     \/ wanted = "active" /\ ~row.closed
     \/ wanted = "closed" /\ row.closed

PoolSums == [swapped |-> swapped, collected |-> collected]

GetPositions(wanted) ==
  /\ listing = NoListing
  /\ LET rows == [t \in {u \in Nfts : Wanted(wanted, nftRow[u])} |-> nftRow[t]]
     IN  listing' = [at |-> "fees", wanted |-> wanted, rows |-> rows, price |-> rowPrice,
                     vol |-> NotYet, fees |-> NotYet, shown |-> <<>>,
                     since |-> Current, begin |-> PoolSums, end |-> PoolSums]
  /\ UNCHANGED <<nftVars, priceVars, feeVars, happenings>>

(* toSnapshots: either answer comes first. *)
SwapsAnswer ==
  /\ listing.at = "fees" /\ listing.vol = NotYet
  /\ listing' = [listing EXCEPT !.vol = swapped] /\ UNCHANGED <<nftVars, priceVars, feeVars, happenings>>

CollectedAnswer ==
  /\ listing.at = "fees" /\ listing.fees = NotYet
  /\ listing' = [listing EXCEPT !.fees = collected] /\ UNCHANGED <<nftVars, priceVars, feeVars, happenings>>

(* Amounts per unit of liquidity: those of token0 follow the swaps, those of token1 do not.        *)
Unclaimed0(l) == IF l.vol > l.fees THEN l.vol - l.fees ELSE 0
Unclaimed1(l) == l.fees

Snapshots ==
  /\ listing.at = "fees" /\ listing.vol # NotYet /\ listing.fees # NotYet
  /\ listing' = [listing EXCEPT !.at = "range"]
  /\ UNCHANGED <<nftVars, priceVars, feeVars, happenings>>

InRange(t, price) == price > RangeOfNft[t].lower /\ price < RangeOfNft[t].upper

(* toResponse of a position: all are under way at once. *)
ToResponse(t) ==
  /\ listing.at = "range" /\ t \in DOMAIN listing.rows \ DOMAIN listing.shown
  /\ LET row == listing.rows[t]
         price == IF spot = NoSpot THEN listing.price ELSE spot
         item == [status |-> IF row.closed THEN "closed" ELSE "active",
                  range  |-> IF row.closed THEN "none" ELSE IF InRange(t, price) THEN "in" ELSE "out",
                  fees0  |-> row.liquidity * Unclaimed0(listing),
                  fees1  |-> row.liquidity * Unclaimed1(listing)]
     IN  listing' = [listing EXCEPT !.shown = [u \in DOMAIN @ \cup {t} |-> IF u = t THEN item ELSE @[u]]]
  /\ UNCHANGED <<nftVars, priceVars, feeVars, happenings>>

ShowPositions ==
  /\ listing.at = "range" /\ DOMAIN listing.shown = DOMAIN listing.rows
  /\ listing' = [listing EXCEPT !.at = "shown", !.end = PoolSums]
  /\ UNCHANGED <<nftVars, priceVars, feeVars, happenings>>

NextListing ==
  /\ listing.at = "shown" /\ listing' = NoListing
  /\ UNCHANGED <<nftVars, priceVars, feeVars, happenings>>

PositionViewsNext ==
  \/ \E t \in Nfts, n \in Leaves : ChainEvent(t, "mint", n) \/ ChainEvent(t, "burn", n)
  \/ \E i \in DOMAIN onChain : HandlePositionMinted(i) \/ HandlePositionBurned(i)
  \/ SwapOrCollect \/ (\E p \in SpotPrices : PriceEvent(p)) \/ SpotArrives \/ SpotExpires
  \/ \E w \in {"all", "active", "closed"} : GetPositions(w)
  \/ SwapsAnswer \/ CollectedAnswer \/ Snapshots \/ (\E t \in Nfts : ToResponse(t)) \/ ShowPositions \/ NextListing

(***************************************************************************)
(* Properties                                                              *)
(***************************************************************************)

Handled(t) == Of(t) \cap handled
Emptied(t) == \E i \in Handled(t) : onChain[i].leaves = 0
Refilled(t) == \E i, j \in Of(t) : i < j /\ onChain[i].leaves = 0

(* A position is closed exactly if it was emptied by an event that was handled, in whatever order  *)
(* the mints and burns came; and with all its events handled and none since it was emptied, that   *)
(* is what it is on the chain.  closedAt is never reset: one that is filled again stays closed.   *)
ClosedIffEmptied ==
  \A t \in Nfts :
    /\ nftRow[t].closed <=> Emptied(t)
    /\ Handled(t) = Of(t) /\ Of(t) # {} /\ ~Refilled(t) => (nftRow[t].closed <=> Left(t) = 0)

(* Of the positions of the wallet the two lists show each once, and with the liquidity of one of   *)
(* its events.                                                                                   *)
ListsPartition ==
  listing.at = "shown" =>
    \A t \in DOMAIN listing.rows :
      /\ listing.wanted \in {"all", listing.shown[t].status}
      /\ \E i \in Handled(t) : onChain[i].leaves = listing.rows[t].liquidity
      /\ listing.shown[t].status = "closed" <=> listing.shown[t].range = "none"

(* The range status is that of a price that was in the pool row or the cache during the request;   *)
(* and two positions with nothing in common are both in range only if the price moved meanwhile.   *)
RangeOfTheTime ==
  listing.at = "shown" =>
    /\ \A t \in DOMAIN listing.shown :
         listing.shown[t].range # "none" =>
           \E p \in listing.since : (listing.shown[t].range = "in") = InRange(t, p)
    /\ \A t, u \in DOMAIN listing.shown :
         (RangeOfNft[t].upper <= RangeOfNft[u].lower /\ {listing.shown[v].range : v \in {t, u}} = {"in"})
           => Cardinality(listing.since) > 1

(* No more fees of token0 are shown than were due to the liquidity at some moments of the          *)
(* request, although swaps and collections are read at different ones.                           *)
FeesOfTheTime ==
  listing.at = "shown" =>
    \A t \in DOMAIN listing.shown :
      /\ listing.shown[t].fees0 <= listing.rows[t].liquidity * (listing.end.swapped - listing.begin.collected)
      /\ listing.shown[t].fees0 >= listing.rows[t].liquidity * (listing.begin.swapped - listing.end.collected)

PositionViewsInv == ClosedIffEmptied /\ ListsPartition /\ RangeOfTheTime /\ FeesOfTheTime
=============================================================================
