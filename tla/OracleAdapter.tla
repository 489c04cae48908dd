---------------------------- MODULE OracleAdapter ----------------------------
(***************************************************************************)
(* The oracle adapter (packages/contract/contracts/oracle-adapter): a      *)
(* circular buffer of cumulative prices, written by its pool after every   *)
(* swap, and the time-weighted average price read from it.  The cumulative *)
(* liquidity, computed the same way and read by nothing, is left out.      *)
(***************************************************************************)
EXTENDS Integers, FiniteSets, FiniteSetsExt

CONSTANT BufferSize  \* BUFFER_SIZE: 65535 in the code

ASSUME BufferAssumption == BufferSize \in Nat \ {0}

VARIABLES
    observations,    \* slot -> [timestamp, cumulative], the slots written so far
    writeIndex,      \* the next slot to write
    observationCount

oracleVars == <<observations, writeIndex, observationCount>>

Slots == 0 .. BufferSize - 1

InitOracle ==
    /\ observations = [s \in {} |-> s]
    /\ writeIndex = 0
    /\ observationCount = 0

Latest == (writeIndex + BufferSize - 1) % BufferSize
Oldest == IF observationCount < BufferSize THEN 0 ELSE writeIndex

NextSlot == (writeIndex + 1) % BufferSize

(* write_observation; the caller is the registered pool. *)
WriteObservation(now, sqrtPrice) ==
    LET prev == observations[Latest]
        cumulative ==
            IF observationCount = 0
            THEN 0
            ELSE prev.cumulative + sqrtPrice * (now - prev.timestamp)
        obs == [timestamp |-> now, cumulative |-> cumulative]
    IN  /\ observations' = [s \in DOMAIN observations \cup {writeIndex} |->
                               IF s = writeIndex THEN obs ELSE observations[s]]
        /\ writeIndex' = NextSlot
        /\ observationCount' = Min({observationCount + 1, BufferSize})

(* The slot at position i of the buffer, oldest first. *)
SlotAt(i) == (Oldest + i) % BufferSize

(* Variant: the probe moves past an observation made exactly at the target. *)
BeforeOnly(i, target) == observations[SlotAt(i)].timestamp < target

NotAfter(i, target) == observations[SlotAt(i)].timestamp <= target

(* binary_search_observation: lo, hi and the best position so far, one probe *)
(* per step.                                                                 *)
StartSlot(target) ==
    LET search[n \in 0 .. observationCount] ==
            IF n = 0
            THEN [lo |-> 0, hi |-> observationCount - 1, best |-> 0]
            ELSE LET s   == search[n - 1]
                     mid == s.lo + (s.hi - s.lo) \div 2
                 IN  IF s.lo > s.hi THEN s
                     ELSE IF NotAfter(mid, target)
                     THEN [s EXCEPT !.lo = mid + 1, !.best = mid]
                     ELSE IF mid = 0 THEN [s EXCEPT !.lo = s.hi + 1]
                     ELSE [s EXCEPT !.hi = mid - 1]
    IN  SlotAt(search[observationCount].best)

Target(window) ==
    Max({0, observations[Latest].timestamp - window})
(* get_twap answers, and the interval its answer averages over. *)
TwapDefined(window) ==
    /\ observationCount >= 2
    /\ observations[Oldest].timestamp <= Target(window)
    /\ observations[Latest].timestamp # observations[StartSlot(Target(window))].timestamp

Twap(window) ==
    LET from == observations[StartSlot(Target(window))]
        to   == observations[Latest]
    IN  (to.cumulative - from.cumulative) \div (to.timestamp - from.timestamp)
=============================================================================
