------------------------------- MODULE Candles -------------------------------
(***************************************************************************)
(* Price candles: CandlesService and CandlesWorker (apps/api/src/candles).  *)
(* Time is counted in 5-minute periods.  "5m" stands for the intervals that *)
(* are folded from swaps (1m, 5m, 1d), "1h" for the one folded from 5m      *)
(* candles.  One pool: the loop over pools repeats the same upsert.  Two    *)
(* activities interleave at every await: the start-up (clear, backfill,     *)
(* register) and the BullMQ worker, which is created first.                 *)
(***************************************************************************)
EXTENDS Integers, Sequences, SequencesExt, FiniteSets

CONSTANTS HourLen,       \* periods of an hour
          Prices,        \* the prices of the swaps, in their order: bounds their number
          MaxCandleTime, \* bound on the time
          MaxBoots       \* bound on the starts

ASSUME CandleAssumption ==
  HourLen \in Nat \ {0} /\ Prices \in Seq(Int) /\ {MaxCandleTime, MaxBoots} \subseteq Nat

VARIABLES now,           \* the time, in periods
          swaps,         \* swapProcessed rows in order of createdAt: [at, price]
          candle,        \* [interval |-> [periodStart |-> row]], NoCandle where there is none
          due,           \* jobs in BullMQ's wait set: [interval, at]
          repeating,     \* intervals with a repeatable job
          boot,          \* start-up: [at, interval, period, last]
          work,          \* worker: [at, interval, period, row, job]
          boots,         \* number of starts
          excused,       \* history: 5m periods whose own job did not run, or not in time
          healed         \* history: [interval |-> where its backfill of this start ended]

candleVars == <<now, swaps, candle, due, repeating, boot, work, boots, excused, healed>>

Intervals == {"5m", "1h"}
IntervalLen(i) == IF i = "1h" THEN HourLen ELSE 1
NoCandle == <<>>

(* accumulate: one more sample, if there is one, into the running candle. *)
Accumulate(row, s) ==
  IF s = NoCandle THEN row
  ELSE IF row = NoCandle THEN s
  ELSE [open |-> row.open, high |-> IF s.high > row.high THEN s.high ELSE row.high,
        low |-> IF s.low < row.low THEN s.low ELSE row.low, close |-> s.close,
        volume |-> row.volume + s.volume]

FoldRows(samples) == FoldLeft(Accumulate, NoCandle, samples)

SwapSample(s) == [open |-> s.price, high |-> s.price, low |-> s.price, close |-> s.price, volume |-> 1]

(* The swaps of some periods, and the 5m candles of a range. *)
FoldSwaps(S) ==
  FoldRows([n \in 1..Len(swaps) |-> IF swaps[n].at \in S THEN SwapSample(swaps[n]) ELSE NoCandle])
FoldFives(from, to) == FoldRows([k \in 1..(to - from) |-> candle["5m"][from + k - 1]])

(* What aggregatePeriod computes when it reads its source. *)
ReadPeriod(i, p) == IF i = "1h" THEN FoldFives(p, p + HourLen) ELSE FoldSwaps({p})

(* The last complete period of an interval: of `now`, not of the job's own time. *)
LastPeriod(i) == ((now - IntervalLen(i)) \div IntervalLen(i)) * IntervalLen(i)

Periods == 0..MaxCandleTime
Down == [at |-> "down", interval |-> "5m", period |-> 0, last |-> 0, row |-> NoCandle]
Idle == [at |-> "idle", interval |-> "5m", period |-> 0, row |-> NoCandle, job |-> 0]

CandleInit ==
  /\ now = 0 /\ swaps = <<>> /\ candle = [i \in Intervals |-> [p \in Periods |-> NoCandle]]
  /\ due = {} /\ repeating = {} /\ boot = Down /\ work = Idle
  /\ boots = 0 /\ excused = {} /\ healed = [i \in Intervals |-> 0]

Upsert(i, p, row) == candle' = IF row = NoCandle THEN candle ELSE [candle EXCEPT ![i][p] = row]

SwapHappens ==
  /\ Len(swaps) < Len(Prices)
  /\ swaps' = Append(swaps, [at |-> now, price |-> Prices[Len(swaps) + 1]])
  /\ UNCHANGED <<now, candle, due, repeating, boot, work, boots, excused, healed>>

(* BullMQ makes the repeatable jobs due at the ends of their periods, up or down. *)
TimePasses ==
  /\ now < MaxCandleTime /\ now' = now + 1
  /\ due' = due \cup {[interval |-> i, at |-> now + 1] :
                      i \in {j \in repeating : (now + 1) % IntervalLen(j) = 0}}
  /\ excused' = excused \cup (IF "5m" \in repeating THEN {} ELSE {now})
                        \cup {j.at - 1 : j \in {k \in due : k.interval = "5m"}}
  /\ UNCHANGED <<swaps, candle, repeating, boot, work, boots, healed>>

(* onModuleInit: the worker is there at once; repeatable jobs are removed, due ones are not. *)
Start ==
  /\ boot.at = "down" /\ boots < MaxBoots
  /\ boots' = boots + 1 /\ repeating' = {}
  /\ boot' = [Down EXCEPT !.at = "backfill"]
  /\ healed' = [i \in Intervals |-> 0]
  /\ UNCHANGED <<now, swaps, candle, due, work, excused>>

(* In schedule order: the 5m series, then the 1h series, then the repeatable jobs. *)
BackfillEnds ==
  /\ boot' = IF boot.interval = "5m" THEN [Down EXCEPT !.at = "backfill", !.interval = "1h"]
             ELSE [Down EXCEPT !.at = "register"]
  /\ healed' = [healed EXCEPT ![boot.interval] = boot.last]

(* Variant: from the period after that of the first swap. *)
SecondPeriod(i) == (swaps[1].at \div IntervalLen(i) + 1) * IntervalLen(i)
FirstPeriod(i) == (swaps[1].at \div IntervalLen(i)) * IntervalLen(i)

(* backfill(interval): from the period of the first swap up to, not including, the last one. *)
BackfillBegins ==
  /\ boot.at = "backfill"
  /\ IF swaps = <<>> THEN BackfillEnds
     ELSE /\ boot' = [boot EXCEPT !.at = "read", !.last = LastPeriod(boot.interval),
                !.period = FirstPeriod(boot.interval)]
          /\ UNCHANGED healed
  /\ UNCHANGED <<now, swaps, candle, due, repeating, work, boots, excused>>

BackfillReads ==
  /\ boot.at = "read"
  /\ IF boot.period >= boot.last THEN BackfillEnds
     ELSE /\ boot' = [boot EXCEPT !.at = "write", !.row = ReadPeriod(boot.interval, boot.period)]
          /\ UNCHANGED healed
  /\ UNCHANGED <<now, swaps, candle, due, repeating, work, boots, excused>>

BackfillWrites ==
  /\ boot.at = "write"
  /\ Upsert(boot.interval, boot.period, boot.row)
  /\ boot' = [boot EXCEPT !.at = "read", !.period = @ + IntervalLen(boot.interval)]
  /\ UNCHANGED <<now, swaps, due, repeating, work, boots, excused, healed>>

Register ==
  /\ boot.at = "register"
  /\ \E i \in Intervals \ repeating :
       /\ repeating' = repeating \cup {i}
       /\ boot' = IF repeating' = Intervals THEN [boot EXCEPT !.at = "up"] ELSE boot
  /\ UNCHANGED <<now, swaps, candle, due, work, boots, excused, healed>>

(* The worker takes a job that is due, jobs due together in either order, and its query is    *)
(* answered; the upsert is another call.                                                      *)
TakeJob ==
  /\ boot.at # "down" /\ work.at = "idle"
  /\ \E j \in due :
       /\ \A k \in due : j.at <= k.at
       /\ due' = due \ {j}
       /\ work' = [at |-> "write", interval |-> j.interval, period |-> LastPeriod(j.interval),
                   row |-> ReadPeriod(j.interval, LastPeriod(j.interval)), job |-> j.at]
  /\ UNCHANGED <<now, swaps, candle, repeating, boot, boots, excused, healed>>

JobWrites ==
  /\ work.at = "write"
  /\ Upsert(work.interval, work.period, work.row)
  /\ work' = Idle
  /\ UNCHANGED <<now, swaps, due, repeating, boot, boots, excused, healed>>

(* A query fails: the job is failed and not retried; in the start-up, the process does not start. *)
JobFails ==
  /\ work.at # "idle" /\ work' = Idle
  /\ excused' = IF work.interval = "5m" THEN excused \cup {work.job - 1} ELSE excused
  /\ UNCHANGED <<now, swaps, candle, due, repeating, boot, boots, healed>>

(* The process ends, or its start-up throws; an active job stalls and is due again. *)
Stop ==
  /\ boot.at # "down"
  /\ boot' = Down /\ work' = Idle
  /\ due' = IF work.at = "idle" THEN due ELSE due \cup {[interval |-> work.interval, at |-> work.job]}
  /\ excused' = IF work.at # "idle" /\ work.interval = "5m" /\ work.job < now
                THEN excused \cup {work.job - 1} ELSE excused
  /\ UNCHANGED <<now, swaps, candle, repeating, boots, healed>>

CandleNext == \/ SwapHappens \/ TimePasses \/ Start \/ BackfillBegins \/ BackfillReads \/ BackfillWrites
              \/ Register \/ TakeJob \/ JobWrites \/ JobFails \/ Stop

(***************************************************************************)
(* Properties                                                              *)
(***************************************************************************)

(* A 5m candle is the fold of the swaps of its period, whoever wrote it and however late.     *)
FivesFoldSwaps == \A p \in Periods : candle["5m"][p] \in {NoCandle, FoldSwaps({p})}

(* A 1h candle folds some of the 5m candles of its hour, in order: nothing in it comes from   *)
(* elsewhere, though the last of them may be missing (candles.service.ts:75).                 *)
HoursFoldFives ==
  \A h \in {p \in Periods : candle["1h"][p] # NoCandle} :
    \E S \in SUBSET (h..(h + HourLen - 1)) : candle["1h"][h] = FoldSwaps(S)

(* After its backfill no 5m candle is missing before the point where the backfill stopped.    *)
BackfillHeals == \A p \in Periods : p < healed["5m"] => candle["5m"][p] = FoldSwaps({p})

(* A 5m candle that is missing although its period is over and no job is left belongs to a    *)
(* period that was not scheduled, or whose job failed or was late: aggregate() goes by the    *)
(* clock and not by the job (candles.service.ts:40), and the backfill stops one period early. *)
GapsExplained ==
  \A p \in Periods : p < now /\ candle["5m"][p] # FoldSwaps({p}) =>
    \/ p \in excused
    \/ [interval |-> "5m", at |-> p + 1] \in due
    \/ work.at # "idle" /\ work.interval = "5m" /\ work.job = p + 1

(* Candles are folds of the swaps of their period, and the gaps are where they must be.       *)
CandleInv == FivesFoldSwaps /\ HoursFoldFives /\ BackfillHeals /\ GapsExplained

-----------------------------------------------------------------------------
(* GET /prices/:tokenA/:tokenB/candles (price.controller.ts, price.service.ts): the rows read over *)
(* a range of seconds, with a null candle for every bucket without one, and the answer kept in the *)
(* cache under its parameters.  Seconds are counted in Units of a 5-minute period.               *)

CONSTANTS Unit,            \* moments of a period
          CandleLimits,    \* values of `limit`, all legal
          Explicit         \* the ranges clients ask for: [from, to]

ASSUME CandleReadAssumption ==
  /\ Unit \in Nat \ {0} /\ CandleLimits \subseteq Nat \ {0}
  /\ Explicit \subseteq [from : Int, to : Int] /\ \A e \in Explicit : e.from < e.to

VARIABLE candleCache       \* answers in the cache, one at a time: [interval, from, to, limit, buckets]

servedVars == <<candleVars, candleCache>>

Moments == {now * Unit + k : k \in 0..(Unit - 1)}
LenOf(i) == IntervalLen(i) * Unit
AlignedTo(i, t) == (t \div LenOf(i)) * LenOf(i)

ServedInit == CandleInit /\ candleCache = {}

(* getCandles: the range asked for, or up to now and `limit` intervals long; it is refused unless *)
(* it begins before it ends.                                                                    *)
DefaultRange(i, t, limit) == [from |-> t - LenOf(i) * limit, to |-> t]
RangesOf(i, limit) ==
  {e \in Explicit \cup {DefaultRange(i, t, limit) : t \in Moments} : e.from < e.to}

(* The rows whose period starts in the range. *)
RowsIn(i, e) == {p \in Periods : candle[i][p] # NoCandle /\ e.from <= p * Unit /\ p * Unit <= e.to}

(* fillCandleGaps: the buckets of the closed range, the bucket of `from` first, `limit` at most. *)
BucketTimes(i, e, limit) ==
  {t \in AlignedTo(i, e.from)..AlignedTo(i, e.to) :
     t % LenOf(i) = 0 /\ (t - AlignedTo(i, e.from)) \div LenOf(i) < limit}

FillCandleGaps(i, e, limit) ==
  [t \in BucketTimes(i, e, limit) |-> IF t \div Unit \in RowsIn(i, e) THEN candle[i][t \div Unit] ELSE NoCandle]

(* A miss reads the rows and caches the answer; a hit changes nothing.  The key of a default range *)
(* names the second it was asked in: such an answer is not asked for again.                     *)
GetCandles(i, e, limit) ==
  /\ candleCache = {}
  /\ candleCache' = {[interval |-> i, from |-> e.from, to |-> e.to, limit |-> limit,
                      buckets |-> FillCandleGaps(i, e, limit)]}
  /\ UNCHANGED candleVars

(* CANDLES_FAST or CANDLES_SLOW runs out. *)
ExpireCandles == candleCache # {} /\ candleCache' = {} /\ UNCHANGED candleVars

ServedNext ==
  \/ CandleNext /\ UNCHANGED candleCache
  \/ \E i \in Intervals, limit \in CandleLimits, e \in Explicit : GetCandles(i, e, limit)
  \/ ExpireCandles

ServedSpec == ServedInit /\ [][ServedNext]_servedVars

(***************************************************************************)
(* Properties                                                              *)
(***************************************************************************)

(* Every candle of a bucket that begins in the range is in the answer, unless the limit cut it    *)
(* off; the bucket that `from` lies in is null even if it has a candle (price.service.ts:298).   *)
NoCandleHidden ==
  \A i \in Intervals, limit \in CandleLimits : \A e \in RangesOf(i, limit) :
    \A p \in {q \in Periods : candle[i][q] # NoCandle /\ q * Unit \in e.from..e.to} :
      \/ p * Unit \in DOMAIN FillCandleGaps(i, e, limit) /\ FillCandleGaps(i, e, limit)[p * Unit] = candle[i][p]
      \/ (p * Unit - AlignedTo(i, e.from)) \div LenOf(i) >= limit

(* What a client that gives no range does not see of the last `limit` intervals is the bucket     *)
(* that is still running, and the oldest one.                                                  *)
DefaultShowsComplete ==
  \A i \in Intervals, limit \in CandleLimits, t \in Moments : \A p \in Periods :
    LET answer == FillCandleGaps(i, DefaultRange(i, t, limit), limit)
    IN  (/\ candle[i][p] # NoCandle /\ p * Unit + LenOf(i) <= t
         /\ p * Unit > t - LenOf(i) * limit) => p * Unit \in DOMAIN answer /\ answer[p * Unit] = candle[i][p]

(* A cached answer lacks the candles that were written since, and is never wrong about a 5m       *)
(* candle that it has.                                                                        *)
CachedFivesAreFinal ==
  \A c \in candleCache : c.interval = "5m" =>
    \A t \in DOMAIN c.buckets : c.buckets[t] # NoCandle => c.buckets[t] = candle["5m"][t \div Unit]

(* Candles are what the swaps say, and clients are shown the candles there are.                   *)
CandlesServed == CandleInv /\ NoCandleHidden /\ DefaultShowsComplete /\ CachedFivesAreFinal
=============================================================================
