-------------------------- MODULE ParallelReingest --------------------------
(***************************************************************************)
(* `db fill-gaps` and `db reingest range` with --parallel-workers: gap     *)
(* detection in history_ledgers, and ParallelSystems.ReingestRange, which  *)
(* cuts the ranges into jobs that workers take from an unbuffered channel. *)
(*                                                                         *)
(* A job is one System.ReingestRange without force: one transaction, so it *)
(* writes its whole range or nothing (module Ingestion has its inside).    *)
(***************************************************************************)
EXTENDS Integers, Sequences, FiniteSets, FiniteSetsExt

CONSTANTS
  Workers,              \* --parallel-workers
  MaxLedger,            \* BOUND: last ledger of the instance
  Interval,             \* historyCheckpointLedgerInterval and minBatchSize
  BatchSizeSuggestion,  \* --parallel-job-size
  MaxFailures           \* BOUND: jobs that fail

Ledgers  == 1..MaxLedger
MaxUint32 == MaxLedger + 1   \* math.MaxUint32: above every ledger
NoJob    == [from |-> 0, to |-> 0]
workerCount == Cardinality(Workers)

ASSUME WorkersAssumption == IsFiniteSet(Workers) /\ Workers # {}

ASSUME ParallelReingestAssumption ==
  /\ workerCount \in Nat /\ workerCount > 0
  /\ MaxLedger \in Nat /\ MaxFailures \in Nat /\ BatchSizeSuggestion \in Nat
  /\ Interval \in Nat /\ Interval > 0

VARIABLES
  history,       \* sequences in history_ledgers when the command starts; ledger 1 is pregenerated
                 \* and has no row
  requested,     \* the closed range the operator asked for
  ranges,        \* ledgerRanges
  batchSize,     \* ledgers of a job
  pc,            \* "idle", "detect", "enqueue", "wait", "returned"
  cur, subRangeFrom,  \* the loop variables of enqueueReingestTasks
  stop,          \* the stop channel is closed
  job,           \* what each worker runs
  exited,        \* workers that returned
  done,          \* ledgers of committed jobs
  lowestLedger, lowestRangeErr,
  rebuilt,       \* ledgers whose trade aggregations were rebuilt
  rebuildErr,    \* first ledger of the range where the rebuild stopped, 0 if it did not
  failures

jobVars == <<job, exited, done, lowestRangeErr, failures>>
vars == <<history, requested, ranges, batchSize, pc, cur, subRangeFrom, stop, jobVars,
          lowestLedger, rebuilt, rebuildErr>>

Range2Set(r) == r.from..r.to

-----------------------------------------------------------------------------
(* Gap detection.                                                          *)

\* LEAD(sequence) OVER (ORDER BY sequence).
LEAD(h, a) == Min({b \in h : b > a})

\* Rows whose successor is not the next row.
GapStarts(h) == {a \in h : a # Max(h) /\ a + 1 # LEAD(h, a)}

\* The gaps after these rows, ORDER BY sequence.
GetLedgerGaps(h) ==
  LET starts == GapStarts(h)
      gaps[l \in 0..MaxLedger] ==
        IF l = 0 THEN <<>>
        ELSE IF l \notin starts THEN gaps[l - 1]
        ELSE Append(gaps[l - 1], [from |-> l + 1, to |-> LEAD(h, l) - 1])
  IN gaps[MaxLedger]

\* A gap within the range asked for, and the loop that collects them: the gaps
\* are sorted, so that those after a break would be passed over as well.
Cut(g, start, end) == [from |-> Max({g.from, start}), to |-> Min({g.to, end})]

CollectGaps(gaps, start, end) ==
  LET result[i \in 0..Len(gaps)] ==
        IF i = 0 THEN <<>>
        ELSE IF gaps[i].to < start \/ gaps[i].from > end THEN result[i - 1]
        ELSE Append(result[i - 1], Cut(gaps[i], start, end))
  IN result[Len(gaps)]

\* What is missing below the oldest row and above the latest.
Below(oldest, start, end) ==
  IF start < oldest THEN <<[from |-> start, to |-> Min({end, oldest - 1})]>> ELSE <<>>

\* MUTANT: the ledgers above the latest row are taken from the row itself.
AboveOffByOne(latest, start, end) ==
  IF latest < end THEN <<[from |-> Max({latest, start}), to |-> end]>> ELSE <<>>

Above(latest, start, end) ==
  IF latest < end THEN <<[from |-> Max({latest + 1, start}), to |-> end]>> ELSE <<>>

GetLedgerGapsInRange(h, start, end) ==
  IF h = {} THEN <<[from |-> start, to |-> end]>>
  ELSE IF end <= Min(h) THEN Below(Min(h), start, end)
  ELSE Below(Min(h), start, end) \o CollectGaps(GetLedgerGaps(h), start, end)
       \o Above(Max(h), start, end)

-----------------------------------------------------------------------------
(* Cutting the ranges into jobs.                                           *)

validateRanges(rs) ==
  \A i \in DOMAIN rs :
    /\ rs[i].from <= rs[i].to /\ rs[i].from # 0
    /\ i > 1 => rs[i - 1].to < rs[i].from

totalRangeSize(rs) ==
  LET sum[i \in 0..Len(rs)] ==
        IF i = 0 THEN 0 ELSE sum[i - 1] + rs[i].to - rs[i].from + 1
  IN sum[Len(rs)]

calculateParallelLedgerBatchSize(rangeSize) ==
  LET suggested == BatchSizeSuggestion
      shared    == IF suggested = 0 \/ rangeSize \div suggested < workerCount
                   THEN rangeSize \div workerCount ELSE suggested
  IN (Max({shared, Interval}) \div Interval) * Interval

-----------------------------------------------------------------------------
Init ==
  /\ history = {} /\ requested = NoJob
  /\ pc = "idle" /\ ranges = <<>> /\ batchSize = 0 /\ cur = 1 /\ subRangeFrom = 0
  /\ stop = FALSE
  /\ job = [w \in Workers |-> NoJob] /\ exited = {}
  /\ done = {} /\ lowestLedger = MaxUint32 /\ lowestRangeErr = NoJob
  /\ rebuilt = {} /\ rebuildErr = 0 /\ failures = 0

\* An operator starts a command, on whatever database and for whatever range.
StartCommand ==
  /\ pc = "idle" /\ pc' = "detect"
  /\ history' \in SUBSET (Ledgers \ {1})
  /\ \E start \in Ledgers : \E end \in start..MaxLedger :
       requested' = [from |-> start, to |-> end]
  /\ UNCHANGED <<ranges, batchSize, cur, subRangeFrom, stop, jobVars, lowestLedger, rebuilt, rebuildErr>>

\* The ranges of the command, validated, and the workers started.
Enqueue(rs) ==
  /\ ranges' = rs
  /\ batchSize' = calculateParallelLedgerBatchSize(totalRangeSize(rs))
  /\ pc' = IF validateRanges(rs) THEN "enqueue" ELSE "returned"
  /\ subRangeFrom' = IF rs = <<>> THEN 0 ELSE rs[1].from
  \* Only the rows within the ranges are read again, and requested never.
  /\ history' = history \cap UNION {Range2Set(rs[i]) : i \in DOMAIN rs}
  /\ requested' = NoJob
  /\ UNCHANGED <<cur, stop, jobVars, lowestLedger, rebuilt, rebuildErr>>

FillGaps ==
  /\ pc = "detect"
  /\ \E gaps \in {GetLedgerGapsInRange(history, requested.from, requested.to)} :
       Enqueue(gaps)

ReingestRange ==
  /\ pc = "detect"
  /\ Enqueue(<<requested>>)

\* MUTANT: the last job is not cut at the end of the range.
SendJobUnclamped(w) ==
  LET r == ranges[cur]
      subRangeTo == subRangeFrom + batchSize - 1
  IN
  /\ pc = "enqueue" /\ cur <= Len(ranges) /\ subRangeFrom < r.to
  /\ w \notin exited /\ job[w] = NoJob
  /\ job' = [job EXCEPT ![w] = [from |-> subRangeFrom, to |-> subRangeTo]]
  /\ lowestLedger' = Min({subRangeFrom, lowestLedger})
  /\ subRangeFrom' = subRangeTo + 1
  /\ UNCHANGED <<history, requested, ranges, batchSize, pc, cur, stop, exited, done,
                 lowestRangeErr, rebuilt, rebuildErr, failures>>

\* MUTANT: the next job starts where this one ends.
SendJobOverlapping(w) ==
  LET r == ranges[cur]
      subRangeTo == Min({subRangeFrom + batchSize - 1, r.to})
  IN
  /\ pc = "enqueue" /\ cur <= Len(ranges) /\ subRangeFrom < r.to
  /\ w \notin exited /\ job[w] = NoJob
  /\ job' = [job EXCEPT ![w] = [from |-> subRangeFrom, to |-> subRangeTo]]
  /\ lowestLedger' = Min({subRangeFrom, lowestLedger})
  /\ subRangeFrom' = subRangeTo
  /\ UNCHANGED <<history, requested, ranges, batchSize, pc, cur, stop, exited, done,
                 lowestRangeErr, rebuilt, rebuildErr, failures>>

\* enqueueReingestTasks hands the next job to an idle worker.
SendJob(w) ==
  LET r == ranges[cur]
      subRangeTo == Min({subRangeFrom + batchSize - 1, r.to})
  IN
  /\ pc = "enqueue" /\ cur <= Len(ranges) /\ subRangeFrom < r.to
  /\ w \notin exited /\ job[w] = NoJob
  /\ job' = [job EXCEPT ![w] = [from |-> subRangeFrom, to |-> subRangeTo]]
  /\ lowestLedger' = Min({subRangeFrom, lowestLedger})
  /\ subRangeFrom' = subRangeTo + 1
  /\ UNCHANGED <<history, requested, ranges, batchSize, pc, cur, stop, exited, done,
                 lowestRangeErr, rebuilt, rebuildErr, failures>>

NextRange ==
  /\ pc = "enqueue" /\ cur <= Len(ranges) /\ subRangeFrom >= ranges[cur].to
  /\ cur' = cur + 1
  /\ subRangeFrom' = IF cur < Len(ranges) THEN ranges[cur + 1].from ELSE 0
  /\ UNCHANGED <<history, requested, ranges, batchSize, pc, stop, jobVars, lowestLedger, rebuilt, rebuildErr>>

\* All jobs are sent, or the stop channel is closed: close it (once) and wait.
StopEnqueue ==
  /\ pc = "enqueue"
  /\ cur <= Len(ranges) => subRangeFrom < ranges[cur].to /\ stop
  /\ pc' = "wait" /\ stop' = TRUE
  /\ UNCHANGED <<history, requested, ranges, batchSize, cur, subRangeFrom, jobVars,
                 lowestLedger, rebuilt, rebuildErr>>

WorkerStop(w) ==
  /\ w \notin exited /\ job[w] = NoJob /\ stop
  /\ exited' = exited \cup {w}
  /\ UNCHANGED <<history, requested, ranges, batchSize, pc, cur, subRangeFrom, stop, job, done,
                 lowestLedger, lowestRangeErr, rebuilt, rebuildErr, failures>>

\* The job is committed (ledger 1 is pregenerated and counts as written).
WorkerDone(w) ==
  /\ job[w] # NoJob
  /\ done' = done \cup Range2Set(job[w])
  /\ job' = [job EXCEPT ![w] = NoJob]
  /\ UNCHANGED <<history, requested, ranges, batchSize, pc, cur, subRangeFrom, stop, exited,
                 lowestLedger, lowestRangeErr, rebuilt, rebuildErr, failures>>

\* MUTANT: the last error wins instead of the lowest.
WorkerFailLastError(w) ==
  /\ job[w] # NoJob /\ failures < MaxFailures
  /\ lowestRangeErr' = job[w]
  /\ job' = [job EXCEPT ![w] = NoJob]
  /\ exited' = exited \cup {w}
  /\ stop' = TRUE
  /\ failures' = failures + 1
  /\ UNCHANGED <<history, requested, ranges, batchSize, pc, cur, subRangeFrom, done,
                 lowestLedger, rebuilt, rebuildErr>>

\* MUTANT: a failing worker does not close the stop channel.
WorkerFailNoStop(w) ==
  /\ job[w] # NoJob /\ failures < MaxFailures
  /\ lowestRangeErr' = IF lowestRangeErr = NoJob \/ lowestRangeErr.from > job[w].from
                       THEN job[w] ELSE lowestRangeErr
  /\ job' = [job EXCEPT ![w] = NoJob]
  /\ exited' = exited \cup {w}
  /\ failures' = failures + 1
  /\ UNCHANGED <<history, requested, ranges, batchSize, pc, cur, subRangeFrom, stop, done,
                 lowestLedger, rebuilt, rebuildErr>>

\* A job failed, its retries included: remember the lowest, stop everyone.
WorkerFail(w) ==
  /\ job[w] # NoJob /\ failures < MaxFailures
  /\ lowestRangeErr' = IF lowestRangeErr = NoJob \/ lowestRangeErr.from > job[w].from
                       THEN job[w] ELSE lowestRangeErr
  /\ job' = [job EXCEPT ![w] = NoJob]
  /\ exited' = exited \cup {w}
  /\ stop' = TRUE
  /\ failures' = failures + 1
  /\ UNCHANGED <<history, requested, ranges, batchSize, pc, cur, subRangeFrom, done,
                 lowestLedger, rebuilt, rebuildErr>>

\* What rebuildTradeAggRanges is called with: up to the lowest failed job, or
\* all that was asked for.
RebuildRanges ==
  IF lowestRangeErr # NoJob THEN <<[from |-> lowestLedger, to |-> lowestRangeErr.from]>>
  ELSE ranges

\* RebuildTradeAggregationBuckets needs a row of history_ledgers in the range,
\* the ones that the jobs wrote included.
HasRows(r) == \E l \in history \cup (done \ {1}) : l \in Range2Set(r)

\* MUTANT: trade aggregations are only rebuilt after a full success.
FinishNoRebuild ==
  /\ pc = "wait" /\ exited = Workers
  /\ rebuilt' = IF lowestRangeErr # NoJob THEN {}
                ELSE UNION {Range2Set(ranges[i]) : i \in DOMAIN ranges}
  /\ rebuildErr' = 0
  /\ pc' = "returned"
  /\ UNCHANGED <<history, requested, ranges, batchSize, cur, subRangeFrom, stop, jobVars, lowestLedger>>

\* wg.Wait returned: rebuild the trade aggregations of what was reingested, one
\* range after the other until one fails.  After a failed job that is only
\* logged, otherwise it is what the command returns.
Finish ==
  /\ pc = "wait" /\ exited = Workers
  /\ \E n \in 0..Len(RebuildRanges) :
       /\ \A i \in 1..n : HasRows(RebuildRanges[i])
       /\ rebuilt' = UNION {Range2Set(RebuildRanges[i]) : i \in 1..n}
       /\ rebuildErr' = IF n < Len(RebuildRanges) THEN RebuildRanges[n + 1].from ELSE 0
  /\ pc' = "returned"
  /\ UNCHANGED <<history, requested, ranges, batchSize, cur, subRangeFrom, stop, jobVars, lowestLedger>>

WorkerStep(w) == SendJob(w) \/ WorkerStop(w) \/ WorkerDone(w) \/ WorkerFail(w)

Next ==
  \/ StartCommand \/ FillGaps \/ ReingestRange \/ NextRange \/ StopEnqueue \/ Finish
  \/ \E w \in Workers : WorkerStep(w)

Spec == Init /\ [][Next]_vars

\* Go schedules every goroutine, and System.ReingestRange returns.
FairSpec ==
  /\ Spec
  /\ WF_vars(NextRange \/ StopEnqueue \/ Finish)
  /\ \A w \in Workers : WF_vars(WorkerStep(w))

-----------------------------------------------------------------------------
(* Properties.                                                             *)

LedgerRange == [from : 0..MaxUint32, to : 0..MaxUint32]

TypeOK ==
  /\ history \subseteq Ledgers /\ requested \in LedgerRange
  /\ \A i \in DOMAIN ranges : ranges[i] \in LedgerRange
  /\ batchSize \in 0..MaxLedger + Interval
  /\ pc \in {"idle", "detect", "enqueue", "wait", "returned"}
  /\ cur \in 1..Len(ranges) + 1 /\ subRangeFrom \in 0..MaxUint32
  /\ stop \in BOOLEAN /\ job \in [Workers -> LedgerRange] /\ exited \subseteq Workers
  /\ done \subseteq Ledgers /\ lowestLedger \in 1..MaxUint32
  /\ lowestRangeErr \in LedgerRange /\ rebuilt \subseteq Ledgers /\ rebuildErr \in 0..MaxUint32
  /\ failures \in 0..MaxFailures

RangeLedgers == UNION {Range2Set(ranges[i]) : i \in DOMAIN ranges}

\* GetLedgerGapsInRange returns exactly the missing ledgers of the range, as
\* ranges that pass validateRanges: sorted, disjoint and not empty.
GapsAreExact ==
  LET gaps == GetLedgerGapsInRange(history, requested.from, requested.to) IN
  pc = "detect" =>
  /\ validateRanges(gaps)
  /\ UNION {Range2Set(gaps[i]) : i \in DOMAIN gaps} = Range2Set(requested) \ history

\* The loop condition subRangeFrom < cur.EndSequence sends no job for the last
\* ledger of a range when it would be a job of its own.
DroppedTails ==
  {ranges[i].to : i \in {k \in DOMAIN ranges :
                           (ranges[k].to - ranges[k].from) % batchSize = 0}}

\* What the comment on lowestRangeErr promises: the ledgers before the
\* recommended restart are all reingested, whichever workers failed and in
\* whatever order, so restarting there leaves no gap (but for DroppedTails).
RestartPreventsGaps ==
  pc = "returned" /\ lowestRangeErr # NoJob =>
    \A l \in RangeLedgers : l < lowestRangeErr.from => l \in done \cup DroppedTails

\* When the command returns, every reingested ledger that a restart will not
\* redo has its trade aggregations rebuilt, up to the range that the rebuild's
\* error names, if there is one: without an error of the rebuild, all of them.
TradeAggregationsFresh ==
  pc = "returned" =>
    \A l \in done :
      /\ lowestRangeErr # NoJob => l < lowestRangeErr.from
      /\ rebuildErr # 0 => l < rebuildErr
      => l \in rebuilt

\* Two workers never reingest the same ledger, now or one after the other:
\* DeleteRangeAll of one would delete what the other wrote.
JobsDisjoint ==
  \A w \in Workers : job[w] # NoJob =>
    /\ Range2Set(job[w]) \cap done = {}
    /\ \A v \in Workers \ {w} :
         job[v] # NoJob => Range2Set(job[w]) \cap Range2Set(job[v]) = {}

\* ParallelSystems.ReingestRange returns: no failure leaves the enqueuer or a worker waiting on
\* a channel forever.
Returns == pc = "enqueue" ~> pc = "returned"

\* "reingests ledgers between X and Y sequence number (closed intervals)":
\* a command that returns nil has reingested every ledger (but ledger 1, which
\* is pregenerated and announced as skipped).
ClosedIntervalsReingested ==
  pc = "returned" /\ lowestRangeErr = NoJob /\ rebuildErr = 0 => RangeLedgers \ {1} \subseteq done
=============================================================================
