----------------------- MODULE ParallelReingestProofs -----------------------
\* ParallelReingest for any number of workers, ledgers and failures.
EXTENDS ParallelReingest, WellFoundedInduction, TLAPS

\* The ranges that ParallelSystems.ReingestRange is given.
JobRange == [from : Ledgers, to : Ledgers]

Idle == \A w \in Workers : job[w] = NoJob

\* Before the ranges are known nothing is sent.
RangesGood ==
  /\ history \subseteq Ledgers /\ requested \in LedgerRange
  /\ pc \in {"idle", "detect", "enqueue", "wait", "returned"}
  /\ pc = "detect" => requested \in JobRange /\ requested.from <= requested.to
  /\ ranges \in Seq(JobRange) /\ validateRanges(ranges)
  /\ pc \in {"idle", "detect"} =>
       ranges = <<>> /\ cur = 1 /\ Idle /\ done = {} /\ lowestRangeErr = NoJob

\* enqueueReingestTasks is within its range, or has left out its last ledger:
\* that the rest of the range is a single ledger shows in its length.
PositionGood ==
  /\ batchSize \in 0..MaxLedger + Interval
  /\ pc \notin {"idle", "detect"} => batchSize > 0
  /\ cur \in 1..Len(ranges) + 1 /\ subRangeFrom \in 0..MaxUint32
  /\ cur <= Len(ranges) =>
       /\ subRangeFrom \in ranges[cur].from..(ranges[cur].to + 1)
       /\ \/ subRangeFrom = ranges[cur].to + 1
          \/ (subRangeFrom - ranges[cur].from) % batchSize = 0

\* Ledger l is behind the loop of enqueueReingestTasks.
Passed(l) == l \in RangeLedgers /\ (cur <= Len(ranges) => l < subRangeFrom)

WorkersGood ==
  /\ job \in [Workers -> LedgerRange] /\ exited \subseteq Workers /\ stop \in BOOLEAN
  /\ failures \in 0..MaxFailures /\ lowestLedger \in 1..MaxUint32
  /\ \A w \in Workers : job[w] # NoJob =>
       /\ w \notin exited
       /\ job[w] \in JobRange /\ job[w].from <= job[w].to /\ lowestLedger <= job[w].from
       /\ \A l \in Range2Set(job[w]) : Passed(l)
  /\ \A l \in done : Passed(l) /\ lowestLedger <= l
  /\ lowestRangeErr \in LedgerRange
  /\ lowestRangeErr # NoJob => lowestRangeErr.from # 0 /\ Passed(lowestRangeErr.from)

\* What became of a ledger that the loop has passed.
Settled(l) ==
  \/ l \in done \cup DroppedTails
  \/ \E w \in Workers : job[w] # NoJob /\ l \in Range2Set(job[w])
  \/ lowestRangeErr # NoJob /\ lowestRangeErr.from <= l

AllSettled == \A l \in RangeLedgers : Passed(l) => Settled(l)

\* The ledgers of the ranges that rebuildTradeAggRanges gets.
ToRebuild ==
  IF lowestRangeErr # NoJob THEN lowestLedger..lowestRangeErr.from ELSE RangeLedgers

\* The rebuild goes through them in order, up to its first error.
ResultGood ==
  /\ rebuilt \subseteq Ledgers /\ rebuildErr \in 0..MaxUint32
  /\ pc = "returned" =>
       /\ exited = Workers
       /\ \A l \in ToRebuild : (rebuildErr = 0 \/ l < rebuildErr) => l \in rebuilt

IInv ==
  RangesGood /\ PositionGood /\ WorkersGood /\ JobsDisjoint /\ AllSettled /\ ResultGood

-----------------------------------------------------------------------------
(* Numbers, sets of numbers and their order.                               *)

\* Induction over a set of numbers.
LEMMA SetInduction ==
  ASSUME NEW S, 0 \in S, \A n \in Nat : n \in S => n + 1 \in S
  PROVE  Nat \subseteq S
<1> SUFFICES ASSUME Nat \ S # {} PROVE FALSE
  OBVIOUS
<1>1. Nat \ S \subseteq Nat
  OBVIOUS
<1>2. PICK x \in Nat \ S : \A y \in Nat \ S : ~ (<<y, x>> \in OpToRel(<, Nat))
  BY <1>1, WFMin, NatLessThanWellFounded, Zenon
<1>3. \A y \in Nat \ S : ~ (y < x)
  BY <1>2, Zenon DEF OpToRel
<1>4. x # 0 /\ x - 1 \in Nat /\ (x - 1) + 1 = x
  OBVIOUS
<1>5. x - 1 \in S
  BY <1>3, <1>4
<1> QED
  BY <1>4, <1>5

\* A set of numbers up to n has a least and a greatest element.
LEMMA LeastElement ==
  ASSUME NEW S \in SUBSET Nat, S # {}
  PROVE  Min(S) \in S /\ \A y \in S : Min(S) <= y
<1>1. S \subseteq Nat
  OBVIOUS
<1>2. PICK x \in S : \A y \in S : ~ (<<y, x>> \in OpToRel(<, Nat))
  BY <1>1, WFMin, NatLessThanWellFounded, Zenon
<1>3. \A y \in S : ~ (y < x)
  BY <1>1, <1>2, Zenon DEF OpToRel
<1>4. \A y \in S : x <= y
  BY <1>1, <1>3
<1> QED
  BY <1>4, Zenon DEF Min

LEMMA GreatestElement ==
  ASSUME NEW n \in Nat, NEW S \in SUBSET (1..n), S # {}
  PROVE  Max(S) \in S /\ \A y \in S : Max(S) >= y
<1> DEFINE B == {b \in Nat : \A y \in S : y <= b}
<1>1. n \in B
  OBVIOUS
<1>a. B \in SUBSET Nat /\ B # {}
  BY <1>1
<1> HIDE DEF B
<1>b. Min(B) \in B /\ \A b \in B : Min(B) <= b
  BY <1>a, LeastElement, Zenon
<1>2. PICK g \in B : \A b \in B : g <= b
  BY <1>b, Zenon
<1> USE DEF B
<1>3. g \in Nat /\ \A y \in S : g >= y
  OBVIOUS
<1>4. g \in S
  <2> SUFFICES ASSUME g \notin S PROVE FALSE
    OBVIOUS
  <2>1. \A y \in S : y \in Nat /\ y >= 1 /\ y < g
    BY <1>3
  <2> PICK y \in S : TRUE
    BY Zenon
  <2>2. g - 1 \in Nat
    BY <1>3, <2>1
  <2>3. \A z \in S : z <= g - 1
    BY <1>3, <2>1
  <2> QED
    BY <1>2, <1>3, <2>2, <2>3
<1> QED
  BY <1>3, <1>4, Zenon DEF Max

\* Min and Max of two numbers.
LEMMA MinMax ==
  ASSUME NEW a \in Int, NEW b \in Int
  PROVE  /\ Min({a, b}) = IF a <= b THEN a ELSE b
         /\ Max({a, b}) = IF a <= b THEN b ELSE a
<1>1. \A x \in {a, b} : (\A y \in {a, b} : x <= y) <=> x = IF a <= b THEN a ELSE b
  OBVIOUS
<1>2. \A x \in {a, b} : (\A y \in {a, b} : x >= y) <=> x = IF a <= b THEN b ELSE a
  OBVIOUS
<1> QED
  BY <1>1, <1>2 DEF Min, Max

LEMMA Remainder ==
  ASSUME NEW a \in Nat, NEW b \in Nat, b > 0, a % b = 0
  PROVE  (a + b) % b = 0
<1> DEFINE q == a \div b
<1>1. q \in Int /\ a = q * b
  OBVIOUS
<1>2. a + b = (q + 1) * b
  <2> HIDE DEF q
  <2> QED
    BY <1>1
<1> HIDE DEF q
<1> DEFINE c == a + b
           p == c \div b
           r == c % b
<1>3. p \in Int /\ r \in Int /\ 0 <= r /\ r < b /\ c = b * p + r
  OBVIOUS
<1>4. r = b * ((q + 1) - p)
  <2> HIDE DEF p, r
  <2> QED
    BY <1>1, <1>2, <1>3
<1> HIDE DEF c, p, r
<1>5. (q + 1) - p \in Int
  BY <1>1, <1>3
<1>6. \A k \in Int : 0 <= b * k /\ b * k < b => k = 0
  OBVIOUS
<1>7. (q + 1) - p = 0
  BY <1>3, <1>4, <1>5, <1>6
<1>8. r = 0
  BY <1>4, <1>7
<1> QED
  BY <1>8 DEF r, c

LEMMA ZeroRemainder == \A b \in Nat : b > 0 => 0 % b = 0
OBVIOUS

LEMMA AtMost == \A a, b, c \in Nat : a <= b /\ b <= c => a <= c
OBVIOUS

-----------------------------------------------------------------------------
(* Ranges, and the place of the loop in them.                              *)

LEMMA LedgerFacts ==
  /\ MaxLedger \in Nat /\ Interval \in Nat \ {0}
  /\ \A l \in Ledgers : l \in Nat /\ 1 <= l /\ l <= MaxLedger
  /\ \A l \in Nat : 1 <= l /\ l <= MaxLedger => l \in Ledgers
  /\ \A r \in JobRange : r.from \in Ledgers /\ r.to \in Ledgers
BY ParallelReingestAssumption DEF Ledgers, JobRange

\* validateRanges compares neighbours; so any two ranges are in order.
LEMMA RangesOrdered ==
  ASSUME NEW rs \in Seq(JobRange), validateRanges(rs)
  PROVE  \A i, j \in 1..Len(rs) : i < j => rs[i].to < rs[j].from
<1> DEFINE J == {j \in Nat : j \in 1..Len(rs) =>
                               \A i \in 1..Len(rs) : i < j => rs[i].to < rs[j].from}
<1>1. 0 \in J
  OBVIOUS
<1>2. ASSUME NEW j \in Nat, j \in J PROVE j + 1 \in J
  <2> SUFFICES ASSUME j + 1 \in 1..Len(rs), NEW i \in 1..Len(rs), i < j + 1
               PROVE  rs[i].to < rs[j + 1].from
    OBVIOUS
  <2>1. j \in 1..Len(rs) /\ rs[j] \in JobRange /\ rs[j + 1] \in JobRange /\ rs[i] \in JobRange
    OBVIOUS
  <2>2. rs[j].from <= rs[j].to /\ rs[j].to < rs[j + 1].from
    <3>1. j + 1 \in DOMAIN rs /\ j \in DOMAIN rs /\ j + 1 > 1 /\ (j + 1) - 1 = j
      BY <2>1
    <3> QED
      BY <3>1 DEF validateRanges
  <2>3. i = j \/ rs[i].to < rs[j].from
    BY <1>2, <2>1
  <2> QED
    BY <2>1, <2>2, <2>3, LedgerFacts
<1>3. Nat \subseteq J
  <2> HIDE DEF J
  <2> QED
    BY <1>1, <1>2, SetInduction
<1> QED
  BY <1>3

LedgersOf(rs) == UNION {Range2Set(rs[i]) : i \in DOMAIN rs}

LEMMA LedgersOfFacts ==
  ASSUME NEW rs \in Seq(JobRange), validateRanges(rs)
  PROVE  /\ Len(rs) \in Nat
         /\ \A l : l \in LedgersOf(rs) <=> \E i \in 1..Len(rs) : l \in Range2Set(rs[i])
         /\ \A i \in 1..Len(rs) :
              /\ rs[i].from \in Nat /\ rs[i].to \in Nat /\ 1 <= rs[i].from
              /\ rs[i].from <= rs[i].to /\ rs[i].to <= MaxLedger
              /\ rs[i].from \in Ledgers /\ rs[i].to \in Ledgers
         /\ \A l \in LedgersOf(rs) : l \in Ledgers /\ l \in Nat
         /\ \A i, j \in 1..Len(rs) : i < j => rs[i].to < rs[j].from
<1>1. Len(rs) \in Nat /\ DOMAIN rs = 1..Len(rs) /\ \A i \in 1..Len(rs) : rs[i] \in JobRange
  OBVIOUS
<1>2. \A l : l \in LedgersOf(rs) <=> \E i \in 1..Len(rs) : l \in Range2Set(rs[i])
  BY <1>1 DEF LedgersOf
<1>3. \A i \in 1..Len(rs) :
        /\ rs[i].from \in Nat /\ rs[i].to \in Nat /\ 1 <= rs[i].from
        /\ rs[i].from <= rs[i].to /\ rs[i].to <= MaxLedger
        /\ rs[i].from \in Ledgers /\ rs[i].to \in Ledgers
  BY <1>1, LedgerFacts DEF validateRanges
<1>4. ASSUME NEW l \in LedgersOf(rs) PROVE l \in Ledgers /\ l \in Nat
  <2>1. PICK i \in 1..Len(rs) : l \in Range2Set(rs[i])
    BY <1>2
  <2> QED
    BY <1>3, <2>1, LedgerFacts DEF Range2Set
<1> QED
  BY <1>1, <1>2, <1>3, <1>4, RangesOrdered

LEMMA RangeFacts ==
  ASSUME RangesGood
  PROVE  /\ Len(ranges) \in Nat
         /\ \A l : l \in RangeLedgers <=> \E i \in 1..Len(ranges) : l \in Range2Set(ranges[i])
         /\ \A i \in 1..Len(ranges) :
              /\ ranges[i].from \in Nat /\ ranges[i].to \in Nat /\ 1 <= ranges[i].from
              /\ ranges[i].from <= ranges[i].to /\ ranges[i].to <= MaxLedger
              /\ ranges[i].from \in Ledgers /\ ranges[i].to \in Ledgers
         /\ \A l \in RangeLedgers : l \in Ledgers /\ l \in Nat
         /\ \A i, j \in 1..Len(ranges) : i < j => ranges[i].to < ranges[j].from
<1>1. RangeLedgers = LedgersOf(ranges)
  BY DEF RangeLedgers, LedgersOf
<1>2. ranges \in Seq(JobRange) /\ validateRanges(ranges)
  BY DEF RangesGood
<1> QED
  BY <1>1, <1>2, LedgersOfFacts

LEMMA LedgerRangeFacts ==
  /\ JobRange \subseteq LedgerRange /\ NoJob \in LedgerRange /\ NoJob \notin JobRange
  /\ \A r \in JobRange : r # NoJob
  /\ MaxUint32 \in Nat /\ \A l \in Ledgers : l \in 0..MaxUint32 /\ l \in 1..MaxUint32
<1>1. MaxUint32 \in Nat /\ \A l \in Ledgers : l \in 0..MaxUint32 /\ l \in 1..MaxUint32
  BY LedgerFacts DEF MaxUint32
<1>2. NoJob \in LedgerRange
  BY <1>1 DEF NoJob, LedgerRange
<1>3. JobRange \subseteq LedgerRange
  BY <1>1 DEF JobRange, LedgerRange
<1>4. NoJob \notin JobRange
  BY LedgerFacts DEF NoJob
<1> QED
  BY <1>1, <1>2, <1>3, <1>4

\* Where enqueueReingestTasks is.
LEMMA PlaceFacts ==
  ASSUME IInv
  PROVE  /\ RangesGood /\ Len(ranges) \in Nat /\ cur \in Nat /\ cur <= Len(ranges) + 1
         /\ subRangeFrom \in Nat /\ subRangeFrom <= MaxUint32 /\ MaxUint32 \in Nat
         /\ batchSize \in Nat /\ (pc = "enqueue" => batchSize > 0)
         /\ cur <= Len(ranges) => cur \in 1..Len(ranges) /\ ranges[cur].to \in Nat
<1>1. /\ RangesGood /\ cur \in 1..Len(ranges) + 1 /\ subRangeFrom \in 0..MaxUint32
      /\ batchSize \in 0..MaxLedger + Interval
      /\ (pc \notin {"idle", "detect"} => batchSize > 0)
  BY Zenon DEF IInv, PositionGood
<1>2. Len(ranges) \in Nat /\ \A i \in 1..Len(ranges) : ranges[i].to \in Nat
  BY <1>1, RangeFacts, Zenon
<1>3. MaxUint32 \in Nat /\ MaxLedger + Interval \in Nat
  BY LedgerFacts, LedgerRangeFacts, ParallelReingestAssumption
<1>4. cur \in Nat /\ cur <= Len(ranges) + 1 /\ (cur <= Len(ranges) => cur \in 1..Len(ranges))
  BY <1>1, <1>2
<1>5. subRangeFrom \in Nat /\ subRangeFrom <= MaxUint32 /\ batchSize \in Nat
  BY <1>1, <1>3
<1>6. cur <= Len(ranges) => cur \in 1..Len(ranges) /\ ranges[cur].to \in Nat
  BY <1>2, <1>4, Zenon
<1>7. pc = "enqueue" => batchSize > 0
  BY <1>1
<1> QED
  BY <1>1, <1>2, <1>3, <1>4, <1>5, <1>6, <1>7, Zenon

\* What the ranges and the position in them determine.
LEMMA PositionFrame ==
  ASSUME ranges' = ranges, cur' = cur, subRangeFrom' = subRangeFrom, batchSize' = batchSize
  PROVE  /\ RangeLedgers' = RangeLedgers /\ DroppedTails' = DroppedTails
         /\ \A l : Passed(l)' <=> Passed(l)
<1>1. RangeLedgers' = RangeLedgers
  BY DEF RangeLedgers
<1>2. DroppedTails' = DroppedTails
  BY DEF DroppedTails
<1> QED
  BY <1>1, <1>2 DEF Passed

\* Steps that leave the jobs and the position alone.
LEMMA JobsFrame ==
  ASSUME IInv, UNCHANGED <<ranges, batchSize, cur, subRangeFrom, jobVars, lowestLedger>>,
         stop' \in BOOLEAN, pc' \in {"idle", "detect"} => pc \in {"idle", "detect"},
         pc \in {"idle", "detect"} => pc' \in {"idle", "detect"}
  PROVE  PositionGood' /\ WorkersGood' /\ JobsDisjoint' /\ AllSettled'
<1> USE DEF IInv, jobVars
<1>1. /\ RangeLedgers' = RangeLedgers /\ DroppedTails' = DroppedTails
      /\ \A l : Passed(l)' <=> Passed(l)
  BY PositionFrame
<1>2. PositionGood'
  BY DEF PositionGood
<1>3. WorkersGood'
  BY <1>1 DEF WorkersGood
<1>4. JobsDisjoint'
  BY DEF JobsDisjoint
<1>5. AllSettled'
  <2>1. \A l : Settled(l)' <=> Settled(l)
    BY <1>1 DEF Settled
  <2> QED
    BY <1>1, <2>1 DEF AllSettled
<1> QED
  BY <1>2, <1>3, <1>4, <1>5

-----------------------------------------------------------------------------
(* The loop and the workers keep the invariant.                            *)

LEMMA StopEnqueueKept == ASSUME IInv, StopEnqueue PROVE IInv'
<1> USE DEF IInv, StopEnqueue
<1>1. PositionGood' /\ WorkersGood' /\ JobsDisjoint' /\ AllSettled'
  BY JobsFrame
<1>2. RangesGood' /\ ResultGood'
  BY DEF RangesGood, ResultGood
<1> QED
  BY <1>1, <1>2

LEMMA FinishKept == ASSUME IInv, Finish PROVE IInv'
<1> USE DEF IInv, Finish
<1>1. PositionGood' /\ WorkersGood' /\ JobsDisjoint' /\ AllSettled'
  BY JobsFrame, Zenon DEF WorkersGood
<1>2. RangesGood'
  BY DEF RangesGood
<1>3. PICK n \in 0..Len(RebuildRanges) :
           /\ rebuilt' = UNION {Range2Set(RebuildRanges[i]) : i \in 1..n}
           /\ rebuildErr' = IF n < Len(RebuildRanges) THEN RebuildRanges[n + 1].from ELSE 0
  OBVIOUS
<1>4. /\ exited' = exited /\ exited = Workers /\ ToRebuild' = ToRebuild
  <2>1. RangeLedgers' = RangeLedgers
    BY DEF RangeLedgers
  <2> QED
    BY <2>1 DEF jobVars, ToRebuild
<1>5. CASE lowestRangeErr # NoJob
  <2> DEFINE r == [from |-> lowestLedger, to |-> lowestRangeErr.from]
  <2>1. lowestRangeErr.from \in Ledgers /\ lowestLedger \in 1..MaxUint32
    BY <1>5, RangeFacts DEF WorkersGood, Passed
  <2>2. RebuildRanges = <<r>> /\ Len(RebuildRanges) = 1 /\ RebuildRanges[1] = r
    BY <1>5 DEF RebuildRanges
  <2>3. ToRebuild = Range2Set(r) /\ Range2Set(r) \subseteq Ledgers
    <3>1. lowestLedger..lowestRangeErr.from \subseteq Ledgers
      BY <2>1, LedgerFacts, LedgerRangeFacts
    <3> QED
      BY <1>5, <3>1 DEF ToRebuild, Range2Set
  <2>4. CASE n = 0
    <3>1. rebuilt' = {} /\ rebuildErr' = lowestLedger
      BY <1>3, <2>2, <2>4
    <3>2. \A l \in ToRebuild : ~ (lowestLedger = 0 \/ l < lowestLedger)
      BY <2>1, <2>3, LedgerRangeFacts DEF Range2Set
    <3>3. lowestLedger \in 0..MaxUint32
      BY <2>1, LedgerRangeFacts
    <3> QED
      BY <1>1, <1>2, <1>4, <3>1, <3>2, <3>3, Zenon DEF ResultGood
  <2>5. CASE n = 1
    <3>1. rebuilt' = Range2Set(r) /\ rebuildErr' = 0
      BY <1>3, <2>2, <2>5
    <3>2. 0 \in 0..MaxUint32
      BY LedgerRangeFacts
    <3> QED
      BY <1>1, <1>2, <1>4, <2>3, <3>1, <3>2, Zenon DEF ResultGood
  <2> QED
    BY <1>3, <2>2, <2>4, <2>5
<1>6. CASE lowestRangeErr = NoJob
  <2>1. RebuildRanges = ranges /\ ToRebuild = RangeLedgers
    BY <1>6 DEF RebuildRanges, ToRebuild
  <2>2. /\ Len(ranges) \in Nat
        /\ \A l : l \in RangeLedgers <=> \E i \in 1..Len(ranges) : l \in Range2Set(ranges[i])
        /\ \A i \in 1..Len(ranges) :
             ranges[i].from \in Nat /\ ranges[i].to \in Nat /\ ranges[i].from \in Ledgers
             /\ 1 <= ranges[i].from /\ ranges[i].from <= ranges[i].to
        /\ \A l \in RangeLedgers : l \in Ledgers /\ l \in Nat
        /\ \A i, j \in 1..Len(ranges) : i < j => ranges[i].to < ranges[j].from
    BY RangeFacts, Zenon
  <2>3. n \in Nat /\ n <= Len(ranges)
    BY <2>1, <2>2
  <2>4. \A l : l \in rebuilt' <=> \E i \in 1..n : l \in Range2Set(ranges[i])
    BY <1>3, <2>1
  <2>5. rebuildErr' = IF n < Len(ranges) THEN ranges[n + 1].from ELSE 0
    BY <1>3, <2>1, Zenon
  <2> HIDE DEF IInv, Finish
  <2>6. \A i \in 1..n : i \in 1..Len(ranges)
    BY <2>2, <2>3
  <2>7. rebuilt' \subseteq Ledgers
    BY <2>2, <2>4, <2>6, Zenon
  <2>8. rebuildErr' \in 0..MaxUint32
    <3>1. n < Len(ranges) => n + 1 \in 1..Len(ranges)
      BY <2>2, <2>3
    <3>2. 0 \in 0..MaxUint32
      BY LedgerRangeFacts
    <3> QED
      BY <2>2, <2>5, <3>1, <3>2, LedgerRangeFacts, Zenon
  <2>9. ASSUME NEW l \in RangeLedgers, rebuildErr' = 0 \/ l < rebuildErr' PROVE l \in rebuilt'
    <3>1. PICK i \in 1..Len(ranges) : l \in Range2Set(ranges[i])
      BY <2>2, Zenon
    <3>2. l \in Nat /\ ranges[i].from <= l
      BY <2>2, <3>1 DEF Range2Set
    <3>3. CASE n < Len(ranges)
      <4>1. n + 1 \in 1..Len(ranges) /\ (i <= n \/ i = n + 1 \/ n + 1 < i)
        BY <2>2, <2>3, <3>3
      <4>2. rebuildErr' = ranges[n + 1].from
        BY <2>5, <3>3, Zenon
      <4>3. l < ranges[n + 1].from
        BY <2>2, <2>9, <4>1, <4>2
      <4>4. i <= n
        <5>1. i = n + 1 => ~ (l < ranges[n + 1].from)
          BY <2>2, <3>2, <4>1
        <5>2. n + 1 < i => ~ (l < ranges[n + 1].from)
          <6>1. n + 1 < i => ranges[n + 1].to < ranges[i].from
            BY <2>2, <4>1, Zenon
          <6>2. /\ ranges[n + 1].from \in Nat /\ ranges[n + 1].to \in Nat
                /\ ranges[n + 1].from <= ranges[n + 1].to /\ ranges[i].from \in Nat
            BY <2>2, <4>1, Zenon
          <6> QED
            BY <3>2, <6>1, <6>2
        <5> QED
          BY <4>1, <4>3, <5>1, <5>2, Zenon
      <4> QED
        BY <2>3, <2>4, <3>1, <4>4
    <3>4. CASE n = Len(ranges)
      BY <2>4, <3>1, <3>4, Zenon
    <3> QED
      BY <2>2, <2>3, <3>3, <3>4
  <2>10. ResultGood'
    BY <1>4, <2>1, <2>7, <2>8, <2>9, Zenon DEF ResultGood
  <2> QED
    BY <1>1, <1>2, <2>10, Zenon DEF IInv
<1> QED
  BY <1>5, <1>6

\* Enqueue with ranges that validateRanges takes, and a batch size.
LEMMA EnqueueKept ==
  ASSUME IInv, pc = "detect", NEW rs \in Seq(JobRange), validateRanges(rs), Enqueue(rs),
         batchSize' \in 0..MaxLedger + Interval, batchSize' > 0
  PROVE  IInv'
<1> USE DEF IInv
<1>1. /\ Idle /\ done = {} /\ lowestRangeErr = NoJob /\ cur = 1
      /\ job' = job /\ done' = done /\ lowestRangeErr' = lowestRangeErr /\ exited' = exited
      /\ failures' = failures /\ cur' = cur /\ pc' = "enqueue" /\ ranges' = rs
      /\ subRangeFrom' = IF rs = <<>> THEN 0 ELSE rs[1].from
      /\ history' \subseteq history /\ history \subseteq Ledgers /\ requested' = NoJob
      /\ UNCHANGED <<stop, lowestLedger, rebuilt, rebuildErr>>
  BY Zenon DEF RangesGood, jobVars, Enqueue
<1>2. /\ Len(rs) \in Nat
      /\ \A l : l \in LedgersOf(rs) <=> \E i \in 1..Len(rs) : l \in Range2Set(rs[i])
      /\ \A i \in 1..Len(rs) :
           /\ rs[i].from \in Nat /\ rs[i].to \in Nat /\ 1 <= rs[i].from
           /\ rs[i].from <= rs[i].to /\ rs[i].to <= MaxLedger
           /\ rs[i].from \in Ledgers /\ rs[i].to \in Ledgers
      /\ \A i, j \in 1..Len(rs) : i < j => rs[i].to < rs[j].from
  BY LedgersOfFacts, Zenon
<1>3. RangeLedgers' = LedgersOf(rs)
  BY <1>1, Zenon DEF RangeLedgers, LedgersOf
<1>4. RangesGood'
  <2>1. history' \subseteq Ledgers /\ requested' \in LedgerRange
    BY <1>1, LedgerRangeFacts, Zenon
  <2> QED
    BY <1>1, <2>1, Zenon DEF RangesGood
<1>5. 1 <= Len(rs) => subRangeFrom' = rs[1].from /\ 1 \in 1..Len(rs)
  BY <1>1, <1>2
<1>6. PositionGood'
  <2>1. batchSize' \in 0..MaxLedger + Interval /\ batchSize' > 0 /\ batchSize' \in Nat
    BY LedgerFacts
  <2>2. subRangeFrom' \in 0..MaxUint32
    <3>1. CASE rs = <<>>
      BY <1>1, <3>1, LedgerRangeFacts
    <3>2. CASE rs # <<>>
      BY <1>2, <1>5, <3>2, LedgerRangeFacts
    <3> QED
      BY <3>1, <3>2
  <2>3. cur' \in 1..Len(ranges') + 1
    BY <1>1, <1>2
  <2>4. ASSUME cur' <= Len(ranges')
        PROVE  /\ subRangeFrom' \in ranges'[cur'].from..(ranges'[cur'].to + 1)
               /\ (subRangeFrom' - ranges'[cur'].from) % batchSize' = 0
    <3>1. /\ ranges'[cur'].from = rs[1].from /\ ranges'[cur'].to = rs[1].to
          /\ subRangeFrom' = rs[1].from /\ 1 \in 1..Len(rs)
      BY <1>1, <1>5, <2>4, Zenon
    <3>2. rs[1].from \in Nat /\ rs[1].to \in Nat /\ rs[1].from <= rs[1].to
      BY <1>2, <3>1
    <3>3. rs[1].from - rs[1].from = 0
      BY <3>2
    <3> QED
      BY <2>1, <3>1, <3>2, <3>3, ZeroRemainder
  <2> QED
    BY <2>1, <2>2, <2>3, <2>4 DEF PositionGood
<1>7. WorkersGood'
  BY <1>1 DEF WorkersGood, Idle
<1>8. JobsDisjoint'
  BY <1>1 DEF JobsDisjoint, Idle
<1>9. AllSettled'
  <2> SUFFICES ASSUME NEW l \in RangeLedgers', Passed(l)' PROVE FALSE
    BY Zenon DEF AllSettled
  <2> HIDE DEF IInv
  <2>1. PICK i \in 1..Len(rs) : l \in Range2Set(rs[i])
    BY <1>2, <1>3, Zenon
  <2>2. 1 \in 1..Len(rs) /\ 1 <= Len(rs) /\ (i = 1 \/ 1 < i)
    BY <1>2
  <2>3. l \in Nat /\ rs[i].from <= l
    BY <1>2, <2>1 DEF Range2Set
  <2>4. l < rs[1].from
    BY <1>1, <1>5, <2>2 DEF Passed
  <2>5. rs[1].from <= rs[i].from
    <3>1. i = 1 \/ (rs[1].to < rs[i].from /\ rs[1].from <= rs[1].to)
      BY <1>2, <2>2, Zenon
    <3>2. rs[1].from \in Nat /\ rs[1].to \in Nat /\ rs[i].from \in Nat
      BY <1>2, <2>2, Zenon
    <3> QED
      BY <3>1, <3>2
  <2> QED
    BY <1>2, <2>2, <2>3, <2>4, <2>5
<1>10. ResultGood'
  BY <1>1, Zenon DEF ResultGood
<1> QED
  BY <1>4, <1>6, <1>7, <1>8, <1>9, <1>10

LEMMA NextRangeKept == ASSUME IInv, NextRange PROVE IInv'
<1> USE DEF IInv, NextRange
<1>1. /\ pc = "enqueue" /\ pc' = pc /\ ranges' = ranges /\ batchSize' = batchSize
      /\ job' = job /\ done' = done /\ lowestRangeErr' = lowestRangeErr /\ exited' = exited
      /\ failures' = failures /\ lowestLedger' = lowestLedger /\ cur' = cur + 1
      /\ cur <= Len(ranges) /\ subRangeFrom >= ranges[cur].to
      /\ subRangeFrom' = IF cur < Len(ranges) THEN ranges[cur + 1].from ELSE 0
      /\ UNCHANGED <<history, requested, stop, rebuilt, rebuildErr>>
  BY Zenon DEF jobVars
<1> HIDE DEF NextRange
<1>2. /\ Len(ranges) \in Nat
      /\ \A l : l \in RangeLedgers <=> \E i \in 1..Len(ranges) : l \in Range2Set(ranges[i])
      /\ \A i \in 1..Len(ranges) :
           /\ ranges[i].from \in Nat /\ ranges[i].to \in Nat /\ 1 <= ranges[i].from
           /\ ranges[i].from <= ranges[i].to /\ ranges[i].from \in Ledgers
      /\ \A i, j \in 1..Len(ranges) : i < j => ranges[i].to < ranges[j].from
  BY RangeFacts
<1>3. RangeLedgers' = RangeLedgers /\ DroppedTails' = DroppedTails
  BY <1>1 DEF RangeLedgers, DroppedTails
<1> DEFINE to == ranges[cur].to
           next == ranges[cur + 1].from
<1>4. cur \in 1..Len(ranges) /\ to \in Nat /\ subRangeFrom \in {to, to + 1}
  <2>1. cur \in 1..Len(ranges)
    BY <1>1, PlaceFacts, Zenon
  <2>2. to \in Nat /\ subRangeFrom \in ranges[cur].from..(to + 1) /\ subRangeFrom >= to
    BY <1>1, <1>2, <2>1, Zenon DEF PositionGood
  <2>3. ranges[cur].from \in Nat
    BY <1>2, <2>1, Zenon
  <2> HIDE DEF to
  <2> QED
    BY <2>1, <2>2, <2>3
<1>5. cur < Len(ranges) =>
        cur + 1 \in 1..Len(ranges) /\ next \in Nat /\ to < next /\ subRangeFrom' = next
  BY <1>1, <1>2, <1>4
<1>6. batchSize \in Nat /\ batchSize > 0
  BY <1>1, PlaceFacts, Zenon
<1>7. ASSUME NEW l, Passed(l) PROVE Passed(l)'
  <2> SUFFICES ASSUME cur < Len(ranges) PROVE l < next
    BY <1>1, <1>2, <1>3, <1>4, <1>5, <1>7 DEF Passed
  <2>1. l \in Nat /\ l < subRangeFrom
    BY <1>4, <1>7, RangeFacts DEF Passed
  <2> QED
    BY <1>4, <1>5, <2>1
<1>8. ASSUME NEW l, Passed(l)' PROVE Passed(l) \/ l \in DroppedTails
  <2> SUFFICES ASSUME ~ Passed(l) PROVE l \in DroppedTails
    OBVIOUS
  <2>1. l \in RangeLedgers /\ l \in Nat /\ ~ (l < subRangeFrom)
    BY <1>3, <1>8, RangeFacts DEF Passed
  <2>2. PICK i \in 1..Len(ranges) : l \in Range2Set(ranges[i])
    BY <1>2, <2>1, Zenon
  <2>3. ranges[i].from <= l /\ l <= ranges[i].to /\ ranges[i].from \in Nat /\ ranges[i].to \in Nat
    BY <1>2, <2>2 DEF Range2Set
  <2>4. l <= to
    <3>1. CASE i <= cur
      <4>1. i = cur \/ (i < cur /\ ranges[i].to < ranges[cur].from)
        BY <1>2, <1>4, <3>1
      <4>2. ranges[cur].from \in Nat /\ ranges[cur].from <= to
        BY <1>2, <1>4
      <4> QED
        BY <1>4, <2>1, <2>3, <4>1, <4>2
    <3>2. CASE i > cur
      <4>1. cur < Len(ranges) /\ (i = cur + 1 \/ cur + 1 < i)
        BY <1>2, <1>4, <3>2
      <4>2. l < next
        BY <1>1, <1>2, <1>4, <1>5, <1>8, <4>1 DEF Passed
      <4>3. i = cur + 1 \/ (ranges[cur + 1].to < ranges[i].from
                            /\ next <= ranges[cur + 1].to /\ ranges[cur + 1].to \in Nat)
        BY <1>2, <1>5, <4>1, Zenon
      <4> QED
        BY <1>5, <2>1, <2>3, <4>1, <4>2, <4>3
    <3> QED
      BY <1>4, <3>1, <3>2
  <2>5. l = to /\ subRangeFrom = to
    BY <1>4, <2>1, <2>4
  <2>6. (to - ranges[cur].from) % batchSize = 0
    BY <1>4, <2>5 DEF PositionGood
  <2>7. cur \in DOMAIN ranges
    BY <1>4 DEF RangesGood
  <2> QED
    BY <2>5, <2>6, <2>7 DEF DroppedTails
<1>9. RangesGood'
  BY <1>1 DEF RangesGood
<1>10. PositionGood'
  <2>1. cur' \in 1..Len(ranges') + 1
    <3>1. cur' = cur + 1 /\ ranges' = ranges /\ Len(ranges) \in Nat /\ cur \in 1..Len(ranges)
      BY <1>1, <1>2, <1>4, Zenon
    <3>2. cur + 1 \in 1..Len(ranges) + 1
      BY <3>1
    <3> QED
      BY <3>1, <3>2, Zenon
  <2>2. CASE cur < Len(ranges)
    <3>1. next - next = 0 /\ ranges[cur + 1].to \in Nat /\ next <= ranges[cur + 1].to
      <4>1. ranges[cur + 1].to \in Nat /\ next <= ranges[cur + 1].to /\ next \in Nat
        BY <1>2, <1>5, <2>2, Zenon
      <4>2. \A n \in Nat : n - n = 0
        OBVIOUS
      <4> QED
        BY <4>1, <4>2, Zenon
    <3>2. next \in 0..MaxUint32
      BY <1>2, <1>5, <2>2, LedgerRangeFacts
    <3>3. (subRangeFrom' - ranges'[cur'].from) % batchSize' = 0
      <4>1. subRangeFrom' - ranges'[cur'].from = next - next
        BY <1>1, <1>5, <2>2, Zenon
      <4> QED
        BY <1>1, <1>6, <3>1, <4>1, ZeroRemainder, Zenon
    <3>4. next \in next..(ranges[cur + 1].to + 1)
      BY <1>5, <2>2, <3>1
    <3>5. /\ subRangeFrom' \in 0..MaxUint32
          /\ subRangeFrom' \in ranges'[cur'].from..(ranges'[cur'].to + 1)
      BY <1>1, <1>5, <2>2, <3>2, <3>4, Zenon
    <3>6. batchSize' \in 0..MaxLedger + Interval /\ batchSize' > 0
      BY <1>1, <1>6, Zenon DEF PositionGood
    <3> QED
      BY <2>1, <3>3, <3>5, <3>6, Zenon DEF PositionGood
  <2>3. CASE ~ (cur < Len(ranges))
    <3>1. subRangeFrom' = 0 /\ ~ (cur' <= Len(ranges'))
      <4>1. subRangeFrom' = 0 /\ cur' = cur + 1 /\ ranges' = ranges
        BY <1>1, <2>3, Zenon
      <4> QED
        BY <1>2, <1>4, <2>3, <4>1
    <3> QED
      BY <1>1, <2>1, <3>1, LedgerRangeFacts DEF PositionGood
  <2> QED
    BY <2>2, <2>3
<1>11. WorkersGood'
  BY <1>1, <1>7, Zenon DEF WorkersGood
<1>12. JobsDisjoint' /\ ResultGood'
  <2>1. JobsDisjoint'
    BY <1>1, Zenon DEF JobsDisjoint
  <2>2. ResultGood'
    BY <1>1, Zenon DEF ResultGood
  <2> QED
    BY <2>1, <2>2
<1>13. AllSettled'
  <2>1. \A l : Settled(l) \/ l \in DroppedTails => Settled(l)'
    BY <1>1, <1>3, Zenon DEF Settled
  <2> QED
    BY <1>3, <1>8, <2>1 DEF AllSettled
<1> QED
  BY <1>9, <1>10, <1>11, <1>12, <1>13

LEMMA SendJobKept == ASSUME IInv, NEW w \in Workers, SendJob(w) PROVE IInv'
<1> USE DEF IInv
<1> DEFINE r == ranges[cur]
           to == Min({subRangeFrom + batchSize - 1, r.to})
           new == [from |-> subRangeFrom, to |-> to]
<1>1. /\ pc = "enqueue" /\ cur <= Len(ranges) /\ subRangeFrom < r.to
      /\ w \notin exited /\ job[w] = NoJob
      /\ job' = [job EXCEPT ![w] = new] /\ lowestLedger' = Min({subRangeFrom, lowestLedger})
      /\ subRangeFrom' = to + 1
      /\ UNCHANGED <<history, requested, ranges, batchSize, pc, cur, stop, exited, done,
                     lowestRangeErr, rebuilt, rebuildErr, failures>>
  BY Zenon DEF SendJob
<1>2. /\ cur \in 1..Len(ranges) /\ r.from \in Nat /\ r.to \in Nat /\ 1 <= r.from
      /\ r.from <= r.to /\ r.to <= MaxLedger
  <2>1. cur \in 1..Len(ranges)
    BY <1>1, PlaceFacts, Zenon
  <2> QED
    BY <2>1, RangeFacts, Zenon
<1>3. batchSize \in Nat /\ batchSize > 0
  BY <1>1, PlaceFacts, Zenon
<1>4. subRangeFrom \in Nat /\ r.from <= subRangeFrom /\ (subRangeFrom - r.from) % batchSize = 0
  <2>1. subRangeFrom \in r.from..(r.to + 1)
    BY <1>1, Zenon DEF PositionGood
  <2>2. subRangeFrom \in Nat /\ r.from <= subRangeFrom /\ subRangeFrom # r.to + 1
    BY <1>1, <1>2, <2>1
  <2> QED
    BY <1>1, <2>2, Zenon DEF PositionGood
<1>5. to = IF subRangeFrom + batchSize - 1 <= r.to THEN subRangeFrom + batchSize - 1 ELSE r.to
  BY <1>2, <1>3, <1>4, MinMax, subRangeFrom + batchSize - 1 \in Int, r.to \in Int, Zenon
<1> HIDE DEF to
<1>6. to \in Nat /\ subRangeFrom <= to /\ to <= r.to
  <2>1. r.to \in Nat /\ subRangeFrom < r.to /\ subRangeFrom \in Nat
    BY <1>1, <1>2, <1>4, Zenon
  <2> HIDE DEF r
  <2> QED
    BY <1>3, <1>5, <2>1
<1>7. /\ lowestLedger \in Nat /\ lowestLedger \in 1..MaxUint32
      /\ lowestLedger' = IF subRangeFrom <= lowestLedger THEN subRangeFrom ELSE lowestLedger
  <2>1. lowestLedger \in Nat /\ lowestLedger \in 1..MaxUint32
    BY LedgerRangeFacts DEF WorkersGood
  <2> QED
    <3>1. subRangeFrom \in Int /\ lowestLedger \in Int
      BY <1>4, <2>1
    <3> QED
      BY <1>1, <2>1, <3>1, MinMax, Zenon
<1>8. /\ new \in JobRange /\ new # NoJob /\ new \in LedgerRange
      /\ new.from = subRangeFrom /\ new.to = to /\ subRangeFrom \in Ledgers /\ to \in Ledgers
  <2>1. subRangeFrom \in Ledgers /\ to \in Ledgers
    BY <1>2, <1>4, <1>6, LedgerFacts
  <2>2. new \in JobRange
    BY <2>1 DEF JobRange
  <2> QED
    BY <2>1, <2>2, LedgerRangeFacts
<1> HIDE DEF new
<1>9. \A l : l \in Range2Set(new) <=> l \in Nat /\ subRangeFrom <= l /\ l <= to
  BY <1>4, <1>6, <1>8 DEF Range2Set
<1>10. RangeLedgers' = RangeLedgers /\ DroppedTails' = DroppedTails
  BY <1>1 DEF RangeLedgers, DroppedTails
<1>11. \A l \in Range2Set(new) : l \in RangeLedgers /\ ~ Passed(l)
  <2> SUFFICES ASSUME NEW l \in Range2Set(new) PROVE l \in RangeLedgers /\ ~ Passed(l)
    OBVIOUS
  <2>1. l \in Nat /\ subRangeFrom <= l /\ l <= to
    BY <1>9
  <2>2. l \in Range2Set(ranges[cur])
    BY <1>2, <1>4, <1>6, <2>1 DEF Range2Set
  <2>3. ~ (l < subRangeFrom)
    BY <1>4, <2>1
  <2> QED
    BY <1>1, <1>2, <2>2, <2>3, RangeFacts, Zenon DEF Passed
<1>12. \A l : Passed(l)' <=> Passed(l) \/ l \in Range2Set(new)
  <2>1. ASSUME NEW l \in RangeLedgers
        PROVE  l < to + 1 <=> l < subRangeFrom \/ l \in Range2Set(new)
    BY <1>4, <1>6, <1>9, RangeFacts
  <2> QED
    BY <1>1, <1>10, <1>11, <2>1 DEF Passed
<1>13. \A v \in Workers : job'[v] = IF v = w THEN new ELSE job[v]
  BY <1>1, Zenon DEF WorkersGood
<1>14. RangesGood'
  BY <1>1 DEF RangesGood
<1>15. PositionGood'
  <2>1. to + 1 \in r.from..(r.to + 1) /\ to + 1 \in 0..MaxUint32
    BY <1>2, <1>4, <1>6, LedgerFacts DEF MaxUint32
  <2>2. to + 1 = r.to + 1 \/ ((to + 1) - r.from) % batchSize = 0
    <3>1. CASE subRangeFrom + batchSize - 1 <= r.to
      <4>1. subRangeFrom - r.from \in Nat
        BY <1>2, <1>4
      <4>2. ((subRangeFrom - r.from) + batchSize) % batchSize = 0
        BY <1>3, <1>4, <4>1, Remainder, Zenon
      <4>3. (to + 1) - r.from = (subRangeFrom - r.from) + batchSize
        BY <1>2, <1>3, <1>4, <1>5, <3>1
      <4> QED
        BY <4>2, <4>3
    <3>2. CASE ~ (subRangeFrom + batchSize - 1 <= r.to)
      BY <1>5, <3>2
    <3> QED
      BY <3>1, <3>2
  <2>3. ranges'[cur'] = r /\ cur' = cur /\ Len(ranges') = Len(ranges)
    BY <1>1, Zenon
  <2> HIDE DEF r
  <2>4. /\ subRangeFrom' \in 0..MaxUint32
        /\ subRangeFrom' \in ranges'[cur'].from..(ranges'[cur'].to + 1)
        /\ \/ subRangeFrom' = ranges'[cur'].to + 1
           \/ (subRangeFrom' - ranges'[cur'].from) % batchSize' = 0
    BY <1>1, <2>1, <2>2, <2>3, Zenon
  <2>5. batchSize' \in 0..MaxLedger + Interval /\ batchSize' > 0 /\ cur' \in 1..Len(ranges') + 1
    BY <1>1, <1>3, <2>3, Zenon DEF PositionGood
  <2> QED
    BY <2>4, <2>5, Zenon DEF PositionGood
<1>16. WorkersGood'
  <2>1. /\ job' \in [Workers -> LedgerRange] /\ exited' \subseteq Workers /\ stop' \in BOOLEAN
        /\ failures' \in 0..MaxFailures /\ lowestRangeErr' \in LedgerRange
    BY <1>1, <1>8, Zenon DEF WorkersGood
  <2>2. /\ lowestLedger' \in 1..MaxUint32 /\ lowestLedger' \in Nat
        /\ lowestLedger' <= lowestLedger /\ lowestLedger' <= subRangeFrom
    BY <1>4, <1>7, <1>8, LedgerRangeFacts
  <2>3. ASSUME NEW v \in Workers, job'[v] # NoJob
        PROVE  /\ v \notin exited'
               /\ job'[v] \in JobRange /\ job'[v].from <= job'[v].to
               /\ lowestLedger' <= job'[v].from
               /\ \A l \in Range2Set(job'[v]) : Passed(l)'
    <3>1. CASE v = w
      BY <1>1, <1>6, <1>8, <1>12, <1>13, <2>2, <3>1, Zenon
    <3>2. CASE v # w
      <4>1. /\ v \notin exited /\ job[v] \in JobRange /\ job[v].from <= job[v].to
            /\ lowestLedger <= job[v].from /\ \A l \in Range2Set(job[v]) : Passed(l)
        BY <1>13, <2>3, <3>2, Zenon DEF WorkersGood
      <4>2. job[v].from \in Nat
        BY <4>1, LedgerFacts, Zenon
      <4>3. lowestLedger' <= job[v].from
        BY <1>7, <2>2, <4>1, <4>2, AtMost, Zenon
      <4> QED
        BY <1>1, <1>12, <1>13, <3>2, <4>1, <4>3, Zenon
    <3> QED
      BY <3>1, <3>2, Zenon
  <2>4. \A l \in done : Passed(l)' /\ lowestLedger' <= l
    <3> SUFFICES ASSUME NEW l \in done PROVE Passed(l)' /\ lowestLedger' <= l
      OBVIOUS
    <3>1. Passed(l) /\ lowestLedger <= l
      BY DEF WorkersGood
    <3>2. l \in Nat
      BY <3>1, RangeFacts, Zenon DEF Passed
    <3> QED
      BY <1>7, <1>12, <2>2, <3>1, <3>2
  <2>5. lowestRangeErr' # NoJob => lowestRangeErr'.from # 0 /\ Passed(lowestRangeErr.from)'
    BY <1>1, <1>12, Zenon DEF WorkersGood
  <2> QED
    BY <1>1, <2>1, <2>2, <2>3, <2>4, <2>5, Zenon DEF WorkersGood
<1>17. JobsDisjoint'
  <2>1. Range2Set(new) \cap done = {}
    BY <1>11 DEF WorkersGood
  <2>2. \A v \in Workers : job[v] # NoJob => Range2Set(new) \cap Range2Set(job[v]) = {}
    BY <1>11 DEF WorkersGood
  <2> QED
    BY <1>1, <1>13, <2>1, <2>2, Zenon DEF JobsDisjoint
<1>18. AllSettled'
  <2> SUFFICES ASSUME NEW l \in RangeLedgers, Passed(l)' PROVE Settled(l)'
    BY <1>10 DEF AllSettled
  <2>1. CASE l \in Range2Set(new)
    BY <1>8, <1>13, <2>1 DEF Settled
  <2>2. CASE Passed(l)
    <3>1. Settled(l)
      BY <2>2 DEF AllSettled
    <3> QED
      BY <1>1, <1>10, <1>13, <3>1, Zenon DEF Settled
  <2> QED
    BY <1>12, <2>1, <2>2
<1>19. ResultGood'
  BY <1>1, Zenon DEF ResultGood
<1> QED
  BY <1>14, <1>15, <1>16, <1>17, <1>18, <1>19

LEMMA WorkerStopKept == ASSUME IInv, NEW w \in Workers, WorkerStop(w) PROVE IInv'
<1> USE DEF IInv, WorkerStop
<1>1. /\ RangeLedgers' = RangeLedgers /\ DroppedTails' = DroppedTails
      /\ \A l : Passed(l)' <=> Passed(l)
  BY PositionFrame, Zenon
<1>2. RangesGood' /\ PositionGood'
  BY Zenon DEF RangesGood, PositionGood, Idle
<1>3. WorkersGood'
  BY <1>1 DEF WorkersGood
<1>4. JobsDisjoint'
  BY Zenon DEF JobsDisjoint
<1>5. AllSettled'
  <2>1. \A l : Settled(l)' <=> Settled(l)
    BY <1>1, Zenon DEF Settled
  <2> QED
    BY <1>1, <2>1, Zenon DEF AllSettled
<1>6. ResultGood'
  BY Zenon DEF ResultGood
<1> QED
  BY <1>2, <1>3, <1>4, <1>5, <1>6, Zenon

\* What WorkerDone and WorkerFail do to the jobs.
LEMMA JobEnds ==
  ASSUME IInv, NEW w \in Workers, job[w] # NoJob, job' = [job EXCEPT ![w] = NoJob],
         UNCHANGED <<history, requested, ranges, batchSize, pc, cur, subRangeFrom,
                     lowestLedger, rebuilt, rebuildErr>>
  PROVE  /\ pc \notin {"idle", "detect", "returned"} /\ RangesGood' /\ PositionGood' /\ ResultGood'
         /\ RangeLedgers' = RangeLedgers /\ DroppedTails' = DroppedTails
         /\ \A l : Passed(l)' <=> Passed(l)
         /\ job' \in [Workers -> LedgerRange]
         /\ \A v \in Workers : job'[v] = IF v = w THEN NoJob ELSE job[v]
         /\ job[w] \in JobRange /\ job[w].from \in Ledgers /\ job[w].to \in Ledgers
         /\ job[w].from \in Range2Set(job[w])
         /\ \A l \in Range2Set(job[w]) : l \in Nat /\ job[w].from <= l /\ Passed(l)
         /\ lowestLedger \in Nat /\ lowestLedger <= job[w].from
<1> USE DEF IInv
<1>1. /\ job[w] \in JobRange /\ job[w].from <= job[w].to /\ lowestLedger <= job[w].from
      /\ w \notin exited /\ \A l \in Range2Set(job[w]) : Passed(l)
  BY DEF WorkersGood
<1>2. pc \notin {"idle", "detect", "returned"}
  BY <1>1, Zenon DEF RangesGood, Idle, ResultGood
<1>3. RangesGood' /\ PositionGood' /\ ResultGood'
  BY <1>2, Zenon DEF RangesGood, PositionGood, ResultGood
<1>4. /\ RangeLedgers' = RangeLedgers /\ DroppedTails' = DroppedTails
      /\ \A l : Passed(l)' <=> Passed(l)
  BY PositionFrame
<1>5. /\ job' \in [Workers -> LedgerRange]
      /\ \A v \in Workers : job'[v] = IF v = w THEN NoJob ELSE job[v]
  BY LedgerRangeFacts DEF WorkersGood
<1>6. job[w].from \in Ledgers /\ job[w].to \in Ledgers /\ job[w].from \in Nat /\ job[w].to \in Nat
  BY <1>1, LedgerFacts, Zenon
<1>7. /\ job[w].from \in Range2Set(job[w])
      /\ \A l \in Range2Set(job[w]) : l \in Nat /\ job[w].from <= l
  BY <1>1, <1>6 DEF Range2Set
<1>8. lowestLedger \in Nat
  BY LedgerRangeFacts DEF WorkersGood
<1> QED
  BY <1>1, <1>2, <1>3, <1>4, <1>5, <1>6, <1>7, <1>8, Zenon

LEMMA WorkerDoneKept == ASSUME IInv, NEW w \in Workers, WorkerDone(w) PROVE IInv'
<1> USE DEF IInv
<1>1. /\ job[w] # NoJob /\ done' = done \cup Range2Set(job[w])
      /\ job' = [job EXCEPT ![w] = NoJob]
      /\ UNCHANGED <<history, requested, ranges, batchSize, pc, cur, subRangeFrom, stop, exited,
                     lowestLedger, lowestRangeErr, rebuilt, rebuildErr, failures>>
  BY DEF WorkerDone
<1>2. /\ RangesGood' /\ PositionGood' /\ ResultGood'
      /\ RangeLedgers' = RangeLedgers /\ DroppedTails' = DroppedTails
      /\ \A l : Passed(l)' <=> Passed(l)
      /\ job' \in [Workers -> LedgerRange]
      /\ \A v \in Workers : job'[v] = IF v = w THEN NoJob ELSE job[v]
      /\ \A l \in Range2Set(job[w]) : l \in Nat /\ job[w].from <= l /\ Passed(l)
      /\ lowestLedger \in Nat /\ lowestLedger <= job[w].from /\ job[w].from \in Ledgers
  <2>1. UNCHANGED <<history, requested, ranges, batchSize, pc, cur, subRangeFrom,
                    lowestLedger, rebuilt, rebuildErr>>
    BY <1>1
  <2> QED
    BY <1>1, <2>1, JobEnds, Zenon
<1>3. WorkersGood'
  <2>1. ASSUME NEW l \in Range2Set(job[w]) PROVE lowestLedger <= l
    <3>1. /\ l \in Nat /\ job[w].from <= l /\ lowestLedger <= job[w].from
          /\ lowestLedger \in Nat /\ job[w].from \in Nat
      BY <1>2, LedgerFacts, Zenon
    <3> QED
      BY <3>1
  <2>2. \A l \in done' : Passed(l)' /\ lowestLedger <= l
    BY <1>1, <1>2, <2>1, Zenon DEF WorkersGood
  <2>3. stop' \in BOOLEAN /\ lowestRangeErr' \in LedgerRange
    BY <1>1, Zenon DEF WorkersGood
  <2> QED
    BY <1>1, <1>2, <2>2, <2>3, Zenon DEF WorkersGood
<1>4. JobsDisjoint'
  BY <1>1, <1>2, Zenon DEF JobsDisjoint
<1>5. AllSettled'
  <2> SUFFICES ASSUME NEW l \in RangeLedgers, Passed(l) PROVE Settled(l)'
    BY <1>2, Zenon DEF AllSettled
  <2>1. Settled(l)
    BY DEF AllSettled
  <2> QED
    BY <1>1, <1>2, <2>1 DEF Settled
<1> QED
  BY <1>2, <1>3, <1>4, <1>5, Zenon

LEMMA WorkerFailKept == ASSUME IInv, NEW w \in Workers, WorkerFail(w) PROVE IInv'
<1> USE DEF IInv
<1>1. /\ job[w] # NoJob /\ failures < MaxFailures
      /\ lowestRangeErr' = IF lowestRangeErr = NoJob \/ lowestRangeErr.from > job[w].from
                           THEN job[w] ELSE lowestRangeErr
      /\ job' = [job EXCEPT ![w] = NoJob]
      /\ exited' = exited \cup {w} /\ stop' = TRUE /\ failures' = failures + 1
      /\ UNCHANGED <<history, requested, ranges, batchSize, pc, cur, subRangeFrom, done,
                     lowestLedger, rebuilt, rebuildErr>>
  BY Zenon DEF WorkerFail
<1>2. /\ RangesGood' /\ PositionGood' /\ ResultGood'
      /\ RangeLedgers' = RangeLedgers /\ DroppedTails' = DroppedTails
      /\ \A l : Passed(l)' <=> Passed(l)
      /\ job' \in [Workers -> LedgerRange]
      /\ \A v \in Workers : job'[v] = IF v = w THEN NoJob ELSE job[v]
      /\ job[w] \in JobRange /\ job[w].from \in Ledgers /\ job[w].from \in Range2Set(job[w])
      /\ \A l \in Range2Set(job[w]) : l \in Nat /\ job[w].from <= l /\ Passed(l)
  <2>1. UNCHANGED <<history, requested, ranges, batchSize, pc, cur, subRangeFrom,
                    lowestLedger, rebuilt, rebuildErr>>
    BY <1>1, Zenon
  <2> QED
    BY <1>1, <2>1, JobEnds, Zenon
<1>3. job[w].from \in Nat /\ job[w].from # 0 /\ job[w] \in LedgerRange
  <2>1. job[w].from \in Nat /\ 1 <= job[w].from /\ job[w] \in LedgerRange
    BY <1>2, LedgerFacts, LedgerRangeFacts, Zenon
  <2> QED
    BY <2>1
<1>4. /\ lowestRangeErr' \in LedgerRange /\ lowestRangeErr' # NoJob
      /\ lowestRangeErr'.from # 0 /\ Passed(lowestRangeErr'.from)
  <2>1. CASE lowestRangeErr' = job[w]
    BY <1>1, <1>2, <1>3, <2>1
  <2>2. CASE lowestRangeErr' = lowestRangeErr /\ lowestRangeErr # NoJob
    BY <2>2 DEF WorkersGood
  <2> QED
    BY <1>1, <2>1, <2>2, Zenon
<1>5. /\ lowestRangeErr'.from <= job[w].from /\ lowestRangeErr'.from \in Nat
      /\ lowestRangeErr # NoJob => lowestRangeErr'.from <= lowestRangeErr.from
      /\ lowestRangeErr.from \in Nat
  <2>1. lowestRangeErr.from \in Nat
    BY LedgerRangeFacts DEF WorkersGood, LedgerRange
  <2>2. lowestRangeErr' = IF lowestRangeErr = NoJob \/ lowestRangeErr.from > job[w].from
                          THEN job[w] ELSE lowestRangeErr
    BY <1>1, Zenon
  <2>3. CASE lowestRangeErr = NoJob \/ lowestRangeErr.from > job[w].from
    <3>1. lowestRangeErr' = job[w]
      BY <2>2, <2>3, Zenon
    <3> QED
      BY <1>3, <2>1, <2>3, <3>1
  <2>4. CASE ~ (lowestRangeErr = NoJob \/ lowestRangeErr.from > job[w].from)
    <3>1. lowestRangeErr' = lowestRangeErr
      BY <2>2, <2>4, Zenon
    <3> QED
      BY <1>3, <2>1, <2>4, <3>1
  <2> QED
    BY <2>3, <2>4, Zenon
<1>6. WorkersGood'
  <2>1. failures' \in 0..MaxFailures
    BY <1>1, ParallelReingestAssumption DEF WorkersGood
  <2>2. exited' \subseteq Workers /\ stop' \in BOOLEAN /\ lowestLedger' \in 1..MaxUint32
    BY <1>1, Zenon DEF WorkersGood
  <2>3. ASSUME NEW v \in Workers, job'[v] # NoJob
        PROVE  /\ v \notin exited'
               /\ job'[v] \in JobRange /\ job'[v].from <= job'[v].to
               /\ lowestLedger' <= job'[v].from
               /\ \A l \in Range2Set(job'[v]) : Passed(l)'
    <3>1. v # w /\ job'[v] = job[v]
      BY <1>2, <2>3, Zenon
    <3> QED
      BY <1>1, <1>2, <2>3, <3>1, Zenon DEF WorkersGood
  <2>4. \A l \in done : Passed(l)' /\ lowestLedger' <= l
    BY <1>1, <1>2, Zenon DEF WorkersGood
  <2>5. Passed(lowestRangeErr.from)'
    BY <1>2, <1>4, Zenon
  <2> QED
    BY <1>1, <1>2, <1>4, <2>1, <2>2, <2>3, <2>4, <2>5, Zenon DEF WorkersGood
<1>7. JobsDisjoint'
  BY <1>1, <1>2, Zenon DEF JobsDisjoint
<1>8. AllSettled'
  <2> SUFFICES ASSUME NEW l \in RangeLedgers, Passed(l) PROVE Settled(l)'
    BY <1>2, Zenon DEF AllSettled
  <2>1. Settled(l) /\ l \in Nat
    BY RangeFacts, Zenon DEF AllSettled
  <2>2. CASE l \in done \cup DroppedTails
    BY <1>1, <1>2, <2>2, Zenon DEF Settled
  <2>3. CASE l \in Range2Set(job[w]) \/ (lowestRangeErr # NoJob /\ lowestRangeErr.from <= l)
    <3>1. PICK k \in {job[w].from, lowestRangeErr.from} :
            k <= l /\ lowestRangeErr'.from <= k
      BY <1>2, <1>5, <2>3, Zenon
    <3>2. k \in Nat /\ l \in Nat /\ lowestRangeErr'.from \in Nat
      BY <1>3, <1>5, <2>1, <3>1, Zenon
    <3>3. lowestRangeErr'.from <= l
      BY <3>1, <3>2, AtMost, Zenon
    <3> QED
      BY <1>4, <3>3 DEF Settled
  <2>4. CASE \E v \in Workers \ {w} : job[v] # NoJob /\ l \in Range2Set(job[v])
    BY <1>2, <2>4, Zenon DEF Settled
  <2> QED
    BY <2>1, <2>2, <2>3, <2>4, Zenon DEF Settled
<1> QED
  BY <1>2, <1>6, <1>7, <1>8, Zenon

LEMMA StutterKept == ASSUME IInv, UNCHANGED vars PROVE IInv'
<1> USE DEF IInv, vars
<1>1. PositionGood' /\ WorkersGood' /\ JobsDisjoint' /\ AllSettled'
  BY JobsFrame, Zenon DEF WorkersGood
<1>2. RangeLedgers' = RangeLedgers
  BY DEF RangeLedgers
<1>3. RangesGood'
  BY DEF RangesGood, Idle, jobVars
<1>4. ResultGood'
  BY <1>2 DEF ResultGood, ToRebuild, jobVars
<1> QED
  BY <1>1, <1>3, <1>4

-----------------------------------------------------------------------------
(* Gap detection.                                                          *)

\* Some function of 0..n starts with a and follows the steps g.
Iterates(V, a, g, n) ==
  \E f \in [0..n -> V] : f[0] = a /\ \A i \in 1..n : f[i] = g[i][f[i - 1]]

\* A recursive function exists: a first value and a step from each value to the
\* next, within a set.
LEMMA Recursion ==
  ASSUME NEW V, NEW a \in V, NEW g \in [Nat -> [V -> V]], NEW n \in Nat
  PROVE  Iterates(V, a, g, n)
<1> DEFINE Rec(f, k) == f[0] = a /\ \A i \in 1..k : f[i] = g[i][f[i - 1]]
           K == {k \in Nat : \E f \in [0..k -> V] : Rec(f, k)}
<1>1. 0 \in K
  <2> DEFINE f == [i \in 0..0 |-> a]
  <2>1. f \in [0..0 -> V] /\ Rec(f, 0)
    OBVIOUS
  <2> HIDE DEF f, Rec
  <2> QED
    BY <2>1
<1>2. ASSUME NEW k \in Nat, k \in K PROVE k + 1 \in K
  <2>1. PICK f \in [0..k -> V] : Rec(f, k)
    BY <1>2
  <2> DEFINE h == [i \in 0..(k + 1) |-> IF i = k + 1 THEN g[k + 1][f[k]] ELSE f[i]]
  <2>2. h \in [0..(k + 1) -> V]
    <3>1. g[k + 1] \in [V -> V] /\ f[k] \in V
      OBVIOUS
    <3>2. g[k + 1][f[k]] \in V
      BY <3>1
    <3> QED
      BY <3>2
  <2>3. ASSUME NEW i \in 1..(k + 1) PROVE h[i] = g[i][h[i - 1]]
    <3>1. i - 1 \in 0..k /\ h[i - 1] = f[i - 1] /\ (i = k + 1 \/ i \in 1..k)
      OBVIOUS
    <3>2. CASE i = k + 1
      <4>1. i - 1 = k /\ h[i] = g[k + 1][f[k]]
        BY <3>2
      <4> QED
        BY <3>1, <3>2, <4>1
    <3>3. CASE i \in 1..k
      <4>1. h[i] = f[i]
        BY <3>3
      <4> QED
        BY <2>1, <3>1, <3>3, <4>1
    <3> QED
      BY <3>1, <3>2, <3>3
  <2>4. h[0] = a
    BY <2>1
  <2> HIDE DEF h
  <2>5. Rec(h, k + 1)
    BY <2>3, <2>4
  <2> HIDE DEF Rec
  <2> QED
    BY <2>2, <2>5, k + 1 \in Nat, Zenon
<1>3. n \in K
  <2> HIDE DEF K
  <2> QED
    BY <1>1, <1>2, SetInduction
<1> QED
  BY <1>3 DEF Iterates

\* rs is a list of ranges that validateRanges takes, and consists of the ledgers S.
Covers(rs, S) ==
  /\ rs \in Seq(JobRange) /\ validateRanges(rs)
  /\ \A l : l \in S <=> \E i \in 1..Len(rs) : l \in Range2Set(rs[i])

LEMMA CoversNothing == Covers(<<>>, {})
BY DEF Covers, validateRanges

LEMMA CoversOne ==
  ASSUME NEW r \in JobRange, r.from <= r.to
  PROVE  Covers(<<r>>, Range2Set(r))
<1>1. r.from # 0
  BY LedgerFacts
<1>2. <<r>> \in Seq(JobRange) /\ Len(<<r>>) = 1 /\ <<r>>[1] = r /\ DOMAIN <<r>> = {1}
  OBVIOUS
<1>3. validateRanges(<<r>>)
  BY <1>1, <1>2 DEF validateRanges
<1> QED
  BY <1>2, <1>3 DEF Covers

LEMMA CoversBoth ==
  ASSUME NEW s, NEW S, NEW t, NEW T, Covers(s, S), Covers(t, T),
         \A a \in S, b \in T : a < b
  PROVE  Covers(s \o t, S \cup T)
<1> DEFINE m == Len(s)
           n == Len(t)
<1>1. /\ s \in Seq(JobRange) /\ t \in Seq(JobRange) /\ m \in Nat /\ n \in Nat
      /\ DOMAIN s = 1..m /\ DOMAIN t = 1..n
  BY DEF Covers
<1>2. /\ s \o t \in Seq(JobRange) /\ Len(s \o t) = m + n /\ DOMAIN (s \o t) = 1..(m + n)
      /\ \A i \in 1..m : (s \o t)[i] = s[i]
      /\ \A i \in (m + 1)..(m + n) : (s \o t)[i] = t[i - m]
  BY <1>1
<1> HIDE DEF m, n
<1>3. ASSUME NEW i \in DOMAIN (s \o t)
      PROVE  /\ (s \o t)[i].from <= (s \o t)[i].to /\ (s \o t)[i].from # 0
             /\ i > 1 => (s \o t)[i - 1].to < (s \o t)[i].from
  <2>1. CASE i \in 1..m
    <3>1. i > 1 => i - 1 \in 1..m
      BY <1>1, <2>1
    <3> QED
      BY <1>1, <1>2, <2>1, <3>1, Zenon DEF Covers, validateRanges
  <2>2. CASE i = m + 1
    <3>1. (s \o t)[i] = t[1] /\ 1 \in 1..n
      BY <1>1, <1>2, <2>2
    <3>2. t[1].from <= t[1].to /\ t[1].from # 0 /\ t[1] \in JobRange
      BY <1>1, <3>1 DEF Covers, validateRanges
    <3>3. t[1].from \in T
      BY <3>1, <3>2, LedgerFacts DEF Covers, Range2Set, m, n
    <3>4. ASSUME i > 1 PROVE (s \o t)[i - 1].to < t[1].from
      <4>1. i - 1 = m /\ m \in 1..m
        BY <1>1, <2>2, <3>4
      <4>2. s[m].from <= s[m].to /\ s[m] \in JobRange
        BY <1>1, <4>1 DEF Covers, validateRanges
      <4>3. s[m].to \in S
        BY <4>1, <4>2, LedgerFacts DEF Covers, Range2Set, m
      <4> QED
        BY <1>2, <3>3, <4>1, <4>3
    <3> QED
      BY <3>1, <3>2, <3>4
  <2>3. CASE i \in (m + 2)..(m + n)
    <3>1. /\ i - m \in 1..n /\ i - m > 1 /\ i - 1 \in (m + 1)..(m + n)
          /\ (i - 1) - m = (i - m) - 1 /\ i \in (m + 1)..(m + n)
      BY <1>1, <2>3
    <3>2. (s \o t)[i] = t[i - m] /\ (s \o t)[i - 1] = t[(i - m) - 1]
      BY <1>2, <3>1, Zenon
    <3> QED
      BY <1>1, <3>1, <3>2, Zenon DEF Covers, validateRanges
  <2> QED
    BY <1>1, <1>2, <2>1, <2>2, <2>3
<1>4. validateRanges(s \o t)
  BY <1>3 DEF validateRanges
<1>5. ASSUME NEW l
      PROVE  l \in S \cup T <=> \E i \in 1..Len(s \o t) : l \in Range2Set((s \o t)[i])
  <2>1. ASSUME NEW i \in 1..(m + n), l \in Range2Set((s \o t)[i]) PROVE l \in S \cup T
    <3>1. i \in 1..m \/ (i \in (m + 1)..(m + n) /\ i - m \in 1..n)
      BY <1>1
    <3> QED
      BY <1>2, <2>1, <3>1 DEF Covers, m, n
  <2>2. ASSUME l \in S PROVE \E i \in 1..(m + n) : l \in Range2Set((s \o t)[i])
    <3>1. PICK i \in 1..m : l \in Range2Set(s[i])
      BY <2>2 DEF Covers, m
    <3> QED
      BY <1>1, <1>2, <3>1
  <2>3. ASSUME l \in T PROVE \E i \in 1..(m + n) : l \in Range2Set((s \o t)[i])
    <3>1. PICK i \in 1..n : l \in Range2Set(t[i])
      BY <2>3 DEF Covers, n
    <3>2. m + i \in (m + 1)..(m + n) /\ (m + i) - m = i /\ m + i \in 1..(m + n)
      BY <1>1
    <3> QED
      BY <1>2, <3>1, <3>2
  <2> QED
    BY <1>2, <2>1, <2>2, <2>3
<1> QED
  BY <1>2, <1>4, <1>5 DEF Covers

\* A range behind the others is appended.
LEMMA CoversAppend ==
  ASSUME NEW s, NEW S \in SUBSET Nat, Covers(s, S), NEW r \in JobRange, r.from <= r.to,
         \A a \in S : a < r.from
  PROVE  Covers(Append(s, r), S \cup Range2Set(r))
<1>1. r.from \in Nat /\ r.to \in Nat /\ s \in Seq(JobRange)
  BY LedgerFacts DEF Covers
<1>2. \A a \in S, b \in Range2Set(r) : a < b
  BY <1>1 DEF Range2Set
<1>3. Append(s, r) = s \o <<r>>
  BY <1>1
<1>4. Covers(<<r>>, Range2Set(r))
  BY CoversOne
<1>5. Covers(s \o <<r>>, S \cup Range2Set(r))
  BY <1>2, <1>4, CoversBoth, Zenon
<1> QED
  BY <1>3, <1>5, Zenon

\* The part of a gap that the range asked for holds.
LEMMA CutWithin ==
  ASSUME NEW g \in JobRange, NEW start \in Ledgers, NEW end \in Ledgers, start <= end,
         g.from <= g.to, ~ (g.to < start \/ g.from > end)
  PROVE  LET c == Cut(g, start, end) IN
         /\ c \in JobRange /\ c.from <= c.to /\ g.from <= c.from
         /\ Range2Set(c) = Range2Set(g) \cap start..end
<1> DEFINE c == Cut(g, start, end)
<1>1. /\ g.from \in Nat /\ g.to \in Nat /\ start \in Nat /\ end \in Nat
      /\ g.from \in Ledgers /\ g.to \in Ledgers
  BY LedgerFacts
<1>2. c = [from |-> Max({g.from, start}), to |-> Min({g.to, end})]
  BY DEF Cut
<1> HIDE DEF c
<1>3. /\ Max({g.from, start}) = IF g.from <= start THEN start ELSE g.from
      /\ Min({g.to, end}) = IF g.to <= end THEN g.to ELSE end
  <2>1. g.from \in Int /\ g.to \in Int /\ start \in Int /\ end \in Int
    BY <1>1
  <2> QED
    BY <2>1, MinMax, Zenon
<1>4. /\ c.from = IF g.from <= start THEN start ELSE g.from
      /\ c.to = IF g.to <= end THEN g.to ELSE end
      /\ c \in JobRange
  BY <1>1, <1>2, <1>3 DEF JobRange
<1>5. c.from <= c.to /\ g.from <= c.from
  BY <1>1, <1>4
<1>6. Range2Set(c) = Range2Set(g) \cap start..end
  BY <1>1, <1>4 DEF Range2Set
<1> QED
  BY <1>4, <1>5, <1>6 DEF c

\* The loop of GetLedgerGapsInRange cuts what the gaps hold to the range.
LEMMA CollectCovers ==
  ASSUME NEW gaps, NEW S \in SUBSET Ledgers, Covers(gaps, S),
         NEW start \in Ledgers, NEW end \in Ledgers, start <= end
  PROVE  Covers(CollectGaps(gaps, start, end), S \cap start..end)
<1> DEFINE n == Len(gaps)
           Skips(i) == gaps[i].to < start \/ gaps[i].from > end
           c(i) == Cut(gaps[i], start, end)
           Step(f, i) == IF i = 0 THEN <<>>
                         ELSE IF Skips(i) THEN f[i - 1] ELSE Append(f[i - 1], c(i))
           V == Seq(JobRange)
           g == [i \in Nat |-> [v \in V |-> IF i \notin 1..n \/ Skips(i) THEN v
                                           ELSE Append(v, c(i))]]
           Held(k) == {l \in start..end : \E j \in 1..k : l \in Range2Set(gaps[j])}
<1>1. /\ n \in Nat /\ gaps \in Seq(JobRange) /\ start \in Nat /\ end \in Nat
      /\ \A i \in 1..n : /\ gaps[i] \in JobRange /\ gaps[i].from <= gaps[i].to
                         /\ gaps[i].from \in Nat /\ gaps[i].to \in Nat
      /\ \A i, j \in 1..n : i < j => gaps[i].to < gaps[j].from
  <2>1. gaps \in Seq(JobRange) /\ validateRanges(gaps)
    BY DEF Covers
  <2>2. \A i, j \in 1..n : i < j => gaps[i].to < gaps[j].from
    BY <2>1, RangesOrdered, Zenon
  <2> QED
    BY <2>1, <2>2, LedgerFacts DEF validateRanges
<1>2. ASSUME NEW i \in 1..n, ~ Skips(i)
      PROVE  /\ c(i) \in JobRange /\ c(i).from <= c(i).to /\ gaps[i].from <= c(i).from
             /\ Range2Set(c(i)) = Range2Set(gaps[i]) \cap start..end
  BY <1>1, <1>2, CutWithin
<1>3. PICK f : f = [i \in 0..n |-> Step(f, i)]
  <2> DEFINE e == <<>>
  <2>1. g \in [Nat -> [V -> V]] /\ e \in V
    BY <1>2
  <2> HIDE DEF V, g, c, e, n
  <2>2. PICK f \in [0..n -> V] : f[0] = e /\ \A i \in 1..n : f[i] = g[i][f[i - 1]]
    <3>1. Iterates(V, e, g, n)
      BY <1>1, <2>1, Recursion, Zenon
    <3> QED
      BY <3>1, Zenon DEF Iterates
  <2>3. ASSUME NEW i \in 0..n PROVE f[i] = Step(f, i)
    <3>1. CASE i = 0
      BY <2>2, <3>1 DEF e
    <3>2. CASE i # 0
      <4>1. i \in 1..n /\ i \in Nat /\ i - 1 \in 0..n
        BY <1>1, <3>2
      <4>2. f[i - 1] \in V /\ f[i] = g[i][f[i - 1]]
        BY <2>2, <4>1
      <4> QED
        BY <3>2, <4>1, <4>2 DEF g
    <3> QED
      BY <3>1, <3>2
  <2>4. f = [i \in 0..n |-> Step(f, i)]
    BY <2>3
  <2> QED
    BY <2>4, Zenon
<1>4. PICK r : r = [i \in 0..n |-> Step(r, i)] /\ CollectGaps(gaps, start, end) = r[n]
  <2> DEFINE r == CHOOSE r : r = [i \in 0..n |-> Step(r, i)]
  <2>1. r = [i \in 0..n |-> Step(r, i)]
    BY <1>3, Zenon
  <2>2. CollectGaps(gaps, start, end) = r[n]
    BY Zenon DEF CollectGaps
  <2> QED
    BY <2>1, <2>2, Zenon
<1> DEFINE H == {k \in Nat : k <= n => Covers(r[k], Held(k))}
<1> HIDE DEF n, c, g, V
<1>5. 0 \in H
  <2>1. r[0] = <<>> /\ Held(0) = {}
    BY <1>1, <1>4
  <2> QED
    BY <2>1, CoversNothing, Zenon
<1>6. ASSUME NEW k \in Nat, k \in H PROVE k + 1 \in H
  <2> SUFFICES ASSUME k + 1 <= n PROVE Covers(r[k + 1], Held(k + 1))
    OBVIOUS
  <2> DEFINE x == gaps[k + 1]
  <2>1. /\ k + 1 \in 1..n /\ k \in 0..n /\ k + 1 \in 0..n /\ (k + 1) - 1 = k /\ k + 1 # 0
        /\ Covers(r[k], Held(k))
    BY <1>1, <1>6
  <2>2. r[k + 1] = IF Skips(k + 1) THEN r[k] ELSE Append(r[k], c(k + 1))
    BY <1>4, <2>1, Zenon
  <2>3. Held(k + 1) = Held(k) \cup (Range2Set(x) \cap start..end)
    <3>1. \A j : j \in 1..(k + 1) <=> j \in 1..k \/ j = k + 1
      OBVIOUS
    <3> QED
      BY <3>1
  <2>4. x.from \in Nat /\ x.to \in Nat
    BY <1>1, <2>1
  <2>5. CASE Skips(k + 1)
    <3>1. Range2Set(x) \cap start..end = {}
      BY <1>1, <2>4, <2>5 DEF Range2Set
    <3>2. Held(k + 1) = Held(k) /\ r[k + 1] = r[k]
      BY <2>2, <2>3, <2>5, <3>1
    <3> QED
      BY <2>1, <3>2, Zenon
  <2>6. CASE ~ Skips(k + 1)
    <3> DEFINE y == c(k + 1)
    <3>1. /\ y \in JobRange /\ y.from <= y.to /\ x.from <= y.from
          /\ Range2Set(y) = Range2Set(x) \cap start..end
      BY <1>2, <2>1, <2>6
    <3>2. ASSUME NEW a \in Held(k) PROVE a \in Nat /\ a < y.from
      <4>1. PICK j \in 1..k : a \in Range2Set(gaps[j])
        OBVIOUS
      <4>2. j \in 1..n /\ j < k + 1
        BY <1>1, <2>1
      <4>3. gaps[j].to < x.from /\ gaps[j].from \in Nat /\ gaps[j].to \in Nat
        BY <1>1, <2>1, <4>2
      <4>4. a \in Nat /\ a <= gaps[j].to
        BY <4>1, <4>3 DEF Range2Set
      <4>5. y.from \in Nat
        BY <3>1, LedgerFacts
      <4> QED
        BY <2>4, <3>1, <4>3, <4>4, <4>5
    <3>3. r[k + 1] = Append(r[k], y) /\ Held(k + 1) = Held(k) \cup Range2Set(y)
      BY <2>2, <2>3, <2>6, <3>1
    <3> HIDE DEF y, Held
    <3>4. Covers(Append(r[k], y), Held(k) \cup Range2Set(y))
      BY <2>1, <3>1, <3>2, CoversAppend
    <3> QED
      BY <3>3, <3>4, Zenon
  <2> QED
    BY <2>5, <2>6
<1>7. Covers(r[n], Held(n))
  <2> HIDE DEF H
  <2>1. n \in H
    BY <1>1, <1>5, <1>6, SetInduction, Zenon
  <2> QED
    BY <1>1, <2>1 DEF H
<1>8. Held(n) = S \cap start..end
  BY DEF Covers, n
<1> QED
  BY <1>4, <1>7, <1>8, Zenon

LEMMA LedgerSets ==
  ASSUME NEW S \in SUBSET Ledgers, S # {}
  PROVE  /\ Min(S) \in S /\ \A y \in S : Min(S) <= y
         /\ Max(S) \in S /\ \A y \in S : y <= Max(S)
<1>1. S \in SUBSET Nat /\ S \in SUBSET (1..MaxLedger) /\ MaxLedger \in Nat
  BY LedgerFacts DEF Ledgers
<1>2. Max(S) \in S /\ \A y \in S : Max(S) >= y
  BY <1>1, GreatestElement
<1>3. \A y \in S : y \in Nat
  BY <1>1
<1> QED
  BY <1>1, <1>2, <1>3, LeastElement

\* LEAD is the next row.
LEMMA NextRow ==
  ASSUME NEW h \in SUBSET Ledgers, NEW a \in h, a # Max(h)
  PROVE  LEAD(h, a) \in h /\ a < LEAD(h, a) /\ \A b \in h : a < b => LEAD(h, a) <= b
<1> DEFINE S == {b \in h : b > a}
<1>1. Max(h) \in h /\ \A y \in h : y <= Max(h) /\ y \in Nat
  BY LedgerSets, LedgerFacts
<1>2. S \in SUBSET Ledgers /\ S # {}
  BY <1>1
<1>3. Min(S) \in S /\ \A y \in S : Min(S) <= y
  BY <1>2, LedgerSets
<1>4. LEAD(h, a) = Min(S)
  BY DEF LEAD
<1> HIDE DEF S
<1>5. LEAD(h, a) \in S /\ \A y \in S : LEAD(h, a) <= y
  BY <1>3, <1>4
<1> QED
  BY <1>1, <1>5 DEF S

\* GetLedgerGaps returns what is missing between the oldest and the latest row.
LEMMA GapsCover ==
  ASSUME NEW h \in SUBSET Ledgers, h # {}
  PROVE  Covers(GetLedgerGaps(h), (Min(h)..Max(h)) \ h)
<1> DEFINE A == GapStarts(h)
           n == MaxLedger
           x(l) == [from |-> l + 1, to |-> LEAD(h, l) - 1]
           Step(f, l) == IF l = 0 THEN <<>>
                         ELSE IF l \notin A THEN f[l - 1] ELSE Append(f[l - 1], x(l))
           V == Seq(JobRange)
           g == [l \in Nat |-> [v \in V |-> IF l \notin A THEN v ELSE Append(v, x(l))]]
           M == (Min(h)..Max(h)) \ h
           Found(k) == {l \in M : \E a \in A : a <= k /\ l \in Range2Set(x(a))}
<1>1. /\ Min(h) \in h /\ \A y \in h : Min(h) <= y
      /\ Max(h) \in h /\ \A y \in h : y <= Max(h)
  BY LedgerSets
<1>2. n \in Nat /\ \A y \in h : y \in Nat /\ 1 <= y /\ y <= n
  BY LedgerFacts
<1>3. ASSUME NEW a \in A
      PROVE  /\ a \in h /\ LEAD(h, a) \in h /\ a \in Nat /\ LEAD(h, a) \in Nat
             /\ a + 1 < LEAD(h, a) /\ \A b \in h : a < b => LEAD(h, a) <= b
             /\ x(a) \in JobRange /\ x(a).from = a + 1 /\ x(a).to = LEAD(h, a) - 1
             /\ Range2Set(x(a)) \subseteq M
             /\ \A l : l \in Range2Set(x(a)) <=> l \in Nat /\ a < l /\ l < LEAD(h, a)
  <2>1. a \in h /\ a # Max(h) /\ a + 1 # LEAD(h, a)
    BY DEF GapStarts
  <2>2. LEAD(h, a) \in h /\ a < LEAD(h, a) /\ \A b \in h : a < b => LEAD(h, a) <= b
    BY <2>1, NextRow
  <2>3. /\ a \in Nat /\ LEAD(h, a) \in Nat /\ a + 1 < LEAD(h, a) /\ LEAD(h, a) <= n
        /\ Min(h) \in Nat /\ Max(h) \in Nat /\ Min(h) <= a /\ LEAD(h, a) <= Max(h)
    BY <1>1, <1>2, <2>1, <2>2
  <2>4. a + 1 \in Ledgers /\ LEAD(h, a) - 1 \in Ledgers
    BY <2>3, LedgerFacts
  <2>5. x(a) \in JobRange
    BY <2>4 DEF JobRange
  <2>6. \A l : l \in Range2Set(x(a)) <=> l \in Nat /\ a < l /\ l < LEAD(h, a)
    BY <2>3 DEF Range2Set
  <2>7. Range2Set(x(a)) \subseteq M
    <3> SUFFICES ASSUME NEW l \in Range2Set(x(a)) PROVE l \in M
      OBVIOUS
    <3>1. l \in Nat /\ a < l /\ l < LEAD(h, a)
      BY <2>6
    <3>2. l \notin h
      BY <2>2, <2>3, <3>1
    <3> QED
      BY <2>3, <3>1, <3>2
  <2> QED
    BY <2>1, <2>2, <2>3, <2>5, <2>6, <2>7
<1> HIDE DEF A, n, M
<1>4. PICK f : f = [l \in 0..n |-> Step(f, l)]
  <2> DEFINE e == <<>>
  <2>1. g \in [Nat -> [V -> V]] /\ e \in V
    BY <1>3
  <2> HIDE DEF V, g, x, e
  <2>2. PICK f \in [0..n -> V] : f[0] = e /\ \A i \in 1..n : f[i] = g[i][f[i - 1]]
    <3>1. Iterates(V, e, g, n)
      BY <1>2, <2>1, Recursion, Zenon
    <3> QED
      BY <3>1, Zenon DEF Iterates
  <2>3. ASSUME NEW i \in 0..n PROVE f[i] = Step(f, i)
    <3>1. CASE i = 0
      BY <2>2, <3>1 DEF e
    <3>2. CASE i # 0
      <4>1. i \in 1..n /\ i \in Nat /\ i - 1 \in 0..n
        BY <1>2, <3>2
      <4>2. f[i - 1] \in V /\ f[i] = g[i][f[i - 1]]
        BY <2>2, <4>1
      <4> QED
        BY <3>2, <4>1, <4>2 DEF g
    <3> QED
      BY <3>1, <3>2
  <2>4. f = [i \in 0..n |-> Step(f, i)]
    BY <2>3
  <2> QED
    BY <2>4, Zenon
<1>5. PICK r : r = [l \in 0..n |-> Step(r, l)] /\ GetLedgerGaps(h) = r[n]
  <2> DEFINE r == CHOOSE r : r = [l \in 0..n |-> Step(r, l)]
  <2>1. r = [l \in 0..n |-> Step(r, l)]
    BY <1>4, Zenon
  <2>2. GetLedgerGaps(h) = r[n]
    BY Zenon DEF GetLedgerGaps, A, n
  <2> QED
    BY <2>1, <2>2, Zenon
<1> HIDE DEF V, g, x
<1> DEFINE H == {k \in Nat : k <= n => Covers(r[k], Found(k))}
<1>6. 0 \in H
  <2>1. r[0] = <<>>
    BY <1>2, <1>5
  <2>2. Found(0) = {}
    <3>1. \A a \in A : ~ (a <= 0)
      BY <1>2, <1>3
    <3> QED
      BY <3>1
  <2> QED
    BY <2>1, <2>2, CoversNothing, Zenon
<1>7. ASSUME NEW k \in Nat, k \in H PROVE k + 1 \in H
  <2> SUFFICES ASSUME k + 1 <= n PROVE Covers(r[k + 1], Found(k + 1))
    OBVIOUS
  <2>1. k + 1 \in 0..n /\ (k + 1) - 1 = k /\ k + 1 # 0 /\ Covers(r[k], Found(k))
    BY <1>2, <1>7
  <2>2. r[k + 1] = IF k + 1 \notin A THEN r[k] ELSE Append(r[k], x(k + 1))
    BY <1>5, <2>1, Zenon
  <2>3. \A a \in A : a <= k + 1 <=> a <= k \/ a = k + 1
    BY <1>3
  <2>4. CASE k + 1 \notin A
    <3>1. Found(k + 1) = Found(k)
      BY <2>3, <2>4
    <3> QED
      BY <2>1, <2>2, <2>4, <3>1, Zenon
  <2>5. CASE k + 1 \in A
    <3> DEFINE y == x(k + 1)
    <3>1. /\ y \in JobRange /\ y.from = (k + 1) + 1 /\ y.from <= y.to /\ k + 1 \in h
          /\ Range2Set(y) \subseteq M
      BY <1>3, <2>5
    <3>2. ASSUME NEW l \in Found(k) PROVE l \in Nat /\ l < y.from
      <4>1. PICK a \in A : a <= k /\ l \in Range2Set(x(a))
        OBVIOUS
      <4>2. a \in Nat /\ LEAD(h, a) \in Nat /\ l \in Nat /\ l < LEAD(h, a)
        BY <1>3, <4>1
      <4>3. LEAD(h, a) <= k + 1
        BY <1>3, <3>1, <4>1, <4>2
      <4> QED
        BY <3>1, <4>2, <4>3
    <3>3. Found(k + 1) = Found(k) \cup Range2Set(y)
      BY <2>3, <2>5, <3>1
    <3> HIDE DEF y, Found
    <3>4. Covers(Append(r[k], y), Found(k) \cup Range2Set(y))
      BY <2>1, <3>1, <3>2, CoversAppend
    <3> QED
      BY <2>2, <2>5, <3>3, <3>4, Zenon DEF y
  <2> QED
    BY <2>4, <2>5
<1>8. Covers(r[n], Found(n))
  <2> HIDE DEF H
  <2>1. n \in H
    BY <1>2, <1>6, <1>7, SetInduction
  <2> QED
    BY <1>2, <2>1 DEF H
<1>9. ASSUME NEW l \in M PROVE \E a \in A : a <= n /\ l \in Range2Set(x(a))
  <2> DEFINE B == {b \in h : b < l}
  <2>1. /\ l \in Nat /\ l \notin h /\ Min(h) < l /\ l < Max(h)
        /\ Min(h) \in Nat /\ Max(h) \in Nat
    BY <1>1, <1>2 DEF M
  <2>2. B \in SUBSET Ledgers /\ B # {}
    BY <1>1, <2>1
  <2>3. PICK a \in B : \A y \in B : y <= a
    BY <2>2, LedgerSets, Zenon
  <2>4. a \in h /\ a < l /\ a # Max(h) /\ a \in Nat /\ a <= n
    BY <1>2, <2>1
  <2>5. LEAD(h, a) \in h /\ a < LEAD(h, a) /\ LEAD(h, a) \in Nat
    BY <1>2, <2>4, NextRow, Zenon
  <2>6. l < LEAD(h, a)
    <3>1. LEAD(h, a) # l
      BY <2>1, <2>5
    <3>2. ~ (LEAD(h, a) < l)
      BY <2>3, <2>4, <2>5
    <3> QED
      BY <2>1, <2>5, <3>1, <3>2
  <2>7. a \in A
    BY <2>1, <2>4, <2>5, <2>6 DEF GapStarts, A
  <2> QED
    BY <1>3, <2>1, <2>4, <2>6, <2>7
<1>10. Found(n) = M
  BY <1>9
<1> QED
  BY <1>5, <1>8, <1>10, Zenon DEF M

LEMMA BelowCovers ==
  ASSUME NEW o \in Ledgers, NEW start \in Ledgers, NEW end \in Ledgers, start <= end
  PROVE  Covers(Below(o, start, end), {l \in start..end : l < o})
<1> DEFINE m == Min({end, o - 1})
           r == [from |-> start, to |-> m]
           S == {l \in start..end : l < o}
<1>1. start \in Nat /\ end \in Nat /\ o \in Nat /\ o - 1 \in Int /\ end \in Int /\ end <= MaxLedger
  BY LedgerFacts
<1>2. m = IF end <= o - 1 THEN end ELSE o - 1
  BY <1>1, MinMax, Zenon
<1> HIDE DEF m
<1>3. CASE start < o
  <2>1. m \in Nat /\ 1 <= m /\ m <= MaxLedger /\ start <= m
    BY <1>1, <1>2, <1>3, LedgerFacts
  <2>2. r \in JobRange /\ r.from <= r.to
    BY <2>1, LedgerFacts DEF JobRange
  <2>3. \A l : l \in Range2Set(r) <=> l \in S
    BY <1>1, <1>2, <1>3, <2>1 DEF Range2Set
  <2>4. Range2Set(r) = S /\ Below(o, start, end) = <<r>>
    BY <1>3, <2>3 DEF Below, m
  <2> HIDE DEF r, S
  <2> QED
    BY <2>2, <2>4, CoversOne DEF S
<1>4. CASE ~ (start < o)
  <2>1. S = {} /\ Below(o, start, end) = <<>>
    BY <1>1, <1>4 DEF Below
  <2> QED
    BY <2>1, CoversNothing
<1> QED
  BY <1>3, <1>4

LEMMA AboveCovers ==
  ASSUME NEW o \in Ledgers, NEW start \in Ledgers, NEW end \in Ledgers, start <= end
  PROVE  Covers(Above(o, start, end), {l \in start..end : o < l})
<1> DEFINE m == Max({o + 1, start})
           r == [from |-> m, to |-> end]
           S == {l \in start..end : o < l}
<1>1. start \in Nat /\ end \in Nat /\ o \in Nat /\ o + 1 \in Int /\ start \in Int /\ end <= MaxLedger
  BY LedgerFacts
<1>2. m = IF o + 1 <= start THEN start ELSE o + 1
  BY <1>1, MinMax, Zenon
<1> HIDE DEF m
<1>3. CASE o < end
  <2>1. m \in Nat /\ 1 <= m /\ m <= MaxLedger /\ m <= end
    BY <1>1, <1>2, <1>3, LedgerFacts
  <2>2. r \in JobRange /\ r.from <= r.to
    BY <2>1, LedgerFacts DEF JobRange
  <2>3. \A l : l \in Range2Set(r) <=> l \in S
    BY <1>1, <1>2, <1>3, <2>1 DEF Range2Set
  <2>4. Range2Set(r) = S /\ Above(o, start, end) = <<r>>
    BY <1>3, <2>3 DEF Above, m
  <2> HIDE DEF r, S
  <2> QED
    BY <2>2, <2>4, CoversOne DEF S
<1>4. CASE ~ (o < end)
  <2>1. S = {} /\ Above(o, start, end) = <<>>
    BY <1>1, <1>4 DEF Above
  <2> QED
    BY <2>1, CoversNothing, Zenon
<1> QED
  BY <1>3, <1>4

\* GetLedgerGapsInRange returns what is missing in the range asked for.
LEMMA GapsInRangeCover ==
  ASSUME NEW h \in SUBSET Ledgers, NEW start \in Ledgers, NEW end \in Ledgers, start <= end
  PROVE  Covers(GetLedgerGapsInRange(h, start, end), (start..end) \ h)
<1>1. start \in Nat /\ end \in Nat /\ \A l \in h : l \in Nat
  BY LedgerFacts
<1>2. CASE h = {}
  <2> DEFINE r == [from |-> start, to |-> end]
  <2>1. r \in JobRange /\ r.from <= r.to /\ Range2Set(r) = (start..end) \ h
    BY <1>2 DEF JobRange, Range2Set
  <2>2. GetLedgerGapsInRange(h, start, end) = <<r>>
    BY <1>2 DEF GetLedgerGapsInRange
  <2> HIDE DEF r
  <2> QED
    BY <2>1, <2>2, CoversOne
<1>3. CASE h # {}
  <2> DEFINE lo == Min(h)
             hi == Max(h)
             B == {l \in start..end : l < lo}
             G == ((lo..hi) \ h) \cap start..end
             T == {l \in start..end : hi < l}
  <2>1. /\ lo \in h /\ \A y \in h : lo <= y
        /\ hi \in h /\ \A y \in h : y <= hi
    BY <1>3, LedgerSets
  <2>2. lo \in Ledgers /\ hi \in Ledgers /\ lo \in Nat /\ hi \in Nat /\ lo <= hi
    BY <1>1, <2>1, Zenon
  <2>3. Covers(GetLedgerGaps(h), (lo..hi) \ h)
    BY <1>3, GapsCover
  <2> HIDE DEF lo, hi
  <2>4. Covers(Below(lo, start, end), B) /\ Covers(Above(hi, start, end), T)
    BY <2>2, BelowCovers, AboveCovers
  <2>5. Covers(CollectGaps(GetLedgerGaps(h), start, end), G)
    <3>1. (lo..hi) \ h \in SUBSET Ledgers
      BY <2>2, LedgerFacts
    <3> QED
      BY <2>3, <3>1, CollectCovers
  <2>6. CASE end <= lo
    <3>1. (start..end) \ h = B
      BY <1>1, <2>1, <2>2, <2>6
    <3>2. GetLedgerGapsInRange(h, start, end) = Below(lo, start, end)
      BY <1>3, <2>6 DEF GetLedgerGapsInRange, lo
    <3> QED
      BY <2>4, <3>1, <3>2
  <2>7. CASE ~ (end <= lo)
    <3>1. \A a \in B, b \in G : a < b
      BY <1>1, <2>2
    <3>2. \A a \in B \cup G, b \in T : a < b
      BY <1>1, <2>2
    <3>3. (B \cup G) \cup T = (start..end) \ h
      <4>1. ASSUME NEW l \in start..end
            PROVE  l \in (B \cup G) \cup T <=> l \notin h
        BY <1>1, <2>1, <2>2
      <4>2. (B \cup G) \cup T \subseteq start..end
        OBVIOUS
      <4> HIDE DEF B, G, T
      <4> QED
        BY <4>1, <4>2
    <3> HIDE DEF B, G, T
    <3> DEFINE c == CollectGaps(GetLedgerGaps(h), start, end)
               b == Below(lo, start, end)
               a == Above(hi, start, end)
    <3>4. Covers(b \o c, B \cup G)
      BY <2>4, <2>5, <3>1, CoversBoth
    <3>5. Covers((b \o c) \o a, (B \cup G) \cup T)
      BY <2>4, <3>2, <3>4, CoversBoth
    <3>6. GetLedgerGapsInRange(h, start, end) = (b \o c) \o a
      BY <1>3, <2>7 DEF GetLedgerGapsInRange, lo, hi
    <3> QED
      BY <3>3, <3>5, <3>6, Zenon
  <2> QED
    BY <2>6, <2>7
<1> QED
  BY <1>2, <1>3

-----------------------------------------------------------------------------
(* The size of a job.                                                      *)

\* totalRangeSize counts ledgers of disjoint ranges.
LEMMA TotalRangeSize ==
  ASSUME NEW rs \in Seq(JobRange), validateRanges(rs)
  PROVE  totalRangeSize(rs) \in Nat /\ totalRangeSize(rs) <= MaxLedger
<1> DEFINE n == Len(rs)
           Step(f, i) == IF i = 0 THEN 0 ELSE f[i - 1] + rs[i].to - rs[i].from + 1
           g == [i \in Nat |-> [v \in Int |-> IF i \notin 1..n THEN v
                                             ELSE v + rs[i].to - rs[i].from + 1]]
<1>1. /\ n \in Nat /\ DOMAIN rs = 1..n
      /\ \A i \in 1..n : rs[i] \in JobRange /\ rs[i].from \in Nat /\ rs[i].to \in Nat
  BY LedgerFacts
<1>2. \E f : f = [i \in 0..n |-> Step(f, i)]
  <2>1. g \in [Nat -> [Int -> Int]]
    BY <1>1
  <2> HIDE DEF g, n
  <2>2. PICK f \in [0..n -> Int] : f[0] = 0 /\ \A i \in 1..n : f[i] = g[i][f[i - 1]]
    <3>1. Iterates(Int, 0, g, n)
      BY <1>1, <2>1, Recursion, 0 \in Int, Zenon
    <3> QED
      BY <3>1, Zenon DEF Iterates
  <2>3. ASSUME NEW i \in 0..n PROVE f[i] = Step(f, i)
    <3>1. CASE i = 0
      BY <2>2, <3>1
    <3>2. CASE i # 0
      <4>1. i \in 1..n /\ i \in Nat /\ i - 1 \in 0..n
        BY <1>1, <3>2
      <4>2. f[i - 1] \in Int /\ f[i] = g[i][f[i - 1]]
        BY <2>2, <4>1
      <4> QED
        BY <3>2, <4>1, <4>2 DEF g
    <3> QED
      BY <3>1, <3>2
  <2>4. f = [i \in 0..n |-> Step(f, i)]
    BY <2>3
  <2> QED
    BY <2>4, Zenon
<1>3. PICK f : f = [i \in 0..n |-> Step(f, i)] /\ totalRangeSize(rs) = f[n]
  <2> DEFINE c == CHOOSE f : f = [i \in 0..n |-> Step(f, i)]
  <2>1. c = [i \in 0..n |-> Step(c, i)]
    BY <1>2, Zenon
  <2>2. totalRangeSize(rs) = c[n]
    BY Zenon DEF totalRangeSize
  <2> QED
    BY <2>1, <2>2, Zenon
<1> DEFINE H == {k \in Nat : k <= n => /\ f[k] \in Nat /\ f[k] <= MaxLedger
                                       /\ k > 0 => f[k] <= rs[k].to}
<1> HIDE DEF n
<1>4. 0 \in H
  BY <1>1, <1>3, LedgerFacts
<1>5. ASSUME NEW k \in Nat, k \in H PROVE k + 1 \in H
  <2> SUFFICES ASSUME k + 1 <= n
               PROVE  /\ f[k + 1] \in Nat /\ f[k + 1] <= MaxLedger
                      /\ f[k + 1] <= rs[k + 1].to
    OBVIOUS
  <2> DEFINE x == rs[k + 1].from
             y == rs[k + 1].to
  <2>1. /\ k + 1 \in 1..n /\ k + 1 \in 0..n /\ (k + 1) - 1 = k /\ k + 1 # 0
        /\ f[k] \in Nat /\ (k > 0 => f[k] <= rs[k].to /\ k \in 1..n)
    BY <1>1, <1>5
  <2>2. f[k + 1] = f[k] + y - x + 1
    BY <1>3, <2>1, Zenon
  <2>3. x \in Nat /\ y \in Nat /\ 1 <= x /\ x <= y /\ y <= MaxLedger
    BY <1>1, <2>1, LedgerFacts, Zenon DEF validateRanges
  <2>4. ASSUME k > 0 PROVE rs[k].to < x /\ rs[k].to \in Nat
    <3>1. k \in 1..n /\ k + 1 > 1 /\ k + 1 \in DOMAIN rs
      BY <1>1, <2>1, <2>4
    <3>2. rs[(k + 1) - 1].to < rs[k + 1].from
      BY <3>1 DEF validateRanges
    <3> QED
      BY <1>1, <2>1, <3>1, <3>2, LedgerFacts
  <2>5. f[k] < x
    <3>1. CASE k = 0
      BY <1>1, <1>3, <2>3, <3>1
    <3>2. CASE k > 0
      BY <2>1, <2>3, <2>4, <3>2
    <3> QED
      BY <3>1, <3>2
  <2> HIDE DEF x
  <2>6. f[k + 1] \in Nat /\ f[k + 1] <= y
    BY <2>1, <2>2, <2>3, <2>5
  <2> QED
    BY <2>3, <2>6, LedgerFacts
<1>6. f[n] \in Nat /\ f[n] <= MaxLedger
  <2> HIDE DEF H
  <2>1. n \in H
    BY <1>1, <1>4, <1>5, SetInduction, Zenon
  <2> QED
    BY <1>1, <2>1 DEF H
<1> QED
  BY <1>3, <1>6

LEMMA Quotient ==
  ASSUME NEW a \in Nat, NEW b \in Nat, b > 0
  PROVE  /\ a \div b \in Nat /\ a \div b <= a /\ (a \div b) * b <= a
         /\ a >= b => a \div b > 0 /\ (a \div b) * b > 0
         /\ a \div b > 0 => b <= a
OBVIOUS

\* A job has at least one ledger, and is no larger than all ranges or a checkpoint.
LEMMA BatchSize ==
  ASSUME NEW rs \in Seq(JobRange), validateRanges(rs)
  PROVE  LET b == calculateParallelLedgerBatchSize(totalRangeSize(rs)) IN
         b \in 0..MaxLedger + Interval /\ b > 0
<1> DEFINE w == workerCount
           z == totalRangeSize(rs)
           q == BatchSizeSuggestion
           d == IF q = 0 \/ z \div q < w THEN z \div w ELSE q
           m == Max({d, Interval})
<1>1. w \in Nat /\ w > 0
  BY ParallelReingestAssumption
<1>2. z \in Nat /\ z <= MaxLedger /\ q \in Nat
  BY TotalRangeSize, ParallelReingestAssumption
<1>3. calculateParallelLedgerBatchSize(z) = (m \div Interval) * Interval
  BY DEF calculateParallelLedgerBatchSize
<1> HIDE DEF w, z, q
<1>4. d \in Nat /\ d <= MaxLedger
  <2>1. z \div w \in Nat /\ z \div w <= z
    BY <1>1, <1>2, Quotient
  <2>2. q > 0 => z \div q \in Nat /\ (z \div q > 0 => q <= z)
    BY <1>2, Quotient
  <2> QED
    BY <1>1, <1>2, <2>1, <2>2, LedgerFacts
<1> HIDE DEF d
<1>5. Interval \in Nat /\ Interval > 0 /\ MaxLedger \in Nat
  BY LedgerFacts
<1>6. m = IF d <= Interval THEN Interval ELSE d
  BY <1>4, <1>5, MinMax, d \in Int, Interval \in Int, Zenon
<1> HIDE DEF m
<1>7. m \in Nat /\ m >= Interval /\ m <= MaxLedger + Interval
  BY <1>4, <1>5, <1>6
<1> DEFINE b == (m \div Interval) * Interval
<1>8. b <= m /\ b > 0 /\ m \div Interval \in Nat
  BY <1>5, <1>7, Quotient
<1>9. b \in Nat
  BY <1>5, <1>8
<1> HIDE DEF b
<1>10. b \in 0..MaxLedger + Interval
  BY <1>5, <1>7, <1>8, <1>9
<1> QED
  BY <1>3, <1>8, <1>10 DEF z, b

-----------------------------------------------------------------------------
(* The start of the command keeps the invariant.                           *)

LEMMA InitIInv == Init => IInv
<1> SUFFICES ASSUME Init PROVE IInv
  OBVIOUS
<1> USE DEF Init
<1>1. RangeLedgers = {} /\ Len(ranges) = 0
  BY DEF RangeLedgers
<1>2. RangesGood
  BY LedgerRangeFacts DEF RangesGood, validateRanges, Idle
<1>3. PositionGood
  BY <1>1, LedgerFacts, LedgerRangeFacts DEF PositionGood
<1>4. WorkersGood
  <2>1. MaxUint32 \in 1..MaxUint32 /\ 0 \in 0..MaxFailures
    BY LedgerFacts, ParallelReingestAssumption DEF MaxUint32
  <2>2. job \in [Workers -> LedgerRange] /\ \A w \in Workers : job[w] = NoJob
    BY LedgerRangeFacts
  <2>3. stop \in BOOLEAN /\ exited \subseteq Workers /\ done = {}
    BY Zenon
  <2>4. failures \in 0..MaxFailures /\ lowestLedger \in 1..MaxUint32
    BY <2>1
  <2> QED
    BY <2>2, <2>3, <2>4, LedgerRangeFacts, Zenon DEF WorkersGood
<1>5. JobsDisjoint /\ AllSettled
  BY <1>1 DEF JobsDisjoint, AllSettled
<1>6. ResultGood
  <2>1. 0 \in 0..MaxUint32
    BY LedgerFacts DEF MaxUint32
  <2> QED
    BY <2>1, Zenon DEF ResultGood
<1> QED
  BY <1>2, <1>3, <1>4, <1>5, <1>6 DEF IInv

LEMMA StartCommandKept == ASSUME IInv, StartCommand PROVE IInv'
<1> USE DEF IInv, StartCommand
<1>1. PositionGood' /\ WorkersGood' /\ JobsDisjoint' /\ AllSettled'
  BY JobsFrame, Zenon DEF WorkersGood
<1>2. RangesGood'
  <2>1. requested' \in JobRange /\ requested'.from <= requested'.to
    <3>1. PICK start \in Ledgers : \E end \in start..MaxLedger :
                 requested' = [from |-> start, to |-> end]
      OBVIOUS
    <3>2. PICK end \in start..MaxLedger : requested' = [from |-> start, to |-> end]
      BY <3>1
    <3>3. start \in Nat /\ end \in Ledgers /\ start <= end
      BY LedgerFacts
    <3> QED
      BY <3>2, <3>3 DEF JobRange
  <2> QED
    BY <2>1, LedgerRangeFacts, Zenon DEF RangesGood, Idle, jobVars
<1>3. ResultGood'
  BY DEF ResultGood
<1> QED
  BY <1>1, <1>2, <1>3

LEMMA FillGapsKept == ASSUME IInv, FillGaps PROVE IInv'
<1>1. /\ pc = "detect" /\ requested.from \in Ledgers /\ requested.to \in Ledgers
      /\ requested.from <= requested.to /\ history \in SUBSET Ledgers
  BY LedgerFacts DEF IInv, RangesGood, FillGaps
<1> DEFINE gaps == GetLedgerGapsInRange(history, requested.from, requested.to)
<1>2. gaps \in Seq(JobRange) /\ validateRanges(gaps)
  BY <1>1, GapsInRangeCover DEF Covers
<1>3. Enqueue(gaps)
  BY DEF FillGaps
<1> HIDE DEF gaps
<1>4. batchSize' \in 0..MaxLedger + Interval /\ batchSize' > 0
  BY <1>2, <1>3, BatchSize, Zenon DEF Enqueue
<1> QED
  BY <1>1, <1>2, <1>3, <1>4, EnqueueKept

LEMMA ReingestRangeKept == ASSUME IInv, ReingestRange PROVE IInv'
<1>1. pc = "detect" /\ requested \in JobRange /\ requested.from <= requested.to
  BY DEF IInv, RangesGood, ReingestRange
<1> DEFINE rs == <<requested>>
<1>2. rs \in Seq(JobRange) /\ validateRanges(rs)
  BY <1>1, CoversOne DEF Covers
<1>3. Enqueue(rs)
  BY DEF ReingestRange
<1> HIDE DEF rs
<1>4. batchSize' \in 0..MaxLedger + Interval /\ batchSize' > 0
  BY <1>2, <1>3, BatchSize, Zenon DEF Enqueue
<1> QED
  BY <1>1, <1>2, <1>3, <1>4, EnqueueKept

LEMMA NextIInv == IInv /\ [Next]_vars => IInv'
<1> SUFFICES ASSUME IInv, [Next]_vars PROVE IInv'
  OBVIOUS
<1>1. CASE StartCommand
  BY <1>1, StartCommandKept
<1>2. CASE FillGaps
  BY <1>2, FillGapsKept
<1>3. CASE ReingestRange
  BY <1>3, ReingestRangeKept
<1>4. CASE NextRange
  BY <1>4, NextRangeKept
<1>5. CASE StopEnqueue
  BY <1>5, StopEnqueueKept
<1>6. CASE Finish
  BY <1>6, FinishKept
<1>7. ASSUME NEW w \in Workers, WorkerStep(w) PROVE IInv'
  BY <1>7, SendJobKept, WorkerStopKept, WorkerDoneKept, WorkerFailKept DEF WorkerStep
<1>8. CASE UNCHANGED vars
  BY <1>8, StutterKept
<1> QED
  BY <1>1, <1>2, <1>3, <1>4, <1>5, <1>6, <1>7, <1>8 DEF Next

-----------------------------------------------------------------------------
(* The theorems.                                                           *)

LEMMA Invariance == Spec => []IInv
BY InitIInv, NextIInv, PTL DEF Spec

\* Every variable of a parallel reingestion keeps its type: no job has a ledger
\* outside the instance, and the size of a job is within its bound.
THEOREM TypeCorrect == Spec => []TypeOK
<1>1. IInv => TypeOK
  <2> SUFFICES ASSUME IInv PROVE TypeOK
    OBVIOUS
  <2>1. done \subseteq Ledgers
    BY RangeFacts, Zenon DEF IInv, WorkersGood, Passed
  <2>2. \A i \in DOMAIN ranges : ranges[i] \in LedgerRange
    <3>1. ranges \in Seq(JobRange)
      BY Zenon DEF IInv, RangesGood
    <3>2. \A i \in DOMAIN ranges : ranges[i] \in JobRange
      BY <3>1
    <3> QED
      BY <3>2, LedgerRangeFacts, Zenon
  <2> QED
    BY <2>1, <2>2, Zenon DEF IInv, TypeOK, RangesGood, PositionGood, WorkersGood, ResultGood
<1> QED
  BY <1>1, Invariance, PTL

\* GetLedgerGapsInRange finds exactly the missing ledgers of the range asked
\* for, as ranges that validateRanges takes, whatever ledgers history has.
THEOREM GapDetection == Spec => []GapsAreExact
<1>1. IInv => GapsAreExact
  <2> SUFFICES ASSUME IInv, pc = "detect" PROVE GapsAreExact
    BY Zenon DEF GapsAreExact
  <2> DEFINE gaps == GetLedgerGapsInRange(history, requested.from, requested.to)
  <2>1. /\ requested.from \in Ledgers /\ requested.to \in Ledgers
        /\ requested.from <= requested.to /\ history \in SUBSET Ledgers
    BY LedgerFacts DEF IInv, RangesGood
  <2>2. Covers(gaps, (requested.from..requested.to) \ history)
    BY <2>1, GapsInRangeCover
  <2> HIDE DEF gaps
  <2>3. DOMAIN gaps = 1..Len(gaps) /\ validateRanges(gaps)
    BY <2>2 DEF Covers
  <2>4. UNION {Range2Set(gaps[i]) : i \in DOMAIN gaps} = Range2Set(requested) \ history
    BY <2>2, <2>3 DEF Covers, Range2Set
  <2> QED
    BY <2>3, <2>4 DEF GapsAreExact, gaps
<1> QED
  BY <1>1, Invariance, PTL

\* No two jobs of enqueueReingestTasks have a ledger in common, whichever
\* workers run them and in whatever order they end.
THEOREM JobsNeverOverlap == Spec => []JobsDisjoint
<1>1. IInv => JobsDisjoint
  BY DEF IInv
<1> QED
  BY <1>1, Invariance, PTL

\* A restart at the ledger that ReingestRange recommends leaves no gap, but
\* for the last ledgers that the loop sends no job for.
THEOREM RestartLeavesNoGap == Spec => []RestartPreventsGaps
<1>1. IInv => RestartPreventsGaps
  <2> SUFFICES ASSUME IInv, pc = "returned", lowestRangeErr # NoJob,
                      NEW l \in RangeLedgers, l < lowestRangeErr.from
               PROVE  l \in done \cup DroppedTails
    BY DEF RestartPreventsGaps
  <2>1. /\ l \in Nat /\ lowestRangeErr.from \in Nat /\ Passed(lowestRangeErr.from)
        /\ \A w \in Workers : job[w] = NoJob
    BY RangeFacts, Zenon DEF IInv, ResultGood, WorkersGood, Passed
  <2>2. Passed(l)
    <3>1. cur <= Len(ranges) => subRangeFrom \in Nat /\ lowestRangeErr.from < subRangeFrom
      BY <2>1, LedgerRangeFacts DEF IInv, PositionGood, Passed
    <3> QED
      BY <2>1, <3>1 DEF Passed
  <2>3. Settled(l)
    BY <2>2 DEF IInv, AllSettled
  <2> QED
    BY <2>1, <2>3 DEF Settled
<1> QED
  BY <1>1, Invariance, PTL

\* When the command returns, the trade aggregations of every reingested ledger
\* that a restart will not redo have been rebuilt, up to the range where
\* rebuildTradeAggRanges met an error, if it did.
THEOREM TradeAggregations == Spec => []TradeAggregationsFresh
<1>1. IInv => TradeAggregationsFresh
  <2> SUFFICES ASSUME IInv, pc = "returned", NEW l \in done,
                      lowestRangeErr # NoJob => l < lowestRangeErr.from,
                      rebuildErr # 0 => l < rebuildErr
               PROVE  l \in rebuilt
    BY DEF TradeAggregationsFresh
  <2>1. /\ l \in RangeLedgers /\ l \in Nat /\ lowestLedger <= l /\ lowestLedger \in Nat
        /\ lowestRangeErr # NoJob => lowestRangeErr.from \in Nat
    <3>1. RangesGood /\ Passed(l) /\ lowestLedger <= l /\ lowestLedger \in 1..MaxUint32
          /\ (lowestRangeErr # NoJob => Passed(lowestRangeErr.from))
      BY Zenon DEF IInv, WorkersGood
    <3>2. \A x : Passed(x) => x \in RangeLedgers /\ x \in Nat
      BY <3>1, RangeFacts, Zenon DEF Passed
    <3>3. lowestLedger \in Nat
      BY <3>1, LedgerRangeFacts
    <3> QED
      BY <3>1, <3>2, <3>3, Zenon
  <2>2. l \in ToRebuild
    BY <2>1 DEF ToRebuild
  <2> QED
    BY <2>2, Zenon DEF IInv, ResultGood
<1> QED
  BY <1>1, Invariance, PTL

-----------------------------------------------------------------------------
(* Termination, but for fairness.                                          *)

Running == pc \in {"enqueue", "wait"}

\* The stop channel is closed before a worker leaves, and when nothing is sent.
StopGood == (exited # {} => stop) /\ (pc = "wait" => stop)

\* While ParallelSystems.ReingestRange runs, one of its goroutines can go on.
NobodyStuck ==
  Running =>
    \/ pc = "enqueue" /\ cur <= Len(ranges) /\ subRangeFrom >= ranges[cur].to     \* NextRange
    \/ pc = "enqueue" /\ (cur <= Len(ranges) => subRangeFrom < ranges[cur].to /\ stop)
                                                                                  \* StopEnqueue
    \/ pc = "wait" /\ exited = Workers                                            \* Finish
    \/ \E w \in Workers :
         \/ job[w] # NoJob                                                        \* WorkerDone
         \/ w \notin exited /\ stop                                               \* WorkerStop
         \/ /\ w \notin exited /\ pc = "enqueue"                                  \* SendJob
            /\ cur <= Len(ranges) /\ subRangeFrom < ranges[cur].to

LEMMA StopGoodKept == IInv /\ StopGood /\ [Next]_vars => StopGood'
<1> SUFFICES ASSUME IInv, StopGood, [Next]_vars PROVE StopGood'
  OBVIOUS
<1> USE DEF StopGood
<1>1. CASE StartCommand
  BY <1>1 DEF StartCommand, jobVars
<1>2. ASSUME NEW rs, Enqueue(rs) PROVE StopGood'
  BY <1>2 DEF Enqueue, jobVars
<1>3. CASE FillGaps \/ ReingestRange
  BY <1>2, <1>3, Zenon DEF FillGaps, ReingestRange
<1>4. CASE NextRange
  BY <1>4 DEF NextRange, jobVars
<1>5. CASE StopEnqueue
  BY <1>5 DEF StopEnqueue
<1>6. CASE Finish
  BY <1>6 DEF Finish, jobVars
<1>7. ASSUME NEW w \in Workers, WorkerStep(w) PROVE StopGood'
  BY <1>7, Zenon DEF WorkerStep, SendJob, WorkerStop, WorkerDone, WorkerFail
<1>8. CASE UNCHANGED vars
  BY <1>8 DEF vars, jobVars
<1> QED
  BY <1>1, <1>3, <1>4, <1>5, <1>6, <1>7, <1>8 DEF Next

\* ParallelSystems.ReingestRange, for any number of workers and whatever jobs
\* fail: enqueueReingestTasks and the workers never all wait on their channels.
THEOREM NeverStuck == Spec => []NobodyStuck
<1>1. Init => StopGood
  BY DEF Init, StopGood
<1>2. IInv /\ StopGood => NobodyStuck
  <2> SUFFICES ASSUME IInv, StopGood, Running PROVE NobodyStuck
    BY DEF NobodyStuck
  <2>1. PICK w \in Workers : TRUE
    BY WorkersAssumption
  <2>2. CASE pc = "wait"
    <3>1. stop /\ exited \subseteq Workers
      BY <2>2 DEF StopGood, IInv, WorkersGood
    <3> QED
      BY <2>2, <3>1 DEF NobodyStuck
  <2>3. CASE pc = "enqueue" /\ cur <= Len(ranges)
    <3>1. subRangeFrom \in Int /\ ranges[cur].to \in Int
      BY <2>3, PlaceFacts
    <3>2. subRangeFrom >= ranges[cur].to \/ subRangeFrom < ranges[cur].to
      BY <3>1
    <3> QED
      BY <2>1, <2>3, <3>2 DEF NobodyStuck, StopGood
  <2>4. CASE pc = "enqueue" /\ ~ (cur <= Len(ranges))
    BY <2>4 DEF NobodyStuck
  <2> QED
    BY <2>2, <2>3, <2>4 DEF Running
<1> QED
  BY <1>1, <1>2, Invariance, StopGoodKept, PTL DEF Spec

\* What is left to do: phases of the command, ranges to cut, ledgers to hand out
\* and, last, jobs to end and workers to leave.
Phase == IF pc = "enqueue" THEN 2 ELSE IF pc = "wait" THEN 1 ELSE 0
RangesLeft == Len(ranges) + 1 - cur
LedgersLeft == MaxUint32 - subRangeFrom
Busy == {w \in Workers : job[w] # NoJob}

\* The step brings the command closer to its end, in lexicographic order: last
\* come two subsets of Workers, which is finite, that shrink.
Closer ==
  \/ Phase' < Phase
  \/ Phase' = Phase /\ RangesLeft' < RangesLeft
  \/ Phase' = Phase /\ RangesLeft' = RangesLeft /\ LedgersLeft' < LedgersLeft
  \/ /\ Phase' = Phase /\ RangesLeft' = RangesLeft /\ LedgersLeft' = LedgersLeft
     /\ Busy' \subseteq Busy /\ exited \subseteq exited'
     /\ Busy' # Busy \/ exited' # exited

LeftOK ==
  /\ Phase \in Nat /\ RangesLeft \in Nat /\ LedgersLeft \in Nat
  /\ IsFiniteSet(Workers) /\ Busy \subseteq Workers /\ exited \subseteq Workers

LEMMA LeftIsNatural == IInv => LeftOK
<1> SUFFICES ASSUME IInv PROVE LeftOK
  OBVIOUS
<1>1. Phase \in Nat
  BY DEF Phase
<1>2. RangesLeft \in Nat
  BY PlaceFacts DEF RangesLeft
<1>3. LedgersLeft \in Nat
  BY PlaceFacts DEF LedgersLeft
<1>4. IsFiniteSet(Workers) /\ Busy \subseteq Workers /\ exited \subseteq Workers
  BY WorkersAssumption, Zenon DEF IInv, WorkersGood, Busy
<1> QED
  BY <1>1, <1>2, <1>3, <1>4 DEF LeftOK

\* ParallelSystems.ReingestRange, for any number of workers, ledgers and
\* failures: each of its steps brings it closer to its end, by numbers that
\* cannot fall and finite sets that cannot shrink for ever.  With NeverStuck
\* this is what Returns rests on, apart from fairness.
THEOREM EveryStepCounts == Spec => []LeftOK /\ [][Running => Closer]_vars
<1>1. ASSUME IInv, IInv', [Next]_vars, Running, ~ UNCHANGED vars PROVE Closer
  <2> USE DEF Running
  <2>1. CASE StartCommand \/ FillGaps \/ ReingestRange
    BY <1>1, <2>1 DEF StartCommand, FillGaps, ReingestRange
  <2>2. CASE NextRange
    <3>1. Phase' = Phase
      BY <2>2 DEF NextRange, Phase
    <3>2. RangesLeft' < RangesLeft
      <4>1. cur' = cur + 1 /\ ranges' = ranges /\ cur \in Int /\ Len(ranges) \in Int
        BY <1>1, <2>2, PlaceFacts DEF NextRange
      <4> QED
        BY <4>1 DEF RangesLeft
    <3> QED
      BY <3>1, <3>2 DEF Closer
  <2>3. CASE StopEnqueue
    BY <2>3 DEF StopEnqueue, Phase, Closer
  <2>4. CASE Finish
    BY <2>4 DEF Finish, Phase, Closer
  <2>5. ASSUME NEW w \in Workers, SendJob(w) PROVE Closer
    <3> DEFINE r == ranges[cur]
               to == Min({subRangeFrom + batchSize - 1, r.to})
    <3>1. /\ pc = "enqueue" /\ cur <= Len(ranges) /\ subRangeFrom < r.to
          /\ subRangeFrom' = to + 1 /\ UNCHANGED <<pc, cur, ranges>>
      BY <2>5, Zenon DEF SendJob
    <3>2. /\ r.to \in Int /\ subRangeFrom \in Int /\ batchSize \in Int /\ batchSize > 0
      BY <1>1, <3>1, PlaceFacts
    <3>3. to = IF subRangeFrom + batchSize - 1 <= r.to THEN subRangeFrom + batchSize - 1 ELSE r.to
      BY <3>2, MinMax, subRangeFrom + batchSize - 1 \in Int, Zenon
    <3> HIDE DEF to
    <3>4. subRangeFrom' > subRangeFrom /\ subRangeFrom' \in Int
      BY <3>1, <3>2, <3>3
    <3>5. LedgersLeft' < LedgersLeft
      <4>1. MaxLedger \in Int
        BY LedgerFacts
      <4>2. \A a, b, c \in Int : b > a => (c + 1) - b < (c + 1) - a
        OBVIOUS
      <4>3. (MaxLedger + 1) - subRangeFrom' < (MaxLedger + 1) - subRangeFrom
        BY <3>2, <3>4, <4>1, <4>2, Zenon
      <4> QED
        BY <4>3 DEF LedgersLeft, MaxUint32
    <3>6. Phase' = Phase /\ RangesLeft' = RangesLeft
      BY <3>1 DEF Phase, RangesLeft
    <3> QED
      BY <3>5, <3>6 DEF Closer
  <2>6. ASSUME NEW w \in Workers, WorkerStop(w) \/ WorkerDone(w) \/ WorkerFail(w) PROVE Closer
    <3>1. UNCHANGED <<pc, cur, ranges, subRangeFrom>>
      BY <2>6, Zenon DEF WorkerStop, WorkerDone, WorkerFail
    <3>2. job \in [Workers -> LedgerRange]
      BY <1>1, Zenon DEF IInv, WorkersGood
    <3>3. /\ Busy' \subseteq Busy /\ exited \subseteq exited'
          /\ Busy' # Busy \/ exited' # exited
      <4>1. CASE WorkerStop(w)
        BY <4>1 DEF WorkerStop, Busy
      <4>2. CASE WorkerDone(w) \/ WorkerFail(w)
        <5>1. /\ job[w] # NoJob /\ job' = [job EXCEPT ![w] = NoJob] /\ exited \subseteq exited'
          BY <4>2, Zenon DEF WorkerDone, WorkerFail
        <5>2. Busy' = Busy \ {w} /\ w \in Busy
          BY <3>2, <5>1 DEF Busy
        <5> QED
          BY <5>1, <5>2, Zenon
      <4> QED
        BY <2>6, <4>1, <4>2, Zenon
    <3> QED
      BY <3>1, <3>3 DEF Closer, Phase, RangesLeft, LedgersLeft
  <2> QED
    BY <1>1, <2>1, <2>2, <2>3, <2>4, <2>5, <2>6 DEF Next, WorkerStep
<1>2. IInv /\ IInv' /\ [Next]_vars => [Running => Closer]_vars
  BY <1>1
<1> QED
  BY <1>2, Invariance, LeftIsNatural, PTL DEF Spec
=============================================================================
