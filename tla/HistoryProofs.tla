---------------------------- MODULE HistoryProofs ----------------------------
\* What happens to history behind the cached ledger states of the instances, for
\* any number of instances and ledgers: the reaper keeps what is to be retained,
\* with any retention counts and any batch size, and streaming sends every
\* ledger in order, with any limit.
EXTENDS Reaper, LedgerStream, FiniteSetTheorems, WellFoundedInduction, TLAPS

\* latestHistory is what LatestLedgerSequenceClosedAt reads.
LatestIsLast ==
  /\ history = {} => latestHistory = 0
  /\ history # {} => latestHistory \in history /\ \A k \in history : k <= latestHistory

\* What an instance has read, however long ago, is not above the latest ledger.
CacheBehind ==
  \A i \in Instances : /\ status[i].HistoryLatest <= latestHistory
                       /\ tick[i].HistoryLatest <= latestHistory

\* What an instance goes on to delete is not among the ledgers it retains.
LoopBehind ==
  \A i \in Instances : reaping[i] # Done =>
    RetentionCount[i] > 0 /\ reaping[i].batchEndSeq <= latestHistory - RetentionCount[i]

ReaperInv == TypeOK /\ LatestIsLast /\ CacheBehind /\ LoopBehind

-----------------------------------------------------------------------------
(* Lemmas about the operators.                                             *)

\* LatestLedger is the ledger of h that no other is above.
LEMMA LatestLedgerValue ==
  ASSUME NEW h \in SUBSET Nat, NEW l \in h, \A k \in h : k <= l
  PROVE  LatestLedger(h) = l
<1>1. LatestLedger(h) = CHOOSE x \in h : \A k \in h : k <= x
  BY DEF LatestLedger
<1>2. \E x \in h : \A k \in h : k <= x
  OBVIOUS
<1>3. LatestLedger(h) \in h /\ \A k \in h : k <= LatestLedger(h)
  BY <1>1, <1>2, Zenon
<1>4. LatestLedger(h) <= l /\ l <= LatestLedger(h)
  BY <1>3, Zenon
<1>5. LatestLedger(h) \in Nat /\ l \in Nat
  BY <1>3, Zenon
<1> QED BY <1>4, <1>5

\* A set of natural numbers has a least one.
LEMMA LeastElement ==
  ASSUME NEW h, h \subseteq Nat, h # {}
  PROVE  \E x \in h : \A y \in h : x <= y
<1>1. PICK x \in h : \A y \in Nat : <<y, x>> \in OpToRel(<, Nat) => y \notin h
  BY WFMin, NatLessThanWellFounded, Zenon
<1>2. \A y \in h : ~ (y < x)
  BY <1>1, Zenon DEF OpToRel
<1> QED
  BY <1>2

\* Induction over a set of numbers.
LEMMA SetInduction ==
  ASSUME NEW S, 0 \in S, \A n \in Nat : n \in S => n + 1 \in S
  PROVE  Nat \subseteq S
<1> SUFFICES ASSUME Nat \ S # {} PROVE FALSE
  OBVIOUS
<1>1. PICK x \in Nat \ S : \A y \in Nat \ S : x <= y
  <2>1. Nat \ S \subseteq Nat
    OBVIOUS
  <2> QED
    BY <2>1, LeastElement, Zenon
<1>2. x # 0 /\ x - 1 \in Nat /\ (x - 1) + 1 = x /\ ~ (x <= x - 1)
  OBVIOUS
<1>3. x - 1 \in S
  BY <1>1, <1>2, Zenon
<1> QED
  BY <1>2, <1>3, Zenon

\* ElderLedger is in h.
LEMMA ElderLedgerType ==
  ASSUME NEW h \in SUBSET (1..MaxLedger), MaxLedger \in Nat
  PROVE  ElderLedger(h) \in 0..MaxLedger
<1>1. CASE h = {}
  BY <1>1 DEF ElderLedger
<1>2. CASE h # {}
  <2>0. h \subseteq Nat
    OBVIOUS
  <2>1. \E e \in h : \A k \in h : e <= k
    BY <1>2, <2>0, LeastElement, Zenon
  <2>2. ElderLedger(h) = CHOOSE e \in h : \A k \in h : e <= k
    BY <1>2, Zenon DEF ElderLedger
  <2>3. ElderLedger(h) \in h
    BY <2>1, <2>2, Zenon
  <2>4. 1..MaxLedger \subseteq 0..MaxLedger
    OBVIOUS
  <2> QED BY <2>3, <2>4, Zenon
<1> QED BY <1>1, <1>2

\* A loop of clearBefore that is not over has its end at or above its start.
LEMMA LoopValue ==
  ASSUME NEW start \in 0..MaxLedger, NEW end \in Int, end <= MaxLedger, MaxLedger \in Nat
  PROVE  /\ Loop(start, end) \in [startSeq : 0..MaxLedger, batchEndSeq : 0..MaxLedger] \cup {Done}
         /\ Loop(start, end) # Done => Loop(start, end).batchEndSeq = end
<1>1. CASE end >= start
  <2>1. Loop(start, end) = [startSeq |-> start, batchEndSeq |-> end]
    BY <1>1 DEF Loop
  <2>2. end \in 0..MaxLedger
    BY <1>1
  <2> QED BY <2>1, <2>2
<1>2. CASE ~ (end >= start)
  BY <1>2 DEF Loop
<1> QED BY <1>1, <1>2

-----------------------------------------------------------------------------
(* Steps that write ledgers.                                               *)

\* Ingestion and commands never lower the latest ledger, and latestHistory stays it.
LEMMA HistoryGrows ==
  ASSUME CacheTypeOK, LatestIsLast, HistoryStep
  PROVE  /\ lastIngested' \in Ledger /\ latestHistory' \in Ledger /\ state' \in Ledger
         /\ history \subseteq history' /\ history' \subseteq 1..MaxLedger
         /\ LatestIsLast' /\ latestHistory <= latestHistory'
<1> USE ReaperAssumption, LedgerStateAssumption
<1>0. /\ lastIngested \in 0..MaxLedger /\ latestHistory \in 0..MaxLedger
      /\ state \in 0..MaxLedger /\ history \subseteq 1..MaxLedger
  BY DEF CacheTypeOK, Ledger
<1>1. CASE IngestLedger
  <2> DEFINE next == lastIngested + 1
  <2>1. /\ lastIngested' = next /\ state' = next /\ history' = history \cup {next}
        /\ latestHistory' = IF latestHistory > next THEN latestHistory ELSE next
        /\ next \in 1..MaxLedger
    BY <1>0, <1>1 DEF IngestLedger, Resume
  <2>2. \A k \in history : k <= latestHistory
    BY DEF LatestIsLast
  <2> HIDE DEF next
  <2>3. CASE latestHistory > next
    <3>1. latestHistory' = latestHistory /\ latestHistory \in history
      BY <1>0, <2>1, <2>3 DEF LatestIsLast
    <3>2. \A k \in history' : k <= latestHistory
      BY <1>0, <2>1, <2>2, <2>3
    <3> QED BY <1>0, <2>1, <3>1, <3>2 DEF LatestIsLast, Ledger
  <2>4. CASE ~ (latestHistory > next)
    <3>1. latestHistory' = next /\ latestHistory <= next
      BY <1>0, <2>1, <2>4
    <3>2. \A k \in history' : k <= next
      BY <1>0, <2>1, <2>2, <3>1
    <3> QED BY <1>0, <2>1, <3>1, <3>2 DEF LatestIsLast, Ledger
  <2> QED BY <2>3, <2>4
<1>2. CASE ResetState
  BY <1>0, <1>2 DEF ResetState, Reset, LatestIsLast, Ledger
<1>3. ASSUME NEW a \in 1..MaxLedger, BuildState(a)
      PROVE  /\ lastIngested' \in Ledger /\ latestHistory' \in Ledger /\ state' \in Ledger
             /\ history \subseteq history' /\ history' \subseteq 1..MaxLedger
             /\ LatestIsLast' /\ latestHistory <= latestHistory'
  BY <1>0, <1>3 DEF BuildState, Build, LatestIsLast, Ledger
<1>4. ASSUME NEW a \in 1..MaxLedger, NEW b \in 1..MaxLedger, IngestRange(a, b)
      PROVE  /\ lastIngested' \in Ledger /\ latestHistory' \in Ledger /\ state' \in Ledger
             /\ history \subseteq history' /\ history' \subseteq 1..MaxLedger
             /\ LatestIsLast' /\ latestHistory <= latestHistory'
  <2>1. /\ UNCHANGED <<lastIngested, state>> /\ latestHistory' \in 0..MaxLedger /\ a <= b
        /\ history' = history \cup a..b /\ latestHistory' = LatestLedger(history')
    BY <1>4 DEF IngestRange, SetHistory, WriteHistory
  <2>2. history' \in SUBSET Nat /\ history' \subseteq 1..MaxLedger /\ b \in history'
    BY <1>0, <2>1
  <2>3. \A k \in history : k <= latestHistory
    BY DEF LatestIsLast
  <2>4. PICK m \in history' : latestHistory <= m /\ \A k \in history' : k <= m
    <3>1. CASE history # {} /\ b <= latestHistory
      <4>1. latestHistory \in history'
        BY <3>1, <2>1 DEF LatestIsLast
      <4>2. \A k \in history' : k <= latestHistory
        BY <1>0, <2>1, <2>3, <3>1
      <4> QED BY <1>0, <4>1, <4>2
    <3>2. CASE history = {} \/ latestHistory < b
      <4>1. latestHistory <= b
        BY <1>0, <3>2 DEF LatestIsLast
      <4>2. \A k \in history' : k <= b
        BY <1>0, <2>1, <2>3, <4>1
      <4> QED BY <2>2, <4>1, <4>2
    <3> QED BY <1>0, <3>1, <3>2
  <2>5. latestHistory' = m
    BY <2>1, <2>2, <2>4, LatestLedgerValue
  <2> QED BY <1>0, <2>1, <2>2, <2>4, <2>5, Zenon DEF LatestIsLast, Ledger
<1> QED BY <1>1, <1>2, <1>3, <1>4 DEF HistoryStep

\* A batch leaves the latest ledger where it is.
LEMMA BatchKeepsLatest ==
  ASSUME ReaperInv, NEW i \in Instances, ClearBatch(i)
  PROVE  /\ UNCHANGED <<lastIngested, latestHistory, state>>
         /\ history' \subseteq history /\ LatestIsLast'
         /\ \A l \in history \ history' :
              RetentionCount[i] > 0 /\ l <= latestHistory - RetentionCount[i]
<1> DEFINE start == BatchStart(i)
           end == reaping[i].batchEndSeq
<1>1. /\ latestHistory \in 0..MaxLedger /\ history \subseteq 1..MaxLedger
      /\ MaxLedger \in Nat /\ RetentionCount[i] \in Nat
  BY ReaperAssumption, LedgerStateAssumption DEF ReaperInv, TypeOK, CacheTypeOK, Ledger
<1>2. /\ reaping[i] # Done /\ UNCHANGED <<lastIngested, state>>
      /\ history' = history \ start..end /\ latestHistory' = LatestLedger(history')
  BY DEF ClearBatch, DeleteRangeAll, SetHistory, WriteHistory
<1>3. reaping[i] \in [startSeq : 0..MaxLedger, batchEndSeq : 0..MaxLedger]
  BY <1>2 DEF ReaperInv, TypeOK, CacheTypeOK, Ledger
<1>4. end \in Nat /\ RetentionCount[i] > 0 /\ end <= latestHistory - RetentionCount[i]
  BY <1>1, <1>2, <1>3 DEF ReaperInv, LoopBehind
<1>5. start \in Int
  BY <1>3, ReaperAssumption, LedgerStateAssumption DEF BatchStart
<1>6. end < latestHistory /\ latestHistory > 0
  BY <1>1, <1>4
<1>7. latestHistory \in history /\ \A k \in history : k <= latestHistory
  BY <1>6 DEF ReaperInv, LatestIsLast
<1>8. latestHistory \notin start..end
  BY <1>1, <1>4, <1>5, <1>6
<1>9. /\ latestHistory \in history' /\ history' \subseteq history
      /\ \A k \in history' : k <= latestHistory
  BY <1>2, <1>7, <1>8, Zenon
<1>10. latestHistory' = latestHistory
  <2>1. history' \in SUBSET Nat
    BY <1>1, <1>9
  <2> QED BY <1>2, <1>9, <2>1, LatestLedgerValue
<1>11. ASSUME NEW l \in history \ history' PROVE l <= latestHistory - RetentionCount[i]
  <2>1. l \in start..end /\ l \in Nat
    BY <1>1, <1>2
  <2> QED BY <1>1, <1>4, <1>5, <2>1
<1>12. LatestIsLast'
  BY <1>9, <1>10 DEF LatestIsLast
<1> HIDE DEF start, end
<1> QED BY <1>2, <1>4, <1>9, <1>10, <1>11, <1>12

-----------------------------------------------------------------------------
(* The cached ledger states.                                               *)

LEMMA CacheInitFacts ==
  ASSUME CacheInit
  PROVE  CacheTypeOK /\ LatestIsLast /\ CacheBehind
<1> USE LedgerStateAssumption DEF CacheInit, HistoryInit, LedgerInit, NoStatus, NoTick
<1>1. lastIngested = 0 /\ latestHistory = 0 /\ state = 0 /\ history = {}
  OBVIOUS
<1> QED
  BY <1>1 DEF CacheTypeOK, Ledger, LatestIsLast, CacheBehind

\* What instances do to their caches, and a restart, leaves the tables alone.
LEMMA CacheStep ==
  ASSUME CacheTypeOK, NEW i \in Instances, UpdateAuroraLedgerState(i) \/ Forget(i)
  PROVE  /\ UNCHANGED <<lastIngested, latestHistory, state, history>>
         /\ CacheTypeOK' /\ (CacheBehind => CacheBehind')
<1> USE LedgerStateAssumption
<1>1. UNCHANGED <<lastIngested, latestHistory, state, history>>
  BY DEF UpdateAuroraLedgerState, QueryLatest, SetAuroraStatus, QueryFail, Forget,
         historyVars, ledgerVars
<1>2. /\ latestHistory \in 0..MaxLedger /\ lastIngested \in 0..MaxLedger
      /\ ElderLedger(history) \in 0..MaxLedger /\ tick[i].HistoryLatest \in 0..MaxLedger
  BY ElderLedgerType, Zenon DEF CacheTypeOK, Ledger
<1>3. CASE QueryLatest(i)
  <2>1. /\ tick' = [tick EXCEPT ![i] = [running |-> TRUE, HistoryLatest |-> latestHistory]]
        /\ status' = status
    BY <1>3 DEF QueryLatest
  <2> QED
    BY <1>1, <1>2, <2>1 DEF CacheTypeOK, CacheBehind, Ledger
<1>4. CASE SetAuroraStatus(i)
  <2>1. /\ status' = [status EXCEPT ![i] = [HistoryLatest |-> tick[i].HistoryLatest,
                                            HistoryElder |-> ElderLedger(history),
                                            ExpHistoryLatest |-> lastIngested]]
        /\ tick' = [tick EXCEPT ![i] = NoTick]
    BY <1>4 DEF SetAuroraStatus
  <2>2. CacheTypeOK'
    BY <1>1, <1>2, <2>1 DEF CacheTypeOK, NoTick, Ledger
  <2>3. CacheBehind => CacheBehind'
    BY <1>1, <1>2, <2>1 DEF CacheTypeOK, CacheBehind, NoTick
  <2> QED
    BY <1>1, <2>2, <2>3
<1>5. CASE QueryFail(i)
  <2>1. tick' = [tick EXCEPT ![i] = NoTick] /\ status' = status
    BY <1>5 DEF QueryFail
  <2> QED
    BY <1>1, <1>2, <2>1 DEF CacheTypeOK, CacheBehind, NoTick, Ledger
<1>6. CASE Forget(i)
  <2>1. status' = [status EXCEPT ![i] = NoStatus] /\ tick' = [tick EXCEPT ![i] = NoTick]
    BY <1>6 DEF Forget
  <2> QED
    BY <1>1, <1>2, <2>1 DEF CacheTypeOK, CacheBehind, NoStatus, NoTick, Ledger
<1> QED
  BY <1>3, <1>4, <1>5, <1>6 DEF UpdateAuroraLedgerState

\* A step of ingestion or of a command raises the latest ledger: caches stay
\* behind it.
LEMMA CacheKept ==
  ASSUME CacheTypeOK, LatestIsLast, HistoryStep, UNCHANGED cacheVars
  PROVE  CacheTypeOK' /\ (CacheBehind => CacheBehind')
<1>1. /\ lastIngested' \in Ledger /\ latestHistory' \in Ledger /\ state' \in Ledger
      /\ history' \subseteq 1..MaxLedger /\ latestHistory <= latestHistory'
  BY HistoryGrows
<1>2. status' = status /\ tick' = tick
  BY DEF cacheVars
<1>3. CacheTypeOK'
  BY <1>1, <1>2 DEF CacheTypeOK, Ledger
<1>4. ASSUME CacheBehind, NEW i \in Instances
      PROVE  status[i].HistoryLatest <= latestHistory' /\ tick[i].HistoryLatest <= latestHistory'
  <2>1. /\ latestHistory \in Nat /\ latestHistory' \in Nat
        /\ status[i].HistoryLatest \in Nat /\ tick[i].HistoryLatest \in Nat
    BY <1>1, LedgerStateAssumption DEF CacheTypeOK, Ledger
  <2> QED
    BY <1>1, <1>4, <2>1 DEF CacheBehind
<1> QED
  BY <1>2, <1>3, <1>4, Zenon DEF CacheBehind

-----------------------------------------------------------------------------
(* The reaper's invariant.                                                 *)

LEMMA ReaperInitInv == Init => ReaperInv
<1> SUFFICES ASSUME Init PROVE ReaperInv
  OBVIOUS
<1>1. CacheInit /\ reaping = [i \in Instances |-> Done]
  BY DEF Init
<1> QED
  BY <1>1, CacheInitFacts DEF ReaperInv, TypeOK, LoopBehind

LEMMA HistoryStepInv ==
  ASSUME ReaperInv, HistoryStep, UNCHANGED <<cacheVars, reaping>>
  PROVE  ReaperInv'
<1>1. CacheTypeOK' /\ CacheBehind'
  BY CacheKept DEF ReaperInv, TypeOK
<1>2. latestHistory' \in Ledger /\ LatestIsLast' /\ latestHistory <= latestHistory'
  BY HistoryGrows DEF ReaperInv, TypeOK
<1>3. ASSUME NEW i \in Instances, reaping[i] # Done
      PROVE  RetentionCount[i] > 0 /\ reaping[i].batchEndSeq <= latestHistory' - RetentionCount[i]
  <2>1. /\ latestHistory \in Nat /\ latestHistory' \in Nat /\ RetentionCount[i] \in Nat
        /\ reaping[i].batchEndSeq \in Nat
    BY <1>2, <1>3, ReaperAssumption, LedgerStateAssumption
       DEF ReaperInv, TypeOK, CacheTypeOK, Ledger
  <2> QED
    BY <1>2, <1>3, <2>1 DEF ReaperInv, LoopBehind
<1> QED
  BY <1>1, <1>2, <1>3 DEF ReaperInv, TypeOK, LoopBehind, Ledger

\* A tick of one instance.
LEMMA TickInv ==
  ASSUME ReaperInv, NEW i \in Instances, UpdateAuroraLedgerState(i), UNCHANGED reaping
  PROVE  ReaperInv'
<1>1. /\ UNCHANGED <<lastIngested, latestHistory, state, history>>
      /\ CacheTypeOK' /\ CacheBehind'
  BY CacheStep DEF ReaperInv, TypeOK
<1> QED
  BY <1>1 DEF ReaperInv, TypeOK, LatestIsLast, LoopBehind, Ledger

\* The loop of clearBefore moves, under an unchanged latest ledger.
LEMMA ReapingInv ==
  ASSUME ReaperInv, NEW i \in Instances, UNCHANGED <<lastIngested, latestHistory, state, status, tick>>,
         history' \subseteq history, LatestIsLast',
         NEW r, reaping' = [reaping EXCEPT ![i] = r],
         r \in [startSeq : Ledger, batchEndSeq : Ledger] \cup {Done},
         r # Done => RetentionCount[i] > 0 /\ r.batchEndSeq <= latestHistory - RetentionCount[i]
  PROVE  ReaperInv'
<1>1. TypeOK' /\ CacheBehind'
  BY DEF ReaperInv, TypeOK, CacheTypeOK, CacheBehind, Ledger
<1>2. LoopBehind'
  BY DEF ReaperInv, TypeOK, LoopBehind
<1> QED BY <1>1, <1>2 DEF ReaperInv

LEMMA DeleteUnretainedHistoryInv ==
  ASSUME ReaperInv, NEW i \in Instances, DeleteUnretainedHistory(i)
  PROVE  ReaperInv'
<1> DEFINE r == Loop(status[i].HistoryElder, TargetElder(i) - 1)
<1>1. /\ status[i].HistoryElder \in 0..MaxLedger /\ status[i].HistoryLatest \in 0..MaxLedger
      /\ RetentionCount[i] \in Nat /\ MaxLedger \in Nat /\ latestHistory \in Nat
      /\ status[i].HistoryLatest <= latestHistory
  BY ReaperAssumption, LedgerStateAssumption DEF ReaperInv, TypeOK, CacheTypeOK, Ledger, CacheBehind
<1>2. /\ TargetElder(i) - 1 = status[i].HistoryLatest - RetentionCount[i]
      /\ TargetElder(i) - 1 \in Int /\ TargetElder(i) - 1 <= MaxLedger
      /\ TargetElder(i) - 1 <= latestHistory - RetentionCount[i]
  BY <1>1 DEF TargetElder
<1>3. /\ r \in [startSeq : Ledger, batchEndSeq : Ledger] \cup {Done}
      /\ r # Done => r.batchEndSeq = TargetElder(i) - 1
  BY <1>1, <1>2, LoopValue, Zenon DEF Ledger
<1>4. /\ RetentionCount[i] > 0 /\ reaping' = [reaping EXCEPT ![i] = r]
      /\ UNCHANGED <<lastIngested, latestHistory, state, history, status, tick>>
  BY <1>1 DEF DeleteUnretainedHistory, historyVars, ledgerVars, cacheVars
<1>5. LatestIsLast' /\ history' \subseteq history
  BY <1>4 DEF ReaperInv, LatestIsLast
<1> HIDE DEF r
<1> QED BY <1>2, <1>3, <1>4, <1>5, ReapingInv, Zenon

LEMMA ClearBatchInv ==
  ASSUME ReaperInv, NEW i \in Instances, ClearBatch(i)
  PROVE  ReaperInv'
<1> DEFINE r == NextBatch(i)
<1>1. /\ UNCHANGED <<lastIngested, latestHistory, state>>
      /\ history' \subseteq history /\ LatestIsLast'
  BY BatchKeepsLatest
<1>2. /\ reaping[i] # Done /\ reaping' = [reaping EXCEPT ![i] = r]
      /\ UNCHANGED <<status, tick>>
  BY DEF ClearBatch, cacheVars
<1>3. /\ reaping[i].startSeq \in 0..MaxLedger /\ reaping[i].batchEndSeq \in 0..MaxLedger
      /\ RetentionCount[i] \in Nat /\ batchSize \in Nat /\ MaxLedger \in Nat
      /\ latestHistory \in Nat /\ RetentionCount[i] > 0
      /\ reaping[i].batchEndSeq <= latestHistory - RetentionCount[i]
  <2>1. reaping[i] \in [startSeq : Ledger, batchEndSeq : Ledger]
    BY <1>2 DEF ReaperInv, TypeOK
  <2>2. RetentionCount[i] > 0 /\ reaping[i].batchEndSeq <= latestHistory - RetentionCount[i]
    BY <1>2 DEF ReaperInv, LoopBehind
  <2>3. latestHistory \in 0..MaxLedger
    BY DEF ReaperInv, TypeOK, CacheTypeOK, Ledger
  <2> QED BY <2>1, <2>2, <2>3, ReaperAssumption, LedgerStateAssumption DEF Ledger
<1>4. /\ reaping[i].batchEndSeq - batchSize \in Int
      /\ reaping[i].batchEndSeq - batchSize <= MaxLedger
      /\ reaping[i].batchEndSeq - batchSize <= latestHistory - RetentionCount[i]
  BY <1>3
<1>5. /\ r \in [startSeq : Ledger, batchEndSeq : Ledger] \cup {Done}
      /\ r # Done => r.batchEndSeq = reaping[i].batchEndSeq - batchSize
  BY <1>3, <1>4, LoopValue, Zenon DEF Ledger, NextBatch
<1> HIDE DEF r
<1> QED BY <1>1, <1>2, <1>3, <1>4, <1>5, ReapingInv, Zenon

LEMMA ClearFailInv ==
  ASSUME ReaperInv, NEW i \in Instances, ClearFail(i)
  PROVE  ReaperInv'
<1>1. /\ reaping' = [reaping EXCEPT ![i] = Done]
      /\ UNCHANGED <<lastIngested, latestHistory, state, history, status, tick>>
  BY DEF ClearFail, historyVars, ledgerVars, cacheVars
<1>2. LatestIsLast' /\ history' \subseteq history
  BY <1>1 DEF ReaperInv, LatestIsLast
<1> QED BY <1>1, <1>2, ReapingInv, Zenon

LEMMA RestartInv ==
  ASSUME ReaperInv, NEW i \in Instances, Restart(i)
  PROVE  ReaperInv'
<1>1. /\ UNCHANGED <<lastIngested, latestHistory, state, history>>
      /\ CacheTypeOK' /\ CacheBehind'
  BY CacheStep DEF ReaperInv, TypeOK, Restart
<1>2. reaping' = [reaping EXCEPT ![i] = Done]
  BY DEF Restart
<1>3. TypeOK' /\ LatestIsLast'
  BY <1>1, <1>2 DEF ReaperInv, TypeOK, LatestIsLast, Ledger
<1>4. LoopBehind'
  BY <1>1, <1>2 DEF ReaperInv, TypeOK, LoopBehind
<1> QED BY <1>1, <1>3, <1>4 DEF ReaperInv

LEMMA ReaperNextInv == ReaperInv /\ [Next]_vars => ReaperInv'
<1> SUFFICES ASSUME ReaperInv, [Next]_vars PROVE ReaperInv'
  OBVIOUS
<1>1. CASE HistoryStep /\ UNCHANGED <<cacheVars, reaping>>
  BY <1>1, HistoryStepInv
<1>2. ASSUME NEW i \in Instances, UpdateAuroraLedgerState(i), UNCHANGED reaping
      PROVE  ReaperInv'
  BY <1>2, TickInv
<1>3. ASSUME NEW i \in Instances, DeleteUnretainedHistory(i) PROVE ReaperInv'
  BY <1>3, DeleteUnretainedHistoryInv
<1>4. ASSUME NEW i \in Instances, ClearBatch(i) PROVE ReaperInv'
  BY <1>4, ClearBatchInv
<1>5. ASSUME NEW i \in Instances, ClearFail(i) PROVE ReaperInv'
  BY <1>5, ClearFailInv
<1>6. ASSUME NEW i \in Instances, Restart(i) PROVE ReaperInv'
  BY <1>6, RestartInv
<1>7. CASE UNCHANGED vars
  BY <1>7 DEF ReaperInv, TypeOK, CacheTypeOK, LatestIsLast, CacheBehind, LoopBehind,
              vars, historyVars, ledgerVars, cacheVars
<1> QED BY <1>1, <1>2, <1>3, <1>4, <1>5, <1>6, <1>7 DEF Next

-----------------------------------------------------------------------------
(* The theorems.                                                           *)

\* The cached ledger states, the loops of the reapers and the history tables
\* keep their types.
THEOREM TypeCorrect == Spec => []TypeOK
<1>1. ReaperInv => TypeOK
  BY DEF ReaperInv
<1> QED BY <1>1, ReaperInitInv, ReaperNextInv, PTL DEF Spec

\* DeleteUnretainedHistory, from a cached state of any age and whatever other
\* instances, ingestion and commands do, never deletes one of the latest
\* RetentionCount ledgers.
THEOREM RetainedHistory == Spec => RetainedKept
<1>1. ASSUME ReaperInv, [Next]_vars
      PROVE  [\A l \in history \ history' : Unretained(l)]_history
  <2>1. CASE HistoryStep
    <3>1. history \subseteq history'
      BY <1>1, <2>1, HistoryGrows DEF ReaperInv, TypeOK
    <3> QED BY <3>1
  <2>2. ASSUME NEW i \in Instances, ClearBatch(i)
        PROVE  \A l \in history \ history' : Unretained(l)
    BY <1>1, <2>2, BatchKeepsLatest DEF Unretained
  <2>3. ASSUME NEW i \in Instances, UpdateAuroraLedgerState(i) \/ Restart(i)
        PROVE  UNCHANGED history
    BY <1>1, <2>3, CacheStep DEF ReaperInv, TypeOK, Restart
  <2>4. ASSUME NEW i \in Instances, DeleteUnretainedHistory(i) \/ ClearFail(i)
        PROVE  UNCHANGED history
    BY <2>4 DEF DeleteUnretainedHistory, ClearFail, historyVars
  <2>5. CASE UNCHANGED vars
    BY <2>5 DEF vars, historyVars
  <2> QED BY <1>1, <2>1, <2>2, <2>3, <2>4, <2>5 DEF Next
<1> QED BY <1>1, ReaperInitInv, ReaperNextInv, PTL DEF Spec, RetainedKept

-----------------------------------------------------------------------------
(* Pages of a stream.                                                      *)

\* How many ledgers of S are before l.
Rank(S, l) == Cardinality({m \in S : m < l})

\* A later ledger has more before it, and none has all of them.
LEMMA RankOrder ==
  ASSUME NEW S, S \subseteq Nat, IsFiniteSet(S), NEW l \in S
  PROVE  /\ Rank(S, l) \in Nat /\ Rank(S, l) < Cardinality(S)
         /\ \A k \in S : k < l => Rank(S, k) < Rank(S, l)
<1> DEFINE B(x) == {m \in S : m < x}
<1>1. ASSUME NEW x \in S, NEW T \in SUBSET S, B(x) \subseteq T, x \in T
      PROVE  /\ IsFiniteSet(B(x)) /\ Cardinality(B(x)) \in Nat
             /\ Cardinality(B(x)) < Cardinality(T)
  <2>1. IsFiniteSet(T) /\ IsFiniteSet(B(x))
    BY FS_Subset, Zenon
  <2>0. ~ (x < x)
    OBVIOUS
  <2>2. x \notin B(x) /\ B(x) \cup {x} \in SUBSET T
    BY <1>1, <2>0, Zenon
  <2> HIDE DEF B
  <2>3. /\ IsFiniteSet(B(x) \cup {x}) /\ Cardinality(B(x) \cup {x}) = Cardinality(B(x)) + 1
        /\ Cardinality(B(x) \cup {x}) <= Cardinality(T)
    BY <2>1, <2>2, FS_AddElement, FS_Subset
  <2>4. Cardinality(B(x)) \in Nat /\ Cardinality(T) \in Nat
    BY <2>1, FS_CardinalityType
  <2> QED
    BY <2>1, <2>3, <2>4
<1>2. Cardinality(B(l)) \in Nat /\ Cardinality(B(l)) < Cardinality(S)
  BY <1>1
<1>3. ASSUME NEW k \in S, k < l PROVE Cardinality(B(k)) < Cardinality(B(l))
  <2>1. \A m \in S : m < k => m < l
    BY <1>3
  <2>2. B(l) \in SUBSET S /\ B(k) \subseteq B(l) /\ k \in B(l)
    BY <1>3, <2>1, Zenon
  <2> HIDE DEF B
  <2> QED
    BY <1>1, <2>2, Zenon
<1> QED
  BY <1>2, <1>3 DEF Rank

\* Every number below the size of S is the rank of one of its ledgers.
LEMMA RankExists ==
  ASSUME NEW S, S \subseteq Nat, IsFiniteSet(S), NEW j \in Nat, j < Cardinality(S)
  PROVE  \E l \in S : Rank(S, l) = j
<1> DEFINE B(x) == {m \in S : m < x}
           K == {k \in Nat : k < Cardinality(S) => \E l \in S : Rank(S, l) = k}
<1>0. Cardinality(S) \in Nat
  BY FS_CardinalityType
<1>1. 0 \in K
  <2> SUFFICES ASSUME 0 < Cardinality(S) PROVE \E l \in S : Rank(S, l) = 0
    OBVIOUS
  <2>1. S # {}
    BY FS_EmptySet
  <2>2. PICK l \in S : \A y \in S : l <= y
    BY <2>1, LeastElement, Zenon
  <2>3. \A y \in S : ~ (y < l)
    BY <2>2
  <2>4. B(l) = {}
    BY <2>3, Zenon
  <2> QED
    BY <2>4, FS_EmptySet, Zenon DEF Rank
<1>2. ASSUME NEW k \in Nat, k \in K PROVE k + 1 \in K
  <2> SUFFICES ASSUME k + 1 < Cardinality(S) PROVE \E l \in S : Rank(S, l) = k + 1
    OBVIOUS
  <2>1. PICK l \in S : Rank(S, l) = k
    BY <1>0, <1>2
  <2> DEFINE A == {m \in S : m > l}
  <2>2. IsFiniteSet(B(l)) /\ IsFiniteSet(B(l) \cup {l}) /\ Cardinality(B(l) \cup {l}) = k + 1
    <3>1. IsFiniteSet(B(l))
      BY FS_Subset
    <3>2. Cardinality(B(l)) = k /\ l \notin B(l)
      BY <2>1 DEF Rank
    <3> HIDE DEF B
    <3> QED
      BY <3>1, <3>2, FS_AddElement
  <2>3. A # {}
    <3> SUFFICES ASSUME A = {} PROVE FALSE
      OBVIOUS
    <3>1. \A y \in S : y < l \/ y = l
      OBVIOUS
    <3>2. S = B(l) \cup {l}
      BY <3>1, Zenon
    <3>3. Cardinality(S) = k + 1
      BY <2>2, <3>2, Zenon
    <3> QED
      BY <3>3
  <2>4. PICK m \in A : \A y \in A : m <= y
    <3>1. A \subseteq Nat
      BY Zenon
    <3> HIDE DEF A
    <3> QED
      BY <2>3, <3>1, LeastElement, Zenon
  <2>5. \A y \in S : y < m <=> y < l \/ y = l
    BY <2>4
  <2>6. B(m) = B(l) \cup {l}
    BY <2>5, Zenon
  <2> QED
    BY <2>2, <2>4, <2>6, Zenon DEF Rank
<1>3. j \in K
  <2> HIDE DEF K
  <2> QED
    BY <1>1, <1>2, SetInduction
<1> QED
  BY <1>3

\* The events of a page: its first ledgers, in order and with none left out; a
\* page that is sent whole ends with its latest ledger.
LEMMA AscendingFacts ==
  ASSUME NEW S \in SUBSET (1..MaxLedger), NEW n \in Nat
  PROVE  LET e == Ascending(S, n) IN
         /\ e \in Seq(S) /\ Len(e) <= n
         /\ \A k \in 1..(Len(e) - 1) : /\ e[k] < e[k + 1]
                                       /\ \A l \in S : ~ (e[k] < l /\ l < e[k + 1])
         /\ Len(e) > 0 => \A l \in S : ~ (l < e[1])
         /\ Len(e) < n /\ S = {} => Len(e) = 0
         /\ Len(e) < n /\ S # {} => Len(e) > 0 /\ e[Len(e)] = LatestLedger(S)
<1> DEFINE e == Ascending(S, n)
           N == IF Cardinality(S) < n THEN Cardinality(S) ELSE n
           Nth(k) == CHOOSE l \in S : Cardinality({m \in S : m < l}) = k - 1
<1>1. S \subseteq Nat /\ IsFiniteSet(S) /\ Cardinality(S) \in Nat
  <2>1. S \subseteq Nat /\ 1 \in Int /\ MaxLedger \in Int
    BY LedgerStateAssumption
  <2>2. IsFiniteSet(1..MaxLedger)
    BY <2>1, FS_Interval, Zenon
  <2>3. IsFiniteSet(S)
    BY <2>2, FS_Subset, Zenon
  <2> QED
    BY <2>1, <2>3, FS_CardinalityType, Zenon
<1>2. N \in Nat /\ N <= n /\ N <= Cardinality(S) /\ (N < n => N = Cardinality(S))
  BY <1>1
<1>3. ASSUME NEW k \in 1..N PROVE Nth(k) \in S /\ Rank(S, Nth(k)) = k - 1
  <2>1. k - 1 \in Nat /\ k - 1 < Cardinality(S)
    BY <1>1, <1>2
  <2>2. \E l \in S : Rank(S, l) = k - 1
    BY <1>1, <2>1, RankExists, Zenon
  <2> QED
    BY <2>2, Zenon DEF Rank
<1>4. e = [k \in 1..N |-> Nth(k)]
  BY Zenon DEF Ascending
<1> HIDE DEF N, Nth, e
<1>5. e \in Seq(S) /\ Len(e) = N
  BY <1>2, <1>3, <1>4
<1>6. \A k \in 1..N : e[k] \in S /\ e[k] \in Nat /\ Rank(S, e[k]) = k - 1
  BY <1>1, <1>3, <1>4, Zenon
<1>7. \A k, l \in S : /\ k \in Nat /\ l \in Nat /\ Rank(S, k) \in Nat
                      /\ Rank(S, k) < Cardinality(S)
                      /\ k < l => Rank(S, k) < Rank(S, l)
  BY <1>1, RankOrder, Zenon
<1>8. ASSUME NEW k \in 1..(N - 1)
      PROVE  e[k] < e[k + 1] /\ \A l \in S : ~ (e[k] < l /\ l < e[k + 1])
  <2>1. /\ k \in 1..N /\ k + 1 \in 1..N /\ (k + 1) - 1 = k
    BY <1>2
  <2>2. /\ e[k] \in S /\ e[k] \in Nat /\ Rank(S, e[k]) = k - 1
        /\ e[k + 1] \in S /\ e[k + 1] \in Nat /\ Rank(S, e[k + 1]) = k
    BY <1>6, <2>1, Zenon
  <2>3. e[k] # e[k + 1]
    BY <2>2
  <2>4. ~ (e[k + 1] < e[k])
    <3> SUFFICES ASSUME e[k + 1] < e[k] PROVE FALSE
      OBVIOUS
    <3>1. Rank(S, e[k + 1]) < Rank(S, e[k])
      BY <1>7, <2>2, Zenon
    <3> QED
      BY <2>2, <3>1
  <2>5. ASSUME NEW l \in S, e[k] < l, l < e[k + 1] PROVE FALSE
    <3>1. /\ Rank(S, e[k]) < Rank(S, l) /\ Rank(S, l) < Rank(S, e[k + 1])
          /\ Rank(S, l) \in Nat
      BY <1>7, <2>2, <2>5, Zenon
    <3> QED
      BY <2>2, <3>1
  <2> QED
    BY <2>2, <2>3, <2>4, <2>5
<1>9. ASSUME N > 0, NEW l \in S PROVE ~ (l < e[1])
  <2>1. 1 \in 1..N /\ 1 - 1 = 0
    BY <1>2, <1>9
  <2>2. e[1] \in S /\ Rank(S, e[1]) = 0
    BY <1>6, <2>1, Zenon
  <2>3. l < e[1] => Rank(S, l) < 0 /\ Rank(S, l) \in Nat
    BY <1>7, <2>2, Zenon
  <2> QED
    BY <2>3
<1>10. ASSUME N < n, S = {} PROVE N = 0
  BY <1>2, <1>10, FS_EmptySet
<1>11. ASSUME N < n, S # {} PROVE N > 0 /\ e[N] = LatestLedger(S)
  <2>1. N = Cardinality(S) /\ N # 0
    BY <1>1, <1>2, <1>11, FS_EmptySet
  <2>2. N \in 1..N /\ N > 0
    BY <1>2, <2>1
  <2>3. e[N] \in S /\ e[N] \in Nat /\ Rank(S, e[N]) = N - 1
    BY <1>6, <2>2, Zenon
  <2>4. ASSUME NEW l \in S PROVE l <= e[N]
    <3>1. /\ Rank(S, l) \in Nat /\ Rank(S, l) < N /\ l \in Nat
          /\ e[N] < l => Rank(S, e[N]) < Rank(S, l)
      BY <1>7, <2>1, <2>3, Zenon
    <3> QED
      BY <1>2, <2>3, <3>1
  <2>5. LatestLedger(S) = e[N]
    BY <1>1, <2>3, <2>4, LatestLedgerValue, Zenon
  <2> QED
    BY <2>2, <2>5
<1> QED
  BY <1>2, <1>5, <1>8, <1>9, <1>10, <1>11, Zenon DEF e

\* A page leaves out no ledger between the cursor and its last one.
LEMMA PageFacts ==
  ASSUME CacheTypeOK, NEW c \in Nat
  PROVE  /\ Page(c) \subseteq history /\ Page(c) \in SUBSET (1..MaxLedger)
         /\ \A l \in Page(c) : c < l
         /\ \A l \in Page(c), k \in history : c < k /\ k < l => k \in Page(c)
<1> DEFINE after == {l \in history : l > c}
<1>1. history \subseteq Nat /\ history \subseteq 1..MaxLedger
  BY LedgerStateAssumption DEF CacheTypeOK
<1>2. after \subseteq Nat /\ IsFiniteSet(after)
  <2>1. after \in SUBSET (1..MaxLedger)
    BY <1>1, Zenon
  <2>2. 1 \in Int /\ MaxLedger \in Int
    BY LedgerStateAssumption
  <2>3. IsFiniteSet(1..MaxLedger)
    BY <2>2, FS_Interval, Zenon
  <2> QED
    BY <1>1, <2>1, <2>3, FS_Subset, Zenon
<1>3. Page(c) = {l \in after : Rank(after, l) < Limit}
  BY Zenon DEF Page, Rank
<1>4. \A l \in history : l > c <=> c < l
  BY <1>1
<1>5. ASSUME NEW l \in Page(c), NEW k \in history, c < k, k < l PROVE k \in Page(c)
  <2>1. l \in after /\ k \in after /\ Rank(after, l) < Limit
    BY <1>3, <1>4, <1>5, Zenon
  <2> HIDE DEF after
  <2>2. Rank(after, k) < Rank(after, l) /\ Rank(after, k) \in Nat /\ Rank(after, l) \in Nat
    BY <1>2, <1>5, <2>1, RankOrder, Zenon
  <2>3. Rank(after, k) < Limit
    BY <2>1, <2>2, LedgerStreamAssumption
  <2> QED
    BY <1>3, <2>1, <2>3, Zenon
<1> QED
  BY <1>1, <1>3, <1>4, <1>5, Zenon

-----------------------------------------------------------------------------
(* The invariant of streaming.                                             *)

\* The last event sent to the client, received or not; Now if there is none.
LastSent == IF wire = <<>> THEN cli.got ELSE wire[Len(wire)]

\* A session goes on after the last event that was sent: from the cursor of the
\* request before its first page, and from lastEventID afterwards.
SessionGood ==
  /\ cli.cursor = cli.got
  /\ Len(wire) + srv.limit <= Limit
  /\ cli.pc # "read" => wire = <<>> /\ srv.pc = "closed"
  /\ srv.pc # "closed" => srv.limit > 0
  /\ srv.pc # "closed" /\ srv.lastEventID = None =>
       wire = <<>> /\ (cli.got # Now => ~ srv.now /\ srv.pq = cli.got)
  /\ srv.pc # "closed" /\ srv.lastEventID # None => LastSent \in {Now, srv.lastEventID}
  /\ srv.pc = "start" => srv.lastEventID = None
  /\ srv.pc = "select" => LastSent \in {Now, srv.cursor}

StreamInv == StreamTypeOK /\ LatestIsLast /\ SessionGood

ServerType ==
  [pc : {"closed", "start", "page", "select", "wait"}, on : Instances,
   now : BOOLEAN, pq : Ledger, lastEventID : Ledger \cup {None},
   cursor : Ledger, current : Ledger, from : Ledger, limit : 0..Limit]

ClientType ==
  [pc : {"connect", "read", "ended"}, cursor : Ledger \cup {Now}, got : Ledger \cup {Now}]

\* A session that is over.
LEMMA ClosedFacts ==
  ASSUME NEW i \in Instances
  PROVE  Closed(i) \in ServerType /\ Closed(i).pc = "closed" /\ Closed(i).limit = 0
<1>1. 0 \in Ledger /\ 0 \in 0..Limit
  BY LedgerStateAssumption, LedgerStreamAssumption DEF Ledger
<1> QED
  BY <1>1 DEF Closed, ServerType

LEMMA StreamInitInv == StreamInit => StreamInv
<1> SUFFICES ASSUME StreamInit PROVE StreamInv
  OBVIOUS
<1>1. CacheTypeOK /\ LatestIsLast
  BY CacheInitFacts DEF StreamInit
<1>2. PICK c \in {Now, 0} : cli = [pc |-> "connect", cursor |-> c, got |-> c]
  BY DEF StreamInit
<1>3. c \in Ledger \cup {Now}
  BY LedgerStateAssumption DEF Ledger
<1>4. /\ srv \in ServerType /\ srv.pc = "closed" /\ srv.limit = 0
      /\ wire = <<>> /\ late = FALSE
  <2>1. (CHOOSE i \in Instances : TRUE) \in Instances
    BY LedgerStreamAssumption
  <2> QED
    BY <2>1, ClosedFacts DEF StreamInit
<1>5. StreamTypeOK
  <2>1. cli \in ClientType
    BY <1>2, <1>3 DEF ClientType
  <2>2. wire \in Seq(1..MaxLedger) /\ Len(wire) <= Limit
    BY <1>4, LedgerStreamAssumption
  <2> QED
    BY <1>1, <1>4, <2>1, <2>2, Zenon DEF StreamTypeOK, ServerType, ClientType
<1>6. SessionGood
  BY <1>2, <1>4, LedgerStreamAssumption DEF SessionGood
<1> QED
  BY <1>1, <1>5, <1>6 DEF StreamInv

\* The steps that change neither session nor client.
LEMMA SessionFrame ==
  ASSUME StreamInv, UNCHANGED sessionVars, CacheTypeOK', LatestIsLast', late' \in BOOLEAN
  PROVE  StreamInv'
BY Zenon DEF StreamInv, StreamTypeOK, SessionGood, LastSent, sessionVars, Ledger

\* The steps of a session or of its client leave the tables and caches alone.
LEMMA ServerFrame ==
  ASSUME StreamInv, UNCHANGED serverVars
  PROVE  /\ CacheTypeOK' /\ LatestIsLast' /\ late' \in BOOLEAN
<1>1. UNCHANGED <<lastIngested, latestHistory, state, history, status, tick, late>>
  BY DEF serverVars, historyVars, ledgerVars, cacheVars
<1> QED
  BY <1>1, Zenon DEF StreamInv, StreamTypeOK, CacheTypeOK, LatestIsLast, Ledger

\* What a step of a session or of its client has to keep.
LEMMA SessionStep ==
  ASSUME StreamInv, UNCHANGED serverVars, cli' \in ClientType, srv' \in ServerType,
         wire' \in Seq(1..MaxLedger), Len(wire') <= Limit, SessionGood'
  PROVE  StreamInv'
<1>1. CacheTypeOK' /\ LatestIsLast' /\ late' \in BOOLEAN
  BY ServerFrame
<1> QED
  BY <1>1, Zenon DEF StreamInv, StreamTypeOK, ClientType, ServerType, Ledger

LEMMA StreamTypes ==
  ASSUME StreamInv
  PROVE  /\ cli \in ClientType /\ srv \in ServerType /\ wire \in Seq(1..MaxLedger)
         /\ Len(wire) <= Limit /\ Len(wire) \in Nat /\ srv.limit \in Nat
         /\ status \in [Instances -> [HistoryLatest : Ledger, HistoryElder : Ledger,
                                      ExpHistoryLatest : Ledger]]
         /\ CacheTypeOK /\ SessionGood
<1>1. /\ cli \in ClientType /\ srv \in ServerType /\ wire \in Seq(1..MaxLedger)
      /\ Len(wire) <= Limit /\ CacheTypeOK /\ SessionGood
  BY Zenon DEF StreamInv, StreamTypeOK, ClientType, ServerType
<1>2. Len(wire) \in Nat /\ srv.limit \in Nat
  BY <1>1, LedgerStreamAssumption DEF ServerType
<1> QED
  BY <1>1, <1>2, Zenon DEF CacheTypeOK

\* A session ends; the events it sent may still arrive.
LEMMA CloseKept ==
  ASSUME StreamInv, UNCHANGED <<serverVars, cli, wire>>, NEW i \in Instances, srv' = Closed(i)
  PROVE  StreamInv'
<1>1. /\ cli' \in ClientType /\ wire' \in Seq(1..MaxLedger) /\ Len(wire') <= Limit
      /\ UNCHANGED serverVars
  BY StreamTypes
<1>2. srv' \in ServerType /\ srv'.pc = "closed" /\ srv'.limit = 0
  BY ClosedFacts
<1>3. SessionGood'
  BY <1>1, <1>2, StreamTypes DEF SessionGood
<1> QED
  BY <1>1, <1>2, <1>3, SessionStep

LEMMA ConnectKept ==
  ASSUME StreamInv, NEW i \in Instances, Connect(i)
  PROVE  StreamInv'
<1>1. /\ cli.pc = "connect" /\ cli' = [cli EXCEPT !.pc = "read"]
      /\ srv' = [pc |-> "start", on |-> i, now |-> (cli.cursor = Now),
                 pq |-> getCursor(i, cli.cursor), lastEventID |-> None,
                 cursor |-> 0, current |-> 0, from |-> 0, limit |-> Limit]
      /\ UNCHANGED serverVars /\ wire' = wire
  BY DEF Connect
<1>2. /\ wire = <<>> /\ cli.cursor = cli.got
      /\ cli.cursor \in Ledger \cup {Now} /\ cli.got \in Ledger \cup {Now}
  BY <1>1, StreamTypes DEF SessionGood, ClientType
<1>3. getCursor(i, cli.cursor) \in Ledger /\ (cli.got # Now => getCursor(i, cli.cursor) = cli.got)
  BY <1>2, StreamTypes DEF getCursor
<1>4. cli' \in ClientType
  BY <1>1, StreamTypes DEF ClientType
<1>5. srv' \in ServerType
  <2>1. 0 \in Ledger /\ Limit \in 0..Limit
    BY LedgerStateAssumption, LedgerStreamAssumption DEF Ledger
  <2> QED
    BY <1>1, <1>3, <2>1 DEF ServerType
<1>6. SessionGood'
  <2>1. /\ cli'.pc = "read" /\ cli'.cursor = cli.cursor /\ cli'.got = cli.got /\ wire' = <<>>
        /\ srv'.pc = "start" /\ srv'.limit = Limit /\ srv'.lastEventID = None
        /\ srv'.now = (cli.got = Now) /\ (cli.got # Now => srv'.pq = cli.got)
    BY <1>1, <1>2, <1>3, StreamTypes DEF ClientType
  <2>2. Len(wire') + srv'.limit <= Limit /\ srv'.limit > 0
    BY <2>1, LedgerStreamAssumption
  <2> QED
    BY <1>2, <2>1, <2>2, Zenon DEF SessionGood
<1> QED
  BY <1>1, <1>2, <1>4, <1>5, <1>6, StreamTypes, SessionStep

\* The session moves on and nothing is sent.
LEMMA SessionMoves ==
  ASSUME StreamInv, UNCHANGED <<serverVars, cli, wire>>, srv' \in ServerType,
         srv.pc # "closed", srv'.pc \in {"page", "select"}, srv'.limit = srv.limit,
         srv'.lastEventID = srv.lastEventID, srv'.now = srv.now, srv'.pq = srv.pq,
         srv'.pc = "select" => LastSent \in {Now, srv'.cursor}
  PROVE  StreamInv'
<1>1. /\ cli' = cli /\ wire' = wire /\ UNCHANGED serverVars /\ LastSent' = LastSent
  BY DEF LastSent
<1>2. SessionGood'
  <2>1. SessionGood
    BY StreamTypes
  <2> QED
    BY <1>1, <2>1 DEF SessionGood
<1> QED
  BY <1>1, <1>2, StreamTypes, SessionStep

LEMMA ServeStreamKept == ASSUME StreamInv, ServeStream PROVE StreamInv'
<1> DEFINE latest == status[srv.on].ExpHistoryLatest
<1>1. /\ srv.pc = "start" /\ UNCHANGED <<serverVars, cli, wire>>
      /\ srv' = [srv EXCEPT !.pc = "page", !.current = latest,
                            !.from = IF srv.now THEN latest ELSE 0]
  BY DEF ServeStream
<1>2. srv \in ServerType /\ latest \in Ledger /\ 0 \in Ledger
  BY StreamTypes, LedgerStateAssumption DEF ServerType, Ledger
<1> HIDE DEF latest
<1>3. srv' \in ServerType
  BY <1>1, <1>2, Zenon DEF ServerType
<1>4. /\ srv'.pc = "page" /\ srv'.limit = srv.limit /\ srv'.lastEventID = srv.lastEventID
      /\ srv'.now = srv.now /\ srv'.pq = srv.pq
  BY <1>1, <1>2 DEF ServerType
<1> QED
  BY <1>1, <1>3, <1>4, SessionMoves

LEMMA GetPageQueryKept == ASSUME StreamInv, GetPageQuery PROVE StreamInv'
<1> DEFINE c == IF srv.lastEventID # None THEN srv.lastEventID
                ELSE getCursor(srv.on, IF srv.now THEN Now ELSE srv.pq)
<1>1. /\ srv.pc = "page" /\ UNCHANGED <<serverVars, cli, wire>>
      /\ srv' = [srv EXCEPT !.pc = "select", !.cursor = c]
  BY DEF GetPageQuery
<1>2. /\ srv \in ServerType /\ srv.on \in Instances /\ srv.pq \in Ledger
      /\ srv.lastEventID \in Ledger \cup {None} /\ status[srv.on].HistoryLatest \in Ledger
  BY StreamTypes DEF ServerType
<1>3. c \in Ledger
  BY <1>2 DEF getCursor
<1>4. LastSent \in {Now, c}
  <2>1. SessionGood
    BY StreamTypes
  <2>2. CASE srv.lastEventID # None
    BY <1>1, <2>1, <2>2 DEF SessionGood
  <2>3. CASE srv.lastEventID = None
    <3>1. LastSent = cli.got /\ (cli.got # Now => ~ srv.now /\ srv.pq = cli.got)
      BY <1>1, <2>1, <2>3 DEF SessionGood, LastSent
    <3>2. srv.pq # Now
      BY <1>2, LedgerStateAssumption DEF Ledger, Now
    <3> QED
      BY <2>3, <3>1, <3>2 DEF getCursor
  <2> QED
    BY <2>2, <2>3
<1> HIDE DEF c
<1>5. srv' \in ServerType
  BY <1>1, <1>2, <1>3, Zenon DEF ServerType
<1>6. /\ srv'.pc = "select" /\ srv'.limit = srv.limit /\ srv'.lastEventID = srv.lastEventID
      /\ srv'.now = srv.now /\ srv'.pq = srv.pq /\ srv'.cursor = c
  BY <1>1, <1>2 DEF ServerType
<1> QED
  BY <1>1, <1>4, <1>5, <1>6, SessionMoves

LEMMA NextLedgerKept == ASSUME StreamInv, NextLedger PROVE StreamInv'
<1>1. /\ srv.pc = "wait" /\ UNCHANGED <<serverVars, cli, wire>>
      /\ srv' = [srv EXCEPT !.pc = "page", !.current = status[srv.on].ExpHistoryLatest]
  BY DEF NextLedger
<1>2. srv \in ServerType /\ status[srv.on].ExpHistoryLatest \in Ledger
  BY StreamTypes DEF ServerType
<1>3. srv' \in ServerType
  BY <1>1, <1>2, Zenon DEF ServerType
<1>4. /\ srv'.pc = "page" /\ srv'.limit = srv.limit /\ srv'.lastEventID = srv.lastEventID
      /\ srv'.now = srv.now /\ srv'.pq = srv.pq
  BY <1>1, <1>2 DEF ServerType
<1> QED
  BY <1>1, <1>3, <1>4, SessionMoves

LEMMA StopSessionKept ==
  ASSUME StreamInv, NEW i \in Instances, StopSession(i)
  PROVE  StreamInv'
<1>1. /\ Forget(i) /\ srv' = IF srv.on = i THEN Closed(i) ELSE srv
      /\ late' = late /\ cli' = cli /\ wire' = wire
  BY DEF StopSession
<1>2. /\ UNCHANGED <<lastIngested, latestHistory, state, history>> /\ CacheTypeOK'
  BY <1>1, CacheStep, StreamTypes
<1>3. LatestIsLast' /\ late' \in BOOLEAN
  BY <1>1, <1>2 DEF StreamInv, StreamTypeOK, LatestIsLast
<1>4. CASE srv.on # i
  BY <1>1, <1>2, <1>3, <1>4, SessionFrame DEF sessionVars
<1>5. CASE srv.on = i
  <2>1. srv' \in ServerType /\ srv'.pc = "closed" /\ srv'.limit = 0
    BY <1>1, <1>5, ClosedFacts
  <2>2. SessionGood'
    BY <1>1, <2>1, StreamTypes DEF SessionGood
  <2>3. cli' \in ClientType /\ wire' \in Seq(1..MaxLedger) /\ Len(wire') <= Limit
    BY <1>1, StreamTypes
  <2> QED
    BY <1>2, <1>3, <2>1, <2>2, <2>3, Zenon
       DEF StreamInv, StreamTypeOK, ClientType, ServerType, Ledger
<1> QED
  BY <1>4, <1>5

\* The client gives up a session, or the stream: what is on its way is lost.
LEMMA CutKept ==
  ASSUME StreamInv, UNCHANGED serverVars, srv' = Closed(srv.on), wire' = <<>>,
         cli' \in ClientType, cli'.cursor = cli'.got
  PROVE  StreamInv'
<1>1. srv' \in ServerType /\ srv'.pc = "closed" /\ srv'.limit = 0
  BY ClosedFacts, StreamTypes DEF ServerType
<1>2. wire' \in Seq(1..MaxLedger) /\ Len(wire') <= Limit /\ Len(wire') = 0
  BY LedgerStreamAssumption
<1>3. SessionGood'
  BY <1>1, <1>2, LedgerStreamAssumption DEF SessionGood
<1> QED
  BY <1>1, <1>2, <1>3, SessionStep

\* Sequences: their elements, head and tail.
LEMMA SeqOf ==
  /\ \A S, n, s : n \in Nat /\ s = [k \in 1..n |-> s[k]] /\ (\A k \in 1..n : s[k] \in S)
                => s \in Seq(S)
  /\ \A S : \A s \in Seq(S) : \A k \in 1..Len(s) : s[k] \in S
  /\ \A S, T : S \subseteq T => Seq(S) \subseteq Seq(T)
OBVIOUS

LEMMA HeadTail ==
  ASSUME NEW S, NEW s \in Seq(S), s # <<>>
  PROVE  /\ Head(s) \in S /\ Head(s) = s[1]
         /\ Tail(s) \in Seq(S) /\ Len(Tail(s)) = Len(s) - 1 /\ Len(s) > 0
         /\ \A k \in 1..Len(Tail(s)) : Tail(s)[k] = s[k + 1]
<1>1. Len(s) \in Nat /\ Len(s) > 0
  OBVIOUS
<1> QED
  BY <1>1

LEMMA ReceiveFacts ==
  ASSUME StreamInv, Receive
  PROVE  /\ wire' \in Seq(1..MaxLedger) /\ Len(wire') = Len(wire) - 1
         /\ cli' \in ClientType /\ cli'.pc = "read" /\ cli'.cursor = cli'.got
         /\ LastSent' = LastSent
<1>1. /\ cli.pc = "read" /\ wire # <<>>
      /\ cli' = [cli EXCEPT !.cursor = Head(wire), !.got = Head(wire)]
      /\ wire' = Tail(wire)
  BY DEF Receive
<1>2. cli \in ClientType /\ wire \in Seq(1..MaxLedger) /\ Len(wire) \in Nat
  BY StreamTypes
<1>3. /\ Head(wire) \in 1..MaxLedger /\ Head(wire) = wire[1]
      /\ wire' \in Seq(1..MaxLedger) /\ Len(wire') = Len(wire) - 1 /\ Len(wire) > 0
      /\ \A k \in 1..Len(wire') : wire'[k] = wire[k + 1]
  <2>1. wire \in Seq(1..MaxLedger) /\ wire # <<>> /\ wire' = Tail(wire)
    BY <1>1, <1>2, Zenon
  <2> QED
    BY <2>1, HeadTail, Zenon
<1>4. /\ cli' \in ClientType /\ cli'.pc = "read"
      /\ cli'.cursor = Head(wire) /\ cli'.got = Head(wire)
  <2>1. Head(wire) \in Ledger
    BY <1>3, LedgerStateAssumption DEF Ledger
  <2> QED
    BY <1>1, <1>2, <2>1, Zenon DEF ClientType
<1>5. LastSent' = LastSent
  <2>1. LastSent = wire[Len(wire)]
    BY <1>1 DEF LastSent
  <2>2. CASE wire' = <<>>
    <3>1. Len(wire) = 1
      BY <1>2, <1>3, <2>2
    <3> QED
      BY <1>3, <1>4, <2>1, <2>2, <3>1 DEF LastSent
  <2>3. CASE wire' # <<>>
    <3>1. Len(wire') \in 1..Len(wire') /\ Len(wire') + 1 = Len(wire)
      BY <1>2, <1>3, <2>3
    <3> QED
      BY <1>3, <2>1, <2>3, <3>1 DEF LastSent
  <2> QED
    BY <2>2, <2>3
<1> QED
  BY <1>3, <1>4, <1>5

LEMMA ReceiveKept == ASSUME StreamInv, Receive PROVE StreamInv'
<1>1. cli.pc = "read" /\ wire # <<>> /\ srv' = srv /\ UNCHANGED serverVars
  BY DEF Receive
<1>2. /\ srv \in ServerType /\ Len(wire) <= Limit /\ Len(wire) \in Nat /\ srv.limit \in Nat
      /\ SessionGood
  BY StreamTypes
<1>3. Len(wire') + srv'.limit <= Limit /\ Len(wire') <= Limit
  BY <1>1, <1>2, ReceiveFacts, LedgerStreamAssumption DEF SessionGood
<1>4. SessionGood'
  BY <1>1, <1>2, <1>3, ReceiveFacts, Zenon DEF SessionGood
<1> QED
  BY <1>1, <1>2, <1>3, <1>4, ReceiveFacts, SessionStep

\* A page is sent.
LEMMA EventsFacts ==
  ASSUME StreamInv, GenerateEvents
  PROVE  LET page == Page(srv.cursor)
             events == Ascending(page, srv.limit)
         IN  /\ events \in Seq(1..MaxLedger) /\ Len(events) \in Nat /\ Len(events) <= srv.limit
             /\ \A k \in 1..(Len(events) - 1) :
                  /\ events[k] < events[k + 1]
                  /\ \A l \in history : ~ (events[k] < l /\ l < events[k + 1])
             /\ Len(events) > 0 =>
                  /\ srv.cursor < events[1]
                  /\ \A l \in history : ~ (srv.cursor < l /\ l < events[1])
             /\ Len(events) < srv.limit =>
                  /\ page = {} => events = <<>>
                  /\ page # {} => /\ events # <<>>
                                  /\ LatestLedger(page) = events[Len(events)]
<1> DEFINE page == Page(srv.cursor)
           events == Ascending(page, srv.limit)
<1>1. srv.limit \in Nat /\ srv.cursor \in Nat /\ CacheTypeOK
  BY StreamTypes, LedgerStateAssumption DEF ServerType, Ledger
<1>2. /\ page \subseteq history /\ page \in SUBSET (1..MaxLedger)
      /\ \A l \in page : srv.cursor < l
      /\ \A l \in page, k \in history : srv.cursor < k /\ k < l => k \in page
  BY <1>1, PageFacts
<1> HIDE DEF page
<1>3. /\ events \in Seq(page) /\ Len(events) <= srv.limit
      /\ \A k \in 1..(Len(events) - 1) :
           /\ events[k] < events[k + 1]
           /\ \A l \in page : ~ (events[k] < l /\ l < events[k + 1])
      /\ Len(events) > 0 => \A l \in page : ~ (l < events[1])
      /\ Len(events) < srv.limit /\ page = {} => Len(events) = 0
      /\ Len(events) < srv.limit /\ page # {} =>
           Len(events) > 0 /\ events[Len(events)] = LatestLedger(page)
  BY <1>1, <1>2, AscendingFacts, Zenon
<1> HIDE DEF events
<1>4. /\ events \in Seq(1..MaxLedger) /\ Len(events) \in Nat
      /\ \A k \in 1..Len(events) : events[k] \in page /\ events[k] \in Nat
      /\ \A l \in history : l \in Nat
  <2>1. \A k \in 1..Len(events) : events[k] \in page
    BY <1>3
  <2>2. events \in Seq(1..MaxLedger) /\ Len(events) \in Nat
    <3>1. Len(events) \in Nat /\ events = [k \in 1..Len(events) |-> events[k]]
      BY <1>3
    <3>2. \A k \in 1..Len(events) : events[k] \in 1..MaxLedger
      BY <1>2, <2>1, Zenon
    <3> QED
      BY <3>1, <3>2, SeqOf, Zenon
  <2>3. \A l \in 1..MaxLedger : l \in Nat
    BY LedgerStateAssumption
  <2> QED
    BY <1>1, <1>2, <2>1, <2>2, <2>3, Zenon DEF CacheTypeOK
<1>5. ASSUME NEW k \in 1..(Len(events) - 1), NEW l \in history, events[k] < l, l < events[k + 1]
      PROVE  FALSE
  <2>1. k \in 1..Len(events) /\ k + 1 \in 1..Len(events)
    BY <1>4
  <2>2. srv.cursor < events[k] /\ events[k] \in Nat /\ events[k + 1] \in page
    BY <1>2, <1>4, <2>1, Zenon
  <2>3. srv.cursor < l
    BY <1>1, <1>4, <1>5, <2>2
  <2>4. l \in page
    BY <1>2, <1>5, <2>2, <2>3, Zenon
  <2> QED
    BY <1>3, <1>5, <2>4, Zenon
<1>6. ASSUME Len(events) > 0
      PROVE  srv.cursor < events[1] /\ \A l \in history : ~ (srv.cursor < l /\ l < events[1])
  <2>1. 1 \in 1..Len(events)
    BY <1>4, <1>6
  <2>2. events[1] \in page
    BY <1>4, <2>1, Zenon
  <2> QED
    BY <1>2, <1>3, <1>6, <2>2, Zenon
<1>7. events = <<>> <=> Len(events) = 0
  BY <1>4
<1>8. Len(events) > 0 => events # <<>>
  BY <1>4
<1> QED
  BY <1>3, <1>4, <1>5, <1>6, <1>7, <1>8, Zenon DEF page, events

LEMMA Concatenation ==
  ASSUME NEW S, NEW s \in Seq(S), NEW t \in Seq(S)
  PROVE  /\ s \o t \in Seq(S) /\ Len(s \o t) = Len(s) + Len(t)
         /\ Len(s) \in Nat /\ Len(t) \in Nat
         /\ t = <<>> => s \o t = s
OBVIOUS

LEMMA LastOfConcatenation ==
  ASSUME NEW S, NEW s \in Seq(S), NEW t \in Seq(S), t # <<>>
  PROVE  s \o t # <<>> /\ (s \o t)[Len(s \o t)] = t[Len(t)]
<1>1. Len(s \o t) = Len(s) + Len(t) /\ Len(s) \in Nat /\ Len(t) \in Nat
  OBVIOUS
<1>2. Len(t) \in 1..Len(t) /\ Len(s \o t) > 0
  BY <1>1
<1>3. (s \o t)[Len(s) + Len(t)] = t[Len(t)]
  BY <1>1, <1>2
<1> QED
  BY <1>1, <1>2, <1>3

\* After a page that does not end the session, it goes on from the last event.
LEMMA LastEventIDFacts ==
  ASSUME StreamInv, GenerateEvents,
         Len(Ascending(Page(srv.cursor), srv.limit)) < srv.limit
  PROVE  /\ LastEventID(Page(srv.cursor)) \in Ledger
         /\ LastSent' \in {Now, LastEventID(Page(srv.cursor))}
<1> DEFINE page == Page(srv.cursor)
           events == Ascending(page, srv.limit)
<1>1. /\ events \in Seq(1..MaxLedger) /\ Len(events) \in Nat
      /\ page = {} => events = <<>>
      /\ page # {} => events # <<>> /\ LatestLedger(page) = events[Len(events)]
  BY EventsFacts, Zenon
<1>2. srv.pc = "select" /\ wire' = wire \o events /\ cli' = cli
  BY Zenon DEF GenerateEvents
<1>3. /\ wire \in Seq(1..MaxLedger) /\ SessionGood /\ srv.pq \in Ledger
      /\ srv.lastEventID \in Ledger \cup {None}
  BY StreamTypes DEF ServerType
<1> HIDE DEF page, events
<1>4. CASE page # {}
  <2>1. LastEventID(page) = events[Len(events)]
    BY <1>1, <1>4, Zenon DEF LastEventID
  <2>2. wire' # <<>> /\ wire'[Len(wire')] = events[Len(events)]
    <3>1. events \in Seq(1..MaxLedger) /\ wire \in Seq(1..MaxLedger) /\ events # <<>>
      BY <1>1, <1>3, <1>4, Zenon
    <3>2. /\ wire \o events # <<>>
          /\ (wire \o events)[Len(wire \o events)] = events[Len(events)]
      BY <3>1, LastOfConcatenation, Zenon
    <3> QED
      BY <1>2, <3>2, Zenon
  <2>3. events[Len(events)] \in Ledger
    <3>1. Len(events) \in 1..Len(events)
      BY <1>1, <1>4
    <3>2. \A k \in 1..Len(events) : events[k] \in 1..MaxLedger
      BY <1>1, SeqOf, Zenon
    <3>3. events[Len(events)] \in 1..MaxLedger
      BY <3>1, <3>2, Zenon
    <3> QED
      BY <3>3, LedgerStateAssumption DEF Ledger
  <2> QED
    BY <2>1, <2>2, <2>3, Zenon DEF LastSent, page
<1>5. CASE page = {}
  <2>1. /\ LastEventID(page) = IF srv.lastEventID # None THEN srv.lastEventID ELSE srv.pq
    BY <1>5, Zenon DEF LastEventID
  <2>2. wire' = wire
    BY <1>1, <1>2, <1>3, <1>5, Concatenation, Zenon
  <2>3. LastSent' = LastSent
    BY <1>2, <2>2, Zenon DEF LastSent
  <2>4. LastSent \in {Now, LastEventID(page)}
    BY <1>2, <1>3, <2>1 DEF SessionGood, LastSent
  <2> QED
    BY <1>3, <2>1, <2>3, <2>4 DEF page
<1> QED
  BY <1>4, <1>5

LEMMA GenerateEventsKept == ASSUME StreamInv, GenerateEvents PROVE StreamInv'
<1> DEFINE page == Page(srv.cursor)
           events == Ascending(page, srv.limit)
           limit == srv.limit - Len(events)
           id == LastEventID(page)
<1>1. events \in Seq(1..MaxLedger) /\ Len(events) \in Nat /\ Len(events) <= srv.limit
  BY EventsFacts, Zenon
<1>2. /\ srv.pc = "select" /\ wire' = wire \o events /\ cli' = cli /\ UNCHANGED serverVars
      /\ srv' = IF limit = 0 THEN Closed(srv.on)
                ELSE [srv EXCEPT !.pc = "wait", !.cursor = 0, !.limit = limit,
                                 !.lastEventID = id, !.now = @ /\ id = None]
  BY Zenon DEF GenerateEvents
<1>3. /\ wire \in Seq(1..MaxLedger) /\ SessionGood /\ srv \in ServerType /\ cli \in ClientType
      /\ Len(wire) \in Nat /\ srv.limit \in Nat
  BY StreamTypes
<1>4. Len(events) < srv.limit => id \in Ledger /\ LastSent' \in {Now, id}
  BY LastEventIDFacts, Zenon
<1> HIDE DEF page, events, id
<1>5. /\ wire' \in Seq(1..MaxLedger) /\ Len(wire') = Len(wire) + Len(events)
  BY <1>1, <1>2, <1>3, Concatenation, Zenon
<1>6. Len(wire') <= Limit /\ Len(wire') + limit <= Limit
  BY <1>1, <1>3, <1>5, LedgerStreamAssumption DEF SessionGood
<1>7. cli.pc = "read" /\ cli.cursor = cli.got
  BY <1>2, <1>3, Zenon DEF SessionGood
<1>8. CASE limit = 0
  <2>1. srv' \in ServerType /\ srv'.pc = "closed" /\ srv'.limit = 0
    BY <1>2, <1>3, <1>8, ClosedFacts DEF ServerType
  <2>2. SessionGood'
    BY <1>2, <1>6, <1>7, <1>8, <2>1 DEF SessionGood
  <2> QED
    BY <1>2, <1>3, <1>5, <1>6, <2>1, <2>2, SessionStep, Zenon
<1>9. CASE limit # 0
  <2>1. Len(events) < srv.limit /\ limit \in 0..Limit /\ limit > 0
    BY <1>1, <1>3, <1>9, LedgerStreamAssumption DEF ServerType
  <2>2. id \in Ledger /\ id # None /\ LastSent' \in {Now, id} /\ 0 \in Ledger
    BY <1>4, <2>1, LedgerStateAssumption DEF Ledger, None
  <2>3. srv' = [srv EXCEPT !.pc = "wait", !.cursor = 0, !.limit = limit,
                           !.lastEventID = id, !.now = srv.now /\ id = None]
    BY <1>2, <1>9, Zenon
  <2> HIDE DEF limit
  <2>4. srv' \in ServerType
    BY <1>3, <2>1, <2>2, <2>3, Zenon DEF ServerType
  <2>5. srv'.pc = "wait" /\ srv'.limit = limit /\ srv'.lastEventID = id
    BY <1>3, <2>3 DEF ServerType
  <2>6. SessionGood'
    BY <1>2, <1>6, <1>7, <2>1, <2>2, <2>5 DEF SessionGood
  <2> QED
    BY <1>2, <1>3, <1>5, <1>6, <2>4, <2>6, SessionStep, Zenon
<1> QED
  BY <1>8, <1>9

\* A set of ledgers has a latest one.
LEMMA LatestElement ==
  ASSUME NEW n \in Nat, NEW h, h \subseteq 1..n, h # {}
  PROVE  \E x \in h : \A y \in h : y <= x
<1> DEFINE above == {n - l : l \in h}
<1>1. above \subseteq Nat /\ above # {}
  <2>1. \A l \in h : n - l \in Nat
    OBVIOUS
  <2> QED
    BY <2>1, Zenon
<1>2. PICK z \in above : \A y \in above : z <= y
  BY <1>1, LeastElement, Zenon
<1>3. PICK x \in h : z = n - x
  BY Zenon
<1>4. \A y \in h : n - x <= n - y
  BY <1>2, <1>3, Zenon
<1> HIDE DEF above
<1> QED
  BY <1>4

\* A write of history keeps the types, and latestHistory what is read from it.
LEMMA WriteKept ==
  ASSUME CacheTypeOK, UNCHANGED cacheVars, WriteHistory, history' \subseteq 1..MaxLedger,
         latestHistory' = LatestLedger(history')
  PROVE  CacheTypeOK' /\ LatestIsLast'
<1>1. MaxLedger \in Nat /\ Ledger = 0..MaxLedger
  BY LedgerStateAssumption DEF Ledger
<1>2. LatestIsLast'
  <2>1. CASE history' = {}
    BY <2>1 DEF LatestLedger, LatestIsLast
  <2>2. CASE history' # {}
    <3>1. PICK x \in history' : \A y \in history' : y <= x
      BY <1>1, <2>2, LatestElement, Zenon
    <3>2. history' \in SUBSET Nat
      BY <1>1
    <3>3. latestHistory' = x
      BY <3>1, <3>2, LatestLedgerValue
    <3> QED
      BY <2>2, <3>1, <3>3 DEF LatestIsLast
  <2> QED
    BY <2>1, <2>2
<1>3. latestHistory' \in Ledger
  <2>1. latestHistory' = 0 \/ latestHistory' \in 1..MaxLedger
    BY <1>2, Zenon DEF LatestIsLast
  <2> QED
    BY <1>1, <2>1
<1> QED
  BY <1>2, <1>3 DEF CacheTypeOK, WriteHistory, cacheVars, Ledger

\* Ledgers that go away disturb no session.
LEMMA LedgersRemovedKept == ASSUME StreamInv, LedgersRemoved PROVE StreamInv'
<1>1. PICK a \in 1..MaxLedger, b \in 0..MaxLedger : DeleteRangeAll(a, b) \/ ReingestPartial(a, b)
  BY Zenon DEF LedgersRemoved
<1>2. MaxLedger \in Nat /\ CacheTypeOK /\ history \subseteq 1..MaxLedger
  BY StreamTypes, LedgerStateAssumption DEF CacheTypeOK
<1>3. WriteHistory /\ latestHistory' = LatestLedger(history')
  BY <1>1, Zenon DEF DeleteRangeAll, SetHistory, ReingestPartial
<1>4. history' \subseteq 1..MaxLedger
  <2>1. a..b \subseteq 1..MaxLedger
    BY <1>2
  <2>2. history' \subseteq history \cup a..b
    BY <1>1 DEF DeleteRangeAll, SetHistory, ReingestPartial
  <2> QED
    BY <1>2, <2>1, <2>2, Zenon
<1>5. late' \in BOOLEAN /\ UNCHANGED cacheVars /\ UNCHANGED sessionVars
  BY Zenon DEF LedgersRemoved
<1> QED
  BY <1>2, <1>3, <1>4, <1>5, WriteKept, SessionFrame

LEMMA StreamNextInv == StreamInv /\ [StreamNext \/ LedgersRemoved]_streamVars => StreamInv'
<1> SUFFICES ASSUME StreamInv, [StreamNext \/ LedgersRemoved]_streamVars PROVE StreamInv'
  OBVIOUS
<1>1. CASE /\ HistoryStep /\ UNCHANGED <<cacheVars, sessionVars>>
           /\ late' = (~ NewLedger /\ (late \/ history' # history))
  <2>1. CacheTypeOK /\ LatestIsLast
    BY StreamTypes DEF StreamInv
  <2>2. CacheTypeOK' /\ LatestIsLast'
    BY <1>1, <2>1, CacheKept, HistoryGrows
  <2>3. late' \in BOOLEAN /\ UNCHANGED sessionVars
    BY <1>1, Zenon
  <2> QED
    BY <2>2, <2>3, SessionFrame
<1>2. ASSUME NEW i \in Instances, UpdateAuroraLedgerState(i), UNCHANGED <<late, sessionVars>>
      PROVE  StreamInv'
  <2>1. UNCHANGED <<lastIngested, latestHistory, state, history>> /\ CacheTypeOK'
    BY <1>2, CacheStep, StreamTypes
  <2>2. LatestIsLast' /\ late' \in BOOLEAN
    BY <1>2, <2>1 DEF StreamInv, StreamTypeOK, LatestIsLast
  <2> QED
    BY <1>2, <2>1, <2>2, SessionFrame
<1>3. ASSUME NEW i \in Instances, StopSession(i) PROVE StreamInv'
  BY <1>3, StopSessionKept
<1>4. CASE ServerStep
  <2>1. CASE StreamDone
    <3>1. UNCHANGED <<serverVars, cli, wire>> /\ srv' = Closed(srv.on) /\ srv.on \in Instances
      BY <2>1, StreamTypes DEF StreamDone, ServerType
    <3> QED
      BY <3>1, CloseKept
  <2> QED
    BY <1>4, <2>1, ServeStreamKept, GetPageQueryKept, GenerateEventsKept, NextLedgerKept
       DEF ServerStep
<1>5. CASE EndOfFile
  <2>1. /\ wire = <<>> /\ srv.pc = "closed" /\ cli' = [cli EXCEPT !.pc = "connect"]
        /\ UNCHANGED serverVars /\ srv' = srv /\ wire' = wire
    BY <1>5 DEF EndOfFile
  <2>2. cli' \in ClientType /\ cli'.pc = "connect" /\ cli'.cursor = cli.cursor /\ cli'.got = cli.got
    BY <2>1, StreamTypes DEF ClientType
  <2>3. SessionGood'
    BY <2>1, <2>2, StreamTypes, Zenon DEF SessionGood
  <2> QED
    BY <2>1, <2>2, <2>3, StreamTypes, SessionStep, Zenon
<1>6. CASE Break
  <2>1. cli' = [cli EXCEPT !.pc = "connect"] /\ srv' = Closed(srv.on) /\ wire' = <<>>
        /\ UNCHANGED serverVars
    BY <1>6 DEF Break
  <2>2. cli' \in ClientType /\ cli'.cursor = cli'.got
    BY <2>1, StreamTypes DEF ClientType, SessionGood
  <2> QED
    BY <2>1, <2>2, CutKept
<1>7. CASE ClientEnds
  <2>1. /\ cli' = [pc |-> "ended", cursor |-> Now, got |-> Now]
        /\ srv' = Closed(srv.on) /\ wire' = <<>> /\ UNCHANGED serverVars
    BY <1>7 DEF ClientEnds
  <2>2. cli' \in ClientType /\ cli'.cursor = cli'.got
    BY <2>1 DEF ClientType
  <2> QED
    BY <2>1, <2>2, CutKept
<1>8. CASE UNCHANGED streamVars
  <2>1. UNCHANGED <<serverVars, sessionVars>>
    BY <1>8 DEF streamVars
  <2> QED
    BY <2>1, ServerFrame, SessionFrame
<1>9. CASE ClientStep
  BY <1>5, <1>6, <1>7, <1>9, ReceiveKept, ConnectKept DEF ClientStep
<1> QED
  BY <1>1, <1>2, <1>3, <1>4, <1>8, <1>9, LedgersRemovedKept DEF StreamNext

\* A step that sends events sends them in order, after the last one sent.
LEMMA SentAfterLast ==
  ASSUME StreamInv, GenerateEvents
  PROVE  SentInOrder(Events(cli.got, wire), Events(cli.got, wire'))
<1> DEFINE events == Ascending(Page(srv.cursor), srv.limit)
           before == Events(cli.got, wire)
           after == Events(cli.got, wire')
           S == Ledger
<1>1. /\ events \in Seq(1..MaxLedger) /\ Len(events) \in Nat
      /\ \A k \in 1..(Len(events) - 1) :
           /\ events[k] < events[k + 1]
           /\ \A l \in history : ~ (events[k] < l /\ l < events[k + 1])
      /\ Len(events) > 0 => /\ srv.cursor < events[1]
                            /\ \A l \in history : ~ (srv.cursor < l /\ l < events[1])
  BY EventsFacts, Zenon
<1>2. wire' = wire \o events /\ srv.pc = "select"
  BY Zenon DEF GenerateEvents
<1>3. LastSent \in {Now, srv.cursor} /\ wire \in Seq(1..MaxLedger) /\ cli.got \in Ledger \cup {Now}
  BY <1>2, StreamTypes DEF SessionGood, ClientType
<1> HIDE DEF events
<1>4. /\ before \in Seq(S) /\ events \in Seq(S) /\ after = before \o events
      /\ Len(before) \in Nat
      /\ before # <<>> => LastSent = before[Len(before)] /\ LastSent # Now
  <2>1. wire \in Seq(S) /\ events \in Seq(S)
    <3>1. 1..MaxLedger \subseteq S
      BY LedgerStateAssumption DEF Ledger
    <3> QED
      BY <1>1, <1>3, <3>1, SeqOf, Zenon
  <2>2. CASE cli.got = Now
    <3>1. before = wire /\ after = wire'
      BY <2>2 DEF Events
    <3>2. wire # <<>> => LastSent = wire[Len(wire)] /\ LastSent # Now
      BY <1>3, LedgerStateAssumption DEF LastSent, Now
    <3> QED
      BY <1>2, <2>1, <3>1, <3>2
  <2>3. CASE cli.got # Now
    <3>1. before = <<cli.got>> \o wire /\ after = <<cli.got>> \o (wire \o events)
      BY <1>2, <2>3 DEF Events
    <3>2. cli.got \in S
      BY <1>3, <2>3
    <3>3. before \in Seq(S) /\ after = before \o events /\ before # <<>>
      BY <2>1, <3>1, <3>2
    <3>4. LastSent = before[Len(before)]
      BY <1>3, <3>1 DEF LastSent
    <3>5. LastSent # Now
      BY <1>3, <2>3, LedgerStateAssumption DEF LastSent, Now
    <3> QED
      BY <2>1, <3>3, <3>4, <3>5
  <2> QED
    BY <2>2, <2>3
<1> HIDE DEF before, after, S
<1>5. /\ Len(after) = Len(before) + Len(events)
      /\ \A k \in 1..Len(before) : after[k] = before[k]
      /\ \A k \in 1..Len(events) : after[Len(before) + k] = events[k]
  <2>1. before \in Seq(S) /\ events \in Seq(S) /\ after = before \o events
    BY <1>4, Zenon
  <2>2. Len(before \o events) = Len(before) + Len(events)
    BY <2>1, Concatenation, Zenon
  <2>3. /\ \A k \in 1..Len(before) : (before \o events)[k] = before[k]
        /\ \A k \in 1..Len(events) : (before \o events)[Len(before) + k] = events[k]
    BY <2>1
  <2> QED
    BY <2>1, <2>2, <2>3, Zenon
<1>6. ASSUME NEW k \in 1..(Len(after) - 1), k >= Len(before)
      PROVE  /\ after[k] < after[k + 1]
             /\ \A l \in history : ~ (after[k] < l /\ l < after[k + 1])
  <2>1. CASE k = Len(before)
    <3>1. /\ k \in 1..Len(before) /\ 1 \in 1..Len(events) /\ Len(events) > 0
          /\ Len(before) + 1 = k + 1 /\ before # <<>>
      BY <1>1, <1>4, <1>5, <1>6, <2>1
    <3>2. after[k] = srv.cursor
      BY <1>3, <1>4, <1>5, <2>1, <3>1, Zenon
    <3>3. after[k + 1] = events[1]
      BY <1>5, <2>1, <3>1, Zenon
    <3> QED
      BY <1>1, <3>1, <3>2, <3>3, Zenon
  <2>2. CASE k # Len(before)
    <3> DEFINE j == k - Len(before)
    <3>1. /\ j \in 1..(Len(events) - 1) /\ j \in 1..Len(events) /\ j + 1 \in 1..Len(events)
          /\ Len(before) + j = k /\ Len(before) + (j + 1) = k + 1
      BY <1>1, <1>4, <1>5, <1>6, <2>2
    <3> HIDE DEF j
    <3>2. after[k] = events[j] /\ after[k + 1] = events[j + 1]
      BY <1>5, <3>1, Zenon
    <3> QED
      BY <1>1, <3>1, <3>2, Zenon
  <2> QED
    BY <2>1, <2>2
<1> QED
  BY <1>6, Zenon DEF SentInOrder, before, after

\* Sessions, clients, caches and tables keep their types: a session never sends
\* more than its limit, and what is on its way are ledgers.
THEOREM StreamTypeCorrect == StreamSpec => []StreamTypeOK
<1>1. StreamInv => StreamTypeOK
  BY DEF StreamInv
<1> QED
  BY <1>1, StreamInitInv, StreamNextInv, PTL DEF StreamSpec

\* Whatever instances a client is connected to, whenever connections break and
\* whatever ledgers are filled in, reaped or lost in between, ServeStream sends
\* the ledgers of history after the last that the client's handler got, in
\* order, each once, and leaves none out.
THEOREM StreamInOrder == StreamSpec => InOrder
<1>1. ASSUME StreamInv, [StreamNext \/ LedgersRemoved]_streamVars
      PROVE  [Len(wire') > Len(wire) =>
                SentInOrder(Events(cli.got, wire), Events(cli.got, wire'))]_wire
  <2>1. CASE GenerateEvents
    BY <1>1, <2>1, SentAfterLast
  <2>2. CASE Receive
    <3>1. Len(wire') = Len(wire) - 1 /\ Len(wire) \in Nat
      BY <1>1, <2>2, StreamTypes, HeadTail DEF Receive
    <3> QED
      BY <3>1
  <2>3. CASE Break \/ ClientEnds
    <3>1. wire' = <<>> /\ Len(wire) \in Nat
      BY <1>1, <2>3, StreamTypes DEF Break, ClientEnds
    <3> QED
      BY <3>1
  <2>4. CASE UNCHANGED wire
    BY <2>4
  <2>5. UNCHANGED wire \/ GenerateEvents \/ Receive \/ Break \/ ClientEnds
    BY <1>1, Zenon DEF StreamNext, LedgersRemoved, streamVars, sessionVars, ServerStep, ClientStep, StopSession,
       ServeStream, GetPageQuery, NextLedger, StreamDone, EndOfFile, Connect
  <2> QED
    BY <2>1, <2>2, <2>3, <2>4, <2>5, Zenon
<1> QED
  BY <1>1, StreamInitInv, StreamNextInv, PTL DEF StreamSpec, InOrder

-----------------------------------------------------------------------------
(* Wakeups.                                                                *)

\* A ledger that ingestion or history has come to.
Reached(x) == x <= lastIngested \/ x <= latestHistory

\* What instances cache and sessions remember was the last ingested ledger once.
CacheReached == \A i \in Instances : Reached(status[i].ExpHistoryLatest)

\* Unless ledgers were filled in, history ends at the last ingested ledger.
HistoryBehind == ~ late => latestHistory <= lastIngested

\* Where the query of a session starts.
QueryGood ==
  /\ Reached(srv.current)
  /\ srv.pc \in {"page", "select"} /\ srv.lastEventID = None /\ srv.now => srv.from = srv.current
  /\ srv.pc = "select" /\ srv.lastEventID # None => srv.cursor = srv.lastEventID
  /\ srv.pc = "select" /\ srv.lastEventID = None => srv.now \/ srv.cursor = srv.pq
  /\ srv.pc = "wait" => srv.lastEventID # None
  /\ srv.pc # "closed" /\ srv.lastEventID # None /\ LastSent = Now => srv.lastEventID = srv.pq

\* A ledger that the session has neither sent nor left to a later event.
Unsent(l) ==
  /\ l \in history /\ l <= lastIngested /\ l > srv.lastEventID
  /\ LastSent = Now => l > srv.from

WakesUp ==
  srv.pc = "wait" /\ ~ late /\ (\E l \in history : Unsent(l)) => lastIngested > srv.current

WakeInv == StreamInv /\ CacheReached /\ HistoryBehind /\ QueryGood /\ WakesUp

\* Ingestion does not fall behind what it or history has come to.
LEMMA ReachedKept ==
  ASSUME CacheTypeOK, LatestIsLast, HistoryStep, Onward, NEW x \in Ledger, Reached(x)
  PROVE  Reached(x)'
<1>1. /\ lastIngested' \in Ledger /\ latestHistory' \in Ledger /\ latestHistory <= latestHistory'
      /\ lastIngested \in Ledger /\ latestHistory \in Ledger
  BY HistoryGrows DEF CacheTypeOK
<1>2. lastIngested' >= lastIngested \/ latestHistory > lastIngested
  <2>1. CASE ResetState
    BY <2>1 DEF ResetState, Reset
  <2>2. CASE IngestLedger
    BY <1>1, <2>2, LedgerStateAssumption DEF IngestLedger, Resume, Ledger
  <2>3. ASSUME NEW a \in 1..MaxLedger, BuildState(a)
        PROVE  lastIngested' >= lastIngested
    BY <1>1, <2>3, LedgerStateAssumption DEF BuildState, Build, Onward, Ledger
  <2>4. ASSUME NEW a \in 1..MaxLedger, NEW b \in 1..MaxLedger, IngestRange(a, b)
        PROVE  lastIngested' = lastIngested
    BY <2>4 DEF IngestRange, SetHistory, WriteHistory
  <2> QED
    BY <1>1, <2>1, <2>2, <2>3, <2>4, LedgerStateAssumption DEF HistoryStep, Ledger
<1> QED
  BY <1>1, <1>2, LedgerStateAssumption DEF Reached, Ledger

\* A step of ingestion after which nothing is late changes nothing that sessions
\* depend on, or passes all that was reached.
LEMMA NotLateMoves ==
  ASSUME CacheTypeOK, LatestIsLast, HistoryBehind, HistoryStep, Onward,
         late' = (~ NewLedger /\ (late \/ history' # history)), ~ late'
  PROVE  \/ ~ late /\ UNCHANGED <<lastIngested, latestHistory, history>>
         \/ /\ lastIngested' > lastIngested /\ lastIngested' > latestHistory
            /\ latestHistory' <= lastIngested'
<1>1. /\ lastIngested \in Nat /\ latestHistory \in Nat /\ lastIngested' \in Nat
      /\ latestHistory' \in Nat /\ history \subseteq 1..MaxLedger /\ LatestIsLast'
  BY HistoryGrows, LedgerStateAssumption DEF CacheTypeOK, Ledger
<1>2. NewLedger \/ (~ late /\ history' = history)
  BY Zenon
<1>3. CASE IngestLedger
  <2>1. /\ lastIngested + 1 \notin history /\ history' = history \cup {lastIngested + 1}
        /\ lastIngested' = lastIngested + 1
        /\ latestHistory' = IF latestHistory > lastIngested + 1
                            THEN latestHistory ELSE lastIngested + 1
    BY <1>3 DEF IngestLedger, Resume
  <2>2. NewLedger
    BY <1>2, <2>1, Zenon
  <2> QED
    BY <1>1, <2>1, <2>2 DEF NewLedger
<1>4. CASE ResetState
  <2>1. latestHistory > lastIngested /\ lastIngested' = 0 /\ history' = history
    BY <1>4 DEF ResetState, Reset
  <2>2. late
    BY <1>1, <2>1 DEF HistoryBehind
  <2> QED
    BY <1>2, <2>1, <2>2 DEF NewLedger
<1>5. ASSUME NEW a \in 1..MaxLedger, BuildState(a)
      PROVE  \/ ~ late /\ UNCHANGED <<lastIngested, latestHistory, history>>
             \/ /\ lastIngested' > lastIngested /\ lastIngested' > latestHistory
                /\ latestHistory' <= lastIngested'
  <2>1. lastIngested' = a /\ a > 0 /\ latestHistory' = latestHistory /\ history' = history
    BY <1>5, LedgerStateAssumption DEF BuildState, Build
  <2>2. ~ late
    BY <1>2, <2>1 DEF NewLedger
  <2>3. latestHistory <= lastIngested
    BY <2>2 DEF HistoryBehind
  <2> QED
    BY <1>1, <2>1, <2>2, <2>3 DEF Onward
<1>6. ASSUME NEW a \in 1..MaxLedger, NEW b \in 1..MaxLedger, IngestRange(a, b)
      PROVE  ~ late /\ UNCHANGED <<lastIngested, latestHistory, history>>
  <2>1. lastIngested' = lastIngested
    BY <1>6 DEF IngestRange, SetHistory, WriteHistory
  <2>2. ~ NewLedger
    BY <1>1, <2>1 DEF NewLedger
  <2>3. ~ late /\ history' = history
    BY <1>2, <2>2
  <2>4. latestHistory' = latestHistory
    <3>1. CASE history = {}
      BY <1>1, <2>3, <3>1 DEF LatestIsLast
    <3>2. CASE history # {}
      <4>1. latestHistory' <= latestHistory /\ latestHistory <= latestHistory'
        BY <1>1, <2>3, <3>2, Zenon DEF LatestIsLast
      <4> QED
        BY <1>1, <4>1
    <3> QED
      BY <3>1, <3>2
  <2> QED
    BY <2>1, <2>3, <2>4
<1> QED
  BY <1>3, <1>4, <1>5, <1>6 DEF HistoryStep

\* A page that does not use up the limit of its session has all ledgers after
\* its cursor.
LEMMA WholePage ==
  ASSUME CacheTypeOK, NEW c \in Nat, NEW n \in Nat, n <= Limit,
         Len(Ascending(Page(c), n)) < n, NEW l \in history, c < l
  PROVE  l \in Page(c)
<1> DEFINE after == {x \in history : x > c}
           page == Page(c)
<1>1. Limit \in Nat /\ history \subseteq 1..MaxLedger /\ history \subseteq Nat
  BY LedgerStreamAssumption, LedgerStateAssumption DEF CacheTypeOK
<1>2. after \subseteq Nat /\ IsFiniteSet(after) /\ l \in after
  <2>1. after \in SUBSET (1..MaxLedger) /\ l \in after
    BY <1>1, Zenon
  <2>2. 1 \in Int /\ MaxLedger \in Int
    BY LedgerStateAssumption
  <2>3. IsFiniteSet(1..MaxLedger)
    BY <2>2, FS_Interval, Zenon
  <2> QED
    BY <1>1, <2>1, <2>3, FS_Subset, Zenon
<1>3. page = {x \in after : Rank(after, x) < Limit}
  BY Zenon DEF Page, Rank
<1> HIDE DEF after, page
<1>4. IsFiniteSet(page) /\ Cardinality(page) \in Nat
  BY <1>2, <1>3, FS_Subset, FS_CardinalityType
<1>5. Cardinality(page) < n
  <2> DEFINE N == IF Cardinality(page) < n THEN Cardinality(page) ELSE n
             Nth(k) == CHOOSE x \in page : Cardinality({m \in page : m < x}) = k - 1
  <2>1. Ascending(page, n) = [k \in 1..N |-> Nth(k)]
    BY Zenon DEF Ascending
  <2>2. N \in Nat
    BY <1>4
  <2> HIDE DEF N, Nth
  <2>3. Len(Ascending(page, n)) = N
    BY <2>1, <2>2
  <2>4. N < n
    BY <2>3, Zenon DEF page
  <2> QED
    BY <1>4, <2>4 DEF N
<1> SUFFICES ASSUME l \notin page PROVE FALSE
  BY Zenon DEF page
<1>6. Rank(after, l) \in Nat /\ Rank(after, l) < Cardinality(after) /\ ~ (Rank(after, l) < Limit)
  BY <1>2, <1>3, RankOrder, Zenon
<1>7. Limit - 1 \in Nat /\ Limit - 1 < Cardinality(after)
  BY <1>1, <1>2, <1>6, FS_CardinalityType, LedgerStreamAssumption
<1>8. PICK x \in after : Rank(after, x) = Limit - 1
  BY <1>2, <1>7, RankExists, Zenon
<1> DEFINE B == {m \in after : m < x}
<1>9. x \in page /\ B \subseteq page
  <2>1. x \in page
    BY <1>1, <1>3, <1>8
  <2>2. ASSUME NEW m \in after, m < x PROVE m \in page
    <3>1. Rank(after, m) < Rank(after, x) /\ Rank(after, m) \in Nat
      BY <1>2, <1>8, <2>2, RankOrder, Zenon
    <3> QED
      BY <1>1, <1>3, <1>8, <2>2, <3>1
  <2> QED
    BY <2>1, <2>2
<1>10. x \notin B
  BY <1>2
<1>11. Cardinality(B) = Limit - 1 /\ IsFiniteSet(B)
  BY <1>2, <1>8, FS_Subset, Zenon DEF Rank
<1> HIDE DEF B
<1>12. Cardinality(B \cup {x}) = Limit
  <2>1. Cardinality(B \cup {x}) = Cardinality(B) + 1
    BY <1>10, <1>11, FS_AddElement, Zenon
  <2> QED
    BY <1>1, <1>11, <2>1
<1>13. Cardinality(B \cup {x}) <= Cardinality(page)
  <2>1. B \cup {x} \subseteq page
    BY <1>9
  <2> QED
    BY <1>4, <2>1, FS_Subset, Zenon
<1> QED
  BY <1>1, <1>4, <1>5, <1>12, <1>13

\* A step that leaves tables and caches alone has to keep what is said of the
\* session only.
LEMMA WakeFrame ==
  ASSUME WakeInv, UNCHANGED serverVars, StreamInv', QueryGood', WakesUp'
  PROVE  WakeInv'
<1>1. UNCHANGED <<lastIngested, latestHistory, status, late>>
  BY DEF serverVars, historyVars, ledgerVars, cacheVars
<1> QED
  BY <1>1, Zenon DEF WakeInv, CacheReached, HistoryBehind, Reached

\* A session that is closed or has just begun remembers nothing.
LEMMA FreshSession ==
  ASSUME WakeInv, StreamInv', srv'.pc \in {"closed", "start"}, srv'.current = 0
  PROVE  QueryGood' /\ WakesUp'
<1>1. lastIngested' \in Nat
  BY LedgerStateAssumption DEF StreamInv, StreamTypeOK, CacheTypeOK, Ledger
<1>2. srv'.pc = "start" => srv'.lastEventID = None
  BY DEF StreamInv, SessionGood
<1> QED
  BY <1>1, <1>2 DEF QueryGood, WakesUp, Reached

LEMMA ClosedCurrent == \A i : Closed(i).pc = "closed" /\ Closed(i).current = 0
BY DEF Closed

\* CurrentLedger, before the first query.
LEMMA ServeStreamWakes == ASSUME WakeInv, ServeStream PROVE WakeInv'
<1> DEFINE latest == status[srv.on].ExpHistoryLatest
<1>1. /\ srv.pc = "start" /\ UNCHANGED <<serverVars, cli, wire>>
      /\ srv' = [srv EXCEPT !.pc = "page", !.current = latest,
                            !.from = IF srv.now THEN latest ELSE 0]
  BY DEF ServeStream
<1>2. /\ srv \in ServerType /\ srv.on \in Instances /\ Reached(latest) /\ StreamInv
      /\ srv.lastEventID = None
  BY <1>1, StreamTypes DEF ServerType, WakeInv, CacheReached, SessionGood
<1>3. UNCHANGED <<lastIngested, latestHistory, LastSent>>
  BY <1>1 DEF serverVars, historyVars, ledgerVars, LastSent
<1> HIDE DEF latest
<1>4. /\ srv'.pc = "page" /\ srv'.current = latest /\ (srv'.now => srv'.from = latest)
      /\ srv'.lastEventID = None
  BY <1>1, <1>2 DEF ServerType
<1>5. QueryGood' /\ WakesUp'
  BY <1>2, <1>3, <1>4 DEF QueryGood, WakesUp, Reached
<1> QED
  BY <1>1, <1>2, <1>5, ServeStreamKept, WakeFrame

LEMMA GetPageQueryWakes == ASSUME WakeInv, GetPageQuery PROVE WakeInv'
<1> DEFINE c == IF srv.lastEventID # None THEN srv.lastEventID
                ELSE getCursor(srv.on, IF srv.now THEN Now ELSE srv.pq)
<1>1. /\ srv.pc = "page" /\ UNCHANGED <<serverVars, cli, wire>>
      /\ srv' = [srv EXCEPT !.pc = "select", !.cursor = c]
  BY DEF GetPageQuery
<1>2. srv \in ServerType /\ srv.pq # Now /\ StreamInv /\ QueryGood
  BY StreamTypes, LedgerStateAssumption DEF ServerType, WakeInv, Ledger, Now
<1>3. /\ srv.lastEventID # None => c = srv.lastEventID
      /\ srv.lastEventID = None => srv.now \/ c = srv.pq
  BY <1>2, Zenon DEF getCursor
<1>4. UNCHANGED <<lastIngested, latestHistory, LastSent>>
  BY <1>1 DEF serverVars, historyVars, ledgerVars, LastSent
<1> HIDE DEF c
<1>5. /\ srv'.pc = "select" /\ srv'.cursor = c /\ srv'.current = srv.current
      /\ srv'.from = srv.from /\ srv'.now = srv.now /\ srv'.lastEventID = srv.lastEventID
      /\ srv'.pq = srv.pq
  BY <1>1, <1>2 DEF ServerType
<1>6. QueryGood' /\ WakesUp'
  BY <1>1, <1>2, <1>3, <1>4, <1>5 DEF QueryGood, WakesUp, Reached
<1> QED
  BY <1>1, <1>2, <1>6, GetPageQueryKept, WakeFrame

LEMMA NextLedgerWakes == ASSUME WakeInv, NextLedger PROVE WakeInv'
<1> DEFINE latest == status[srv.on].ExpHistoryLatest
<1>1. /\ srv.pc = "wait" /\ UNCHANGED <<serverVars, cli, wire>>
      /\ srv' = [srv EXCEPT !.pc = "page", !.current = latest]
  BY DEF NextLedger
<1>2. /\ srv \in ServerType /\ srv.on \in Instances /\ Reached(latest) /\ StreamInv
      /\ srv.lastEventID # None /\ QueryGood
  BY <1>1, StreamTypes DEF ServerType, WakeInv, CacheReached, QueryGood
<1>3. UNCHANGED <<lastIngested, latestHistory, LastSent>>
  BY <1>1 DEF serverVars, historyVars, ledgerVars, LastSent
<1> HIDE DEF latest
<1>4. /\ srv'.pc = "page" /\ srv'.current = latest /\ srv'.pq = srv.pq
      /\ srv'.lastEventID = srv.lastEventID /\ srv'.lastEventID # None
  BY <1>1, <1>2 DEF ServerType
<1>5. QueryGood' /\ WakesUp'
  BY <1>1, <1>2, <1>3, <1>4 DEF QueryGood, WakesUp, Reached
<1> QED
  BY <1>1, <1>2, <1>5, NextLedgerKept, WakeFrame

\* A page is sent: what it left out was ingested since NextLedger, or
\* CurrentLedger, read the cached state.
LEMMA PageLeaves ==
  ASSUME WakeInv, GenerateEvents, ~ late,
         Len(Ascending(Page(srv.cursor), srv.limit)) < srv.limit,
         NEW l \in history, l <= lastIngested, LastEventID(Page(srv.cursor)) < l,
         LastSent' = Now => srv.from < l
  PROVE  lastIngested > srv.current
<1> DEFINE page == Page(srv.cursor)
<1>1. /\ CacheTypeOK /\ SessionGood /\ QueryGood /\ srv.pc = "select"
      /\ srv.cursor \in Nat /\ srv.limit \in Nat /\ srv.limit <= Limit /\ srv.current \in Nat
      /\ lastIngested \in Nat /\ history \subseteq 1..MaxLedger /\ l \in Nat
  <2>1. StreamInv /\ QueryGood /\ srv.pc = "select"
    BY DEF WakeInv, GenerateEvents
  <2>2. CacheTypeOK /\ SessionGood /\ srv \in ServerType
    BY <2>1, StreamTypes, Zenon
  <2>3. srv.cursor \in Ledger /\ srv.current \in Ledger /\ srv.limit \in 0..Limit
    BY <2>2 DEF ServerType
  <2>4. lastIngested \in Ledger /\ history \subseteq 1..MaxLedger
    BY <2>2, Zenon DEF CacheTypeOK
  <2> QED
    BY <2>1, <2>2, <2>3, <2>4, LedgerStateAssumption, LedgerStreamAssumption DEF Ledger
<1>2. srv.cursor < l => l \in page
  BY <1>1, WholePage
<1>3. page \subseteq history /\ page \subseteq Nat
  BY <1>1, PageFacts
<1> HIDE DEF page
<1>4. l \notin page
  <2> SUFFICES ASSUME l \in page PROVE FALSE
    OBVIOUS
  <2>1. page # {} /\ page \subseteq 1..MaxLedger
    BY <1>1, <1>3
  <2>2. PICK x \in page : \A y \in page : y <= x
    BY <2>1, LatestElement, LedgerStateAssumption, Zenon
  <2>3. LatestLedger(page) = x
    BY <1>3, <2>2, LatestLedgerValue
  <2>4. LastEventID(page) = x
    BY <2>1, <2>3, Zenon DEF LastEventID
  <2>5. x < l
    BY <2>4, Zenon DEF page
  <2> QED
    BY <1>1, <1>3, <2>2, <2>5
<1>5. ~ (srv.cursor < l)
  BY <1>2, <1>4
<1>6. page = {}
  <2> SUFFICES ASSUME page # {} PROVE FALSE
    OBVIOUS
  <2>1. PICK x \in page : \A y \in page : y <= x
    BY <1>1, <1>3, LatestElement, LedgerStateAssumption, Zenon
  <2>2. LatestLedger(page) = x
    BY <1>3, <2>1, LatestLedgerValue
  <2>3. x < l
    BY <2>1, <2>2, Zenon DEF LastEventID, page
  <2>4. srv.cursor < x /\ x \in Nat
    BY <1>1, <1>3, PageFacts DEF page
  <2> QED
    BY <1>1, <1>5, <2>3, <2>4
<1>7. LastEventID(page) < l
  BY Zenon DEF page
<1>8. srv.lastEventID = None /\ srv.now
  <2>1. LastEventID(page) = IF srv.lastEventID # None THEN srv.lastEventID ELSE srv.pq
    BY <1>6, Zenon DEF LastEventID
  <2>2. srv.lastEventID # None => srv.cursor = srv.lastEventID
    BY <1>1 DEF QueryGood
  <2>3. srv.lastEventID = None => srv.now \/ srv.cursor = srv.pq
    BY <1>1 DEF QueryGood
  <2> QED
    BY <1>5, <1>7, <2>1, <2>2, <2>3, Zenon
<1>9. LastSent' = Now
  <2>1. cli.got = Now /\ wire = <<>>
    BY <1>1, <1>8 DEF SessionGood
  <2>2. wire' = wire \o Ascending(page, srv.limit) /\ cli' = cli
    BY Zenon DEF GenerateEvents, page
  <2>3. Ascending(page, srv.limit) = <<>>
    BY <1>6, EventsFacts, Zenon DEF page, WakeInv
  <2>4. wire' = <<>>
    BY <2>1, <2>2, <2>3
  <2> QED
    BY <2>1, <2>2, <2>4, Zenon DEF LastSent
<1>10. srv.from = srv.current
  BY <1>1, <1>8 DEF QueryGood
<1>11. srv.current < l
  BY <1>9, <1>10, Zenon
<1> QED
  BY <1>1, <1>11

\* The session still knows where it is when no event was ever sent.
LEMMA NothingSent ==
  ASSUME WakeInv, GenerateEvents, LastSent' = Now,
         Len(Ascending(Page(srv.cursor), srv.limit)) < srv.limit
  PROVE  LastEventID(Page(srv.cursor)) = srv.pq
<1> DEFINE page == Page(srv.cursor)
           events == Ascending(page, srv.limit)
<1>1. /\ StreamInv /\ SessionGood /\ QueryGood /\ srv.pc = "select"
      /\ wire' = wire \o events /\ cli' = cli /\ wire \in Seq(1..MaxLedger)
  BY StreamTypes, Zenon DEF GenerateEvents, WakeInv
<1>2. /\ events \in Seq(1..MaxLedger) /\ Len(events) \in Nat
      /\ page = {} => events = <<>>
      /\ page # {} => events # <<>> /\ LatestLedger(page) = events[Len(events)]
  BY <1>1, EventsFacts, Zenon
<1>3. page # {} => LastSent' = LastEventID(page) /\ LastEventID(page) # Now
  <2> SUFFICES ASSUME page # {} PROVE LastSent' = LastEventID(page) /\ LastEventID(page) # Now
    OBVIOUS
  <2> HIDE DEF page, events
  <2>1. /\ wire \o events # <<>>
        /\ (wire \o events)[Len(wire \o events)] = events[Len(events)]
    BY <1>1, <1>2, LastOfConcatenation, Zenon
  <2>2. LastSent' = events[Len(events)]
    BY <1>1, <2>1, Zenon DEF LastSent
  <2>3. events[Len(events)] # Now
    BY <1>2, LedgerStateAssumption DEF Now
  <2> QED
    BY <1>2, <2>2, <2>3, Zenon DEF LastEventID
<1> HIDE DEF page, events
<1>4. page = {} /\ wire' = wire
  BY <1>1, <1>2, <1>3, Concatenation, Zenon
<1>5. LastSent = Now
  BY <1>1, <1>4, Zenon DEF LastSent
<1>6. srv.lastEventID # None => srv.lastEventID = srv.pq
  BY <1>1, <1>5 DEF QueryGood
<1> QED
  BY <1>4, <1>6, Zenon DEF LastEventID, page

LEMMA GenerateEventsWakes == ASSUME WakeInv, GenerateEvents PROVE WakeInv'
<1> DEFINE page == Page(srv.cursor)
           events == Ascending(page, srv.limit)
           limit == srv.limit - Len(events)
           id == LastEventID(page)
<1>1. /\ UNCHANGED serverVars
      /\ srv' = IF limit = 0 THEN Closed(srv.on)
                ELSE [srv EXCEPT !.pc = "wait", !.cursor = 0, !.limit = limit,
                                 !.lastEventID = id, !.now = @ /\ id = None]
  BY Zenon DEF GenerateEvents
<1>2. StreamInv /\ StreamInv' /\ QueryGood
  BY GenerateEventsKept, Zenon DEF WakeInv
<1>3. srv \in ServerType /\ Len(events) \in Nat /\ Len(events) <= srv.limit /\ srv.limit \in Nat
  BY <1>2, StreamTypes, EventsFacts, Zenon
<1>4. CASE limit = 0
  <2>1. srv'.pc = "closed" /\ srv'.current = 0
    BY <1>1, <1>4, ClosedCurrent, Zenon
  <2> QED
    BY <1>1, <1>2, <2>1, FreshSession, WakeFrame
<1>5. CASE limit # 0
  <2>1. Len(events) < srv.limit
    BY <1>3, <1>5
  <2>2. id \in Ledger
    BY <1>2, <2>1, LastEventIDFacts, Zenon
  <2>3. LastSent' = Now => id = srv.pq
    BY <2>1, NothingSent, Zenon
  <2>4. ASSUME ~ late, NEW l \in history, l <= lastIngested, id < l, LastSent' = Now => srv.from < l
        PROVE  lastIngested > srv.current
    BY <2>1, <2>4, PageLeaves, Zenon
  <2>5. srv' = [srv EXCEPT !.pc = "wait", !.cursor = 0, !.limit = limit,
                           !.lastEventID = id, !.now = srv.now /\ id = None]
    BY <1>1, <1>5, Zenon
  <2> HIDE DEF limit, id, events, page
  <2>6. /\ srv'.pc = "wait" /\ srv'.lastEventID = id /\ srv'.current = srv.current
        /\ srv'.from = srv.from /\ srv'.pq = srv.pq
    BY <1>3, <2>5 DEF ServerType
  <2>7. UNCHANGED <<lastIngested, latestHistory, history, late>>
    BY <1>1 DEF serverVars, historyVars, ledgerVars
  <2>8. id # None
    BY <2>2, LedgerStateAssumption DEF Ledger, None
  <2>9. QueryGood'
    BY <1>2, <2>3, <2>6, <2>7, <2>8 DEF QueryGood, Reached
  <2>10. WakesUp'
    BY <2>4, <2>6, <2>7 DEF WakesUp, Unsent
  <2> QED
    BY <1>1, <1>2, <2>9, <2>10, WakeFrame
<1> QED
  BY <1>4, <1>5

\* An event arrives.
LEMMA ReceiveWakes == ASSUME WakeInv, Receive PROVE WakeInv'
<1>1. UNCHANGED serverVars /\ srv' = srv
  BY DEF Receive
<1>2. StreamInv' /\ LastSent' = LastSent /\ QueryGood /\ WakesUp
  BY ReceiveKept, ReceiveFacts DEF WakeInv
<1>3. UNCHANGED <<lastIngested, latestHistory, history, late>>
  BY <1>1 DEF serverVars, historyVars, ledgerVars
<1>4. QueryGood' /\ WakesUp'
  BY <1>1, <1>2, <1>3 DEF QueryGood, WakesUp, Unsent, Reached
<1> QED
  BY <1>1, <1>2, <1>4, WakeFrame

\* Ingestion: a new ledger passes what the session remembers.
LEMMA HistoryStepWakes ==
  ASSUME WakeInv, HistoryStep, Onward, UNCHANGED <<cacheVars, sessionVars>>, StreamInv',
         late' = (~ NewLedger /\ (late \/ history' # history))
  PROVE  WakeInv'
<1>1. /\ CacheTypeOK /\ LatestIsLast /\ HistoryBehind /\ CacheReached /\ QueryGood /\ WakesUp
      /\ srv \in ServerType
  BY StreamTypes DEF WakeInv, StreamInv
<1>2. UNCHANGED <<status, srv, LastSent>>
  BY DEF cacheVars, sessionVars, LastSent
<1>3. /\ lastIngested \in Nat /\ latestHistory \in Nat /\ srv.current \in Ledger
      /\ \A i \in Instances : status[i].ExpHistoryLatest \in Ledger
  BY <1>1, LedgerStateAssumption DEF CacheTypeOK, ServerType, Ledger
<1>4. lastIngested' \in Nat /\ latestHistory' \in Nat
  BY LedgerStateAssumption DEF StreamInv, StreamTypeOK, CacheTypeOK, Ledger
<1>5. \A x \in Ledger : Reached(x) => Reached(x)'
  BY <1>1, ReachedKept
<1>6. CacheReached'
  BY <1>1, <1>2, <1>3, <1>5 DEF CacheReached, Reached
<1>7. Reached(srv.current)'
  BY <1>1, <1>2, <1>3, <1>5 DEF QueryGood, Reached
<1>8. QueryGood'
  BY <1>1, <1>2, <1>7 DEF QueryGood, Reached
<1>9. ASSUME ~ late'
      PROVE  \/ ~ late /\ UNCHANGED <<lastIngested, latestHistory, history>>
             \/ /\ lastIngested' > lastIngested /\ lastIngested' > latestHistory
                /\ latestHistory' <= lastIngested'
  BY <1>1, <1>9, NotLateMoves
<1>10. HistoryBehind'
  BY <1>1, <1>9 DEF HistoryBehind
<1>11. WakesUp'
  <2>1. lastIngested' > lastIngested /\ lastIngested' > latestHistory => lastIngested' > srv.current
    BY <1>1, <1>3, <1>4, LedgerStateAssumption DEF QueryGood, Reached, Ledger
  <2> QED
    BY <1>1, <1>2, <1>9, <2>1 DEF WakesUp, Unsent
<1> QED
  BY <1>6, <1>8, <1>10, <1>11 DEF WakeInv

\* The cached state of an instance is refreshed, or forgotten.
LEMMA CacheWakes ==
  ASSUME WakeInv, StreamInv', UNCHANGED <<lastIngested, latestHistory, history, late>>,
         \A i \in Instances : status'[i].ExpHistoryLatest \in
                                {status[i].ExpHistoryLatest, lastIngested, 0},
         QueryGood', WakesUp'
  PROVE  WakeInv'
<1>1. lastIngested \in Nat
  BY LedgerStateAssumption DEF WakeInv, StreamInv, StreamTypeOK, CacheTypeOK, Ledger
<1>2. CacheReached'
  BY <1>1 DEF WakeInv, CacheReached, Reached
<1> QED
  BY <1>2, Zenon DEF WakeInv, HistoryBehind

LEMMA UpdateWakes ==
  ASSUME WakeInv, NEW i \in Instances, UpdateAuroraLedgerState(i), UNCHANGED <<late, sessionVars>>,
         StreamInv'
  PROVE  WakeInv'
<1>1. status \in [Instances -> [HistoryLatest : Ledger, HistoryElder : Ledger,
                                ExpHistoryLatest : Ledger]]
  BY StreamTypes DEF WakeInv
<1>2. /\ UNCHANGED <<lastIngested, latestHistory, history>>
      /\ \A j \in Instances : status'[j].ExpHistoryLatest \in
                                {status[j].ExpHistoryLatest, lastIngested}
  BY <1>1 DEF UpdateAuroraLedgerState, QueryLatest, SetAuroraStatus, QueryFail, historyVars, ledgerVars
<1>3. UNCHANGED <<srv, LastSent>>
  BY DEF sessionVars, LastSent
<1>4. QueryGood' /\ WakesUp'
  BY <1>2, <1>3, Zenon DEF WakeInv, QueryGood, WakesUp, Unsent, Reached
<1> QED
  BY <1>2, <1>4, CacheWakes

LEMMA StopSessionWakes ==
  ASSUME WakeInv, NEW i \in Instances, StopSession(i)
  PROVE  WakeInv'
<1>1. status \in [Instances -> [HistoryLatest : Ledger, HistoryElder : Ledger,
                                ExpHistoryLatest : Ledger]]
  BY StreamTypes DEF WakeInv
<1>2. /\ UNCHANGED <<lastIngested, latestHistory, history, late, cli, wire>>
      /\ srv' = IF srv.on = i THEN Closed(i) ELSE srv
      /\ \A j \in Instances : status'[j].ExpHistoryLatest \in {status[j].ExpHistoryLatest, 0}
  BY <1>1 DEF StopSession, Forget, NoStatus, historyVars, ledgerVars
<1>3. StreamInv'
  BY StopSessionKept DEF WakeInv
<1>4. QueryGood' /\ WakesUp'
  <2>1. CASE srv.on = i
    BY <1>2, <1>3, <2>1, ClosedCurrent, FreshSession, Zenon
  <2>2. CASE srv.on # i
    <3>1. UNCHANGED <<srv, LastSent>>
      BY <1>2, <2>2 DEF LastSent
    <3> QED
      BY <1>2, <3>1, Zenon DEF WakeInv, QueryGood, WakesUp, Unsent, Reached
  <2> QED
    BY <2>1, <2>2
<1> QED
  BY <1>2, <1>3, <1>4, CacheWakes

LEMMA WakeInitInv == StreamInit => WakeInv
<1> SUFFICES ASSUME StreamInit PROVE WakeInv
  OBVIOUS
<1>1. StreamInv
  BY StreamInitInv
<1>2. srv.pc = "closed" /\ srv.current = 0
  BY ClosedCurrent DEF StreamInit
<1>3. lastIngested = 0 /\ latestHistory = 0 /\ \A i \in Instances : status[i].ExpHistoryLatest = 0
  BY DEF StreamInit, CacheInit, HistoryInit, LedgerInit, NoStatus
<1> QED
  BY <1>1, <1>2, <1>3 DEF WakeInv, CacheReached, HistoryBehind, QueryGood, WakesUp, Reached

LEMMA WakeNextInv == WakeInv /\ [StreamNext /\ Onward]_streamVars => WakeInv'
<1> SUFFICES ASSUME WakeInv, [StreamNext /\ Onward]_streamVars PROVE WakeInv'
  OBVIOUS
<1>1. StreamInv /\ StreamInv'
  BY StreamNextInv DEF WakeInv
<1>2. CASE UNCHANGED streamVars
  <2>1. UNCHANGED <<lastIngested, latestHistory, history, late, status, srv, LastSent>>
    BY <1>2 DEF streamVars, serverVars, historyVars, ledgerVars, cacheVars, sessionVars, LastSent
  <2> QED
    BY <1>1, <2>1
       DEF WakeInv, CacheReached, HistoryBehind, QueryGood, WakesUp, Unsent, Reached
<1>3. ASSUME UNCHANGED serverVars, srv' = Closed(srv.on) PROVE WakeInv'
  <2>1. srv'.pc = "closed" /\ srv'.current = 0
    BY <1>3, ClosedCurrent
  <2> QED
    BY <1>1, <1>3, <2>1, FreshSession, WakeFrame
<1>4. CASE ServerStep
  <2>1. CASE StreamDone
    BY <1>3, <2>1 DEF StreamDone
  <2> QED
    BY <1>4, <2>1, ServeStreamWakes, GetPageQueryWakes, GenerateEventsWakes, NextLedgerWakes
       DEF ServerStep
<1>5. ASSUME NEW i \in Instances, Connect(i) PROVE WakeInv'
  <2>1. UNCHANGED serverVars /\ srv'.pc = "start" /\ srv'.current = 0
    BY <1>5 DEF Connect
  <2> QED
    BY <1>1, <2>1, FreshSession, WakeFrame
<1>6. CASE EndOfFile
  <2>1. UNCHANGED serverVars /\ srv' = srv /\ srv.pc = "closed"
    BY <1>6 DEF EndOfFile
  <2>2. UNCHANGED <<lastIngested, latestHistory>>
    BY <2>1 DEF serverVars, historyVars, ledgerVars
  <2>3. QueryGood' /\ WakesUp'
    BY <2>1, <2>2, Zenon DEF WakeInv, QueryGood, WakesUp, Reached
  <2> QED
    BY <1>1, <2>1, <2>3, WakeFrame
<1>7. CASE ClientStep
  BY <1>3, <1>5, <1>6, <1>7, ReceiveWakes DEF ClientStep, Break, ClientEnds
<1>8. CASE /\ HistoryStep /\ Onward /\ UNCHANGED <<cacheVars, sessionVars>>
           /\ late' = (~ NewLedger /\ (late \/ history' # history))
  BY <1>1, <1>8, HistoryStepWakes
<1>9. ASSUME NEW i \in Instances, UpdateAuroraLedgerState(i), UNCHANGED <<late, sessionVars>>
      PROVE  WakeInv'
  BY <1>1, <1>9, UpdateWakes
<1> QED
  BY <1>2, <1>4, <1>7, <1>8, <1>9, StopSessionWakes DEF StreamNext

\* HistoryDBSource.NextLedger, for any number of ledgers, instances and events:
\* a session that waits while its client lacks a ledger remembers an earlier
\* ledger than the last ingested one, so that the next refresh of the cached
\* state wakes it.  It is what Delivered rests on, apart from fairness.
THEOREM StreamWakesUp == OnwardSpec => []NoMissedWakeup
<1>1. WakeInv => NoMissedWakeup
  <2> SUFFICES ASSUME WakeInv, srv.pc = "wait", wire = <<>>, Starved
               PROVE  lastIngested > srv.current
    BY DEF NoMissedWakeup
  <2>1. /\ SessionGood /\ QueryGood /\ WakesUp /\ ~ late /\ LastSent = cli.cursor
        /\ cli \in ClientType /\ srv.lastEventID # None
    BY StreamTypes, Zenon DEF WakeInv, Starved, LastSent, SessionGood, QueryGood
  <2>2. PICK l \in history : l <= lastIngested /\ \A p \in Position : l > p
    BY Zenon DEF Starved
  <2>3. CASE cli.cursor # Now
    <3>1. srv.lastEventID = cli.cursor /\ Position = {cli.cursor}
      BY <2>1, <2>3 DEF SessionGood, Position
    <3> QED
      BY <2>1, <2>2, <2>3, <3>1 DEF WakesUp, Unsent
  <2>4. CASE cli.cursor = Now
    <3>1. srv.lastEventID = srv.pq /\ Position = {srv.pq, srv.from}
      BY <2>1, <2>4 DEF QueryGood, Position
    <3> QED
      BY <2>1, <2>2, <2>4, <3>1 DEF WakesUp, Unsent
  <2> QED
    BY <2>3, <2>4
<1> QED
  BY <1>1, WakeInitInv, WakeNextInv, PTL DEF OnwardSpec
=============================================================================
