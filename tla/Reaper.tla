------------------------------- MODULE Reaper --------------------------------
\* The reaper (services/aurora/internal/reap): every hour each instance with a
\* retention count deletes the ledgers that its cached ledger state says are
\* too old, newest batch first, one transaction each.
EXTENDS LedgerState

CONSTANTS
  RetentionCount,   \* RetentionCount[i]: ledgers instance i retains, 0 for all
  batchSize         \* ledgers between the ends of a batch (100,000)

ASSUME ReaperAssumption ==
  /\ RetentionCount \in [Instances -> Nat]
  /\ batchSize \in Nat /\ batchSize > 0

VARIABLE reaping   \* reaping[i]: the loop of clearBefore

vars == <<historyVars, cacheVars, reaping>>

\* No ledger is left between startSeq and batchEndSeq.
Done == [startSeq |-> 1, batchEndSeq |-> 0]

\* MUTANT: the last ledger is left when it would be a batch of its own.
LoopOpen(start, end) ==
  IF end > start THEN [startSeq |-> start, batchEndSeq |-> end] ELSE Done

\* The rest of the loop of clearBefore.
Loop(start, end) ==
  IF end >= start THEN [startSeq |-> start, batchEndSeq |-> end] ELSE Done

Init == CacheInit /\ reaping = [i \in Instances |-> Done]

-----------------------------------------------------------------------------
(* The reaper of instance i.                                               *)

\* MUTANT: everything before the latest ledger of the cached state.
TargetElderLatest(i) == status[i].HistoryLatest

TargetElder(i) == (status[i].HistoryLatest - RetentionCount[i]) + 1

\* The decision, from the cached ledger state.
DeleteUnretainedHistory(i) ==
  /\ reaping[i] = Done /\ RetentionCount[i] # 0
  /\ TargetElder(i) >= status[i].HistoryElder
  /\ reaping' = [reaping EXCEPT ![i] = Loop(status[i].HistoryElder, TargetElder(i) - 1)]
  /\ UNCHANGED <<historyVars, cacheVars>>

NextBatch(i) == Loop(reaping[i].startSeq, reaping[i].batchEndSeq - batchSize)

BatchStart(i) ==
  IF reaping[i].batchEndSeq - batchSize < reaping[i].startSeq
  THEN reaping[i].startSeq ELSE reaping[i].batchEndSeq - batchSize

\* One transaction: both ends of the range are deleted.
ClearBatch(i) ==
  /\ reaping[i] # Done /\ BatchStart(i) > 0
  /\ DeleteRangeAll(BatchStart(i), reaping[i].batchEndSeq)
  /\ reaping' = [reaping EXCEPT ![i] = NextBatch(i)]
  /\ UNCHANGED cacheVars

\* A query failed or the range is invalid; the next run starts over.
ClearFail(i) ==
  /\ reaping[i] # Done
  /\ reaping' = [reaping EXCEPT ![i] = Done]
  /\ UNCHANGED <<historyVars, cacheVars>>

\* The instance stops, at any point, and starts again.
Restart(i) == Forget(i) /\ reaping' = [reaping EXCEPT ![i] = Done]

Next ==
  \/ HistoryStep /\ UNCHANGED <<cacheVars, reaping>>
  \/ \E i \in Instances :
       \/ UpdateAuroraLedgerState(i) /\ UNCHANGED reaping
       \/ DeleteUnretainedHistory(i) \/ ClearBatch(i) \/ ClearFail(i)
       \/ Restart(i)

Spec == Init /\ [][Next]_vars

\* App.run ticks every second and the reaper runs every hour.  Queries and
\* processes fail, but no query and no batch fails for ever.
FairSpec ==
  /\ Spec
  /\ \A i \in Instances :
       /\ WF_vars(QueryLatest(i) /\ UNCHANGED reaping)
       /\ SF_vars(SetAuroraStatus(i) /\ UNCHANGED reaping)
       /\ SF_vars(DeleteUnretainedHistory(i))
       /\ \A l \in 1..MaxLedger : SF_vars(ClearBatch(i) /\ reaping[i].batchEndSeq = l)

-----------------------------------------------------------------------------
(* Properties.                                                             *)

TypeOK ==
  /\ CacheTypeOK
  /\ reaping \in [Instances -> [startSeq : Ledger, batchEndSeq : Ledger] \cup {Done}]

\* Some instance does not retain ledger l of history.
Unretained(l) ==
  /\ l \in history
  /\ \E i \in Instances : RetentionCount[i] > 0 /\ l <= latestHistory - RetentionCount[i]

\* The reaper is "configured with a number of ledgers to maintain at a minimum"
\* (reap/main.go): from a cached state of any age, next to ingestion, other
\* reapers and reingestion, no step deletes one of the latest RetentionCount
\* ledgers.
RetainedKept ==
  [][\A l \in history \ history' : Unretained(l)]_history

\* "remove data from the history database such that it does not grow
\* indefinitely" (reap/main.go): no ledger stays that an instance does not
\* retain, whatever batches failed, although runs start from a cached elder
\* ledger and work downwards, and a reingestion fills in what they deleted.
Reaped == \A l \in 1..MaxLedger : []<> ~ Unretained(l)
=============================================================================
