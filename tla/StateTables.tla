----------------------------- MODULE StateTables -----------------------------
\* The state tables as their readers see them: the rows of offers and
\* liquidity_pools that the change processors write for every ledger, their
\* compaction, and the flag exp_state_invalid, on top of the ledger steps of
\* IngestedState.  Every action is one committed transaction of ingestion.
EXTENDS IngestedState

CONSTANTS
  Entries,           \* offers and liquidity pools
  Chain,             \* Chain[l][e]: ledger that last modified e as of ledger l, 0 if none
  compactionWindow,  \* ledgers for which a deleted row is kept (100)
  MaxBuilds          \* BOUND: times the state is built

ASSUME StateTablesAssumption ==
  /\ MaxLedger \in Nat /\ MaxBuilds \in Nat
  /\ CheckpointFreq \in Nat /\ CheckpointFreq > 1
  /\ compactionWindow \in Nat /\ compactionWindow > 0
  /\ Chain \in [0..MaxLedger -> [Entries -> 0..MaxLedger]]
  /\ \A e \in Entries : Chain[0][e] = 0
  \* An entry keeps its lastModifiedLedgerSeq until a ledger changes or removes it.
  /\ \A l \in 0..MaxLedger, e \in Entries :
       /\ Chain[l][e] <= l
       /\ Chain[l][e] > 0 => \A k \in Chain[l][e]..l : Chain[k][e] = Chain[l][e]

VARIABLES
  rows,              \* rows of the tables; mod is last_modified_ledger
  offerCompaction,   \* offer_compaction_sequence
  poolCompaction,    \* liquidity_pool_compaction_sequence
  stateInvalid,      \* exp_state_invalid
  builds             \* times the state was built

tableVars == <<rows, offerCompaction, poolCompaction, stateInvalid, builds>>
dbVars == <<ledgerVars, tableVars>>

NoRow == [mod |-> 0, deleted |-> FALSE]
NoRows == [e \in Entries |-> NoRow]
Row(m) == [mod |-> m, deleted |-> FALSE]
DeletedRow(m) == [mod |-> m, deleted |-> TRUE]

\* What StreamAllOffers and StreamAllLiquidityPools return: rows not deleted.
StreamAll(r) == [e \in Entries |-> IF r[e].deleted THEN 0 ELSE r[e].mod]

-----------------------------------------------------------------------------
\* ProcessChange for every entry that ledger l created, updated or removed.
ProcessChanges(r, l) ==
  [e \in Entries |->
     IF Chain[l][e] = Chain[l - 1][e] THEN r[e]
     ELSE IF Chain[l][e] = 0 THEN DeletedRow(l) ELSE Row(Chain[l][e])]

\* CompactOffers and CompactLiquidityPools in the processors' Commit.
Compact(r, l) ==
  IF l > compactionWindow
  THEN [e \in Entries |->
          IF r[e].deleted /\ r[e].mod <= l - compactionWindow THEN NoRow ELSE r[e]]
  ELSE r

\* MUTANT: the cutoff is also taken in the first ledgers, where it is negative.
CompactionSequenceUnguarded(old, l) == l - compactionWindow

\* The cutoff stored beside the compacted rows.
CompactionSequence(old, l) ==
  IF l > compactionWindow THEN l - compactionWindow ELSE old

CommitProcessors(r, l) ==
  /\ rows' = Compact(r, l)
  /\ offerCompaction' = CompactionSequence(offerCompaction, l)
  /\ poolCompaction' = CompactionSequence(poolCompaction, l)

TablesInit ==
  /\ LedgerInit
  /\ rows = NoRows
  /\ offerCompaction = 0 /\ poolCompaction = 0
  /\ stateInvalid = FALSE /\ builds = 0

IngestLedger ==
  /\ Resume
  /\ CommitProcessors(ProcessChanges(rows, lastIngested + 1), lastIngested + 1)
  /\ UNCHANGED <<stateInvalid, builds>>

\* Truncate the tables, read the checkpoint's entries, clear the flag.
BuildState(c) ==
  /\ builds < MaxBuilds
  /\ Build(c)
  /\ CommitProcessors([e \in Entries |-> Row(Chain[c][e])], c)
  /\ stateInvalid' = FALSE /\ builds' = builds + 1

ResetState == Reset /\ UNCHANGED tableVars

HistoryWritten == WriteHistory /\ UNCHANGED tableVars

IngestionStep ==
  \/ IngestLedger \/ ResetState \/ HistoryWritten
  \/ \E c \in 1..MaxLedger : BuildState(c)
=============================================================================
