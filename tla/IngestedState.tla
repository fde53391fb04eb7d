---------------------------- MODULE IngestedState ----------------------------
\* What the readers of Aurora's database may rely on: how a cluster of
\* ingesting instances, whatever it goes through, moves the last ingested
\* ledger, the latest ledger of history and the state tables, one committed
\* transaction at a time.  Module Ingestion implements it; the order book
\* stream and the state verifier are built on it.
EXTENDS Integers

CONSTANTS
  MaxLedger,       \* BOUND: last ledger of the network
  CheckpointFreq   \* ledgers between two checkpoints (64 in production)

VARIABLES
  lastIngested,    \* exp_ingest_last_ledger
  latestHistory,   \* latest ledger in history_ledgers, 0 if none
  state            \* ledger the state tables describe, 0 if they are empty

ledgerVars == <<lastIngested, latestHistory, state>>

IsCheckpointLedger(l) == (l + 1) % CheckpointFreq = 0

LedgerInit == lastIngested = 0 /\ latestHistory = 0 /\ state = 0

\* resumeState: the next ledger, in the state tables and in history.
Resume ==
  /\ lastIngested > 0 /\ state = lastIngested /\ lastIngested < MaxLedger
  /\ lastIngested' = lastIngested + 1
  /\ state' = lastIngested + 1
  /\ latestHistory' = IF latestHistory > lastIngested + 1
                      THEN latestHistory ELSE lastIngested + 1

\* buildState: the state tables are replaced by those of ledger c.
Build(c) ==
  /\ c = 1 \/ IsCheckpointLedger(c)
  /\ lastIngested' = c /\ state' = c
  /\ UNCHANGED latestHistory

\* startState: history is ahead, the state will be built again.
Reset ==
  /\ lastIngested > 0 /\ latestHistory > lastIngested
  /\ lastIngested' = 0
  /\ UNCHANGED <<latestHistory, state>>

\* Catching up, reingesting, reaping: only history changes.
WriteHistory ==
  /\ latestHistory' \in 0..MaxLedger
  /\ UNCHANGED <<lastIngested, state>>

LedgerNext ==
  \/ Resume \/ Reset \/ WriteHistory
  \/ \E c \in 1..MaxLedger : Build(c)

LedgerSpec == LedgerInit /\ [][LedgerNext]_ledgerVars
=============================================================================
