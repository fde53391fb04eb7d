------------------------------ MODULE Ingestion ------------------------------
(***************************************************************************)
(* Aurora's distributed ingestion: several instances run the finite state  *)
(* machine of services/aurora/internal/ingest against ONE database, beside *)
(* the one-off commands `db reingest range`, `ingest build-state`,         *)
(* `ingest init-genesis-state` and `ingest trigger-state-rebuild`.         *)
(*                                                                         *)
(* The database is modelled by what the state machine decides on: the      *)
(* key-value rows exp_ingest_last_ledger and exp_ingest_version, the rows  *)
(* of history_ledgers, and the state tables, which are abstracted to the   *)
(* ledger they describe and the ingestion version that wrote them.         *)
(* GetLastLedgerIngest is SELECT ... FOR UPDATE, so whoever calls it owns  *)
(* `lock` until its transaction ends.  Rows of history_ledgers that a      *)
(* transaction inserted or deleted but did not commit are in ins and del.  *)
(***************************************************************************)
EXTENDS Integers, FiniteSets

CONSTANTS
  Nodes,              \* ingesting instances
  Cmds,               \* one-off commands run against the same database
  None,               \* nobody holds the row lock
  Version,            \* the CurrentVersion each process was compiled with
  MaxLedger,          \* BOUND: last ledger the network closes
  CheckpointFreq,     \* ledgers between two checkpoints (64 in production)
  MaxLedgerPerFlush,  \* Config.MaxLedgerPerFlush
  MaxFaults,          \* BOUND: crashes and failed calls in a behaviour
  MaxReingestRetries, \* Config.MaxReingestRetries
  Ranges              \* ranges an operator passes to `db reingest range`

Procs   == Nodes \cup Cmds
Ledgers == 1..MaxLedger
Corrupt == MaxLedger + 1   \* state tables that describe no ledger

ASSUME IngestionAssumption ==
  /\ None \notin Procs
  /\ Nodes \cap Cmds = {}
  /\ MaxLedger \in Nat /\ MaxFaults \in Nat /\ MaxReingestRetries \in Nat
  /\ CheckpointFreq \in Nat /\ CheckpointFreq > 1
  /\ CheckpointFreq - 1 \in Ledgers
  /\ MaxLedgerPerFlush \in Nat /\ MaxLedgerPerFlush > 0
  /\ Version \in [Procs -> Nat \ {0}]
  /\ Ranges \subseteq [from : Ledgers, to : Ledgers, force : BOOLEAN]

VARIABLES
  network,        \* latest ledger closed by the network
  checkpoint,     \* latest checkpoint published to the history archive
  lastIngested,   \* exp_ingest_last_ledger
  ingestVersion,  \* exp_ingest_version
  history,        \* sequences in history_ledgers
  state,          \* ledger the state tables describe (0: empty)
  stateVersion,   \* version of the code that wrote the state tables
  lock,           \* holder of the FOR UPDATE lock on exp_ingest_last_ledger
  pc,             \* state machine node of every process
  arg,            \* its ledger: checkpointLedger, latestSuccessfully..., fromLedger
  to,             \* toLedger of historyRange and reingestHistoryRange
  force,          \* force flag of reingestHistoryRange
  cur,            \* next ledger to read in a range
  ins, del,       \* uncommitted rows of history_ledgers
  retries,        \* runs left of a failed reingestion
  commanded,      \* ledgers that some reingestion was asked to write
  faults          \* faults so far

dbVars  == <<lastIngested, ingestVersion, history, state, stateVersion>>
envVars == <<network, checkpoint>>
txVars  == <<lock, ins, del>>
cmdVars == <<force, retries, commanded>>
vars    == <<envVars, dbVars, txVars, cmdVars, pc, arg, to, cur, faults>>

IsCheckpoint(l) == (l + 1) % CheckpointFreq = 0

\* State can be built at a checkpoint, and at the genesis ledger.
IsBuildLedger(l) == l = 1 \/ IsCheckpoint(l)

-----------------------------------------------------------------------------
(* Database primitives.                                                    *)

\* SELECT COALESCE(MAX(sequence), 0) FROM history_ledgers.
GetLatestHistoryLedger(m) ==
  \/ m = 0 /\ history = {}
  \/ m \in history /\ \A l \in history : l <= m

\* The transaction of p ends: its row lock and its uncommitted rows are gone.
EndTx(p) ==
  /\ lock' = IF lock = p THEN None ELSE lock
  /\ ins' = [ins EXCEPT ![p] = {}]
  /\ del' = [del EXCEPT ![p] = {}]

\* Rows p inserts wait for every other transaction that touched the same keys.
Unblocked(p, rows) ==
  \A q \in Procs \ {p} : rows \cap (ins[q] \cup del[q]) = {}

\* index_history_ledgers_on_sequence is unique: inserting a present row fails.
Conflicts(p, rows) == rows \cap (history \ del[p]) # {}

\* Applying the changes of one ledger is only right on top of the previous
\* ledger's state, written by the same ingestion version.
RunAllProcessorsOnLedger(p, l) ==
  IF l = state + 1 /\ stateVersion = Version[p] THEN l ELSE Corrupt

\* Next node of the state machine, with its parameters.
Goto(p, node, from, last) ==
  /\ pc' = [pc EXCEPT ![p] = node]
  /\ arg' = [arg EXCEPT ![p] = from]
  /\ to' = [to EXCEPT ![p] = last]
  /\ cur' = [cur EXCEPT ![p] = from]

Fault ==
  /\ faults < MaxFaults
  /\ faults' = faults + 1

-----------------------------------------------------------------------------
(* The environment: the network and the history archive.                   *)

Init ==
  /\ network = CheckpointFreq - 1 /\ checkpoint = CheckpointFreq - 1
  /\ lastIngested = 0 /\ ingestVersion = 0
  /\ history = {} /\ state = 0 /\ stateVersion = 0
  /\ lock = None
  /\ pc = [p \in Procs |-> IF p \in Nodes THEN "start" ELSE "idle"]
  /\ arg = [p \in Procs |-> 0] /\ to = [p \in Procs |-> 0]
  /\ cur = [p \in Procs |-> 0]
  /\ ins = [p \in Procs |-> {}] /\ del = [p \in Procs |-> {}]
  /\ force = [c \in Cmds |-> FALSE]
  /\ retries = [c \in Cmds |-> 0]
  /\ commanded = {} /\ faults = 0

CloseLedger ==
  /\ network < MaxLedger
  /\ network' = network + 1
  /\ UNCHANGED <<checkpoint, dbVars, txVars, cmdVars, pc, arg, to, cur, faults>>

\* The archive may publish late, and skip a checkpoint it was late for.
PublishCheckpoint ==
  /\ \E l \in (checkpoint + 1)..network :
        IsCheckpoint(l) /\ checkpoint' = l
  /\ UNCHANGED <<network, dbVars, txVars, cmdVars, pc, arg, to, cur, faults>>

-----------------------------------------------------------------------------
(* startState.run.  Its transaction only spans reads (and, in StartReset,   *)
(* one write and the commit), so each outcome is one step taken while the   *)
(* lock is free.  An error anywhere returns to start() with nothing done.   *)

StartStep(n) ==
  /\ pc[n] = "start" /\ lock = None
  /\ UNCHANGED <<envVars, ingestVersion, history, state, stateVersion,
                 txVars, cmdVars, faults>>

\* A newer instance owns the database: terminate.
StartStop(n) ==
  /\ StartStep(n)
  /\ ingestVersion > Version[n]
  /\ Goto(n, "stop", 0, 0)
  /\ UNCHANGED lastIngested

\* Empty database or version upgrade: build from the latest checkpoint, once
\* history has reached exactly that checkpoint.
StartFromEmpty(n) ==
  /\ StartStep(n)
  /\ ingestVersion <= Version[n]
  /\ ingestVersion # Version[n] \/ lastIngested = 0
  /\ \E lastHistory \in 0..MaxLedger :
       /\ GetLatestHistoryLedger(lastHistory)
       /\ \/ /\ lastHistory # 0 /\ lastHistory > checkpoint
             /\ Goto(n, "waitForCheckpoint", 0, 0)
          \/ /\ lastHistory # 0 /\ lastHistory < checkpoint
             /\ Goto(n, "historyRange", lastHistory + 1, checkpoint)
          \/ /\ lastHistory = 0 \/ lastHistory = checkpoint
             /\ Goto(n, "build", checkpoint, 0)
  /\ UNCHANGED lastIngested

\* MUTANT: the reset of exp_ingest_last_ledger is not committed.
StartResetRolledBack(n) ==
  /\ StartStep(n)
  /\ ingestVersion = Version[n] /\ lastIngested > 0
  /\ \E lastHistory \in Ledgers :
       GetLatestHistoryLedger(lastHistory) /\ lastHistory > lastIngested
  /\ Goto(n, "start", 0, 0)
  /\ UNCHANGED lastIngested

\* History ran ahead of the state tables: reset exp_ingest_last_ledger so
\* that the state is built again.
StartReset(n) ==
  /\ StartStep(n)
  /\ ingestVersion = Version[n] /\ lastIngested > 0
  /\ \E lastHistory \in Ledgers :
       GetLatestHistoryLedger(lastHistory) /\ lastHistory > lastIngested
  /\ lastIngested' = 0
  /\ Goto(n, "start", 0, 0)

\* History is behind the state tables: catch it up.
StartCatchUp(n) ==
  /\ StartStep(n)
  /\ ingestVersion = Version[n] /\ lastIngested > 0
  /\ \E lastHistory \in Ledgers :
       /\ GetLatestHistoryLedger(lastHistory) /\ lastHistory < lastIngested
       /\ Goto(n, "historyRange", lastHistory + 1, lastIngested)
  /\ UNCHANGED lastIngested

StartResume(n) ==
  /\ StartStep(n)
  /\ ingestVersion = Version[n] /\ lastIngested > 0
  /\ GetLatestHistoryLedger(0) \/ GetLatestHistoryLedger(lastIngested)
  /\ Goto(n, "resume", lastIngested, 0)
  /\ UNCHANGED lastIngested

\* waitForCheckpointState.run sleeps and starts over.
WaitForCheckpoint(n) ==
  /\ pc[n] = "waitForCheckpoint"
  /\ Goto(n, "start", 0, 0)
  /\ UNCHANGED <<envVars, dbVars, txVars, cmdVars, faults>>

-----------------------------------------------------------------------------
(* buildState.run.  Its checkpoint is the one chosen by start (or by the    *)
(* operator), which may be old by the time the lock is granted.             *)

\* nextFailState: start(), or stop() for the build-state command.
FailNode(p) == IF p \in Nodes THEN "start" ELSE "done"

\* MUTANT: no check that another instance completed the build.
BuildBeginNoDoubleCheck(p) ==
  /\ pc[p] = "build" /\ lock = None
  /\ lock' = p
  /\ Goto(p, "buildTx", arg[p], 0)
  /\ UNCHANGED <<envVars, dbVars, ins, del, cmdVars, faults>>

BuildBegin(p) ==
  /\ pc[p] = "build" /\ lock = None
  /\ \/ /\ ingestVersion = Version[p] /\ lastIngested > 0
        /\ Goto(p, FailNode(p), 0, 0)
        /\ UNCHANGED lock
     \/ /\ ingestVersion # Version[p] \/ lastIngested = 0
        /\ lock' = p
        /\ Goto(p, "buildTx", arg[p], 0)
  /\ UNCHANGED <<envVars, dbVars, ins, del, cmdVars, faults>>

\* MUTANT: the state tables are filled without truncating them first.
BuildCommitNoTruncate(p) ==
  /\ pc[p] = "buildTx"
  /\ state' = IF state = 0 THEN arg[p] ELSE Corrupt
  /\ stateVersion' = Version[p] /\ ingestVersion' = Version[p]
  /\ lastIngested' = arg[p]
  /\ EndTx(p)
  /\ \/ p \in Nodes /\ Goto(p, "resume", arg[p], 0) /\ UNCHANGED faults
     \/ p \in Cmds /\ Goto(p, "done", 0, 0) /\ UNCHANGED faults
     \/ Fault /\ Goto(p, FailNode(p), 0, 0)
  /\ UNCHANGED <<envVars, history, cmdVars>>

\* Truncate the state tables, fill them from the checkpoint, set the version
\* and the last ledger, commit.  The client may see the commit fail although
\* the server applied it.
BuildCommit(p) ==
  /\ pc[p] = "buildTx"
  /\ state' = arg[p] /\ stateVersion' = Version[p]
  /\ ingestVersion' = Version[p]
  /\ lastIngested' = arg[p]
  /\ EndTx(p)
  /\ \/ p \in Nodes /\ Goto(p, "resume", arg[p], 0) /\ UNCHANGED faults
     \/ p \in Cmds /\ Goto(p, "done", 0, 0) /\ UNCHANGED faults
     \/ Fault /\ Goto(p, FailNode(p), 0, 0)
  /\ UNCHANGED <<envVars, history, cmdVars>>

\* A failed call before or inside the transaction.
BuildFail(p) ==
  /\ pc[p] \in {"build", "buildTx"}
  /\ Fault
  /\ EndTx(p)
  /\ Goto(p, FailNode(p), 0, 0)
  /\ UNCHANGED <<envVars, dbVars, cmdVars>>

-----------------------------------------------------------------------------
(* resumeState.run.  arg is latestSuccessfullyProcessedLedger.              *)

\* MUTANT: no check of the ingestion version.
ResumeBeginAnyVersion(n) ==
  /\ pc[n] = "resume" /\ lock = None
  /\ arg[n] + 1 <= network
  /\ \/ /\ arg[n] > lastIngested
        /\ Goto(n, "start", 0, 0) /\ UNCHANGED lock
     \/ /\ arg[n] < lastIngested
        /\ Goto(n, "resume", lastIngested, 0) /\ UNCHANGED lock
     \/ /\ arg[n] = lastIngested
        /\ GetLatestHistoryLedger(0) \/ GetLatestHistoryLedger(lastIngested)
        /\ lock' = n
        /\ Goto(n, "resumeTx", arg[n], 0)
  /\ UNCHANGED <<envVars, dbVars, ins, del, cmdVars, faults>>

\* MUTANT: no check that history ends at the last ingested ledger.
ResumeBeginAnyHistory(n) ==
  /\ pc[n] = "resume" /\ lock = None
  /\ arg[n] + 1 <= network
  /\ \/ /\ arg[n] > lastIngested
        /\ Goto(n, "start", 0, 0) /\ UNCHANGED lock
     \/ /\ arg[n] < lastIngested
        /\ Goto(n, "resume", lastIngested, 0) /\ UNCHANGED lock
     \/ /\ arg[n] = lastIngested /\ ingestVersion = Version[n]
        /\ lock' = n
        /\ Goto(n, "resumeTx", arg[n], 0)
  /\ UNCHANGED <<envVars, dbVars, ins, del, cmdVars, faults>>

\* GetLedger returned the next ledger, Begin and the lock succeeded; then the
\* checks on what the database says now.
ResumeBegin(n) ==
  /\ pc[n] = "resume" /\ lock = None
  /\ arg[n] + 1 <= network
  /\ \/ /\ arg[n] > lastIngested
        /\ Goto(n, "start", 0, 0) /\ UNCHANGED lock
     \/ /\ arg[n] < lastIngested
        /\ Goto(n, "resume", lastIngested, 0) /\ UNCHANGED lock
     \/ /\ arg[n] = lastIngested
        /\ \/ ingestVersion # Version[n]
           \/ ~ (GetLatestHistoryLedger(0) \/ GetLatestHistoryLedger(lastIngested))
        /\ Goto(n, "start", 0, 0) /\ UNCHANGED lock
     \/ /\ arg[n] = lastIngested
        /\ ingestVersion = Version[n]
        /\ GetLatestHistoryLedger(0) \/ GetLatestHistoryLedger(lastIngested)
        /\ lock' = n
        /\ Goto(n, "resumeTx", arg[n], 0)
  /\ UNCHANGED <<envVars, dbVars, ins, del, cmdVars, faults>>

\* Run all processors on the ledger and commit: resumeImmediately, or
\* retryResume when the client sees the commit fail.
ResumeCommit(n) ==
  LET ingestLedger == arg[n] + 1 IN
  /\ pc[n] = "resumeTx"
  /\ Unblocked(n, {ingestLedger}) /\ ~ Conflicts(n, {ingestLedger})
  /\ state' = RunAllProcessorsOnLedger(n, ingestLedger)
  /\ history' = history \cup {ingestLedger}
  /\ lastIngested' = ingestLedger
  /\ EndTx(n)
  /\ \/ Goto(n, "resume", ingestLedger, 0) /\ UNCHANGED faults
     \/ Fault /\ Goto(n, "resume", arg[n], 0)
  /\ UNCHANGED <<envVars, ingestVersion, stateVersion, cmdVars>>

\* A reingestion committed the same ledger first: retryResume.
ResumeConflict(n) ==
  /\ pc[n] = "resumeTx"
  /\ Unblocked(n, {arg[n] + 1}) /\ Conflicts(n, {arg[n] + 1})
  /\ EndTx(n)
  /\ Goto(n, "resume", arg[n], 0)
  /\ UNCHANGED <<envVars, dbVars, cmdVars, faults>>

\* A failed call: the backend's lead to start, the database's to a retry.
ResumeFail(n) ==
  /\ Fault
  /\ \/ pc[n] = "resume" /\ Goto(n, "start", 0, 0)
     \/ pc[n] = "resumeTx" /\ Goto(n, "resume", arg[n], 0)
  /\ EndTx(n)
  /\ UNCHANGED <<envVars, dbVars, cmdVars>>

-----------------------------------------------------------------------------
(* historyRangeState.run, and the loop it shares with ingestRange.          *)

HistoryRangeBegin(n) ==
  /\ pc[n] = "historyRange" /\ lock = None
  /\ \/ /\ ~ GetLatestHistoryLedger(arg[n] - 1)
        /\ Goto(n, "start", 0, 0) /\ UNCHANGED lock
     \/ /\ GetLatestHistoryLedger(arg[n] - 1)
        /\ lock' = n
        /\ Goto(n, "historyRangeTx", arg[n], to[n])
  /\ UNCHANGED <<envVars, dbVars, ins, del, cmdVars, faults>>

\* The ledgers of the next flush: a full batch, or what is left of the range.
Batch(p) ==
  {l \in cur[p]..to[p] : l < cur[p] + MaxLedgerPerFlush}

\* MUTANT: the ledger that fills a batch is counted but not flushed.
FlushBatchSkipping(p) ==
  /\ pc[p] \in {"historyRangeTx", "reingestTx"}
  /\ Batch(p) # {} /\ \A l \in Batch(p) : l <= network
  /\ Unblocked(p, Batch(p)) /\ ~ Conflicts(p, Batch(p))
  /\ ins' = [ins EXCEPT ![p] = @ \cup Batch(p)]
  /\ cur' = [cur EXCEPT ![p] = @ + MaxLedgerPerFlush + 1]
  /\ UNCHANGED <<envVars, dbVars, lock, del, cmdVars, pc, arg, to, faults>>

\* RunTransactionProcessorsOnLedgers on one batch, inside the transaction.
FlushBatch(p) ==
  /\ pc[p] \in {"historyRangeTx", "reingestTx"}
  /\ Batch(p) # {} /\ \A l \in Batch(p) : l <= network
  /\ Unblocked(p, Batch(p)) /\ ~ Conflicts(p, Batch(p))
  /\ ins' = [ins EXCEPT ![p] = @ \cup Batch(p)]
  /\ cur' = [cur EXCEPT ![p] = @ + MaxLedgerPerFlush]
  /\ UNCHANGED <<envVars, dbVars, lock, del, cmdVars, pc, arg, to, faults>>

CommitRows(p) ==
  /\ history' = (history \ del[p]) \cup ins[p]
  /\ EndTx(p)
  /\ UNCHANGED <<lastIngested, ingestVersion, state, stateVersion>>

\* The whole range is flushed; a commit that fails or not leads to start.
HistoryRangeCommit(n) ==
  /\ pc[n] = "historyRangeTx" /\ Batch(n) = {}
  /\ CommitRows(n)
  /\ Goto(n, "start", 0, 0)
  /\ UNCHANGED <<envVars, cmdVars, faults>>

\* The backend failed: the batches already flushed are committed.
HistoryRangePartial(n) ==
  /\ pc[n] = "historyRangeTx" /\ Batch(n) # {}
  /\ Fault
  /\ CommitRows(n)
  /\ Goto(n, "start", 0, 0)
  /\ UNCHANGED <<envVars, cmdVars>>

\* A reingestion committed one of the ledgers first: roll back.
HistoryRangeConflict(n) ==
  /\ pc[n] = "historyRangeTx"
  /\ Unblocked(n, Batch(n)) /\ Conflicts(n, Batch(n))
  /\ EndTx(n)
  /\ Goto(n, "start", 0, 0)
  /\ UNCHANGED <<envVars, dbVars, cmdVars, faults>>

\* A processor or the database failed: everything is rolled back.
HistoryRangeFail(n) ==
  /\ pc[n] \in {"historyRange", "historyRangeTx"}
  /\ Fault
  /\ EndTx(n)
  /\ Goto(n, "start", 0, 0)
  /\ UNCHANGED <<envVars, dbVars, cmdVars>>

-----------------------------------------------------------------------------
(* The commands: ReingestRange with its retries, and BuildState.            *)

\* Ledger 1 is not available, so a range from it starts at 2.
RunReingest(c) ==
  /\ pc[c] = "idle"
  /\ \E r \in Ranges :
       LET from == IF r.from = 1 THEN 2 ELSE r.from IN
       /\ from <= r.to
       /\ Goto(c, "reingest", from, r.to)
       /\ force' = [force EXCEPT ![c] = r.force]
       /\ commanded' = commanded \cup from..r.to
  /\ retries' = [retries EXCEPT ![c] = MaxReingestRetries]
  /\ UNCHANGED <<envVars, dbVars, txVars, faults>>

\* build-state at a checkpoint, or init-genesis-state: only on an empty
\* database, which is checked once, before the system starts.
RunBuildState(c) ==
  /\ pc[c] = "idle" /\ lastIngested = 0
  /\ \E l \in Ledgers :
       IsBuildLedger(l) /\ l <= checkpoint /\ Goto(c, "build", l, 0)
  /\ UNCHANGED <<envVars, dbVars, txVars, cmdVars, faults>>

\* trigger-state-rebuild updates the version outside of any lock.
RunTriggerStateRebuild(c) ==
  /\ pc[c] = "idle"
  /\ ingestVersion' = 0
  /\ Goto(c, "done", 0, 0)
  /\ UNCHANGED <<envVars, lastIngested, history, state, stateVersion, txVars, cmdVars, faults>>

\* Without force: the bound is checked outside of any transaction.  Whether
\* the archive reaches the end of the range is PrepareRange's check.
ReingestCheck(c) ==
  /\ pc[c] = "reingest" /\ ~ force[c]
  /\ \/ /\ lastIngested > 0 /\ to[c] >= lastIngested
        /\ Goto(c, "reingestFailed", arg[c], to[c])
     \/ /\ lastIngested = 0 \/ to[c] < lastIngested
        /\ \/ to[c] <= checkpoint /\ Goto(c, "reingestReady", arg[c], to[c])
           \/ to[c] > checkpoint /\ Goto(c, "reingestFailed", arg[c], to[c])
  /\ UNCHANGED <<envVars, dbVars, txVars, cmdVars, faults>>

ReingestPrepareForce(c) ==
  /\ pc[c] = "reingest" /\ force[c]
  /\ \/ to[c] <= checkpoint /\ Goto(c, "reingestReady", arg[c], to[c])
     \/ to[c] > checkpoint /\ Goto(c, "reingestFailed", arg[c], to[c])
  /\ UNCHANGED <<envVars, dbVars, txVars, cmdVars, faults>>

\* Begin, the lock if forced, then DeleteRangeAll.  It waits for rows another
\* transaction is deleting, and does not see rows another one is inserting.
ReingestBegin(c) ==
  /\ pc[c] = "reingestReady"
  /\ \A q \in Procs \ {c} : del[q] \cap arg[c]..to[c] = {}
  /\ \/ force[c] /\ lock = None /\ lock' = c
     \/ ~ force[c] /\ UNCHANGED lock
  /\ del' = [del EXCEPT ![c] = history \cap arg[c]..to[c]]
  /\ Goto(c, "reingestTx", arg[c], to[c])
  /\ UNCHANGED <<envVars, dbVars, ins, cmdVars, faults>>

\* A commit reported as failed although applied makes the command retry.
ReingestCommit(c) ==
  /\ pc[c] = "reingestTx" /\ Batch(c) = {}
  /\ CommitRows(c)
  /\ \/ Goto(c, "done", 0, 0) /\ UNCHANGED faults
     \/ Fault /\ Goto(c, "reingestFailed", arg[c], to[c])
  /\ UNCHANGED <<envVars, cmdVars>>

\* A forced reingestion commits what it did when the backend or a processor
\* fails: the deletion of the whole range, and the batches flushed so far.
ReingestPartial(c) ==
  /\ pc[c] = "reingestTx" /\ force[c] /\ Batch(c) # {}
  /\ Fault
  /\ CommitRows(c)
  /\ Goto(c, "reingestFailed", arg[c], to[c])
  /\ UNCHANGED <<envVars, cmdVars>>

\* A unique violation: the server refuses to commit anything afterwards.
ReingestConflict(c) ==
  /\ pc[c] = "reingestTx"
  /\ Unblocked(c, Batch(c)) /\ Conflicts(c, Batch(c))
  /\ EndTx(c)
  /\ Goto(c, "reingestFailed", arg[c], to[c])
  /\ UNCHANGED <<envVars, dbVars, cmdVars, faults>>

\* Any other failure rolls back.
ReingestFail(c) ==
  /\ pc[c] \in {"reingest", "reingestReady", "reingestTx"}
  /\ Fault
  /\ EndTx(c)
  /\ Goto(c, "reingestFailed", arg[c], to[c])
  /\ UNCHANGED <<envVars, dbVars, cmdVars>>

\* MUTANT: the retry loop runs once too often.
ReingestRetryOneMore(c) ==
  /\ pc[c] = "reingestFailed"
  /\ \/ retries[c] >= 0 /\ Goto(c, "reingest", arg[c], to[c])
     \/ retries[c] < 0 /\ Goto(c, "done", 0, 0)
  /\ retries' = [retries EXCEPT ![c] = @ - 1]
  /\ UNCHANGED <<envVars, dbVars, txVars, force, commanded, faults>>

\* The retry loop of system.ReingestRange.
ReingestRetry(c) ==
  /\ pc[c] = "reingestFailed"
  /\ \/ retries[c] > 0 /\ Goto(c, "reingest", arg[c], to[c])
     \/ retries[c] = 0 /\ Goto(c, "done", 0, 0)
  /\ retries' = [retries EXCEPT ![c] = IF @ > 0 THEN @ - 1 ELSE 0]
  /\ UNCHANGED <<envVars, dbVars, txVars, force, commanded, faults>>

-----------------------------------------------------------------------------
\* The process dies; the server rolls its transaction back.  An instance is
\* restarted, a command is not.
Crash(p) ==
  /\ pc[p] \notin {"start", "stop", "idle", "done"}
  /\ Fault
  /\ EndTx(p)
  /\ Goto(p, FailNode(p), 0, 0)
  /\ UNCHANGED <<envVars, dbVars, cmdVars>>

NodeStep(n) ==
  \/ StartStop(n) \/ StartFromEmpty(n) \/ StartReset(n)
  \/ StartCatchUp(n) \/ StartResume(n) \/ WaitForCheckpoint(n)
  \/ BuildBegin(n) \/ BuildCommit(n)
  \/ ResumeBegin(n) \/ ResumeCommit(n) \/ ResumeConflict(n)
  \/ HistoryRangeBegin(n) \/ FlushBatch(n)
  \/ HistoryRangeCommit(n) \/ HistoryRangeConflict(n)

NodeFail(n) ==
  \/ BuildFail(n) \/ ResumeFail(n) \/ Crash(n)
  \/ HistoryRangePartial(n) \/ HistoryRangeFail(n)

CmdStep(c) ==
  \/ BuildBegin(c) \/ BuildCommit(c)
  \/ ReingestCheck(c) \/ ReingestPrepareForce(c) \/ ReingestBegin(c)
  \/ FlushBatch(c) \/ ReingestCommit(c) \/ ReingestConflict(c) \/ ReingestRetry(c)

CmdFail(c) ==
  \/ BuildFail(c) \/ ReingestPartial(c) \/ ReingestFail(c) \/ Crash(c)

Next ==
  \/ CloseLedger \/ PublishCheckpoint
  \/ \E n \in Nodes : NodeStep(n) \/ NodeFail(n)
  \/ \E c \in Cmds : 
       \/ RunReingest(c) \/ RunBuildState(c) \/ RunTriggerStateRebuild(c)
       \/ CmdStep(c) \/ CmdFail(c)

Spec == Init /\ [][Next]_vars

-----------------------------------------------------------------------------
(* Fairness: runStateMachine runs every state to its end, and the server    *)
(* grants a contended row lock to each waiter in the end, hence SF.  The    *)
(* network keeps closing ledgers and the archive keeps publishing.          *)

Fairness ==
  /\ WF_vars(CloseLedger) /\ WF_vars(PublishCheckpoint)
  /\ \A n \in Nodes : SF_vars(NodeStep(n))
  /\ \A c \in Cmds : SF_vars(CmdStep(c))

FairSpec == Spec /\ Fairness

-----------------------------------------------------------------------------
(* Properties.                                                             *)

NodeStates ==
  {"start", "stop", "waitForCheckpoint", "build", "buildTx", "resume",
   "resumeTx", "historyRange", "historyRangeTx"}
CmdStates ==
  {"idle", "build", "buildTx", "reingest", "reingestReady", "reingestTx",
   "reingestFailed", "done"}

DbTypeOK ==
  /\ network \in Ledgers /\ checkpoint \in Ledgers
  /\ lastIngested \in 0..MaxLedger /\ ingestVersion \in Nat
  /\ history \subseteq Ledgers
  /\ state \in 0..Corrupt /\ stateVersion \in Nat
ControlTypeOK ==
  /\ pc \in [Procs -> NodeStates \cup CmdStates]
  /\ \A n \in Nodes : pc[n] \in NodeStates
  /\ \A c \in Cmds : pc[c] \in CmdStates
  /\ arg \in [Procs -> 0..MaxLedger] /\ to \in [Procs -> 0..MaxLedger]
  /\ cur \in [Procs -> Nat]
TxTypeOK ==
  /\ lock \in Procs \cup {None}
  /\ ins \in [Procs -> SUBSET Ledgers] /\ del \in [Procs -> SUBSET Ledgers]
  /\ force \in [Cmds -> BOOLEAN] /\ retries \in [Cmds -> Nat]
  /\ commanded \subseteq Ledgers /\ faults \in 0..MaxFaults

TypeOK == DbTypeOK /\ ControlTypeOK /\ TxTypeOK

\* The state tables always describe exactly the ledger that
\* exp_ingest_last_ledger names, written by the version exp_ingest_version
\* names (unless an operator zeroed it), whatever instances, commands, crashes
\* and lost commits do: no ledger is skipped, none is applied twice, none by
\* another version's processors.
StateMatchesLastIngested ==
  lastIngested > 0 =>
    state = lastIngested /\ ingestVersion \in {stateVersion, 0}

\* The state machine itself leaves no hole in history_ledgers: the ledger
\* before an ingested one is missing only if a reingestion was asked to write
\* it or the ledger itself, or if all older ledgers come from reingestions
\* (history started above them).
NoUncommandedGap ==
  \A l \in history \ commanded :
    \/ l - 1 \in history \cup commanded
    \/ \A k \in history : k < l => k \in commanded

\* exp_ingest_last_ledger moves to the next ledger, is reset to 0 to force a
\* rebuild, or leaves 0 or an outdated version for a published checkpoint.
LastIngestedStep ==
  \/ lastIngested' \in {lastIngested, lastIngested + 1, 0}
  \/ /\ lastIngested = 0 \/ ingestVersion' # ingestVersion
     /\ IsBuildLedger(lastIngested') /\ lastIngested' <= checkpoint

LastIngestedSteps == [][LastIngestedStep]_vars

\* After the last fault, and whatever the commands left behind, the cluster
\* brings the state tables to the network's last ledger and keeps them there:
\* no instance waits forever for a lock, a checkpoint or a catch-up that never
\* comes, and the resets of StartReset come to an end.
CatchesUp == <>[](lastIngested = MaxLedger)

\* An instance that finds a newer exp_ingest_version terminates instead of
\* writing, so the version in the database only goes down when an operator
\* zeroes it to trigger a rebuild.
VersionNeverLowered == [][ingestVersion' >= ingestVersion \/ ingestVersion' = 0]_vars

-----------------------------------------------------------------------------
(* What the readers of the database see.                                   *)

LatestHistory == CHOOSE m \in 0..MaxLedger : GetLatestHistoryLedger(m)

Readers == INSTANCE HistoryTables WITH latestHistory <- LatestHistory

\* The readers of the database may rely on HistoryTables, and so on
\* IngestedState: every commit of an instance or a command, seen or not by the
\* client, ingests one ledger on top of the one before, replaces the state by
\* that of a build ledger, gives the state up because history is ahead of it,
\* or writes a range of history only.  None but a forced reingestion that
\* fails takes ledgers away, and none below those it has written.
ImplementsHistoryTables == Readers!HistorySpec

-----------------------------------------------------------------------------
(* The inductive invariant behind the properties above.                    *)

\* A transaction of the state machine that writes holds the row lock: "only
\* one instance will be able to acquire it".
LeaderHoldsLock ==
  \A p \in Procs :
    pc[p] \in {"buildTx", "resumeTx", "historyRangeTx"} => lock = p

\* What the parameters of a state are worth: checkpoints are published ones,
\* and neither of the "unexpected value" errors of run() can happen.
ParametersValid ==
  /\ IsCheckpoint(checkpoint)
  /\ \A p \in Procs :
       /\ pc[p] \in {"build", "buildTx"} =>
            arg[p] > 0 /\ IsBuildLedger(arg[p]) /\ arg[p] <= checkpoint
       /\ pc[p] \in {"resume", "resumeTx"} => arg[p] > 0
       /\ pc[p] \in {"historyRange", "historyRangeTx"} => arg[p] > 1
       /\ pc[p] \in {"historyRangeTx", "reingestTx"} => arg[p] <= cur[p]

\* What BuildBegin and ResumeBegin checked still holds when they write.
ChecksHold ==
  /\ \A p \in Procs : pc[p] = "buildTx" =>
       ingestVersion # Version[p] \/ lastIngested = 0
  /\ \A n \in Nodes : pc[n] = "resumeTx" =>
       /\ arg[n] = lastIngested /\ arg[n] + 1 <= network
       /\ ingestVersion \in {Version[n], 0} /\ stateVersion = Version[n]

\* Uncommitted rows: only commands delete, they touch only what they were
\* asked to write, and a catch-up holds the flushed prefix of its range.
RowsOwned ==
  /\ \A c \in Cmds :
       /\ ins[c] \cup del[c] \subseteq commanded
       /\ pc[c] \in {"reingest", "reingestReady", "reingestTx", "reingestFailed"}
            => arg[c]..to[c] \subseteq commanded
  /\ \A n \in Nodes :
       /\ del[n] = {}
       /\ pc[n] # "historyRangeTx" => ins[n] = {}
       /\ pc[n] = "historyRangeTx" => ins[n] = {l \in arg[n]..to[n] : l < cur[n]}

\* The leader writes on top of everything that no command wrote.
LeaderExtendsHistory ==
  \A n \in Nodes :
    /\ pc[n] = "resumeTx" =>
         /\ \A l \in history \ commanded : l <= arg[n]
         /\ arg[n] \in history \cup commanded \/ history \subseteq commanded
    /\ pc[n] = "historyRangeTx" =>
         /\ \A l \in history \ commanded : l < arg[n]
         /\ arg[n] - 1 \in history \cup commanded

\* A reingestion has deleted inside its range and flushed a prefix of it.
RowsInRange(c) ==
  /\ pc[c] \in {"reingest", "reingestReady", "reingestTx", "reingestFailed"} =>
       1 < arg[c] /\ arg[c] <= to[c]
  /\ pc[c] # "reingestTx" => ins[c] = {}
  /\ pc[c] = "reingestTx" =>
       /\ ins[c] = {l \in arg[c]..to[c] : l < cur[c]}
       /\ del[c] \subseteq arg[c]..to[c]

CommandRows == \A c \in Cmds : RowsInRange(c)

IInv ==
  /\ TypeOK /\ LeaderHoldsLock /\ ParametersValid /\ ChecksHold
  /\ RowsOwned /\ LeaderExtendsHistory
  /\ StateMatchesLastIngested /\ NoUncommandedGap
=============================================================================
