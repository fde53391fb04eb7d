-------------------------- MODULE IngestionProofs --------------------------
\* What holds of Ingestion for every value of its constants: the rest of the
\* inductive invariant (historyRange, the commands, crashes) and the theorems.
EXTENDS IngestionNodeProofs, WellFoundedInduction

USE IngestionAssumption
    DEF Procs, Ledgers, Corrupt, dbVars, envVars, txVars, cmdVars

\* A batch to flush lies in the range it was asked for.
LEMMA FlushedInRange ==
  ASSUME IInv, NEW p \in Procs, pc[p] \in {"historyRangeTx", "reingestTx"}
  PROVE  Batch(p) \subseteq arg[p]..to[p] /\ arg[p]..to[p] \subseteq Int
BY DEF IInv, TypeOK, DbTypeOK, ControlTypeOK, ParametersValid, Batch

\* Committing the flushed prefix of a catch-up extends history from the
\* ledger that was its latest, so it opens no gap.
LEMMA CatchUpClosesGap ==
  ASSUME IInv, NEW n \in Nodes, pc[n] = "historyRangeTx",
         history' = history \cup ins[n], UNCHANGED commanded
  PROVE  NoUncommandedGap'
<1> DEFINE first == arg[n]
<1>1. ins[n] = {l \in first..to[n] : l < cur[n]} /\ first \in Int /\ to[n] \in Int /\ cur[n] \in Int
  BY DEF IInv, TypeOK, ControlTypeOK, RowsOwned
<1>2. /\ \A l \in history \ commanded : l < first
      /\ first - 1 \in history \cup commanded
  BY DEF IInv, LeaderExtendsHistory
<1>3. history \subseteq Int
  BY DEF IInv, TypeOK, DbTypeOK
<1> SUFFICES ASSUME NEW l \in (history \cup ins[n]) \ commanded
             PROVE  \/ l - 1 \in history \cup ins[n] \cup commanded
                    \/ \A k \in history \cup ins[n] : k < l => k \in commanded
  BY DEF NoUncommandedGap
<1> HIDE DEF first
<1>4. CASE l \in history
  <2>1. \A k \in ins[n] : ~ (k < l)
    BY <1>1, <1>2, <1>3, <1>4
  <2> QED
    BY <1>4, <2>1 DEF IInv, NoUncommandedGap
<1>5. CASE l \in ins[n] /\ l = first
  BY <1>2, <1>5
<1>6. CASE l \in ins[n] /\ l # first
  <2>1. l - 1 \in ins[n]
    BY <1>1, <1>6
  <2> QED
    BY <2>1
<1> QED
  BY <1>4, <1>5, <1>6

\* The rows a command commits are rows it was asked to write.
LEMMA CommandCommits ==
  ASSUME IInv, NEW c \in Cmds, CommitRows(c)
  PROVE  /\ history' \subseteq Ledgers
         /\ \A l \in Ledgers \ commanded : l \in history' <=> l \in history
<1>1. ins[c] \subseteq commanded /\ del[c] \subseteq commanded
  BY DEF IInv, RowsOwned
<1>2. ins[c] \subseteq Ledgers /\ history \subseteq Ledgers
  BY DEF IInv, TypeOK, DbTypeOK, TxTypeOK
<1>3. history' = (history \ del[c]) \cup ins[c]
  BY DEF CommitRows
<1> QED
  BY <1>1, <1>2, <1>3, Zenon

\* historyRangeState.run up to its check under the row lock.
LEMMA HistoryRangeBeginStep ==
  ASSUME IInv, NEW n \in Nodes, HistoryRangeBegin(n)
  PROVE  IInv'
<1>1. TypeOK'
  <2>1. DbTypeOK'
    BY DEF IInv, TypeOK, DbTypeOK, ControlTypeOK, TxTypeOK,
       ParametersValid, ChecksHold, HistoryRangeBegin
  <2>2. ControlTypeOK'
    BY DEF IInv, TypeOK, DbTypeOK, ControlTypeOK, NodeStates, CmdStates,
       ParametersValid, ChecksHold, HistoryRangeBegin, Goto
  <2>3. TxTypeOK'
    BY DEF IInv, TypeOK, DbTypeOK, ControlTypeOK, TxTypeOK, HistoryRangeBegin
  <2> QED
    BY <2>1, <2>2, <2>3 DEF TypeOK
<1>2. LeaderHoldsLock'
  BY DEF IInv, LeaderHoldsLock, TypeOK, DbTypeOK, ControlTypeOK, TxTypeOK,
     NodeStates, CmdStates, HistoryRangeBegin, Goto
<1>3. ParametersValid'
  BY DEF IInv, ParametersValid, TypeOK, DbTypeOK, ControlTypeOK, TxTypeOK,
     NodeStates, CmdStates, HistoryRangeBegin, Goto
<1>4. ChecksHold'
  BY DEF IInv, ChecksHold, TypeOK, DbTypeOK, ControlTypeOK, TxTypeOK,
     NodeStates, CmdStates, LeaderHoldsLock, HistoryRangeBegin, Goto
<1>5. RowsOwned'
  BY DEF IInv, RowsOwned, TypeOK, DbTypeOK, ControlTypeOK, TxTypeOK,
     NodeStates, CmdStates, HistoryRangeBegin, Goto
<1>6. LeaderExtendsHistory'
  BY DEF IInv, LeaderExtendsHistory, TypeOK, DbTypeOK, ControlTypeOK,
     TxTypeOK, NodeStates, CmdStates, LeaderHoldsLock, RowsOwned,
     ParametersValid, GetLatestHistoryLedger, HistoryRangeBegin, Goto
<1>7. StateMatchesLastIngested'
  BY DEF IInv, StateMatchesLastIngested, TypeOK, DbTypeOK, ControlTypeOK,
     TxTypeOK, ParametersValid, ChecksHold, HistoryRangeBegin, Goto
<1>8. NoUncommandedGap'
  BY DEF IInv, NoUncommandedGap, TypeOK, DbTypeOK, ControlTypeOK,
     TxTypeOK, RowsOwned, LeaderExtendsHistory, ChecksHold,
     HistoryRangeBegin, Goto
<1> QED
  BY <1>1, <1>2, <1>3, <1>4, <1>5, <1>6, <1>7, <1>8 DEF IInv

\* A batch of history rows is flushed into the open transaction.
LEMMA FlushBatchStep ==
  ASSUME IInv, NEW p \in Procs, FlushBatch(p)
  PROVE  IInv'
<1>1. TypeOK'
  <2>1. DbTypeOK'
    BY DEF IInv, TypeOK, DbTypeOK, ControlTypeOK, TxTypeOK,
       ParametersValid, ChecksHold, FlushBatch, Batch
  <2>2. ControlTypeOK'
    BY DEF IInv, TypeOK, DbTypeOK, ControlTypeOK, NodeStates, CmdStates,
       ParametersValid, ChecksHold, FlushBatch, Batch, Goto
  <2>3. TxTypeOK'
    <3>1. Batch(p) \subseteq Ledgers
      <4>1. CASE p \in Nodes
        BY <4>1, FlushedInRange
        DEF IInv, TypeOK, DbTypeOK, ControlTypeOK, TxTypeOK, NodeStates, ParametersValid, FlushBatch
      <4>2. CASE p \in Cmds
        BY <4>2, FlushedInRange DEF IInv, TypeOK, DbTypeOK,
           ControlTypeOK, TxTypeOK, CmdStates, RowsOwned, FlushBatch
      <4> QED
        BY <4>1, <4>2
    <3> QED
      BY <3>1 DEF IInv, TypeOK, DbTypeOK, ControlTypeOK, TxTypeOK, FlushBatch
  <2> QED
    BY <2>1, <2>2, <2>3 DEF TypeOK
<1>2. LeaderHoldsLock'
  BY DEF IInv, LeaderHoldsLock, TypeOK, DbTypeOK, ControlTypeOK, TxTypeOK,
     NodeStates, CmdStates, FlushBatch, Batch
<1>3. ParametersValid'
  BY DEF IInv, ParametersValid, TypeOK, DbTypeOK, ControlTypeOK, TxTypeOK,
     NodeStates, CmdStates, FlushBatch, Batch
<1>4. ChecksHold'
  BY DEF IInv, ChecksHold, TypeOK, DbTypeOK, ControlTypeOK, TxTypeOK,
     NodeStates, CmdStates, LeaderHoldsLock, FlushBatch, Batch
<1>5. RowsOwned'
  <2>1. UNCHANGED <<del, commanded, pc, arg, to>>
    BY DEF FlushBatch
  <2>2. \A q \in Procs \ {p} : UNCHANGED <<ins[q], cur[q]>>
    BY DEF IInv, TypeOK, DbTypeOK, ControlTypeOK, TxTypeOK, FlushBatch
  <2>3. ins'[p] = ins[p] \cup Batch(p) /\ cur'[p] = cur[p] + MaxLedgerPerFlush
    BY DEF IInv, TypeOK, DbTypeOK, ControlTypeOK, TxTypeOK, FlushBatch
  <2>4. CASE p \in Cmds
    <3>1. pc[p] = "reingestTx"
      BY <2>4 DEF IInv, TypeOK, DbTypeOK, ControlTypeOK, TxTypeOK,
         CmdStates, FlushBatch
    <3>2. Batch(p) \subseteq commanded
      BY <2>4, <3>1, FlushedInRange DEF IInv, RowsOwned, FlushBatch
    <3> QED
      BY <2>1, <2>2, <2>3, <2>4, <3>2 DEF IInv, TypeOK, DbTypeOK,
         ControlTypeOK, TxTypeOK, RowsOwned
  <2>5. CASE p \in Nodes
    <3>1. pc[p] = "historyRangeTx"
      BY <2>5 DEF IInv, TypeOK, DbTypeOK, ControlTypeOK, TxTypeOK,
         NodeStates, FlushBatch
    <3>2. ins'[p] = {l \in arg[p]..to[p] : l < cur'[p]}
      BY <2>3, <2>5, <3>1 DEF IInv, TypeOK, DbTypeOK, ControlTypeOK,
         TxTypeOK, RowsOwned, ParametersValid, Batch
    <3> QED
      BY <2>1, <2>2, <2>5, <3>1, <3>2, SMTT(20) DEF IInv, TypeOK, DbTypeOK,
         ControlTypeOK, TxTypeOK, RowsOwned
  <2> QED
    BY <2>4, <2>5
<1>6. LeaderExtendsHistory'
  BY DEF IInv, LeaderExtendsHistory, TypeOK, DbTypeOK, ControlTypeOK,
     TxTypeOK, NodeStates, CmdStates, LeaderHoldsLock, RowsOwned,
     ParametersValid, GetLatestHistoryLedger, FlushBatch, Batch
<1>7. StateMatchesLastIngested'
  BY DEF IInv, StateMatchesLastIngested, TypeOK, DbTypeOK, ControlTypeOK,
     TxTypeOK, ParametersValid, ChecksHold, FlushBatch, Batch
<1>8. NoUncommandedGap'
  BY DEF IInv, NoUncommandedGap, TypeOK, DbTypeOK, ControlTypeOK,
     TxTypeOK, RowsOwned, LeaderExtendsHistory, ChecksHold, FlushBatch,
     Batch
<1> QED
  BY <1>1, <1>2, <1>3, <1>4, <1>5, <1>6, <1>7, <1>8 DEF IInv

\* historyRangeState.run commits its whole range.
LEMMA HistoryRangeCommitStep ==
  ASSUME IInv, NEW n \in Nodes, HistoryRangeCommit(n)
  PROVE  IInv'
<1>1. TypeOK'
  <2>1. DbTypeOK'
    BY Zenon DEF IInv, TypeOK, DbTypeOK, ControlTypeOK, TxTypeOK,
       ParametersValid, ChecksHold, HistoryRangeCommit, CommitRows,
       EndTx
  <2>2. ControlTypeOK'
    BY DEF IInv, TypeOK, DbTypeOK, ControlTypeOK, NodeStates, CmdStates,
       ParametersValid, ChecksHold, HistoryRangeCommit, CommitRows,
       EndTx, Goto
  <2>3. TxTypeOK'
    BY DEF IInv, TypeOK, DbTypeOK, ControlTypeOK, TxTypeOK,
       HistoryRangeCommit, CommitRows, EndTx
  <2> QED
    BY <2>1, <2>2, <2>3 DEF TypeOK
<1>2. LeaderHoldsLock'
  BY DEF IInv, LeaderHoldsLock, TypeOK, DbTypeOK, ControlTypeOK, TxTypeOK,
     NodeStates, CmdStates, HistoryRangeCommit, Goto, CommitRows, EndTx
<1>3. ParametersValid'
  BY DEF IInv, ParametersValid, TypeOK, DbTypeOK, ControlTypeOK, TxTypeOK,
     NodeStates, CmdStates, HistoryRangeCommit, Goto, CommitRows, EndTx
<1>4. ChecksHold'
  BY DEF IInv, ChecksHold, TypeOK, DbTypeOK, ControlTypeOK, TxTypeOK,
     NodeStates, CmdStates, LeaderHoldsLock, HistoryRangeCommit, Goto,
     CommitRows, EndTx
<1>5. RowsOwned'
  BY DEF IInv, RowsOwned, TypeOK, DbTypeOK, ControlTypeOK, TxTypeOK,
     NodeStates, CmdStates, HistoryRangeCommit, Goto, CommitRows, EndTx
<1>6. LeaderExtendsHistory'
  BY DEF IInv, LeaderExtendsHistory, TypeOK, DbTypeOK, ControlTypeOK,
     TxTypeOK, NodeStates, CmdStates, LeaderHoldsLock, RowsOwned,
     ParametersValid, GetLatestHistoryLedger, HistoryRangeCommit, Goto,
     CommitRows, EndTx
<1>7. StateMatchesLastIngested'
  BY DEF IInv, StateMatchesLastIngested, TypeOK, DbTypeOK, ControlTypeOK,
     TxTypeOK, ParametersValid, ChecksHold, HistoryRangeCommit, Goto,
     CommitRows, EndTx
<1>8. NoUncommandedGap'
  <2>1. history' = history \cup ins[n] /\ UNCHANGED commanded
    BY DEF IInv, RowsOwned, HistoryRangeCommit, CommitRows
  <2> QED
    BY <2>1, CatchUpClosesGap DEF HistoryRangeCommit
<1> QED
  BY <1>1, <1>2, <1>3, <1>4, <1>5, <1>6, <1>7, <1>8 DEF IInv

\* historyRangeState.run commits what it has when the backend fails.
LEMMA HistoryRangePartialStep ==
  ASSUME IInv, NEW n \in Nodes, HistoryRangePartial(n)
  PROVE  IInv'
<1>1. TypeOK'
  <2>1. DbTypeOK'
    BY Zenon DEF IInv, TypeOK, DbTypeOK, ControlTypeOK, TxTypeOK,
       ParametersValid, ChecksHold, HistoryRangePartial, CommitRows,
       EndTx, Fault
  <2>2. ControlTypeOK'
    BY DEF IInv, TypeOK, DbTypeOK, ControlTypeOK, NodeStates, CmdStates,
       ParametersValid, ChecksHold, HistoryRangePartial, CommitRows,
       EndTx, Fault, Goto
  <2>3. TxTypeOK'
    BY DEF IInv, TypeOK, DbTypeOK, ControlTypeOK, TxTypeOK,
       HistoryRangePartial, CommitRows, EndTx, Fault
  <2> QED
    BY <2>1, <2>2, <2>3 DEF TypeOK
<1>2. LeaderHoldsLock'
  BY DEF IInv, LeaderHoldsLock, TypeOK, DbTypeOK, ControlTypeOK, TxTypeOK,
     NodeStates, CmdStates, HistoryRangePartial, Goto, CommitRows, EndTx,
     Fault
<1>3. ParametersValid'
  BY DEF IInv, ParametersValid, TypeOK, DbTypeOK, ControlTypeOK, TxTypeOK,
     NodeStates, CmdStates, HistoryRangePartial, Goto, CommitRows, EndTx,
     Fault
<1>4. ChecksHold'
  BY DEF IInv, ChecksHold, TypeOK, DbTypeOK, ControlTypeOK, TxTypeOK,
     NodeStates, CmdStates, LeaderHoldsLock, HistoryRangePartial, Goto,
     CommitRows, EndTx, Fault
<1>5. RowsOwned'
  BY DEF IInv, RowsOwned, TypeOK, DbTypeOK, ControlTypeOK, TxTypeOK,
     NodeStates, CmdStates, HistoryRangePartial, Goto, CommitRows, EndTx,
     Fault
<1>6. LeaderExtendsHistory'
  BY DEF IInv, LeaderExtendsHistory, TypeOK, DbTypeOK, ControlTypeOK,
     TxTypeOK, NodeStates, CmdStates, LeaderHoldsLock, RowsOwned,
     ParametersValid, GetLatestHistoryLedger, HistoryRangePartial, Goto,
     CommitRows, EndTx, Fault
<1>7. StateMatchesLastIngested'
  BY DEF IInv, StateMatchesLastIngested, TypeOK, DbTypeOK, ControlTypeOK,
     TxTypeOK, ParametersValid, ChecksHold, HistoryRangePartial, Goto,
     CommitRows, EndTx, Fault
<1>8. NoUncommandedGap'
  <2>1. history' = history \cup ins[n] /\ UNCHANGED commanded
    BY DEF IInv, RowsOwned, HistoryRangePartial, CommitRows
  <2> QED
    BY <2>1, CatchUpClosesGap DEF HistoryRangePartial
<1> QED
  BY <1>1, <1>2, <1>3, <1>4, <1>5, <1>6, <1>7, <1>8 DEF IInv

\* historyRangeState.run finds a history row taken.
LEMMA HistoryRangeConflictStep ==
  ASSUME IInv, NEW n \in Nodes, HistoryRangeConflict(n)
  PROVE  IInv'
<1>1. Moves(n, "start", 0, 0)
  BY DEF Moves, IInv, TypeOK, DbTypeOK, ControlTypeOK, TxTypeOK, NodeStates, CmdStates,
     RowsOwned, ParametersValid, HistoryRangeConflict
<1> QED
  BY <1>1, MovesPreserve

\* historyRangeState.run fails and rolls back.
LEMMA HistoryRangeFailStep ==
  ASSUME IInv, NEW n \in Nodes, HistoryRangeFail(n)
  PROVE  IInv'
<1>1. Moves(n, "start", 0, 0)
  BY DEF Moves, IInv, TypeOK, DbTypeOK, ControlTypeOK, TxTypeOK, NodeStates, CmdStates,
     RowsOwned, ParametersValid, HistoryRangeFail, Fault
<1> QED
  BY <1>1, MovesPreserve

\* An operator starts a reingestion.
LEMMA RunReingestStep ==
  ASSUME IInv, NEW c \in Cmds, RunReingest(c)
  PROVE  IInv'
<1>1. TypeOK'
  <2>1. DbTypeOK'
    BY DEF IInv, TypeOK, DbTypeOK, ControlTypeOK, TxTypeOK,
       ParametersValid, ChecksHold, RunReingest
  <2>2. ControlTypeOK'
    BY DEF IInv, TypeOK, DbTypeOK, ControlTypeOK, NodeStates, CmdStates,
       ParametersValid, ChecksHold, RunReingest, Goto
  <2>3. TxTypeOK'
    <3>1. PICK r \in Ranges : commanded' = commanded \cup (IF r.from = 1 THEN 2 ELSE r.from)..r.to
                              /\ force' = [force EXCEPT ![c] = r.force]
      BY Zenon DEF RunReingest
    <3>2. r.from \in Ledgers /\ r.to \in Ledgers /\ r.force \in BOOLEAN
      BY <3>1
    <3>3. (IF r.from = 1 THEN 2 ELSE r.from)..r.to \subseteq Ledgers
      BY <3>2
    <3>4. commanded' \subseteq Ledgers
      BY <3>1, <3>3, Zenon DEF IInv, TypeOK, DbTypeOK, ControlTypeOK, TxTypeOK
    <3> QED
      BY <3>1, <3>2, <3>4 DEF IInv, TypeOK, DbTypeOK, ControlTypeOK,
         TxTypeOK, RunReingest
  <2> QED
    BY <2>1, <2>2, <2>3 DEF TypeOK
<1>2. LeaderHoldsLock'
  BY DEF IInv, LeaderHoldsLock, TypeOK, DbTypeOK, ControlTypeOK, TxTypeOK,
     NodeStates, CmdStates, RunReingest, Goto
<1>3. ParametersValid'
  BY DEF IInv, ParametersValid, TypeOK, DbTypeOK, ControlTypeOK, TxTypeOK,
     NodeStates, CmdStates, RunReingest, Goto
<1>4. ChecksHold'
  BY DEF IInv, ChecksHold, TypeOK, DbTypeOK, ControlTypeOK, TxTypeOK,
     NodeStates, CmdStates, LeaderHoldsLock, RunReingest, Goto
<1>5. RowsOwned'
  BY DEF IInv, RowsOwned, TypeOK, DbTypeOK, ControlTypeOK, TxTypeOK,
     NodeStates, CmdStates, RunReingest, Goto
<1>6. LeaderExtendsHistory'
  BY SMTT(20) DEF IInv, LeaderExtendsHistory, TypeOK, DbTypeOK, ControlTypeOK,
     TxTypeOK, NodeStates, CmdStates, LeaderHoldsLock, RowsOwned,
     ParametersValid, GetLatestHistoryLedger, RunReingest, Goto
<1>7. StateMatchesLastIngested'
  BY DEF IInv, StateMatchesLastIngested, TypeOK, DbTypeOK, ControlTypeOK,
     TxTypeOK, ParametersValid, ChecksHold, RunReingest, Goto
<1>8. NoUncommandedGap'
  BY Zenon DEF IInv, NoUncommandedGap, TypeOK, DbTypeOK, ControlTypeOK,
     TxTypeOK, RowsOwned, LeaderExtendsHistory, ChecksHold, RunReingest,
     Goto
<1> QED
  BY <1>1, <1>2, <1>3, <1>4, <1>5, <1>6, <1>7, <1>8 DEF IInv

\* An operator starts build-state or init-genesis-state.
LEMMA RunBuildStateStep ==
  ASSUME IInv, NEW c \in Cmds, RunBuildState(c)
  PROVE  IInv'
<1>1. TypeOK'
  <2>1. DbTypeOK'
    BY DEF IInv, TypeOK, DbTypeOK, ControlTypeOK, TxTypeOK,
       ParametersValid, ChecksHold, RunBuildState
  <2>2. ControlTypeOK'
    BY DEF IInv, TypeOK, DbTypeOK, ControlTypeOK, NodeStates, CmdStates,
       ParametersValid, ChecksHold, RunBuildState, Goto
  <2>3. TxTypeOK'
    BY DEF IInv, TypeOK, DbTypeOK, ControlTypeOK, TxTypeOK, RunBuildState
  <2> QED
    BY <2>1, <2>2, <2>3 DEF TypeOK
<1>2. LeaderHoldsLock'
  BY DEF IInv, LeaderHoldsLock, TypeOK, DbTypeOK, ControlTypeOK, TxTypeOK,
     NodeStates, CmdStates, RunBuildState, Goto
<1>3. ParametersValid'
  BY DEF IInv, ParametersValid, TypeOK, DbTypeOK, ControlTypeOK, TxTypeOK,
     NodeStates, CmdStates, RunBuildState, Goto
<1>4. ChecksHold'
  BY DEF IInv, ChecksHold, TypeOK, DbTypeOK, ControlTypeOK, TxTypeOK,
     NodeStates, CmdStates, LeaderHoldsLock, RunBuildState, Goto
<1>5. RowsOwned'
  BY DEF IInv, RowsOwned, TypeOK, DbTypeOK, ControlTypeOK, TxTypeOK,
     NodeStates, CmdStates, RunBuildState, Goto
<1>6. LeaderExtendsHistory'
  BY Zenon DEF IInv, LeaderExtendsHistory, TypeOK, DbTypeOK, ControlTypeOK,
     TxTypeOK, NodeStates, CmdStates, LeaderHoldsLock, RowsOwned,
     ParametersValid, GetLatestHistoryLedger, RunBuildState, Goto
<1>7. StateMatchesLastIngested'
  BY DEF IInv, StateMatchesLastIngested, TypeOK, DbTypeOK, ControlTypeOK,
     TxTypeOK, ParametersValid, ChecksHold, RunBuildState, Goto
<1>8. NoUncommandedGap'
  BY Zenon DEF IInv, NoUncommandedGap, TypeOK, DbTypeOK, ControlTypeOK,
     TxTypeOK, RowsOwned, LeaderExtendsHistory, ChecksHold, RunBuildState,
     Goto
<1> QED
  BY <1>1, <1>2, <1>3, <1>4, <1>5, <1>6, <1>7, <1>8 DEF IInv

\* An operator runs trigger-state-rebuild.
LEMMA RunTriggerStateRebuildStep ==
  ASSUME IInv, NEW c \in Cmds, RunTriggerStateRebuild(c)
  PROVE  IInv'
<1>1. TypeOK'
  <2>1. DbTypeOK'
    BY DEF IInv, TypeOK, DbTypeOK, ControlTypeOK, TxTypeOK,
       ParametersValid, ChecksHold, RunTriggerStateRebuild
  <2>2. ControlTypeOK'
    BY DEF IInv, TypeOK, DbTypeOK, ControlTypeOK, NodeStates, CmdStates,
       ParametersValid, ChecksHold, RunTriggerStateRebuild, Goto
  <2>3. TxTypeOK'
    BY DEF IInv, TypeOK, DbTypeOK, ControlTypeOK, TxTypeOK,
       RunTriggerStateRebuild
  <2> QED
    BY <2>1, <2>2, <2>3 DEF TypeOK
<1>2. LeaderHoldsLock'
  BY DEF IInv, LeaderHoldsLock, TypeOK, DbTypeOK, ControlTypeOK, TxTypeOK,
     NodeStates, CmdStates, RunTriggerStateRebuild, Goto
<1>3. ParametersValid'
  BY DEF IInv, ParametersValid, TypeOK, DbTypeOK, ControlTypeOK, TxTypeOK,
     NodeStates, CmdStates, RunTriggerStateRebuild, Goto
<1>4. ChecksHold'
  BY DEF IInv, ChecksHold, TypeOK, DbTypeOK, ControlTypeOK, TxTypeOK,
     NodeStates, CmdStates, LeaderHoldsLock, RunTriggerStateRebuild, Goto
<1>5. RowsOwned'
  BY DEF IInv, RowsOwned, TypeOK, DbTypeOK, ControlTypeOK, TxTypeOK,
     NodeStates, CmdStates, RunTriggerStateRebuild, Goto
<1>6. LeaderExtendsHistory'
  BY Zenon DEF IInv, LeaderExtendsHistory, TypeOK, DbTypeOK, ControlTypeOK,
     TxTypeOK, NodeStates, CmdStates, LeaderHoldsLock, RowsOwned,
     ParametersValid, GetLatestHistoryLedger, RunTriggerStateRebuild, Goto
<1>7. StateMatchesLastIngested'
  BY DEF IInv, StateMatchesLastIngested, TypeOK, DbTypeOK, ControlTypeOK,
     TxTypeOK, ParametersValid, ChecksHold, RunTriggerStateRebuild, Goto
<1>8. NoUncommandedGap'
  BY Zenon DEF IInv, NoUncommandedGap, TypeOK, DbTypeOK, ControlTypeOK,
     TxTypeOK, RowsOwned, LeaderExtendsHistory, ChecksHold,
     RunTriggerStateRebuild, Goto
<1> QED
  BY <1>1, <1>2, <1>3, <1>4, <1>5, <1>6, <1>7, <1>8 DEF IInv

\* reingestHistoryRangeState.run: the check without a lock.
LEMMA ReingestCheckStep ==
  ASSUME IInv, NEW c \in Cmds, ReingestCheck(c)
  PROVE  IInv'
<1>1. Moves(c, "reingestFailed", arg[c], to[c]) \/ Moves(c, "reingestReady", arg[c], to[c])
  BY Zenon DEF Moves, IInv, TypeOK, DbTypeOK, ControlTypeOK, TxTypeOK, NodeStates, CmdStates,
     RowsOwned, ParametersValid, ReingestCheck
<1> QED
  BY <1>1, MovesPreserve

\* reingestHistoryRangeState.run with force: prepareRange comes first.
LEMMA ReingestPrepareForceStep ==
  ASSUME IInv, NEW c \in Cmds, ReingestPrepareForce(c)
  PROVE  IInv'
<1>1. Moves(c, "reingestFailed", arg[c], to[c]) \/ Moves(c, "reingestReady", arg[c], to[c])
  BY Zenon DEF Moves, IInv, TypeOK, DbTypeOK, ControlTypeOK, TxTypeOK, NodeStates, CmdStates,
     RowsOwned, ParametersValid, ReingestPrepareForce
<1> QED
  BY <1>1, MovesPreserve

\* Begin, the row lock if forced, and DeleteRangeAll.
LEMMA ReingestBeginStep ==
  ASSUME IInv, NEW c \in Cmds, ReingestBegin(c)
  PROVE  IInv'
<1>1. TypeOK'
  <2>1. DbTypeOK'
    BY DEF IInv, TypeOK, DbTypeOK, ControlTypeOK, TxTypeOK,
       ParametersValid, ChecksHold, ReingestBegin
  <2>2. ControlTypeOK'
    BY SMTT(20) DEF IInv, TypeOK, DbTypeOK, ControlTypeOK, NodeStates, CmdStates,
       ParametersValid, ChecksHold, ReingestBegin, Goto
  <2>3. TxTypeOK'
    BY DEF IInv, TypeOK, DbTypeOK, ControlTypeOK, TxTypeOK, ReingestBegin
  <2> QED
    BY <2>1, <2>2, <2>3 DEF TypeOK
<1>2. LeaderHoldsLock'
  BY DEF IInv, LeaderHoldsLock, TypeOK, DbTypeOK, ControlTypeOK, TxTypeOK,
     NodeStates, CmdStates, ReingestBegin, Goto
<1>3. ParametersValid'
  BY SMTT(20) DEF IInv, ParametersValid, TypeOK, DbTypeOK, ControlTypeOK, TxTypeOK,
     NodeStates, CmdStates, ReingestBegin, Goto
<1>4. ChecksHold'
  BY Zenon DEF IInv, ChecksHold, TypeOK, DbTypeOK, ControlTypeOK, TxTypeOK,
     NodeStates, CmdStates, LeaderHoldsLock, ReingestBegin, Goto
<1>5. RowsOwned'
  BY Zenon DEF IInv, RowsOwned, TypeOK, DbTypeOK, ControlTypeOK, TxTypeOK,
     NodeStates, CmdStates, ReingestBegin, Goto
<1>6. LeaderExtendsHistory'
  BY Zenon DEF IInv, LeaderExtendsHistory, TypeOK, DbTypeOK, ControlTypeOK,
     TxTypeOK, NodeStates, CmdStates, LeaderHoldsLock, RowsOwned,
     ParametersValid, GetLatestHistoryLedger, ReingestBegin, Goto
<1>7. StateMatchesLastIngested'
  BY Zenon DEF IInv, StateMatchesLastIngested, TypeOK, DbTypeOK, ControlTypeOK,
     TxTypeOK, ParametersValid, ChecksHold, ReingestBegin, Goto
<1>8. NoUncommandedGap'
  BY Zenon DEF IInv, NoUncommandedGap, TypeOK, DbTypeOK, ControlTypeOK,
     TxTypeOK, RowsOwned, LeaderExtendsHistory, ChecksHold, ReingestBegin,
     Goto
<1> QED
  BY <1>1, <1>2, <1>3, <1>4, <1>5, <1>6, <1>7, <1>8 DEF IInv

\* reingestHistoryRangeState.run commits its range.
LEMMA ReingestCommitStep ==
  ASSUME IInv, NEW c \in Cmds, ReingestCommit(c)
  PROVE  IInv'
<1>1. /\ history' \subseteq Ledgers
      /\ \A l \in Ledgers \ commanded : l \in history' <=> l \in history
  BY CommandCommits DEF ReingestCommit
<1>2. arg[c]..to[c] \subseteq commanded
  BY DEF IInv, RowsOwned, ReingestCommit
<1>3. Moves(c, "done", 0, 0) \/ Moves(c, "reingestFailed", arg[c], to[c])
  BY <1>1, <1>2, SMTT(20) DEF Moves, IInv, TypeOK, ControlTypeOK, TxTypeOK, CmdStates,
     ReingestCommit, CommitRows, Fault
<1> QED
  BY <1>3, MovesPreserve, Zenon

\* A forced reingestion commits what it has.
LEMMA ReingestPartialStep ==
  ASSUME IInv, NEW c \in Cmds, ReingestPartial(c)
  PROVE  IInv'
<1>1. /\ history' \subseteq Ledgers
      /\ \A l \in Ledgers \ commanded : l \in history' <=> l \in history
  BY CommandCommits DEF ReingestPartial
<1>2. arg[c]..to[c] \subseteq commanded
  BY DEF IInv, RowsOwned, ReingestPartial
<1>3. Moves(c, "reingestFailed", arg[c], to[c])
  BY <1>1, <1>2 DEF Moves, IInv, TypeOK, ControlTypeOK, TxTypeOK, CmdStates,
     ReingestPartial, CommitRows, Fault
<1> QED
  BY <1>3, MovesPreserve

\* A reingestion finds a history row taken.
LEMMA ReingestConflictStep ==
  ASSUME IInv, NEW c \in Cmds, ReingestConflict(c)
  PROVE  IInv'
<1>1. Moves(c, "reingestFailed", arg[c], to[c])
  BY Zenon DEF Moves, IInv, TypeOK, DbTypeOK, ControlTypeOK, TxTypeOK, NodeStates, CmdStates,
     RowsOwned, ParametersValid, ReingestConflict
<1> QED
  BY <1>1, MovesPreserve

\* A reingestion fails and rolls back.
LEMMA ReingestFailStep ==
  ASSUME IInv, NEW c \in Cmds, ReingestFail(c)
  PROVE  IInv'
<1>1. Moves(c, "reingestFailed", arg[c], to[c])
  BY SMTT(20) DEF Moves, IInv, TypeOK, DbTypeOK, ControlTypeOK, TxTypeOK, NodeStates, CmdStates,
     RowsOwned, ParametersValid, ReingestFail, Fault
<1> QED
  BY <1>1, MovesPreserve

\* ReingestRange retries, or gives up.
LEMMA ReingestRetryStep ==
  ASSUME IInv, NEW c \in Cmds, ReingestRetry(c)
  PROVE  IInv'
<1>1. /\ c \in Procs /\ pc[c] = "reingestFailed" /\ history \subseteq Ledgers
      /\ arg[c] \in 0..MaxLedger /\ to[c] \in 0..MaxLedger /\ 0 \in 0..MaxLedger
      /\ arg[c]..to[c] \subseteq commanded /\ faults \in 0..MaxFaults
      /\ retries \in [Cmds -> Nat] /\ c \notin Nodes
  <2>1. pc[c] = "reingestFailed" /\ c \in Procs /\ c \notin Nodes
    BY Zenon DEF ReingestRetry
  <2>2. arg[c]..to[c] \subseteq commanded
    BY <2>1, Zenon DEF IInv, RowsOwned
  <2>3. /\ history \subseteq Ledgers /\ faults \in 0..MaxFaults /\ 0 \in 0..MaxLedger
        /\ arg[c] \in 0..MaxLedger /\ to[c] \in 0..MaxLedger
        /\ retries \in [Cmds -> Nat]
    BY <2>1 DEF IInv, TypeOK, DbTypeOK, ControlTypeOK, TxTypeOK
  <2> QED
    BY <2>1, <2>2, <2>3, Zenon
<1>2. retries' \in [Cmds -> Nat]
  BY <1>1 DEF ReingestRetry
<1>3. CASE Goto(c, "reingest", arg[c], to[c])
  <2>1. Moves(c, "reingest", arg[c], to[c])
    BY <1>1, <1>2, <1>3, Zenon DEF Moves, ReingestRetry, CmdStates
  <2> QED
    BY <1>1, <2>1, MovesPreserve
<1>4. CASE Goto(c, "done", 0, 0)
  <2>1. Moves(c, "done", 0, 0)
    BY <1>1, <1>2, <1>4, Zenon DEF Moves, ReingestRetry, CmdStates
  <2> QED
    BY <1>1, <2>1, MovesPreserve, Zenon
<1> QED
  BY <1>3, <1>4 DEF ReingestRetry

\* A process dies; its transaction is rolled back.
LEMMA CrashStep ==
  ASSUME IInv, NEW p \in Procs, Crash(p)
  PROVE  IInv'
<1>1. Moves(p, FailNode(p), 0, 0)
  BY SMTT(20) DEF Moves, IInv, TypeOK, DbTypeOK, ControlTypeOK, TxTypeOK, NodeStates, CmdStates,
     RowsOwned, ParametersValid, Crash, FailNode, Fault
<1> QED
  BY <1>1, MovesPreserve

-----------------------------------------------------------------------------
(* The theorems.                                                             *)

\* Every step of every process preserves the inductive invariant.
LEMMA NextIInv == IInv /\ [Next]_vars => IInv'
<1> SUFFICES ASSUME IInv, [Next]_vars PROVE IInv'
  OBVIOUS
<1>1. CASE CloseLedger \/ PublishCheckpoint
  BY <1>1, CloseLedgerStep, PublishCheckpointStep
<1>2. ASSUME NEW n \in Nodes, NodeStep(n) PROVE IInv'
  BY <1>2, StartStopStep, StartFromEmptyStep, StartResetStep, StartCatchUpStep,
     StartResumeStep, WaitForCheckpointStep, BuildBeginStep, BuildCommitStep,
     ResumeBeginStep, ResumeCommitStep, ResumeConflictStep, HistoryRangeBeginStep,
     FlushBatchStep, HistoryRangeCommitStep, HistoryRangeConflictStep, Zenon
  DEF NodeStep, Procs
<1>3. ASSUME NEW n \in Nodes, NodeFail(n) PROVE IInv'
  BY <1>3, BuildFailStep, ResumeFailStep, CrashStep, HistoryRangePartialStep,
     HistoryRangeFailStep, Zenon
  DEF NodeFail, Procs
<1>4. ASSUME NEW c \in Cmds, RunReingest(c) \/ RunBuildState(c) \/ RunTriggerStateRebuild(c)
      PROVE  IInv'
  BY <1>4, RunReingestStep, RunBuildStateStep, RunTriggerStateRebuildStep
<1>5. ASSUME NEW c \in Cmds, CmdStep(c) PROVE IInv'
  BY <1>5, BuildBeginStep, BuildCommitStep, ReingestCheckStep,
     ReingestPrepareForceStep,
     ReingestBeginStep, FlushBatchStep, ReingestCommitStep, ReingestConflictStep,
     ReingestRetryStep, Zenon
  DEF CmdStep, Procs
<1>6. ASSUME NEW c \in Cmds, CmdFail(c) PROVE IInv'
  BY <1>6, BuildFailStep, ReingestPartialStep, ReingestFailStep,
     CrashStep, Zenon
  DEF CmdFail, Procs
<1>7. CASE UNCHANGED vars
  BY <1>7, Zenon DEF vars, IInv, TypeOK, DbTypeOK, ControlTypeOK, TxTypeOK,
     LeaderHoldsLock,
     ParametersValid, ChecksHold, RowsOwned, LeaderExtendsHistory,
     StateMatchesLastIngested, NoUncommandedGap
<1> QED
  BY <1>1, <1>2, <1>3, <1>4, <1>5, <1>6, <1>7, Zenon DEF Next

\* The database and every process keep their types, for every number of
\* instances and commands, every checkpoint frequency and flush size.
THEOREM TypeCorrect == Spec => []TypeOK
<1>1. IInv => TypeOK
  BY DEF IInv
<1> QED
  BY <1>1, InitIInv, NextIInv, PTL DEF Spec

\* resumeState.run and buildState.run keep the state tables equal to what
\* exp_ingest_last_ledger and exp_ingest_version say of them.
THEOREM StateSafety == Spec => []StateMatchesLastIngested
<1>1. IInv => StateMatchesLastIngested
  BY DEF IInv
<1> QED
  BY <1>1, InitIInv, NextIInv, PTL DEF Spec

\* start, resume and historyRange never leave a hole in history_ledgers that
\* no reingestion was asked to write.
THEOREM HistoryGapFree == Spec => []NoUncommandedGap
<1>1. IInv => NoUncommandedGap
  BY DEF IInv
<1> QED
  BY <1>1, InitIInv, NextIInv, PTL DEF Spec

\* exp_ingest_last_ledger advances by one ledger, is reset to 0, or leaves 0
\* or another version's value for a published checkpoint: the double checks of
\* resumeState.run and buildState.run under the row lock are enough for that.
THEOREM LastIngestedMoves == Spec => LastIngestedSteps
<1>1. IInv /\ [Next]_vars => [LastIngestedStep]_vars
  <2> SUFFICES ASSUME IInv, Next PROVE LastIngestedStep
    BY DEF LastIngestedStep, vars
  <2>1. ASSUME NEW p \in Procs, BuildCommit(p) PROVE LastIngestedStep
    BY <2>1, Zenon DEF IInv, ChecksHold, ParametersValid, BuildCommit, LastIngestedStep
  <2>2. ASSUME NEW n \in Nodes, ResumeCommit(n) PROVE LastIngestedStep
    BY <2>2, Zenon DEF IInv, ChecksHold, ResumeCommit, LastIngestedStep
  <2>3. ASSUME NEW n \in Nodes, StartReset(n) PROVE LastIngestedStep
    BY <2>3 DEF StartReset, LastIngestedStep
  <2>4. CASE UNCHANGED lastIngested
    BY <2>4 DEF LastIngestedStep
  <2>5. CASE CloseLedger \/ PublishCheckpoint
    BY <2>4, <2>5 DEF CloseLedger, PublishCheckpoint
  <2>6. ASSUME NEW n \in Nodes, NodeStep(n) \/ NodeFail(n) PROVE LastIngestedStep
    BY <2>1, <2>2, <2>3, <2>4, <2>6, Zenon
    DEF NodeStep, NodeFail, StartStop, StartFromEmpty, StartCatchUp, StartResume,
        WaitForCheckpoint, BuildBegin, ResumeBegin, ResumeConflict, HistoryRangeBegin,
        FlushBatch, HistoryRangeCommit, HistoryRangeConflict, BuildFail, ResumeFail,
        Crash, HistoryRangePartial, HistoryRangeFail, CommitRows
  <2>7. ASSUME NEW c \in Cmds, RunReingest(c) \/ RunBuildState(c) \/ RunTriggerStateRebuild(c)
                                 \/ CmdStep(c) \/ CmdFail(c)
        PROVE  LastIngestedStep
    BY <2>1, <2>4, <2>7, Zenon
    DEF RunReingest, RunBuildState, RunTriggerStateRebuild, CmdStep, CmdFail, BuildBegin, ReingestCheck,
        ReingestPrepareForce, ReingestBegin, FlushBatch, ReingestCommit, ReingestConflict,
        ReingestRetry, BuildFail, ReingestPartial, ReingestFail, Crash, CommitRows
  <2> QED
    BY <2>5, <2>6, <2>7 DEF Next
<1> QED
  BY <1>1, InitIInv, NextIInv, PTL DEF Spec, LastIngestedSteps

\* A table of ledgers has a latest one.
LEMMA LatestExists ==
  ASSUME NEW H \in SUBSET Ledgers, H # {}
  PROVE  \E m \in H : \A l \in H : l <= m
<1> DEFINE D == {d \in Nat : \E l \in H : d = MaxLedger - l}
<1>1. D \subseteq Nat /\ D # {}
  <2>1. PICK l \in H : TRUE
    BY Zenon
  <2>2. MaxLedger - l \in D
    OBVIOUS
  <2> QED BY <2>2, Zenon
<1>2. PICK d \in D : \A e \in D : ~ (<<e, d>> \in OpToRel(<, Nat))
  <2> HIDE DEF D
  <2> QED BY <1>1, NatLessThanWellFounded, WFMin, Zenon
<1>3. \A e \in D : ~ (e < d)
  BY <1>1, <1>2, Zenon DEF OpToRel
<1>4. PICK m \in H : d = MaxLedger - m
  OBVIOUS
<1>5. ASSUME NEW l \in H PROVE l <= m
  <2>1. MaxLedger - l \in D
    OBVIOUS
  <2> QED BY <2>1, <1>3, <1>4
<1> QED
  BY <1>5

\* LatestHistory is the ledger GetLatestHistoryLedger finds, and there is one.
LEMMA LatestHistoryExact ==
  ASSUME history \subseteq Ledgers
  PROVE  LatestHistory \in 0..MaxLedger /\ GetLatestHistoryLedger(LatestHistory)
<1>1. \E m \in 0..MaxLedger : GetLatestHistoryLedger(m)
  <2>1. CASE history = {}
    BY <2>1 DEF GetLatestHistoryLedger
  <2>2. CASE history # {}
    BY <2>2, LatestExists DEF GetLatestHistoryLedger
  <2> QED BY <2>1, <2>2
<1> QED
  BY <1>1 DEF LatestHistory

-----------------------------------------------------------------------------
(* What the commands write.                                                *)

\* p moves, and of commands it is the only one that does.
LEMMA RowsOfOthers ==
  ASSUME CommandRows, NEW p \in Procs, p \in Cmds => RowsInRange(p)',
         \A q \in Procs \ {p} : UNCHANGED <<pc[q], arg[q], to[q], cur[q], ins[q], del[q]>>
  PROVE  CommandRows'
<1> SUFFICES ASSUME NEW c \in Cmds, c # p PROVE RowsInRange(c)'
  BY DEF CommandRows
<1>1. RowsInRange(c)
  BY DEF CommandRows
<1>2. UNCHANGED <<pc[c], arg[c], to[c], cur[c], ins[c], del[c]>>
  BY Zenon
<1> QED
  BY <1>1, <1>2, Zenon DEF RowsInRange

\* A command moves on: its transaction has ended, or it had none.
LEMMA RowsAfterMove ==
  ASSUME IInv, CommandRows, NEW c \in Cmds, NEW s, NEW a, NEW b, Goto(c, s, a, b),
         s # "reingestTx",
         s \in {"reingest", "reingestReady", "reingestFailed"} => 1 < a /\ a <= b,
         EndTx(c) \/ (UNCHANGED <<ins, del>> /\ pc[c] # "reingestTx")
  PROVE  CommandRows'
<1>1. /\ pc'[c] = s /\ arg'[c] = a /\ to'[c] = b
      /\ \A q \in Procs \ {c} : UNCHANGED <<pc[q], arg[q], to[q], cur[q], ins[q], del[q]>>
  BY DEF IInv, TypeOK, ControlTypeOK, TxTypeOK, Goto, EndTx
<1>2. ins'[c] = {}
  BY Zenon DEF IInv, TypeOK, TxTypeOK, EndTx, CommandRows, RowsInRange
<1>3. RowsInRange(c)'
  BY <1>1, <1>2, Zenon DEF RowsInRange
<1> QED
  BY <1>1, <1>3, RowsOfOthers

\* An instance writes no rows of a command.
LEMMA RowsAfterNode ==
  ASSUME IInv, CommandRows, NEW n \in Nodes, NodeStep(n) \/ NodeFail(n)
  PROVE  CommandRows'
<1>1. n \in Procs /\ n \notin Cmds
  BY Zenon
<1>2. ASSUME NEW s, NEW a, NEW b, Goto(n, s, a, b), EndTx(n) \/ UNCHANGED <<ins, del>>
      PROVE  \A q \in Procs \ {n} : UNCHANGED <<pc[q], arg[q], to[q], cur[q], ins[q], del[q]>>
  BY <1>1, <1>2 DEF IInv, TypeOK, ControlTypeOK, TxTypeOK, Goto, EndTx
<1>3. ASSUME FlushBatch(n)
      PROVE  \A q \in Procs \ {n} : UNCHANGED <<pc[q], arg[q], to[q], cur[q], ins[q], del[q]>>
  BY <1>1, <1>3 DEF IInv, TypeOK, ControlTypeOK, TxTypeOK, FlushBatch
<1>4. \/ FlushBatch(n)
      \/ \E s, a, b : Goto(n, s, a, b) /\ (EndTx(n) \/ UNCHANGED <<ins, del>>)
  <2>1. CASE NodeFail(n)
    BY <2>1, Zenon DEF NodeFail, BuildFail, ResumeFail, Crash, HistoryRangePartial,
       HistoryRangeFail, CommitRows
  <2>2. CASE \/ StartStop(n) \/ StartFromEmpty(n) \/ StartReset(n)
             \/ StartCatchUp(n) \/ StartResume(n) \/ WaitForCheckpoint(n)
    BY <2>2, Zenon DEF StartStop, StartFromEmpty, StartReset, StartCatchUp, StartResume,
       StartStep, WaitForCheckpoint
  <2>3. CASE BuildBegin(n) \/ BuildCommit(n) \/ ResumeBegin(n)
    BY <2>3, Zenon DEF BuildBegin, BuildCommit, ResumeBegin
  <2>4. CASE \/ ResumeCommit(n) \/ ResumeConflict(n) \/ HistoryRangeBegin(n)
             \/ HistoryRangeCommit(n) \/ HistoryRangeConflict(n)
    BY <2>4, Zenon DEF ResumeCommit, ResumeConflict, HistoryRangeBegin,
       HistoryRangeCommit, HistoryRangeConflict, CommitRows
  <2> QED
    BY <2>1, <2>2, <2>3, <2>4, Zenon DEF NodeStep
<1>5. \A q \in Procs \ {n} : UNCHANGED <<pc[q], arg[q], to[q], cur[q], ins[q], del[q]>>
  BY <1>2, <1>3, <1>4, Zenon
<1> QED
  BY <1>1, <1>5, RowsOfOthers

\* A command deletes its range: nothing is flushed yet.
LEMMA RowsAfterBegin ==
  ASSUME IInv, CommandRows, NEW c \in Cmds, ReingestBegin(c)
  PROVE  CommandRows'
<1>1. RowsInRange(c) /\ pc[c] = "reingestReady" /\ c \in Procs
  BY Zenon DEF CommandRows, ReingestBegin
<1>2. /\ pc'[c] = "reingestTx" /\ arg'[c] = arg[c] /\ to'[c] = to[c] /\ cur'[c] = arg[c]
      /\ ins' = ins /\ del'[c] = history \cap arg[c]..to[c]
      /\ \A q \in Procs \ {c} : UNCHANGED <<pc[q], arg[q], to[q], cur[q], ins[q], del[q]>>
  BY Zenon DEF IInv, TypeOK, ControlTypeOK, TxTypeOK, ReingestBegin, Goto
<1>3. {l \in arg[c]..to[c] : l < arg[c]} = {}
  BY <1>1 DEF IInv, TypeOK, ControlTypeOK
<1>4. RowsInRange(c)'
  BY <1>1, <1>2, <1>3, Zenon DEF RowsInRange
<1> QED
  BY <1>1, <1>2, <1>4, RowsOfOthers, Zenon

\* A command flushes the next batch of its range.
LEMMA RowsAfterFlush ==
  ASSUME IInv, CommandRows, NEW c \in Cmds, FlushBatch(c)
  PROVE  CommandRows'
<1>1. RowsInRange(c) /\ pc[c] = "reingestTx" /\ c \in Procs
  BY DEF CommandRows, FlushBatch, IInv, TypeOK, ControlTypeOK, CmdStates
<1>2. /\ UNCHANGED <<pc, arg, to, del>>
      /\ ins'[c] = ins[c] \cup Batch(c) /\ cur'[c] = cur[c] + MaxLedgerPerFlush
      /\ \A q \in Procs \ {c} : UNCHANGED <<pc[q], arg[q], to[q], cur[q], ins[q], del[q]>>
  BY <1>1, Zenon DEF IInv, TypeOK, ControlTypeOK, TxTypeOK, FlushBatch
<1>3. /\ arg[c] \in Nat /\ to[c] \in Nat /\ cur[c] \in Nat /\ arg[c] <= cur[c]
      /\ ins[c] = {l \in arg[c]..to[c] : l < cur[c]}
  BY <1>1 DEF IInv, TypeOK, ControlTypeOK, ParametersValid, RowsInRange
<1>4. ins[c] \cup Batch(c) = {l \in arg[c]..to[c] : l < cur[c] + MaxLedgerPerFlush}
  BY <1>3 DEF Batch
<1>5. RowsInRange(c)'
  BY <1>1, <1>2, <1>4, Zenon DEF RowsInRange
<1> QED
  BY <1>1, <1>2, <1>5, RowsOfOthers, Zenon

\* Every other step of a command ends its transaction or is outside of one.
LEMMA RowsAfterCommand ==
  ASSUME IInv, CommandRows, NEW c \in Cmds,
         RunReingest(c) \/ RunBuildState(c) \/ RunTriggerStateRebuild(c) \/ CmdStep(c) \/ CmdFail(c)
  PROVE  CommandRows'
<1>1. RowsInRange(c) /\ c \in Procs /\ c \notin Nodes
  BY Zenon DEF CommandRows
<1>2. CASE RunReingest(c)
  <2>1. PICK r \in Ranges : LET from == IF r.from = 1 THEN 2 ELSE r.from
                            IN  from <= r.to /\ Goto(c, "reingest", from, r.to)
    BY <1>2, Zenon DEF RunReingest
  <2> DEFINE from == IF r.from = 1 THEN 2 ELSE r.from
  <2>2. 1 < from
    <3>1. r.from \in Ledgers
      OBVIOUS
    <3> QED BY <3>1
  <2>3. from <= r.to /\ Goto(c, "reingest", from, r.to)
    BY <2>1, Zenon
  <2>4. UNCHANGED <<ins, del>> /\ pc[c] # "reingestTx"
    BY <1>2, Zenon DEF RunReingest
  <2> HIDE DEF from
  <2> QED
    BY <2>2, <2>3, <2>4, RowsAfterMove, Zenon
<1>3. CASE RunBuildState(c) \/ RunTriggerStateRebuild(c) \/ BuildBegin(c)
  <2>1. /\ UNCHANGED <<ins, del>> /\ pc[c] # "reingestTx"
        /\ \E s \in {"build", "done", "buildTx"} : \E a, b : Goto(c, s, a, b)
    BY <1>1, <1>3, Zenon DEF RunBuildState, RunTriggerStateRebuild, BuildBegin, FailNode
  <2> QED
    BY <2>1, RowsAfterMove, Zenon
<1>4. CASE BuildCommit(c) \/ BuildFail(c) \/ Crash(c)
  <2>1. EndTx(c) /\ \E a, b : Goto(c, "done", a, b)
    BY <1>1, <1>4, Zenon DEF BuildCommit, BuildFail, Crash, FailNode
  <2> QED
    BY <2>1, RowsAfterMove
<1>5. CASE ReingestCheck(c) \/ ReingestPrepareForce(c) \/ ReingestRetry(c)
  <2>1. /\ UNCHANGED <<ins, del>> /\ pc[c] # "reingestTx" /\ 1 < arg[c] /\ arg[c] <= to[c]
    BY <1>1, <1>5, Zenon DEF ReingestCheck, ReingestPrepareForce, ReingestRetry, RowsInRange
  <2>2. \/ Goto(c, "reingestFailed", arg[c], to[c]) \/ Goto(c, "reingestReady", arg[c], to[c])
        \/ Goto(c, "reingest", arg[c], to[c]) \/ Goto(c, "done", 0, 0)
    BY <1>5, Zenon DEF ReingestCheck, ReingestPrepareForce, ReingestRetry
  <2> QED
    BY <2>1, <2>2, RowsAfterMove, Zenon
<1>6. CASE ReingestCommit(c) \/ ReingestConflict(c) \/ ReingestPartial(c) \/ ReingestFail(c)
  <2>1. EndTx(c) /\ 1 < arg[c] /\ arg[c] <= to[c]
    BY <1>1, <1>6, Zenon DEF ReingestCommit, ReingestConflict, ReingestPartial, ReingestFail,
       CommitRows, RowsInRange
  <2>2. Goto(c, "reingestFailed", arg[c], to[c]) \/ Goto(c, "done", 0, 0)
    BY <1>6, Zenon DEF ReingestCommit, ReingestConflict, ReingestPartial, ReingestFail
  <2> QED
    BY <2>1, <2>2, RowsAfterMove, Zenon
<1> QED
  BY <1>2, <1>3, <1>4, <1>5, <1>6, RowsAfterBegin, RowsAfterFlush, Zenon DEF CmdStep, CmdFail

\* Every step keeps the rows of the commands inside their ranges.
LEMMA NextCommandRows == IInv /\ CommandRows /\ [Next]_vars => CommandRows'
<1> SUFFICES ASSUME IInv, CommandRows, [Next]_vars PROVE CommandRows'
  OBVIOUS
<1>1. CASE CloseLedger \/ PublishCheckpoint \/ UNCHANGED vars
  <2>1. UNCHANGED <<pc, arg, to, cur, ins, del>>
    BY <1>1, Zenon DEF CloseLedger, PublishCheckpoint, vars
  <2> QED
    BY <2>1, Zenon DEF CommandRows, RowsInRange
<1> QED
  BY <1>1, RowsAfterNode, RowsAfterCommand, Zenon DEF Next

LEMMA InitCommandRows == Init => CommandRows
BY DEF Init, CommandRows, RowsInRange

-----------------------------------------------------------------------------
(* The refinement.                                                         *)

\* LatestLedger of the readers' tables is LatestHistory.
LEMMA LatestLedgerExact ==
  ASSUME history \subseteq Ledgers
  PROVE  LatestHistory = Readers!LatestLedger(history)
<1>1. LatestHistory \in 0..MaxLedger /\ GetLatestHistoryLedger(LatestHistory)
  BY LatestHistoryExact
<1>2. CASE history = {}
  BY <1>1, <1>2 DEF GetLatestHistoryLedger, Readers!LatestLedger
<1>3. CASE history # {}
  <2> DEFINE m == CHOOSE l \in history : \A k \in history : k <= l
  <2>1. LatestHistory \in history /\ \A k \in history : k <= LatestHistory
    BY <1>1, <1>3, Zenon DEF GetLatestHistoryLedger
  <2>2. m \in history /\ \A k \in history : k <= m
    BY <2>1, Zenon
  <2>3. m <= LatestHistory /\ LatestHistory <= m
    BY <2>1, <2>2, Zenon
  <2>4. Readers!LatestLedger(history) = m
    BY <1>3, Zenon DEF Readers!LatestLedger
  <2> HIDE DEF m
  <2>5. m = LatestHistory
    BY <1>1, <2>2, <2>3
  <2> QED
    BY <2>4, <2>5
<1> QED
  BY <1>2, <1>3

\* m is the last ledger that a range from a to b has flushed below ledger c.
FlushedTo(a, b, c, m) ==
  /\ {l \in a..b : l < c} = a..m /\ a <= m + 1
  /\ \A l \in a..b : l >= c => l > m

\* What has been flushed of a range is a range.
LEMMA FlushedRange ==
  ASSUME NEW a \in Nat, NEW b \in Nat, NEW c \in Nat, 0 < a, a <= c, a <= b
  PROVE  \E m \in 0..b : FlushedTo(a, b, c, m)
<1> USE DEF FlushedTo
<1>1. CASE c <= b
  <2>1. c - 1 \in 0..b
    BY <1>1
  <2>2. {l \in a..b : l < c} = a..(c - 1)
    BY <1>1
  <2>3. a <= (c - 1) + 1 /\ \A l \in a..b : l >= c => l > c - 1
    BY <1>1
  <2> QED
    BY <2>1, <2>2, <2>3, Zenon
<1>2. CASE b < c
  BY <1>2
<1> QED
  BY <1>1, <1>2

\* Writing ledgers a to m is a step of the readers' tables, if there are any.
LEMMA RangeWritten ==
  ASSUME history \subseteq Ledgers, history' \subseteq Ledgers,
         NEW a \in Ledgers, NEW m \in 0..MaxLedger, 1 < a,
         history' = history \cup a..m, UNCHANGED <<lastIngested, state>>
  PROVE  [Readers!HistoryStep]_(Readers!historyVars)
<1>1. LatestHistory' \in 0..MaxLedger /\ LatestHistory' = Readers!LatestLedger(history')
  <2>1. (history \subseteq Ledgers =>
           LatestHistory \in 0..MaxLedger /\ LatestHistory = Readers!LatestLedger(history))'
    BY LatestHistoryExact, LatestLedgerExact, PTL
  <2> QED
    BY <2>1
<1>2. CASE a <= m
  <2>1. Readers!IngestRange(a, m)
    BY <1>1, <1>2, Zenon DEF Readers!IngestRange, Readers!SetHistory, Readers!WriteHistory
  <2>2. m \in 1..MaxLedger
    BY <1>2
  <2> QED
    BY <2>1, <2>2, Zenon DEF Readers!HistoryStep
<1>3. CASE ~ (a <= m)
  <2>1. history' = history
    BY <1>3
  <2>2. LatestHistory' = LatestHistory
    BY <2>1 DEF LatestHistory, GetLatestHistoryLedger
  <2> QED
    BY <2>1, <2>2 DEF Readers!historyVars, Readers!ledgerVars
<1> QED
  BY <1>2, <1>3

\* HistoryRangeCommit and HistoryRangePartial: a prefix of the range.
LEMMA HistoryRangeWritten ==
  ASSUME IInv, IInv', NEW n \in Nodes, pc[n] = "historyRangeTx", CommitRows(n)
  PROVE  [Readers!HistoryStep]_(Readers!historyVars)
<1>1. /\ ins[n] = {l \in arg[n]..to[n] : l < cur[n]} /\ del[n] = {}
      /\ arg[n] > 1 /\ arg[n] <= cur[n]
      /\ arg[n] \in 0..MaxLedger /\ to[n] \in 0..MaxLedger /\ cur[n] \in Nat
      /\ history \subseteq Ledgers /\ history' \subseteq Ledgers
  BY Zenon DEF IInv, RowsOwned, ParametersValid, TypeOK, DbTypeOK, ControlTypeOK
<1>2. history' = history \cup ins[n] /\ UNCHANGED <<lastIngested, state>>
  BY <1>1, Zenon DEF CommitRows
<1>3. \E m \in 0..MaxLedger : ins[n] = arg[n]..m
  <2>1. CASE arg[n] <= to[n]
    <3>1. arg[n] \in Nat /\ to[n] \in Nat /\ 0 < arg[n]
      BY <1>1
    <3>2. PICK m \in 0..to[n] : FlushedTo(arg[n], to[n], cur[n], m)
      BY <1>1, <2>1, <3>1, FlushedRange, Zenon
    <3>3. m \in 0..MaxLedger
      BY <1>1
    <3> QED
      BY <1>1, <3>2, <3>3, Zenon DEF FlushedTo
  <2>2. CASE ~ (arg[n] <= to[n])
    <3>1. ins[n] = {} /\ arg[n]..0 = {}
      BY <1>1, <2>2
    <3>2. 0 \in 0..MaxLedger
      OBVIOUS
    <3> QED
      BY <3>1, <3>2, Zenon
  <2> QED
    BY <2>1, <2>2, Zenon
<1>4. arg[n] \in Ledgers
  BY <1>1
<1> QED
  BY <1>1, <1>2, <1>3, <1>4, RangeWritten, Zenon

\* ReingestCommit: all of the range, whatever others wrote in it meanwhile.
LEMMA ReingestWritten ==
  ASSUME IInv, IInv', CommandRows, NEW c \in Cmds, ReingestCommit(c)
  PROVE  [Readers!HistoryStep]_(Readers!historyVars)
<1>1. /\ ins[c] = {l \in arg[c]..to[c] : l < cur[c]} /\ del[c] \subseteq arg[c]..to[c]
      /\ 1 < arg[c] /\ arg[c] <= to[c] /\ Batch(c) = {}
  BY Zenon DEF CommandRows, RowsInRange, ReingestCommit
<1>2. /\ arg[c] \in 0..MaxLedger /\ to[c] \in 0..MaxLedger /\ cur[c] \in Nat
      /\ history \subseteq Ledgers /\ history' \subseteq Ledgers
  BY Zenon DEF IInv, TypeOK, DbTypeOK, ControlTypeOK
<1>3. to[c] < cur[c]
  BY <1>1, <1>2 DEF Batch
<1>4. ins[c] = arg[c]..to[c]
  BY <1>1, <1>2, <1>3
<1>5. history' = history \cup arg[c]..to[c] /\ UNCHANGED <<lastIngested, state>>
  BY <1>1, <1>4, Zenon DEF ReingestCommit, CommitRows
<1>6. arg[c] \in Ledgers
  BY <1>1, <1>2
<1> QED
  BY <1>1, <1>2, <1>5, <1>6, RangeWritten, Zenon

\* ReingestPartial: a prefix of the range, and the rest may be gone.
LEMMA ReingestLost ==
  ASSUME IInv, IInv', CommandRows, NEW c \in Cmds, ReingestPartial(c)
  PROVE  \E a \in 1..MaxLedger, b \in 0..MaxLedger : Readers!ReingestPartial(a, b)
<1>1. /\ ins[c] = {l \in arg[c]..to[c] : l < cur[c]} /\ del[c] \subseteq arg[c]..to[c]
      /\ 1 < arg[c] /\ arg[c] <= to[c]
  BY Zenon DEF CommandRows, RowsInRange, ReingestPartial
<1>2. /\ arg[c] \in 0..MaxLedger /\ to[c] \in 0..MaxLedger /\ cur[c] \in Nat
      /\ history \subseteq Ledgers /\ history' \subseteq Ledgers /\ arg[c] <= cur[c]
  BY Zenon DEF IInv, TypeOK, DbTypeOK, ControlTypeOK, ParametersValid, ReingestPartial
<1>3. PICK m \in 0..to[c] : FlushedTo(arg[c], to[c], cur[c], m)
  <2>1. arg[c] \in Nat /\ to[c] \in Nat /\ 0 < arg[c]
    BY <1>1, <1>2
  <2> QED
    BY <1>1, <1>2, <2>1, FlushedRange, Zenon
<1>4. history' = (history \ del[c]) \cup arg[c]..m /\ UNCHANGED <<lastIngested, state>>
  BY <1>1, <1>3, Zenon DEF FlushedTo, ReingestPartial, CommitRows
<1>5. ASSUME NEW l \in history \ history' PROVE l > m
  <2>1. l \in arg[c]..to[c] /\ l \notin ins[c]
    BY <1>1, <1>3, <1>4, Zenon DEF FlushedTo
  <2>2. l >= cur[c]
    BY <1>1, <1>2, <2>1
  <2> QED
    BY <1>3, <2>1, <2>2, Zenon DEF FlushedTo
<1>6. LatestHistory' \in 0..MaxLedger /\ LatestHistory' = Readers!LatestLedger(history')
  <2>1. (history \subseteq Ledgers =>
           LatestHistory \in 0..MaxLedger /\ LatestHistory = Readers!LatestLedger(history))'
    BY LatestHistoryExact, LatestLedgerExact, PTL
  <2> QED
    BY <1>2, <2>1, Zenon
<1>7. Readers!ReingestPartial(arg[c], m)
  BY <1>1, <1>3, <1>4, <1>5, <1>6, Zenon DEF FlushedTo, Readers!ReingestPartial, Readers!WriteHistory
<1>8. arg[c] \in 1..MaxLedger /\ m \in 0..MaxLedger
  BY <1>1, <1>2
<1> QED
  BY <1>7, <1>8, Zenon

\* One step of an instance or a command is a step of the readers' tables.
LEMMA StepOfReaders ==
  ASSUME IInv, IInv', CommandRows, [Next]_vars
  PROVE  [\/ Readers!HistoryStep
          \/ \E a \in 1..MaxLedger, b \in 0..MaxLedger : Readers!ReingestPartial(a, b)]_(Readers!historyVars)
<1> DEFINE Lost == \E a \in 1..MaxLedger, b \in 0..MaxLedger : Readers!ReingestPartial(a, b)
           hvars == Readers!historyVars
<1>t. /\ history \subseteq Ledgers /\ history' \subseteq Ledgers
      /\ lastIngested \in 0..MaxLedger /\ network \in Ledgers
  BY DEF IInv, TypeOK, DbTypeOK
<1>h. /\ LatestHistory \in 0..MaxLedger /\ GetLatestHistoryLedger(LatestHistory)
      /\ LatestHistory' \in 0..MaxLedger /\ GetLatestHistoryLedger(LatestHistory)'
  <2>1. LatestHistory \in 0..MaxLedger /\ GetLatestHistoryLedger(LatestHistory)
    BY <1>t, LatestHistoryExact
  <2>2. (history \subseteq Ledgers =>
           LatestHistory \in 0..MaxLedger /\ GetLatestHistoryLedger(LatestHistory))'
    BY LatestHistoryExact, PTL
  <2> QED BY <2>1, <2>2, <1>t
<1>q. history' = history => LatestHistory' = LatestHistory
  BY DEF LatestHistory, GetLatestHistoryLedger
<1>1. ASSUME NEW p \in Procs, BuildCommit(p) PROVE Readers!HistoryStep
  <2>1. arg[p] \in 1..MaxLedger /\ (arg[p] = 1 \/ Readers!IsCheckpointLedger(arg[p]))
    BY <1>1, SMTT(20) DEF IInv, TypeOK, ControlTypeOK, ParametersValid, BuildCommit,
                IsBuildLedger, IsCheckpoint, Readers!IsCheckpointLedger
  <2>2. Readers!BuildState(arg[p])
    BY <1>1, <1>q, <2>1, Zenon DEF BuildCommit, Readers!BuildState, Readers!Build
  <2> QED BY <2>1, <2>2, Zenon DEF Readers!HistoryStep
<1>2. ASSUME NEW n \in Nodes, ResumeCommit(n) PROVE Readers!HistoryStep
  <2>1. /\ arg[n] = lastIngested /\ lastIngested > 0 /\ lastIngested < MaxLedger
        /\ state = lastIngested /\ stateVersion = Version[n]
    <3>1. /\ arg[n] = lastIngested /\ arg[n] + 1 <= network /\ stateVersion = Version[n]
          /\ arg[n] > 0
      BY <1>2, Zenon DEF IInv, ChecksHold, ParametersValid, ResumeCommit
    <3>2. lastIngested > 0 /\ lastIngested < MaxLedger
      BY <1>t, <3>1
    <3> QED
      BY <3>1, <3>2, Zenon DEF IInv, StateMatchesLastIngested
  <2>2. /\ lastIngested' = lastIngested + 1 /\ state' = lastIngested + 1
        /\ history' = history \cup {lastIngested + 1}
    BY <1>2, <2>1, Zenon DEF ResumeCommit, RunAllProcessorsOnLedger
  <2>3. lastIngested + 1 \notin history
    BY <1>2, <2>1, Zenon DEF ResumeCommit, Conflicts, IInv, RowsOwned
  <2>4. LatestHistory' = IF LatestHistory > lastIngested + 1
                         THEN LatestHistory ELSE lastIngested + 1
    BY <1>t, <1>h, <2>2, SMTT(20) DEF GetLatestHistoryLedger
  <2>5. Readers!Resume
    BY <2>1, <2>2, <2>4, Zenon DEF Readers!Resume
  <2> QED BY <2>2, <2>3, <2>5, Zenon DEF Readers!HistoryStep, Readers!IngestLedger
<1>3. ASSUME NEW n \in Nodes, StartReset(n) PROVE Readers!HistoryStep
  <2>1. /\ lastIngested > 0 /\ lastIngested' = 0
        /\ UNCHANGED <<history, state>>
        /\ \E l \in Ledgers : GetLatestHistoryLedger(l) /\ l > lastIngested
    BY <1>3 DEF StartReset, StartStep
  <2>2. LatestHistory > lastIngested
    BY <2>1, <1>t, <1>h DEF GetLatestHistoryLedger
  <2>3. Readers!ResetState
    BY <2>1, <2>2, <1>q, Zenon DEF Readers!ResetState, Readers!Reset
  <2> QED BY <2>3, Zenon DEF Readers!HistoryStep
<1>4. ASSUME UNCHANGED <<lastIngested, history, state>> PROVE UNCHANGED hvars
  BY <1>4, <1>q DEF Readers!historyVars, Readers!ledgerVars
<1>5. ASSUME CloseLedger \/ PublishCheckpoint \/ UNCHANGED vars PROVE UNCHANGED hvars
  BY <1>4, <1>5, Zenon DEF CloseLedger, PublishCheckpoint, vars
<1>6. ASSUME NEW n \in Nodes, NodeStep(n) \/ NodeFail(n) PROVE [Readers!HistoryStep]_hvars
  <2>1. ASSUME HistoryRangeCommit(n) \/ HistoryRangePartial(n)
        PROVE  [Readers!HistoryStep]_hvars
    <3>1. pc[n] = "historyRangeTx" /\ CommitRows(n)
      BY <2>1, Zenon DEF HistoryRangeCommit, HistoryRangePartial
    <3> QED
      BY <3>1, HistoryRangeWritten
  <2>2. \/ BuildCommit(n) \/ ResumeCommit(n) \/ StartReset(n)
        \/ HistoryRangeCommit(n) \/ HistoryRangePartial(n)
        \/ UNCHANGED <<lastIngested, history, state>>
    BY <1>6, Zenon
    DEF NodeStep, NodeFail, StartStep, StartStop, StartFromEmpty, StartCatchUp, StartResume,
        WaitForCheckpoint, BuildBegin, ResumeBegin, ResumeConflict, HistoryRangeBegin,
        FlushBatch, HistoryRangeConflict, BuildFail, ResumeFail, Crash, HistoryRangeFail
  <2>3. n \in Procs
    BY Zenon
  <2> HIDE DEF hvars
  <2> QED
    BY <1>1, <1>2, <1>3, <1>4, <2>1, <2>2, <2>3, Zenon
<1>7. ASSUME NEW c \in Cmds, RunReingest(c) \/ RunBuildState(c) \/ RunTriggerStateRebuild(c)
                               \/ CmdStep(c) \/ CmdFail(c)
      PROVE  [Readers!HistoryStep \/ Lost]_hvars
  <2>1. \/ BuildCommit(c) \/ ReingestCommit(c) \/ ReingestPartial(c)
        \/ UNCHANGED <<lastIngested, history, state>>
    BY <1>7, Zenon
    DEF RunReingest, RunBuildState, RunTriggerStateRebuild, CmdStep, CmdFail, BuildBegin,
        ReingestCheck, ReingestPrepareForce, ReingestBegin, FlushBatch,
        ReingestConflict, ReingestRetry, BuildFail, ReingestFail, Crash
  <2>2. ASSUME ReingestCommit(c) PROVE [Readers!HistoryStep]_hvars
    BY <2>2, ReingestWritten
  <2>3. ASSUME ReingestPartial(c) PROVE Lost
    BY <2>3, ReingestLost
  <2>4. c \in Procs
    BY Zenon
  <2> HIDE DEF hvars, Lost
  <2> QED
    BY <1>1, <1>4, <2>1, <2>2, <2>3, <2>4, Zenon
<1> HIDE DEF hvars, Lost
<1>8. [Readers!HistoryStep \/ Lost]_hvars
  BY <1>5, <1>6, <1>7, Zenon DEF Next
<1> QED
  BY <1>8 DEF hvars, Lost

\* Every instance and command implements the tables that the reaper and the
\* streams are composed with: each commit is one of the steps of HistoryTables.
THEOREM IngestionImplementsHistoryTables == Spec => ImplementsHistoryTables
<1>1. Init => Readers!HistoryInit
  <2> SUFFICES ASSUME Init PROVE Readers!HistoryInit
    OBVIOUS
  <2>1. history \subseteq Ledgers /\ history = {}
    BY DEF Init
  <2>2. LatestHistory = 0
    BY <2>1, LatestHistoryExact DEF GetLatestHistoryLedger
  <2> QED BY <2>2 DEF Init, Readers!HistoryInit, Readers!LedgerInit
<1> QED
  BY <1>1, InitIInv, NextIInv, InitCommandRows, NextCommandRows, StepOfReaders, PTL
  DEF Spec, ImplementsHistoryTables, Readers!HistorySpec

\* So does a reader who sees three numbers only: the verifier, the order book
\* stream and the requests.
THEOREM IngestionImplementsIngestedState == Spec => Readers!LedgerSpec
<1>1. Readers!HistoryInit => Readers!LedgerInit
  BY DEF Readers!HistoryInit
<1>2. [\/ Readers!HistoryStep
       \/ \E a \in 1..MaxLedger, b \in 0..MaxLedger : Readers!ReingestPartial(a, b)]_(Readers!historyVars)
      => [Readers!LedgerNext]_(Readers!ledgerVars)
  BY Zenon DEF Readers!HistoryStep, Readers!IngestLedger, Readers!BuildState, Readers!ResetState,
     Readers!IngestRange, Readers!SetHistory, Readers!ReingestPartial, Readers!LedgerNext,
     Readers!historyVars
<1> QED
  BY <1>1, <1>2, IngestionImplementsHistoryTables, PTL
  DEF ImplementsHistoryTables, Readers!HistorySpec, Readers!LedgerSpec
=============================================================================
