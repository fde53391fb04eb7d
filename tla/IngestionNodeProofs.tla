------------------------ MODULE IngestionNodeProofs ------------------------
\* The inductive invariant of Ingestion: Init, the environment and the states
\* start, waitForCheckpoint, build and resume.
EXTENDS Ingestion, TLAPS

USE IngestionAssumption
    DEF Procs, Ledgers, Corrupt, dbVars, envVars, txVars, cmdVars

\* p moves to node s with its parameters.  Of the database, only rows that
\* a command was asked to write change, and the transaction of p has ended, or
\* p had none.
Moves(p, s, a, b) ==
  /\ Goto(p, s, a, b)
  /\ p \in Nodes => s \in NodeStates
  /\ p \in Cmds => s \in CmdStates
  /\ s \notin {"buildTx", "resumeTx", "historyRangeTx", "reingestTx"}
  /\ a \in 0..MaxLedger /\ b \in 0..MaxLedger
  /\ s = "build" => a > 0 /\ IsBuildLedger(a) /\ a <= checkpoint
  /\ s = "resume" => a > 0
  /\ s = "historyRange" => a > 1
  /\ s \in {"reingest", "reingestReady", "reingestFailed"} => a..b \subseteq commanded
  /\ EndTx(p) \/ (UNCHANGED txVars /\ pc[p] # "historyRangeTx")
  /\ UNCHANGED <<envVars, lastIngested, ingestVersion, state, stateVersion,
                 force, commanded>>
  /\ history' \subseteq Ledgers
  /\ \A l \in Ledgers \ commanded : l \in history' <=> l \in history
  /\ retries' \in [Cmds -> Nat] /\ faults' \in 0..MaxFaults

\* Every early return, failure, conflict and crash of the state machine is a
\* move, and moves preserve the inductive invariant.
LEMMA MovesPreserve ==
  ASSUME IInv, NEW p \in Procs, NEW s, NEW a, NEW b, Moves(p, s, a, b)
  PROVE  IInv'
<1> USE DEF IInv, Moves, Goto, EndTx, TypeOK, DbTypeOK, ControlTypeOK, TxTypeOK,
       NodeStates, CmdStates
<1>1. DbTypeOK'
  OBVIOUS
<1>2. ControlTypeOK'
  OBVIOUS
<1>3. TxTypeOK'
  BY Zenon
<1>4. /\ pc'[p] = s /\ arg'[p] = a /\ to'[p] = b
      /\ \A q \in Procs \ {p} : UNCHANGED <<pc[q], arg[q], to[q], cur[q], ins[q], del[q]>>
      /\ lock' = lock \/ (lock = p /\ lock' = None)
  OBVIOUS
<1>5. LeaderHoldsLock'
  BY <1>4 DEF LeaderHoldsLock
<1>6. ParametersValid'
  BY <1>4 DEF ParametersValid
<1>7. ChecksHold'
  BY <1>4 DEF ChecksHold
<1>8. RowsOwned'
  <2>1. ASSUME NEW c \in Cmds
        PROVE  /\ ins'[c] \cup del'[c] \subseteq commanded
               /\ pc'[c] \in {"reingest", "reingestReady", "reingestTx", "reingestFailed"}
                    => arg'[c]..to'[c] \subseteq commanded
    BY <1>4 DEF RowsOwned
  <2>2. ASSUME NEW n \in Nodes
        PROVE  /\ del'[n] = {}
               /\ pc'[n] # "historyRangeTx" => ins'[n] = {}
               /\ pc'[n] = "historyRangeTx" => n # p
    BY <1>4 DEF RowsOwned
  <2> QED
    BY <1>4, <2>1, <2>2 DEF RowsOwned
<1>9. LeaderExtendsHistory'
  BY <1>4 DEF LeaderExtendsHistory
<1>10. StateMatchesLastIngested'
  BY DEF StateMatchesLastIngested
<1>11. NoUncommandedGap'
  BY DEF NoUncommandedGap
<1> QED
  BY <1>1, <1>2, <1>3, <1>5, <1>6, <1>7, <1>8, <1>9, <1>10, <1>11

\* The network closes a ledger.
LEMMA CloseLedgerStep ==
  ASSUME IInv, CloseLedger
  PROVE  IInv'
<1>1. TypeOK'
  BY DEF IInv, TypeOK, DbTypeOK, ControlTypeOK, TxTypeOK, NodeStates,
     CmdStates, ParametersValid, ChecksHold, CloseLedger
<1>2. LeaderHoldsLock'
  BY DEF IInv, LeaderHoldsLock, TypeOK, DbTypeOK, ControlTypeOK, TxTypeOK,
     NodeStates, CmdStates, CloseLedger
<1>3. ParametersValid'
  BY DEF IInv, ParametersValid, TypeOK, DbTypeOK, ControlTypeOK, TxTypeOK,
     NodeStates, CmdStates, CloseLedger
<1>4. ChecksHold'
  BY DEF IInv, ChecksHold, TypeOK, DbTypeOK, ControlTypeOK, TxTypeOK,
     NodeStates, CmdStates, LeaderHoldsLock, CloseLedger
<1>5. RowsOwned'
  BY DEF IInv, RowsOwned, TypeOK, DbTypeOK, ControlTypeOK, TxTypeOK,
     NodeStates, CmdStates, CloseLedger
<1>6. LeaderExtendsHistory'
  BY DEF IInv, LeaderExtendsHistory, TypeOK, DbTypeOK, ControlTypeOK,
     TxTypeOK, NodeStates, CmdStates, LeaderHoldsLock, RowsOwned,
     ParametersValid, GetLatestHistoryLedger, CloseLedger
<1>7. StateMatchesLastIngested'
  BY DEF IInv, StateMatchesLastIngested, TypeOK, DbTypeOK, ControlTypeOK,
     TxTypeOK, ParametersValid, ChecksHold, CloseLedger
<1>8. NoUncommandedGap'
  BY DEF IInv, NoUncommandedGap, TypeOK, DbTypeOK, ControlTypeOK,
     TxTypeOK, RowsOwned, LeaderExtendsHistory, ChecksHold, CloseLedger
<1> QED
  BY <1>1, <1>2, <1>3, <1>4, <1>5, <1>6, <1>7, <1>8 DEF IInv

\* The archive publishes a checkpoint.
LEMMA PublishCheckpointStep ==
  ASSUME IInv, PublishCheckpoint
  PROVE  IInv'
<1>1. TypeOK'
  BY DEF IInv, TypeOK, DbTypeOK, ControlTypeOK, TxTypeOK, NodeStates,
     CmdStates, ParametersValid, ChecksHold, PublishCheckpoint
<1>2. LeaderHoldsLock'
  BY DEF IInv, LeaderHoldsLock, TypeOK, DbTypeOK, ControlTypeOK, TxTypeOK,
     NodeStates, CmdStates, PublishCheckpoint
<1>3. ParametersValid'
  BY DEF IInv, ParametersValid, TypeOK, DbTypeOK, ControlTypeOK, TxTypeOK,
     NodeStates, CmdStates, PublishCheckpoint
<1>4. ChecksHold'
  BY DEF IInv, ChecksHold, TypeOK, DbTypeOK, ControlTypeOK, TxTypeOK,
     NodeStates, CmdStates, LeaderHoldsLock, PublishCheckpoint
<1>5. RowsOwned'
  BY DEF IInv, RowsOwned, TypeOK, DbTypeOK, ControlTypeOK, TxTypeOK,
     NodeStates, CmdStates, PublishCheckpoint
<1>6. LeaderExtendsHistory'
  BY DEF IInv, LeaderExtendsHistory, TypeOK, DbTypeOK, ControlTypeOK,
     TxTypeOK, NodeStates, CmdStates, LeaderHoldsLock, RowsOwned,
     ParametersValid, GetLatestHistoryLedger, PublishCheckpoint
<1>7. StateMatchesLastIngested'
  BY DEF IInv, StateMatchesLastIngested, TypeOK, DbTypeOK, ControlTypeOK,
     TxTypeOK, ParametersValid, ChecksHold, PublishCheckpoint
<1>8. NoUncommandedGap'
  BY Zenon DEF IInv, NoUncommandedGap, TypeOK, DbTypeOK, ControlTypeOK,
     TxTypeOK, RowsOwned, LeaderExtendsHistory, ChecksHold,
     PublishCheckpoint
<1> QED
  BY <1>1, <1>2, <1>3, <1>4, <1>5, <1>6, <1>7, <1>8 DEF IInv

\* startState.run: a newer version wrote the database, the instance stops.
LEMMA StartStopStep ==
  ASSUME IInv, NEW n \in Nodes, StartStop(n)
  PROVE  IInv'
<1>1. Moves(n, "stop", 0, 0)
  BY DEF Moves, IInv, TypeOK, DbTypeOK, ControlTypeOK, TxTypeOK, NodeStates, CmdStates,
     RowsOwned, ParametersValid, StartStop, StartStep
<1> QED
  BY <1>1, MovesPreserve

\* startState.run: an empty or outdated state is built at a checkpoint, after
\* closing the gap to the history that is there.
LEMMA StartFromEmptyStep ==
  ASSUME IInv, NEW n \in Nodes, StartFromEmpty(n)
  PROVE  IInv'
<1>1. TypeOK'
  <2>1. DbTypeOK'
    BY DEF IInv, TypeOK, DbTypeOK, ControlTypeOK, TxTypeOK,
       ParametersValid, ChecksHold, StartFromEmpty, StartStep
  <2>2. ControlTypeOK'
    BY DEF IInv, TypeOK, DbTypeOK, ControlTypeOK, NodeStates, CmdStates,
       ParametersValid, ChecksHold, StartFromEmpty, StartStep, Goto
  <2>3. TxTypeOK'
    BY DEF IInv, TypeOK, DbTypeOK, ControlTypeOK, TxTypeOK,
       StartFromEmpty, StartStep
  <2> QED
    BY <2>1, <2>2, <2>3 DEF TypeOK
<1>2. LeaderHoldsLock'
  BY DEF IInv, LeaderHoldsLock, TypeOK, DbTypeOK, ControlTypeOK, TxTypeOK,
     NodeStates, CmdStates, StartFromEmpty, StartStep, Goto
<1>3. ParametersValid'
  BY DEF IInv, ParametersValid, IsBuildLedger, TypeOK, DbTypeOK,
     ControlTypeOK, TxTypeOK, NodeStates, CmdStates, StartFromEmpty,
     StartStep, Goto
<1>4. ChecksHold'
  BY DEF IInv, ChecksHold, TypeOK, DbTypeOK, ControlTypeOK, TxTypeOK,
     NodeStates, CmdStates, LeaderHoldsLock, StartFromEmpty, StartStep,
     Goto
<1>5. RowsOwned'
  BY DEF IInv, RowsOwned, TypeOK, DbTypeOK, ControlTypeOK, TxTypeOK,
     NodeStates, CmdStates, StartFromEmpty, StartStep, Goto
<1>6. LeaderExtendsHistory'
  BY DEF IInv, LeaderExtendsHistory, TypeOK, DbTypeOK, ControlTypeOK,
     TxTypeOK, NodeStates, CmdStates, LeaderHoldsLock, RowsOwned,
     ParametersValid, GetLatestHistoryLedger, StartFromEmpty, StartStep,
     Goto
<1>7. StateMatchesLastIngested'
  BY DEF IInv, StateMatchesLastIngested, TypeOK, DbTypeOK, ControlTypeOK,
     TxTypeOK, ParametersValid, ChecksHold, StartFromEmpty, StartStep,
     Goto
<1>8. NoUncommandedGap'
  BY DEF IInv, NoUncommandedGap, TypeOK, DbTypeOK, ControlTypeOK,
     TxTypeOK, RowsOwned, LeaderExtendsHistory, ChecksHold,
     StartFromEmpty, StartStep, Goto
<1> QED
  BY <1>1, <1>2, <1>3, <1>4, <1>5, <1>6, <1>7, <1>8 DEF IInv

\* startState.run: history is ahead of the state, the last ledger is reset.
LEMMA StartResetStep ==
  ASSUME IInv, NEW n \in Nodes, StartReset(n)
  PROVE  IInv'
<1>1. TypeOK'
  <2>1. DbTypeOK'
    BY DEF IInv, TypeOK, DbTypeOK, ControlTypeOK, TxTypeOK,
       ParametersValid, ChecksHold, StartReset, StartStep
  <2>2. ControlTypeOK'
    BY DEF IInv, TypeOK, DbTypeOK, ControlTypeOK, NodeStates, CmdStates,
       ParametersValid, ChecksHold, StartReset, StartStep, Goto
  <2>3. TxTypeOK'
    BY DEF IInv, TypeOK, DbTypeOK, ControlTypeOK, TxTypeOK, StartReset,
       StartStep
  <2> QED
    BY <2>1, <2>2, <2>3 DEF TypeOK
<1>2. LeaderHoldsLock'
  BY DEF IInv, LeaderHoldsLock, TypeOK, DbTypeOK, ControlTypeOK, TxTypeOK,
     NodeStates, CmdStates, StartReset, StartStep, Goto
<1>3. ParametersValid'
  BY DEF IInv, ParametersValid, TypeOK, DbTypeOK, ControlTypeOK, TxTypeOK,
     NodeStates, CmdStates, StartReset, StartStep, Goto
<1>4. ChecksHold'
  BY DEF IInv, ChecksHold, TypeOK, DbTypeOK, ControlTypeOK, TxTypeOK,
     NodeStates, CmdStates, LeaderHoldsLock, StartReset, StartStep, Goto
<1>5. RowsOwned'
  BY DEF IInv, RowsOwned, TypeOK, DbTypeOK, ControlTypeOK, TxTypeOK,
     NodeStates, CmdStates, StartReset, StartStep, Goto
<1>6. LeaderExtendsHistory'
  BY DEF IInv, LeaderExtendsHistory, TypeOK, DbTypeOK, ControlTypeOK,
     TxTypeOK, NodeStates, CmdStates, LeaderHoldsLock, RowsOwned,
     ParametersValid, GetLatestHistoryLedger, StartReset, StartStep, Goto
<1>7. StateMatchesLastIngested'
  BY DEF IInv, StateMatchesLastIngested, TypeOK, DbTypeOK, ControlTypeOK,
     TxTypeOK, ParametersValid, ChecksHold, StartReset, StartStep, Goto
<1>8. NoUncommandedGap'
  BY DEF IInv, NoUncommandedGap, TypeOK, DbTypeOK, ControlTypeOK,
     TxTypeOK, RowsOwned, LeaderExtendsHistory, ChecksHold, StartReset,
     StartStep, Goto
<1> QED
  BY <1>1, <1>2, <1>3, <1>4, <1>5, <1>6, <1>7, <1>8 DEF IInv

\* startState.run: history is behind the state, the missing range comes first.
LEMMA StartCatchUpStep ==
  ASSUME IInv, NEW n \in Nodes, StartCatchUp(n)
  PROVE  IInv'
<1>1. TypeOK'
  <2>1. DbTypeOK'
    BY DEF IInv, TypeOK, DbTypeOK, ControlTypeOK, TxTypeOK,
       ParametersValid, ChecksHold, StartCatchUp, StartStep
  <2>2. ControlTypeOK'
    BY DEF IInv, TypeOK, DbTypeOK, ControlTypeOK, NodeStates, CmdStates,
       ParametersValid, ChecksHold, StartCatchUp, StartStep, Goto
  <2>3. TxTypeOK'
    BY DEF IInv, TypeOK, DbTypeOK, ControlTypeOK, TxTypeOK,
       StartCatchUp, StartStep
  <2> QED
    BY <2>1, <2>2, <2>3 DEF TypeOK
<1>2. LeaderHoldsLock'
  BY DEF IInv, LeaderHoldsLock, TypeOK, DbTypeOK, ControlTypeOK, TxTypeOK,
     NodeStates, CmdStates, StartCatchUp, StartStep, Goto
<1>3. ParametersValid'
  BY DEF IInv, ParametersValid, TypeOK, DbTypeOK, ControlTypeOK, TxTypeOK,
     NodeStates, CmdStates, StartCatchUp, StartStep, Goto
<1>4. ChecksHold'
  BY DEF IInv, ChecksHold, TypeOK, DbTypeOK, ControlTypeOK, TxTypeOK,
     NodeStates, CmdStates, LeaderHoldsLock, StartCatchUp, StartStep, Goto
<1>5. RowsOwned'
  BY DEF IInv, RowsOwned, TypeOK, DbTypeOK, ControlTypeOK, TxTypeOK,
     NodeStates, CmdStates, StartCatchUp, StartStep, Goto
<1>6. LeaderExtendsHistory'
  BY DEF IInv, LeaderExtendsHistory, TypeOK, DbTypeOK, ControlTypeOK,
     TxTypeOK, NodeStates, CmdStates, LeaderHoldsLock, RowsOwned,
     ParametersValid, GetLatestHistoryLedger, StartCatchUp, StartStep,
     Goto
<1>7. StateMatchesLastIngested'
  BY DEF IInv, StateMatchesLastIngested, TypeOK, DbTypeOK, ControlTypeOK,
     TxTypeOK, ParametersValid, ChecksHold, StartCatchUp, StartStep, Goto
<1>8. NoUncommandedGap'
  BY DEF IInv, NoUncommandedGap, TypeOK, DbTypeOK, ControlTypeOK,
     TxTypeOK, RowsOwned, LeaderExtendsHistory, ChecksHold, StartCatchUp,
     StartStep, Goto
<1> QED
  BY <1>1, <1>2, <1>3, <1>4, <1>5, <1>6, <1>7, <1>8 DEF IInv

\* startState.run: state and history agree, resume.
LEMMA StartResumeStep ==
  ASSUME IInv, NEW n \in Nodes, StartResume(n)
  PROVE  IInv'
<1>1. Moves(n, "resume", lastIngested, 0)
  BY DEF Moves, IInv, TypeOK, DbTypeOK, ControlTypeOK, TxTypeOK, NodeStates, CmdStates,
     RowsOwned, ParametersValid, StartResume, StartStep
<1> QED
  BY <1>1, MovesPreserve

\* waitForCheckpointState.run starts over.
LEMMA WaitForCheckpointStep ==
  ASSUME IInv, NEW n \in Nodes, WaitForCheckpoint(n)
  PROVE  IInv'
<1>1. Moves(n, "start", 0, 0)
  BY DEF Moves, IInv, TypeOK, DbTypeOK, ControlTypeOK, TxTypeOK, NodeStates, CmdStates,
     RowsOwned, ParametersValid, WaitForCheckpoint
<1> QED
  BY <1>1, MovesPreserve

\* buildState.run up to the double check under the row lock.
LEMMA BuildBeginStep ==
  ASSUME IInv, NEW p \in Procs, BuildBegin(p)
  PROVE  IInv'
<1>1. TypeOK'
  <2>1. DbTypeOK'
    BY DEF IInv, TypeOK, DbTypeOK, ControlTypeOK, TxTypeOK,
       ParametersValid, ChecksHold, BuildBegin, FailNode
  <2>2. ControlTypeOK'
    BY DEF IInv, TypeOK, DbTypeOK, ControlTypeOK, NodeStates, CmdStates,
       ParametersValid, ChecksHold, BuildBegin, FailNode, Goto
  <2>3. TxTypeOK'
    BY DEF IInv, TypeOK, DbTypeOK, ControlTypeOK, TxTypeOK, BuildBegin, FailNode
  <2> QED
    BY <2>1, <2>2, <2>3 DEF TypeOK
<1>2. LeaderHoldsLock'
  BY DEF IInv, LeaderHoldsLock, TypeOK, DbTypeOK, ControlTypeOK, TxTypeOK,
     NodeStates, CmdStates, BuildBegin, Goto, FailNode
<1>3. ParametersValid'
  BY DEF IInv, ParametersValid, TypeOK, DbTypeOK, ControlTypeOK, TxTypeOK,
     NodeStates, CmdStates, BuildBegin, Goto, FailNode
<1>4. ChecksHold'
  BY DEF IInv, ChecksHold, TypeOK, DbTypeOK, ControlTypeOK, TxTypeOK,
     NodeStates, CmdStates, LeaderHoldsLock, BuildBegin, Goto, FailNode
<1>5. RowsOwned'
  <2>1. pc[p] # "historyRangeTx" /\ pc'[p] # "historyRangeTx" /\ UNCHANGED <<ins, del, commanded>>
    BY DEF IInv, TypeOK, DbTypeOK, ControlTypeOK, TxTypeOK, BuildBegin,
       Goto, FailNode
  <2>2. pc'[p] \notin {"reingest", "reingestReady", "reingestTx", "reingestFailed"}
    BY DEF IInv, TypeOK, DbTypeOK, ControlTypeOK, TxTypeOK, BuildBegin,
       Goto, FailNode
  <2>3. \A q \in Procs \ {p} : UNCHANGED <<pc[q], arg[q], to[q], cur[q]>>
    BY DEF IInv, TypeOK, DbTypeOK, ControlTypeOK, TxTypeOK, BuildBegin, Goto
  <2> QED
    BY <2>1, <2>2, <2>3 DEF IInv, TypeOK, DbTypeOK, ControlTypeOK,
       TxTypeOK, RowsOwned
<1>6. LeaderExtendsHistory'
  BY DEF IInv, LeaderExtendsHistory, TypeOK, DbTypeOK, ControlTypeOK,
     TxTypeOK, NodeStates, CmdStates, LeaderHoldsLock, RowsOwned,
     ParametersValid, GetLatestHistoryLedger, BuildBegin, Goto, FailNode
<1>7. StateMatchesLastIngested'
  BY DEF IInv, StateMatchesLastIngested, TypeOK, DbTypeOK, ControlTypeOK,
     TxTypeOK, ParametersValid, ChecksHold, BuildBegin, Goto, FailNode
<1>8. NoUncommandedGap'
  BY DEF IInv, NoUncommandedGap, TypeOK, DbTypeOK, ControlTypeOK,
     TxTypeOK, RowsOwned, LeaderExtendsHistory, ChecksHold, BuildBegin,
     Goto, FailNode
<1> QED
  BY <1>1, <1>2, <1>3, <1>4, <1>5, <1>6, <1>7, <1>8 DEF IInv

\* buildState.run truncates, builds and commits.
LEMMA BuildCommitStep ==
  ASSUME IInv, NEW p \in Procs, BuildCommit(p)
  PROVE  IInv'
<1>1. TypeOK'
  <2>1. DbTypeOK'
    BY DEF IInv, TypeOK, DbTypeOK, ControlTypeOK, TxTypeOK,
       ParametersValid, ChecksHold, BuildCommit, FailNode, EndTx, Fault
  <2>2. ControlTypeOK'
    BY DEF IInv, TypeOK, DbTypeOK, ControlTypeOK, NodeStates, CmdStates,
       ParametersValid, ChecksHold, BuildCommit, FailNode, EndTx, Fault,
       Goto
  <2>3. TxTypeOK'
    BY DEF IInv, TypeOK, DbTypeOK, ControlTypeOK, TxTypeOK, BuildCommit,
       FailNode, EndTx, Fault
  <2> QED
    BY <2>1, <2>2, <2>3 DEF TypeOK
<1>2. LeaderHoldsLock'
  BY DEF IInv, LeaderHoldsLock, TypeOK, DbTypeOK, ControlTypeOK, TxTypeOK,
     NodeStates, CmdStates, BuildCommit, Goto, FailNode, EndTx, Fault
<1>3. ParametersValid'
  BY DEF IInv, ParametersValid, TypeOK, DbTypeOK, ControlTypeOK, TxTypeOK,
     NodeStates, CmdStates, BuildCommit, Goto, FailNode, EndTx, Fault
<1>4. ChecksHold'
  <2>1. \A q \in Procs : pc'[q] \notin {"buildTx", "resumeTx"}
    BY DEF IInv, LeaderHoldsLock, TypeOK, ControlTypeOK, NodeStates, CmdStates,
       BuildCommit, Goto, FailNode
  <2> QED
    BY <2>1 DEF ChecksHold
<1>5. RowsOwned'
  BY DEF IInv, RowsOwned, TypeOK, DbTypeOK, ControlTypeOK, TxTypeOK,
     NodeStates, CmdStates, BuildCommit, Goto, FailNode, EndTx, Fault
<1>6. LeaderExtendsHistory'
  BY SMTT(20) DEF IInv, LeaderExtendsHistory, TypeOK, DbTypeOK, ControlTypeOK,
     TxTypeOK, NodeStates, CmdStates, LeaderHoldsLock, RowsOwned,
     ParametersValid, GetLatestHistoryLedger, BuildCommit, Goto, FailNode,
     EndTx, Fault
<1>7. StateMatchesLastIngested'
  BY DEF IInv, StateMatchesLastIngested, TypeOK, DbTypeOK, ControlTypeOK,
     TxTypeOK, ParametersValid, ChecksHold, BuildCommit, Goto, FailNode,
     EndTx, Fault
<1>8. NoUncommandedGap'
  BY DEF IInv, NoUncommandedGap, TypeOK, DbTypeOK, ControlTypeOK,
     TxTypeOK, RowsOwned, LeaderExtendsHistory, ChecksHold, BuildCommit,
     Goto, FailNode, EndTx, Fault
<1> QED
  BY <1>1, <1>2, <1>3, <1>4, <1>5, <1>6, <1>7, <1>8 DEF IInv

\* buildState.run fails and rolls back.
LEMMA BuildFailStep ==
  ASSUME IInv, NEW p \in Procs, BuildFail(p)
  PROVE  IInv'
<1>1. Moves(p, FailNode(p), 0, 0)
  BY DEF Moves, IInv, TypeOK, DbTypeOK, ControlTypeOK, TxTypeOK, NodeStates, CmdStates,
     RowsOwned, ParametersValid, BuildFail, FailNode, Fault
<1> QED
  BY <1>1, MovesPreserve

\* resumeState.run up to its checks under the row lock.
LEMMA ResumeBeginStep ==
  ASSUME IInv, NEW n \in Nodes, ResumeBegin(n)
  PROVE  IInv'
<1>1. TypeOK'
  <2>1. DbTypeOK'
    BY DEF IInv, TypeOK, DbTypeOK, ControlTypeOK, TxTypeOK,
       ParametersValid, ChecksHold, ResumeBegin
  <2>2. ControlTypeOK'
    BY DEF IInv, TypeOK, DbTypeOK, ControlTypeOK, NodeStates, CmdStates,
       ParametersValid, ChecksHold, ResumeBegin, Goto
  <2>3. TxTypeOK'
    BY DEF IInv, TypeOK, DbTypeOK, ControlTypeOK, TxTypeOK, ResumeBegin
  <2> QED
    BY <2>1, <2>2, <2>3 DEF TypeOK
<1>2. LeaderHoldsLock'
  BY DEF IInv, LeaderHoldsLock, TypeOK, DbTypeOK, ControlTypeOK, TxTypeOK,
     NodeStates, CmdStates, ResumeBegin, Goto
<1>3. ParametersValid'
  BY SMTT(20) DEF IInv, ParametersValid, TypeOK, DbTypeOK, ControlTypeOK, TxTypeOK,
     NodeStates, CmdStates, ResumeBegin, Goto
<1>4. ChecksHold'
  BY DEF IInv, ChecksHold, ParametersValid, StateMatchesLastIngested,
     TypeOK, DbTypeOK, ControlTypeOK, TxTypeOK, NodeStates, CmdStates,
     LeaderHoldsLock, ResumeBegin, Goto
<1>5. RowsOwned'
  <2>1. pc[n] # "historyRangeTx" /\ pc'[n] # "historyRangeTx" /\ UNCHANGED <<ins, del, commanded>>
    BY DEF IInv, TypeOK, DbTypeOK, ControlTypeOK, TxTypeOK, ResumeBegin, Goto
  <2>2. \A q \in Procs \ {n} : UNCHANGED <<pc[q], arg[q], to[q], cur[q]>>
    BY DEF IInv, TypeOK, DbTypeOK, ControlTypeOK, TxTypeOK, ResumeBegin, Goto
  <2> QED
    BY <2>1, <2>2, SMTT(20) DEF IInv, TypeOK, DbTypeOK, ControlTypeOK, TxTypeOK, RowsOwned
<1>6. LeaderExtendsHistory'
  BY SMTT(20) DEF IInv, LeaderExtendsHistory, TypeOK, DbTypeOK, ControlTypeOK,
     TxTypeOK, NodeStates, CmdStates, LeaderHoldsLock, RowsOwned,
     ParametersValid, GetLatestHistoryLedger, ResumeBegin, Goto
<1>7. StateMatchesLastIngested'
  BY Zenon DEF IInv, StateMatchesLastIngested, TypeOK, DbTypeOK, ControlTypeOK,
     TxTypeOK, ParametersValid, ChecksHold, ResumeBegin, Goto
<1>8. NoUncommandedGap'
  BY Zenon DEF IInv, NoUncommandedGap, TypeOK, DbTypeOK, ControlTypeOK,
     TxTypeOK, RowsOwned, LeaderExtendsHistory, ChecksHold, ResumeBegin,
     Goto
<1> QED
  BY <1>1, <1>2, <1>3, <1>4, <1>5, <1>6, <1>7, <1>8 DEF IInv

\* resumeState.run ingests the next ledger and commits.
LEMMA ResumeCommitStep ==
  ASSUME IInv, NEW n \in Nodes, ResumeCommit(n)
  PROVE  IInv'
<1>1. TypeOK'
  <2>1. DbTypeOK'
    <3>1. arg[n] + 1 \in Ledgers
      BY DEF IInv, TypeOK, DbTypeOK, ControlTypeOK, TxTypeOK,
         ChecksHold, ResumeCommit
    <3>2. RunAllProcessorsOnLedger(n, arg[n] + 1) \in 0..Corrupt
      BY <3>1 DEF RunAllProcessorsOnLedger
    <3>3. /\ state' \in 0..Corrupt /\ lastIngested' \in Ledgers
          /\ history' = history \cup {arg[n] + 1}
          /\ UNCHANGED <<network, checkpoint, ingestVersion, stateVersion>>
      BY <3>1, <3>2, Zenon DEF ResumeCommit
    <3>4. history' \subseteq Ledgers
      BY <3>1, <3>3, Zenon DEF IInv, TypeOK, DbTypeOK
    <3> QED
      BY <3>3, <3>4 DEF IInv, TypeOK, DbTypeOK
  <2>2. ControlTypeOK'
    BY DEF IInv, TypeOK, DbTypeOK, ControlTypeOK, NodeStates, CmdStates,
       ParametersValid, ChecksHold, ResumeCommit, EndTx, Fault,
       RunAllProcessorsOnLedger, Goto
  <2>3. TxTypeOK'
    BY DEF IInv, TypeOK, DbTypeOK, ControlTypeOK, TxTypeOK,
       ResumeCommit, EndTx, Fault, RunAllProcessorsOnLedger
  <2> QED
    BY <2>1, <2>2, <2>3 DEF TypeOK
<1>2. LeaderHoldsLock'
  BY DEF IInv, LeaderHoldsLock, TypeOK, DbTypeOK, ControlTypeOK, TxTypeOK,
     NodeStates, CmdStates, ResumeCommit, Goto, EndTx, Fault,
     RunAllProcessorsOnLedger
<1>3. ParametersValid'
  BY SMTT(20) DEF IInv, ParametersValid, TypeOK, DbTypeOK, ControlTypeOK, TxTypeOK,
     NodeStates, CmdStates, ResumeCommit, Goto, EndTx, Fault,
     RunAllProcessorsOnLedger
<1>4. ChecksHold'
  BY Zenon DEF IInv, ChecksHold, TypeOK, DbTypeOK, ControlTypeOK, TxTypeOK,
     NodeStates, CmdStates, LeaderHoldsLock, ResumeCommit, Goto, EndTx,
     Fault, RunAllProcessorsOnLedger
<1>5. RowsOwned'
  BY SMTT(20) DEF IInv, RowsOwned, TypeOK, DbTypeOK, ControlTypeOK, TxTypeOK,
     NodeStates, CmdStates, ResumeCommit, Goto, EndTx, Fault,
     RunAllProcessorsOnLedger
<1>6. LeaderExtendsHistory'
  BY SMTT(20) DEF IInv, LeaderExtendsHistory, TypeOK, DbTypeOK, ControlTypeOK,
     TxTypeOK, NodeStates, CmdStates, LeaderHoldsLock, RowsOwned,
     ParametersValid, GetLatestHistoryLedger, ResumeCommit, Goto, EndTx,
     Fault, RunAllProcessorsOnLedger
<1>7. StateMatchesLastIngested'
  BY SMTT(20) DEF IInv, StateMatchesLastIngested, TypeOK, DbTypeOK, ControlTypeOK,
     TxTypeOK, ParametersValid, ChecksHold, ResumeCommit, Goto, EndTx,
     Fault, RunAllProcessorsOnLedger
<1>8. NoUncommandedGap'
  BY SMTT(20) DEF IInv, NoUncommandedGap, TypeOK, DbTypeOK, ControlTypeOK,
     TxTypeOK, RowsOwned, LeaderExtendsHistory, ChecksHold, ResumeCommit,
     Goto, EndTx, Fault, RunAllProcessorsOnLedger
<1> QED
  BY <1>1, <1>2, <1>3, <1>4, <1>5, <1>6, <1>7, <1>8 DEF IInv

\* resumeState.run finds its history row taken.
LEMMA ResumeConflictStep ==
  ASSUME IInv, NEW n \in Nodes, ResumeConflict(n)
  PROVE  IInv'
<1>1. Moves(n, "resume", arg[n], 0)
  BY SMTT(20) DEF Moves, IInv, TypeOK, DbTypeOK, ControlTypeOK, TxTypeOK, NodeStates, CmdStates,
     RowsOwned, ParametersValid, ResumeConflict
<1> QED
  BY <1>1, MovesPreserve

\* resumeState.run fails and rolls back.
LEMMA ResumeFailStep ==
  ASSUME IInv, NEW n \in Nodes, ResumeFail(n)
  PROVE  IInv'
<1>1. Moves(n, "start", 0, 0) \/ Moves(n, "resume", arg[n], 0)
  BY SMTT(20) DEF Moves, IInv, TypeOK, DbTypeOK, ControlTypeOK, TxTypeOK, NodeStates, CmdStates,
     RowsOwned, ParametersValid, ResumeFail, Fault
<1> QED
  BY <1>1, MovesPreserve

\* The initial database and processes satisfy the inductive invariant.
LEMMA InitIInv == Init => IInv
<1> SUFFICES ASSUME Init PROVE IInv
  OBVIOUS
<1>1. TypeOK
  BY DEF Init, TypeOK, DbTypeOK, ControlTypeOK, TxTypeOK, NodeStates, CmdStates
<1>2. IsCheckpoint(checkpoint)
  BY DEF Init, IsCheckpoint
<1>3. /\ LeaderHoldsLock /\ ParametersValid /\ ChecksHold
      /\ RowsOwned /\ LeaderExtendsHistory
  BY <1>2 DEF Init, LeaderHoldsLock, ParametersValid, ChecksHold, RowsOwned,
              LeaderExtendsHistory
<1> QED
  BY <1>1, <1>3 DEF Init, IInv, StateMatchesLastIngested, NoUncommandedGap
=============================================================================
