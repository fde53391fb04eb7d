------------------------ MODULE OrderBookStreamProofs ------------------------
\* What holds of OrderBookStream for every value of its constants.
EXTENDS OrderBookStream, TLAPS

RowsType == [Entries -> RowType]

\* The rows after ledger l, when r were those before it.
Ingested(r, l) == Compact(ProcessChanges(r, l), l)

\* The bounds are numbers.
LEMMA Bounds ==
  /\ MaxLedger \in Nat /\ MaxBuilds \in Nat
  /\ compactionWindow \in Nat /\ compactionWindow > 0
BY StateTablesAssumption

\* The entries of a ledger.
LEMMA ChainType ==
  ASSUME NEW l \in 0..MaxLedger
  PROVE  /\ Chain[l] \in [Entries -> 0..MaxLedger]
         /\ \A e \in Entries : Chain[l][e] \in 0..l
BY StateTablesAssumption

\* An entry was there, unchanged, since the ledger that last modified it.
LEMMA ChainKeeps ==
  ASSUME NEW l \in 0..MaxLedger, NEW e \in Entries, Chain[l][e] > 0,
         NEW k \in Chain[l][e]..l
  PROVE  Chain[k][e] = Chain[l][e]
BY StateTablesAssumption

USE Bounds

-----------------------------------------------------------------------------
(* Facts about rows.                                                       *)

\* The rows that StreamAll returns are the entries of the ledger.
LEMMA StreamAllExact ==
  ASSUME NEW r \in RowsType, NEW l \in 0..MaxLedger, Accurate(r, l)
  PROVE  StreamAll(r) = Chain[l]
<1>1. ASSUME NEW e \in Entries PROVE StreamAll(r)[e] = Chain[l][e]
  <2>1. CASE r[e].deleted
    <3>1. l \in r[e].mod..l /\ \A k \in r[e].mod..l : Chain[k][e] = 0
      BY <2>1 DEF Accurate, RowAccurate
    <3> QED BY <2>1, <3>1 DEF StreamAll
  <2>2. CASE ~ r[e].deleted
    BY <2>2 DEF Accurate, RowAccurate, StreamAll
  <2> QED BY <2>1, <2>2
<1>2. Chain[l] \in [Entries -> 0..MaxLedger]
  BY ChainType
<1>3. StreamAll(r) = [e \in Entries |-> StreamAll(r)[e]]
  BY DEF StreamAll
<1> QED BY <1>1, <1>2, <1>3

\* A checkpoint's entries as rows, compacted or not.
LEMMA BuiltRows ==
  ASSUME NEW c \in 1..MaxLedger
  PROVE  LET r == Compact([e \in Entries |-> Row(Chain[c][e])], c)
         IN  r \in RowsType /\ Accurate(r, c)
<1> DEFINE r == Compact([e \in Entries |-> Row(Chain[c][e])], c)
<1>1. Chain[c] \in [Entries -> 0..MaxLedger]
  BY ChainType
<1>2. r = [e \in Entries |-> Row(Chain[c][e])]
  BY <1>1, Zenon DEF Compact, Row, NoRow
<1> HIDE DEF r
<1>3. r \in RowsType
  <2>1. \A e \in Entries : Row(Chain[c][e]) \in RowType
    BY <1>1 DEF RowType, Row
  <2> QED BY <1>2, <2>1 DEF RowsType
<1>4. Accurate(r, c)
  BY <1>1, <1>2 DEF Accurate, RowAccurate, Row
<1> QED BY <1>3, <1>4 DEF r

\* One entry, one ledger: the row that ProcessChanges and Compact leave.
LEMMA IngestedRow ==
  ASSUME NEW r \in RowsType, NEW l \in 1..MaxLedger, Accurate(r, l - 1),
         NEW e \in Entries
  PROVE  LET q == Ingested(r, l)[e]
         IN  /\ q \in RowType
             /\ RowAccurate(q, e, l)
             /\ ~ q.deleted /\ q.mod = 0 =>
                  \/ ~ r[e].deleted /\ r[e].mod = 0
                  \/ /\ r[e].deleted /\ r[e].mod <= l - compactionWindow
                     /\ Chain[l][e] = 0
<1> DEFINE p == ProcessChanges(r, l)[e]
           q == Ingested(r, l)[e]
<1>1. Chain[l] \in [Entries -> 0..MaxLedger] /\ Chain[l - 1] \in [Entries -> 0..MaxLedger]
  BY ChainType
<1>2. r[e] \in RowType
  BY DEF RowsType
<1>3. /\ ~ r[e].deleted => r[e].mod = Chain[l - 1][e]
      /\ r[e].deleted =>
           r[e].mod \in 1..(l - 1) /\ \A k \in r[e].mod..(l - 1) : Chain[k][e] = 0
  BY DEF Accurate, RowAccurate
<1>4. \/ Chain[l][e] = Chain[l - 1][e] /\ p = r[e]
      \/ Chain[l][e] # Chain[l - 1][e] /\ Chain[l][e] = 0 /\ p = DeletedRow(l)
      \/ Chain[l][e] # Chain[l - 1][e] /\ Chain[l][e] # 0 /\ p = Row(Chain[l][e])
  BY DEF ProcessChanges
<1>5. \/ l > compactionWindow /\ p.deleted /\ p.mod <= l - compactionWindow /\ q = NoRow
      \/ ~ (l > compactionWindow /\ p.deleted /\ p.mod <= l - compactionWindow) /\ q = p
  BY DEF Compact, Ingested
<1> HIDE DEF p, q
<1>6. CASE Chain[l][e] = Chain[l - 1][e] /\ p = r[e]
  <2>1. CASE r[e].deleted
    <3>1. Chain[l - 1][e] = 0
      BY <1>3, <2>1
    <3>2. \A k \in r[e].mod..l : Chain[k][e] = 0
      BY <1>3, <1>6, <2>1, <3>1 DEF RowType
    <3>3. CASE r[e].mod <= l - compactionWindow /\ q = NoRow
      BY <1>6, <2>1, <3>1, <3>3 DEF RowAccurate, NoRow, RowType, q
    <3>4. CASE q = r[e]
      BY <1>2, <1>3, <2>1, <3>2, <3>4 DEF RowAccurate, RowType, q
    <3> QED BY <1>5, <1>6, <3>3, <3>4
  <2>2. CASE ~ r[e].deleted
    BY <1>2, <1>3, <1>5, <1>6, <2>2 DEF RowAccurate, q
  <2> QED BY <2>1, <2>2
<1>7. CASE Chain[l][e] # Chain[l - 1][e] /\ Chain[l][e] = 0 /\ p = DeletedRow(l)
  <2>1. p \in RowType /\ p.deleted /\ p.mod = l
    BY <1>7 DEF DeletedRow, RowType
  <2>2. q = p
    BY <1>5, <2>1
  <2> QED BY <1>7, <2>1, <2>2 DEF RowAccurate, q
<1>8. CASE Chain[l][e] # Chain[l - 1][e] /\ Chain[l][e] # 0 /\ p = Row(Chain[l][e])
  <2>1. p \in RowType /\ ~ p.deleted /\ p.mod = Chain[l][e]
    BY <1>1, <1>8 DEF Row, RowType
  <2>2. q = p
    BY <1>5, <2>1
  <2> QED BY <1>8, <2>1, <2>2 DEF RowAccurate, q
<1> QED BY <1>4, <1>6, <1>7, <1>8

\* Ingesting a ledger takes accurate rows to accurate rows.
LEMMA IngestedRows ==
  ASSUME NEW r \in RowsType, NEW l \in 1..MaxLedger, Accurate(r, l - 1)
  PROVE  Ingested(r, l) \in RowsType /\ Accurate(Ingested(r, l), l)
<1> DEFINE q == Ingested(r, l)
<1>1. q = [e \in Entries |-> q[e]]
  BY DEF Compact, ProcessChanges, Ingested
<1>2. \A e \in Entries : q[e] \in RowType
  BY IngestedRow, Zenon
<1>3. Accurate(q, l)
  BY IngestedRow, Zenon DEF Accurate
<1> HIDE DEF q
<1>4. q \in RowsType
  BY <1>1, <1>2 DEF RowsType
<1> QED BY <1>3, <1>4 DEF q

\* ... and what it forgets is older than the compaction.
LEMMA IngestedAbsences ==
  ASSUME NEW r \in RowsType, NEW l \in 1..MaxLedger, Accurate(r, l - 1),
         NEW from \in 0..MaxLedger, AbsentSince(r, from, l - 1)
  PROVE  AbsentSince(Ingested(r, l), from, l)
<1> DEFINE q == Ingested(r, l)
<1> SUFFICES ASSUME NEW e \in Entries, ~ q[e].deleted, q[e].mod = 0,
                    NEW k \in from..l, k >= l - compactionWindow
             PROVE  Chain[k][e] = 0
  BY DEF AbsentSince
<1>1. Chain[l][e] = 0
  BY IngestedRow, Zenon DEF RowAccurate
<1>2. \/ ~ r[e].deleted /\ r[e].mod = 0
      \/ r[e].deleted /\ r[e].mod <= l - compactionWindow
  BY IngestedRow, Zenon
<1> HIDE DEF q
<1>3. CASE k = l
  BY <1>1, <1>3
<1>4. CASE k # l
  <2>1. k \in from..(l - 1) /\ k >= (l - 1) - compactionWindow
    BY <1>4
  <2>2. CASE ~ r[e].deleted /\ r[e].mod = 0
    BY <2>1, <2>2 DEF AbsentSince
  <2>3. CASE r[e].deleted /\ r[e].mod <= l - compactionWindow
    <3>1. r[e].mod \in 1..(l - 1) /\ \A j \in r[e].mod..(l - 1) : Chain[j][e] = 0
      BY <2>3 DEF Accurate, RowAccurate
    <3> QED BY <2>1, <2>3, <3>1
  <2> QED BY <1>2, <2>2, <2>3
<1> QED BY <1>3, <1>4

\* The rows updated since ledger g are all that changed since g, if the
\* compaction has not forgotten anything since.
LEMMA PatchedRows ==
  ASSUME NEW r \in RowsType, NEW l \in 0..MaxLedger, NEW g \in 1..l,
         Accurate(r, l), AbsentSince(r, g, l), g >= l - compactionWindow
  PROVE  [e \in Entries |-> IF r[e].mod > g THEN StreamAll(r)[e] ELSE Chain[g][e]]
           = Chain[l]
<1>1. Chain[l] \in [Entries -> 0..MaxLedger] /\ Chain[g] \in [Entries -> 0..MaxLedger]
  BY ChainType
<1>2. ASSUME NEW e \in Entries, ~ (r[e].mod > g) PROVE Chain[g][e] = Chain[l][e]
  <2>1. r[e] \in RowType
    BY DEF RowsType
  <2>2. CASE r[e].deleted
    <3>1. r[e].mod \in 1..l /\ \A k \in r[e].mod..l : Chain[k][e] = 0
      BY <2>2 DEF Accurate, RowAccurate
    <3> QED BY <1>2, <3>1
  <2>3. CASE ~ r[e].deleted /\ r[e].mod = 0
    <3>1. Chain[l][e] = 0
      BY <2>3 DEF Accurate, RowAccurate
    <3>2. Chain[g][e] = 0
      BY <2>3 DEF AbsentSince
    <3> QED BY <3>1, <3>2
  <2>4. CASE ~ r[e].deleted /\ r[e].mod # 0
    <3>1. r[e].mod = Chain[l][e] /\ Chain[l][e] > 0
      BY <1>1, <2>4 DEF Accurate, RowAccurate
    <3>2. g \in Chain[l][e]..l
      BY <1>1, <1>2, <2>1, <3>1 DEF RowType
    <3> QED BY <3>1, <3>2, ChainKeeps
  <2> QED BY <2>2, <2>3, <2>4
<1>3. StreamAll(r) = Chain[l]
  BY StreamAllExact
<1> QED BY <1>1, <1>2, <1>3

-----------------------------------------------------------------------------
(* Steps.                                                                  *)

\* The type invariant, variable by variable.
LEMMA Types ==
  TypeOK <=>
    /\ lastIngested \in 0..MaxLedger /\ latestHistory \in 0..MaxLedger /\ state \in 0..MaxLedger
    /\ rows \in RowsType /\ builds \in 0..MaxBuilds
    /\ offerCompaction \in 0..MaxLedger /\ poolCompaction \in 0..MaxLedger
    /\ stateInvalid \in BOOLEAN
    /\ snap \in SnapshotType /\ spc \in {"idle", "load", "patch", "same", "patched"}
    /\ graph \in [Entries -> 0..MaxLedger]
    /\ graphLedger \in 0..MaxLedger /\ lastLedger \in 0..MaxLedger
    /\ loadedFrom \in 0..MaxBuilds /\ overtaken \in BOOLEAN
BY DEF TypeOK, Snapshot, SnapshotType, RowsType

\* ... and in the next state.
LEMMA TypesNext ==
  ASSUME lastIngested' \in 0..MaxLedger, latestHistory' \in 0..MaxLedger,
         state' \in 0..MaxLedger, rows' \in RowsType, builds' \in 0..MaxBuilds,
         offerCompaction' \in 0..MaxLedger, poolCompaction' \in 0..MaxLedger,
         stateInvalid' \in BOOLEAN, snap' \in SnapshotType,
         spc' \in {"idle", "load", "patch", "same", "patched"}, graph' \in [Entries -> 0..MaxLedger],
         graphLedger' \in 0..MaxLedger, lastLedger' \in 0..MaxLedger,
         loadedFrom' \in 0..MaxBuilds, overtaken' \in BOOLEAN
  PROVE  TypeOK'
BY DEF TypeOK, Snapshot, SnapshotType, RowsType

LEMMA InitIInv == Init => IInv
<1> SUFFICES ASSUME Init PROVE IInv
  OBVIOUS
<1>1. rows = [e \in Entries |-> NoRow] /\ rows \in RowsType
  BY DEF Init, TablesInit, RowsType, RowType, NoRow, NoRows
<1>2. NoSnapshot \in SnapshotType /\ EmptyGraph \in [Entries -> 0..MaxLedger]
  BY DEF NoSnapshot, SnapshotType, RowType, NoRow, NoRows, EmptyGraph
<1>3. TypeOK
  <2>1. stateInvalid \in BOOLEAN /\ overtaken \in BOOLEAN
    BY Zenon DEF Init, TablesInit
  <2> QED BY <1>1, <1>2, <2>1, Types DEF Init, TablesInit, LedgerInit
<1>4. Accurate(rows, 0)
  BY <1>1, StateTablesAssumption DEF Accurate, RowAccurate, NoRow
<1> QED
  BY <1>3, <1>4 DEF Init, TablesInit, LedgerInit, IInv, TablesInv, SnapshotInv, GraphInv,
     GraphAccurate, CompactedAt, NoSnapshot

\* A ledger is ingested between two steps of the stream.
LEMMA IngestLedgerStep ==
  ASSUME IInv, IngestLedger, UNCHANGED streamVars
  PROVE  IInv'
<1> DEFINE l == state + 1
<1>1. /\ l \in 1..MaxLedger /\ lastIngested' = l /\ state' = l
      /\ rows' = Ingested(rows, l)
      /\ offerCompaction' = CompactionSequence(offerCompaction, l)
      /\ poolCompaction' = CompactionSequence(poolCompaction, l)
      /\ latestHistory' \in 0..MaxLedger
      /\ UNCHANGED <<stateInvalid, builds, streamVars>>
  BY Types DEF IInv, IngestLedger, Resume, CommitProcessors, Ingested
<1>0. state \in Nat /\ l - 1 = state
  BY Types DEF IInv
<1>2. rows \in RowsType /\ Accurate(rows, l - 1)
  BY <1>0, Types DEF IInv, TablesInv
<1>3. rows' \in RowsType /\ Accurate(rows', l)
  BY <1>1, <1>2, IngestedRows
<1>4. ASSUME NEW from \in 0..MaxLedger, AbsentSince(rows, from, state)
      PROVE  AbsentSince(rows', from, l)
  <2>1. AbsentSince(rows, from, l - 1)
    BY <1>0, <1>4
  <2> HIDE DEF l
  <2> QED BY <1>1, <1>2, <2>1, IngestedAbsences
<1>5. offerCompaction' \in 0..MaxLedger /\ poolCompaction' \in 0..MaxLedger
      /\ CompactedAt(offerCompaction', l)
  BY <1>1, Types DEF IInv, CompactionSequence, CompactedAt
<1> HIDE DEF l
<1>6. TypeOK'
  BY <1>1, <1>3, <1>5, Types, TypesNext DEF IInv, streamVars
<1>7. TablesInv'
  BY <1>1, <1>3, <1>5 DEF TablesInv
<1>8. SnapshotInv'
  BY <1>1, <1>4, Types DEF IInv, SnapshotInv, SnapshotType, streamVars
<1>9. GraphInv'
  BY <1>1, <1>4, Types DEF IInv, GraphInv, streamVars
<1>10. GraphAccurate'
  BY <1>1 DEF IInv, GraphAccurate, streamVars
<1> QED BY <1>6, <1>7, <1>8, <1>9, <1>10 DEF IInv

\* The state is built again: what was read before is of another build.
LEMMA BuildStateStep ==
  ASSUME IInv, NEW c \in 1..MaxLedger, BuildState(c), UNCHANGED streamVars
  PROVE  IInv'
<1>1. /\ lastIngested' = c /\ state' = c /\ latestHistory' = latestHistory
      /\ rows' = Compact([e \in Entries |-> Row(Chain[c][e])], c)
      /\ offerCompaction' = CompactionSequence(offerCompaction, c)
      /\ poolCompaction' = CompactionSequence(poolCompaction, c)
      /\ stateInvalid' = FALSE /\ builds' = builds + 1 /\ builds' \in 0..MaxBuilds
      /\ UNCHANGED streamVars
  BY Types DEF IInv, BuildState, Build, CommitProcessors
<1>2. rows' \in RowsType /\ Accurate(rows', c)
  BY <1>1, BuiltRows
<1>3. offerCompaction' \in 0..MaxLedger /\ poolCompaction' \in 0..MaxLedger
      /\ CompactedAt(offerCompaction', c)
  <2>1. offerCompaction \in 0..MaxLedger /\ poolCompaction \in 0..MaxLedger
    BY Types DEF IInv
  <2>2. /\ offerCompaction' = CompactionSequence(offerCompaction, c)
        /\ poolCompaction' = CompactionSequence(poolCompaction, c)
    BY <1>1
  <2> QED BY <2>1, <2>2 DEF CompactionSequence, CompactedAt
<1>4. TypeOK'
  <2>1. stateInvalid' \in BOOLEAN
    BY <1>1, Zenon
  <2> QED BY <1>1, <1>2, <1>3, <2>1, Types, TypesNext DEF IInv, streamVars
<1>5. TablesInv'
  BY <1>1, <1>2, <1>3 DEF TablesInv
<1>6. SnapshotInv'
  BY <1>1, Types DEF IInv, SnapshotInv, SnapshotType, streamVars
<1>7. GraphInv'
  BY <1>1, Types DEF IInv, GraphInv, streamVars
<1>8. GraphAccurate'
  BY <1>1 DEF IInv, GraphAccurate, streamVars
<1> QED BY <1>4, <1>5, <1>6, <1>7, <1>8 DEF IInv

\* Steps that leave the tables and the stream alone.
LEMMA OtherStep ==
  ASSUME IInv,
         \/ (ResetState \/ HistoryWritten) /\ UNCHANGED streamVars
         \/ MarkStateInvalid
  PROVE  IInv'
<1>1. /\ lastIngested' \in {0, lastIngested} /\ latestHistory' \in 0..MaxLedger
      /\ UNCHANGED <<state, rows, offerCompaction, poolCompaction, builds, streamVars>>
  BY Types DEF IInv, ResetState, Reset, HistoryWritten, WriteHistory, MarkStateInvalid,
     tableVars, ledgerVars
<1>2. stateInvalid' \in BOOLEAN
  BY Types, Zenon DEF IInv, ResetState, HistoryWritten, MarkStateInvalid, tableVars
<1>3. TypeOK'
  BY <1>1, <1>2, Types, TypesNext DEF IInv, streamVars
<1>4. TablesInv' /\ SnapshotInv' /\ GraphInv' /\ GraphAccurate'
  BY <1>1 DEF IInv, TablesInv, SnapshotInv, GraphInv, GraphAccurate, streamVars
<1> QED BY <1>3, <1>4 DEF IInv

-----------------------------------------------------------------------------
(* Steps of the stream: the tables do not change.                          *)

LEMMA AbsentNow ==
  ASSUME NEW r \in RowsType, NEW l \in 0..MaxLedger, Accurate(r, l)
  PROVE  AbsentSince(r, l, l)
BY DEF Accurate, RowAccurate, AbsentSince

LEMMA StreamAllType ==
  ASSUME NEW r \in RowsType
  PROVE  StreamAll(r) \in [Entries -> 0..MaxLedger]
BY DEF StreamAll, RowsType, RowType

\* A query returns the rows of the snapshot, or none after a build.
LEMMA SeenRowsFacts ==
  ASSUME TypeOK
  PROVE  /\ SeenRows \in RowsType /\ snap.rows \in RowsType
         /\ snap.lastIngested \in 0..MaxLedger /\ snap.builds \in 0..MaxBuilds
         /\ snap.builds = builds => SeenRows = snap.rows
<1>1. /\ snap.rows \in RowsType /\ snap.lastIngested \in 0..MaxLedger
      /\ snap.builds \in 0..MaxBuilds
  BY Types DEF SnapshotType, RowsType
<1>2. NoRows \in RowsType
  BY DEF NoRows, NoRow, RowsType, RowType
<1> QED BY <1>1, <1>2 DEF SeenRows

\* No transaction is open after Return.
LEMMA Returned ==
  ASSUME Return
  PROVE  /\ snap' \in SnapshotType /\ spc' = "idle"
         /\ snap'.builds = 0 /\ snap'.lastIngested = 0
BY DEF Return, NoSnapshot, SnapshotType, RowType, NoRow, NoRows

\* The snapshot is of tables that fit one ledger.
LEMMA UpdateBeginStep == ASSUME IInv, UpdateBegin PROVE IInv'
<1>1. UNCHANGED <<dbVars, loadedFrom, overtaken>>
  BY DEF UpdateBegin
<1>2. UNCHANGED <<lastIngested, latestHistory, state, rows, offerCompaction, poolCompaction,
                  stateInvalid, builds, loadedFrom, overtaken>>
  BY <1>1 DEF dbVars, tableVars, ledgerVars
<1>3. TablesInv'
  BY <1>2 DEF IInv, TablesInv
<1>4. Snapshot \in SnapshotType /\ EmptyGraph \in [Entries -> 0..MaxLedger]
  BY DEF IInv, TypeOK, EmptyGraph
<1>5. CASE Unusable(Snapshot) /\ UNCHANGED <<spc, snap>> /\ spc = "idle"
           /\ graph' = EmptyGraph /\ graphLedger' = 0 /\ lastLedger' = 0
  <2>1. TypeOK'
    BY <1>2, <1>4, <1>5, Types, TypesNext DEF IInv
  <2>2. SnapshotInv' /\ GraphInv' /\ GraphAccurate'
    BY <1>2, <1>5, Types DEF IInv, SnapshotInv, GraphInv, GraphAccurate
  <2> QED BY <1>3, <2>1, <2>2 DEF IInv
<1>6. CASE snap' = Snapshot /\ spc' # "idle"
  <2>1. /\ snap'.rows = rows /\ snap'.lastIngested = lastIngested /\ snap'.builds = builds
        /\ snap'.offerCompaction = offerCompaction
    BY <1>6 DEF Snapshot
  <2>2. /\ snap'.builds <= builds'
        /\ snap'.lastIngested > 0 =>
             /\ Accurate(snap'.rows, snap'.lastIngested)
             /\ CompactedAt(snap'.offerCompaction, snap'.lastIngested)
             /\ AbsentSince(rows', snap'.lastIngested, state')
    BY <1>2, <2>1, AbsentNow, Types DEF IInv, TablesInv
  <2>3. CASE spc' = "load" /\ graph' = EmptyGraph /\ graphLedger' = 0 /\ lastLedger' = 0
    <3>1. TypeOK'
      BY <1>2, <1>4, <1>6, <2>3, Types, TypesNext DEF IInv
    <3>2. SnapshotInv' /\ GraphInv' /\ GraphAccurate'
      BY <1>2, <2>2, <2>3, Types DEF IInv, SnapshotInv, GraphInv, GraphAccurate
    <3> QED BY <1>3, <3>1, <3>2 DEF IInv
  <2>4. CASE /\ ~ RequiresReset(Snapshot) /\ UNCHANGED <<graph, graphLedger, lastLedger>>
             /\ spc' = IF lastIngested = lastLedger THEN "same" ELSE "patch"
    <3>1. TypeOK'
      BY <1>2, <1>4, <1>6, <2>4, Types, TypesNext DEF IInv
    <3>2. /\ lastLedger > 0 /\ lastLedger <= lastIngested /\ offerCompaction <= lastLedger
          /\ graphLedger = lastLedger /\ state = lastIngested
      BY <2>4, Types DEF IInv, TablesInv, GraphInv, RequiresReset, Snapshot
    <3>3. ~ overtaken /\ builds = loadedFrom => AbsentSince(rows, graphLedger, lastIngested)
      BY <3>2 DEF IInv, GraphInv
    <3>4. SnapshotInv'
      BY <1>2, <2>1, <2>2, <2>4, <3>2, <3>3 DEF SnapshotInv
    <3>5. GraphInv' /\ GraphAccurate'
      BY <1>2, <2>4 DEF IInv, GraphInv, GraphAccurate
    <3> QED BY <1>3, <3>1, <3>4, <3>5 DEF IInv
  <2> QED BY <1>6, <2>3, <2>4 DEF UpdateBegin
<1> QED BY <1>5, <1>6 DEF UpdateBegin

\* A full load takes the entries of the snapshot's ledger.
LEMMA LoadStep == ASSUME IInv, Load PROVE IInv'
<1>1. UNCHANGED <<lastIngested, latestHistory, state, rows, offerCompaction, poolCompaction,
                  stateInvalid, builds>>
  BY DEF Load, dbVars, tableVars, ledgerVars
<1>2. /\ SeenRows \in RowsType /\ snap.rows \in RowsType
      /\ snap.lastIngested \in 0..MaxLedger /\ snap.builds \in 0..MaxBuilds
      /\ snap.builds = builds => SeenRows = snap.rows
  BY SeenRowsFacts DEF IInv
<1>o. overtaken' \in BOOLEAN /\ (~ overtaken' => snap.builds = builds)
  BY Zenon DEF Load
<1>3. TypeOK'
  <2>1. overtaken' \in BOOLEAN
    BY <1>o
  <2> QED BY <1>1, <1>2, <2>1, StreamAllType, Returned, Types, TypesNext DEF IInv, Load
<1>4. TablesInv'
  BY <1>1 DEF IInv, TablesInv
<1>5. SnapshotInv'
  BY <1>1, Returned, Types DEF IInv, Load, SnapshotInv
<1>6. GraphInv'
  BY <1>1, <1>2, <1>o DEF IInv, Load, GraphInv, SnapshotInv
<1>7. GraphAccurate'
  BY <1>2, <1>o, StreamAllExact DEF IInv, Load, GraphAccurate, SnapshotInv
<1> QED BY <1>3, <1>4, <1>5, <1>6, <1>7 DEF IInv

\* An incremental update over one build misses nothing.
LEMMA PatchStep == ASSUME IInv, Patch PROVE IInv'
<1> DEFINE l == snap.lastIngested
<1>1. UNCHANGED <<lastIngested, latestHistory, state, rows, offerCompaction, poolCompaction,
                  stateInvalid, builds, snap, loadedFrom>>
  BY DEF Patch, dbVars, tableVars, ledgerVars
<1>2. /\ snap.rows \in RowsType /\ l \in 0..MaxLedger /\ snap.offerCompaction \in 0..MaxLedger
      /\ SeenRows \in RowsType /\ (snap.builds = builds => SeenRows = snap.rows)
  BY SeenRowsFacts, Types DEF IInv, SnapshotType
<1>3. /\ spc = "patch" /\ spc' = "patched" /\ graphLedger' = l /\ lastLedger' = l
      /\ graph' = [e \in Entries |->
                     IF SeenRows[e].mod > lastLedger THEN StreamAll(SeenRows)[e] ELSE graph[e]]
  BY DEF Patch, UpdatedRows
<1>4. /\ overtaken' \in BOOLEAN
      /\ ~ overtaken' => ~ overtaken /\ snap.builds = loadedFrom /\ snap.builds = builds
  BY Zenon DEF Patch
<1>5. /\ 0 < lastLedger /\ lastLedger <= l /\ snap.offerCompaction <= lastLedger
      /\ graphLedger = lastLedger /\ graphLedger \in 1..l /\ 0 < l
  BY <1>2, <1>3, Types DEF IInv, SnapshotInv, GraphInv
<1>6. TypeOK'
  <2>1. graph' \in [Entries -> 0..MaxLedger]
    BY <1>2, <1>3, StreamAllType, Types DEF IInv
  <2> QED BY <1>1, <1>2, <1>3, <1>4, <2>1, Types, TypesNext DEF IInv
<1>7. TablesInv'
  BY <1>1 DEF IInv, TablesInv
<1>8. SnapshotInv'
  <2>1. spc' = "patched" /\ lastLedger' = snap'.lastIngested /\ 0 < lastLedger'
    BY <1>1, <1>3, <1>5
  <2> QED BY <1>1, <2>1 DEF IInv, SnapshotInv
<1>9. GraphInv'
  BY <1>1, <1>3, <1>4, <1>5 DEF IInv, GraphInv, SnapshotInv
<1>10. ASSUME ~ overtaken' PROVE graph' = Chain[l]
  <2>1. graph = Chain[graphLedger] /\ AbsentSince(snap.rows, graphLedger, l)
    BY <1>3, <1>4, <1>5, <1>10 DEF IInv, GraphAccurate, SnapshotInv
  <2>2. graphLedger >= l - compactionWindow /\ Accurate(snap.rows, l)
    BY <1>2, <1>5 DEF IInv, SnapshotInv, CompactedAt
  <2>3. graph' = [e \in Entries |-> IF snap.rows[e].mod > graphLedger
                                    THEN StreamAll(snap.rows)[e] ELSE Chain[graphLedger][e]]
    BY <1>2, <1>3, <1>4, <1>5, <1>10, <2>1
  <2> HIDE DEF l
  <2> QED BY <1>2, <1>5, <2>1, <2>2, <2>3, PatchedRows, Zenon
<1>11. GraphAccurate'
  BY <1>3, <1>10 DEF GraphAccurate
<1> QED BY <1>6, <1>7, <1>8, <1>9, <1>11 DEF IInv

\* A verification that succeeds makes the graph one of the snapshot's build.
LEMMA VerifyStep == ASSUME IInv, Verify PROVE IInv'
<1>1. UNCHANGED <<lastIngested, latestHistory, state, rows, offerCompaction, poolCompaction,
                  stateInvalid, builds, graph, graphLedger>>
  BY DEF Verify, dbVars, tableVars, ledgerVars
<1>2. /\ SeenRows \in RowsType /\ snap.rows \in RowsType
      /\ snap.lastIngested \in 0..MaxLedger /\ snap.builds \in 0..MaxBuilds
      /\ snap.builds = builds => SeenRows = snap.rows
  BY SeenRowsFacts DEF IInv
<1>3. /\ Return /\ lastLedger' \in {0, lastLedger} /\ loadedFrom' \in {loadedFrom, snap.builds}
      /\ graphLedger = snap.lastIngested /\ snap.lastIngested > 0
  BY Types DEF IInv, Verify, Confirmed, SnapshotInv, GraphInv
<1>4. TypeOK'
  <2>1. overtaken' \in BOOLEAN
    BY Types, Zenon DEF IInv, Verify, Confirmed
  <2> QED BY <1>1, <1>2, <1>3, <2>1, Returned, Types, TypesNext DEF IInv
<1>5. TablesInv' /\ SnapshotInv'
  BY <1>1, <1>3, Returned, Types DEF IInv, TablesInv, SnapshotInv
<1>6. \/ graph = StreamAll(snap.rows) /\ loadedFrom' = snap.builds
      \/ UNCHANGED <<loadedFrom, overtaken>>
  BY <1>2 DEF Verify, Confirmed
<1>7. GraphInv' /\ GraphAccurate'
  <2>1. CASE graph = StreamAll(snap.rows) /\ loadedFrom' = snap.builds
    <3>1. graph = Chain[graphLedger]
      BY <1>2, <1>3, <2>1, StreamAllExact DEF IInv, SnapshotInv
    <3> QED BY <1>1, <1>3, <2>1, <3>1 DEF IInv, GraphInv, GraphAccurate, SnapshotInv
  <2>2. CASE UNCHANGED <<loadedFrom, overtaken>>
    BY <1>1, <1>3, <2>2 DEF IInv, GraphInv, GraphAccurate
  <2> QED BY <1>6, <2>1, <2>2
<1> QED BY <1>4, <1>5, <1>7 DEF IInv

\* Update returns without touching the graph.
LEMMA ReturnStep == ASSUME IInv, VerifyNotDue \/ UpdateFail PROVE IInv'
<1>1. /\ Return
      /\ UNCHANGED <<lastIngested, latestHistory, state, rows, offerCompaction, poolCompaction,
                     stateInvalid, builds, graph, graphLedger, lastLedger, loadedFrom, overtaken>>
  BY DEF VerifyNotDue, UpdateFail, dbVars, tableVars, ledgerVars
<1>2. TypeOK'
  BY <1>1, Returned, Types, TypesNext DEF IInv
<1>3. TablesInv' /\ SnapshotInv' /\ GraphInv' /\ GraphAccurate'
  BY <1>1, Returned, Types DEF IInv, TablesInv, SnapshotInv, GraphInv, GraphAccurate
<1> QED BY <1>2, <1>3 DEF IInv

LEMMA NextIInv == IInv /\ [Next]_vars => IInv'
<1> SUFFICES ASSUME IInv, [Next]_vars PROVE IInv'
  OBVIOUS
<1>1. CASE IngestionStep /\ TruncateWaits /\ UNCHANGED streamVars
  BY <1>1, IngestLedgerStep, BuildStateStep, OtherStep DEF IngestionStep
<1>2. CASE MarkStateInvalid
  BY <1>2, OtherStep
<1>3. CASE StreamStep
  BY <1>3, UpdateBeginStep, LoadStep, PatchStep, VerifyStep, ReturnStep DEF StreamStep
<1>4. CASE UNCHANGED vars
  BY <1>4, Zenon DEF vars, dbVars, tableVars, ledgerVars, streamVars, IInv, TypeOK, Snapshot,
     TablesInv, SnapshotInv, GraphInv, GraphAccurate
<1> QED BY <1>1, <1>2, <1>3, <1>4 DEF Next

-----------------------------------------------------------------------------
(* Theorems.                                                               *)

\* The variables of the tables and of the stream keep their types.
THEOREM TypeCorrect == Spec => []TypeOK
<1>1. IInv => TypeOK
  BY DEF IInv
<1> QED BY <1>1, InitIInv, NextIInv, PTL DEF Spec

\* For every chain of ledgers, every compaction window and any interleaving
\* with ingestion, the order book graph holds exactly the entries of its
\* ledger, unless an update came after a rebuild or was overtaken by one, and
\* neither a reset nor a verification has followed.
THEOREM GraphIsAccurate == Spec => []GraphAccurate
<1>1. IInv => GraphAccurate
  BY DEF IInv
<1> QED BY <1>1, InitIInv, NextIInv, PTL DEF Spec
=============================================================================
