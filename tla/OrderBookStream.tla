--------------------------- MODULE OrderBookStream ---------------------------
\* OrderBookStream (services/aurora/internal/ingest/orderbook.go): every two
\* seconds Update brings an in-memory graph of offers and liquidity pools up
\* to the state tables, which ingestion rewrites meanwhile, with the changes
\* since the last update or, after a reset, with all rows.  An Update reads
\* one repeatable-read snapshot; what it does to the graph happens later.
\* A build truncates the state tables, which is not versioned: an Update that
\* has not read them yet then finds them empty, and one that has read one of
\* them keeps the build waiting.
EXTENDS StateTables

VARIABLES
  spc,           \* where Update is: "idle", "load", "patch", or done with the changes,
                 \* "same" if there were none to read, "patched" if there were
  snap,          \* the snapshot that the running Update reads
  graph,         \* graph[e]: lastModifiedLedgerSeq of e in the graph, 0 if absent
  graphLedger,   \* OrderBookGraph.lastLedger
  lastLedger,    \* OrderBookStream.lastLedger
  loadedFrom,    \* the build of the state that the last full load read
  overtaken      \* an update read another build than loadedFrom, or tables that a
                 \* build has emptied

streamVars == <<spc, snap, graph, graphLedger, lastLedger, loadedFrom, overtaken>>
vars == <<dbVars, streamVars>>

EmptyGraph == [e \in Entries |-> 0]

Snapshot ==
  [stateInvalid |-> stateInvalid, latestHistory |-> latestHistory,
   lastIngested |-> lastIngested, offerCompaction |-> offerCompaction,
   poolCompaction |-> poolCompaction, rows |-> rows, builds |-> builds]

\* No transaction is open.
NoSnapshot ==
  [stateInvalid |-> FALSE, latestHistory |-> 0, lastIngested |-> 0, offerCompaction |-> 0,
   poolCompaction |-> 0, rows |-> NoRows, builds |-> 0]

Init ==
  /\ TablesInit
  /\ spc = "idle" /\ snap = NoSnapshot
  /\ graph = EmptyGraph /\ graphLedger = 0 /\ lastLedger = 0
  /\ loadedFrom = 0 /\ overtaken = FALSE

\* Another component proved the state invalid.
MarkStateInvalid ==
  /\ stateInvalid' = TRUE
  /\ UNCHANGED <<ledgerVars, rows, offerCompaction, poolCompaction, builds, streamVars>>

-----------------------------------------------------------------------------
(* Update.                                                                 *)

HistoryConsistentWithState(s) ==
  s.lastIngested = s.latestHistory \/ s.latestHistory = 0

Unusable(s) == s.stateInvalid \/ ~ HistoryConsistentWithState(s)

\* MUTANT: no comparison with the last compaction.
RequiresResetUncompacted(s) ==
  \/ lastLedger = 0 \/ Unusable(s)
  \/ s.lastIngested < lastLedger
  \/ s.offerCompaction # s.poolCompaction

RequiresReset(s) ==
  \/ lastLedger = 0 \/ Unusable(s)
  \/ s.lastIngested < lastLedger
  \/ lastLedger < s.offerCompaction
  \/ s.offerCompaction # s.poolCompaction

\* BeginTx and getIngestionStatus, then the decisions of update.
UpdateBegin ==
  /\ spc = "idle"
  /\ \/ /\ RequiresReset(Snapshot)
        /\ graph' = EmptyGraph /\ graphLedger' = 0 /\ lastLedger' = 0
        /\ \/ Unusable(Snapshot) /\ UNCHANGED <<spc, snap>>
           \/ ~ Unusable(Snapshot) /\ spc' = "load" /\ snap' = Snapshot
     \/ /\ ~ RequiresReset(Snapshot)
        /\ snap' = Snapshot
        /\ spc' = IF lastIngested = lastLedger THEN "same" ELSE "patch"
        /\ UNCHANGED <<graph, graphLedger, lastLedger>>
  /\ UNCHANGED <<dbVars, loadedFrom, overtaken>>

\* graph.Apply refuses a ledger that is not newer than the graph's.
errUnexpectedLedger(l) == graphLedger > 0 /\ l <= graphLedger

\* Update returns and its transaction is rolled back.
Return == spc' = "idle" /\ snap' = NoSnapshot

\* What queries of the state tables return.
SeenRows == IF snap.builds = builds THEN snap.rows ELSE NoRows

\* After a reset: all rows, applied at once; update returns.
Load ==
  /\ spc = "load" /\ ~ errUnexpectedLedger(snap.lastIngested)
  /\ graph' = StreamAll(SeenRows)
  /\ graphLedger' = snap.lastIngested /\ lastLedger' = snap.lastIngested
  /\ loadedFrom' = snap.builds /\ overtaken' = (snap.builds # builds)
  /\ Return
  /\ UNCHANGED dbVars

\* GetUpdatedOffers and GetUpdatedLiquidityPools.
UpdatedRows == {e \in Entries : SeenRows[e].mod > lastLedger}

\* The rows modified since lastLedger, deleted ones included.
Patch ==
  /\ spc = "patch" /\ ~ errUnexpectedLedger(snap.lastIngested)
  /\ graph' = [e \in Entries |->
                 IF e \in UpdatedRows THEN StreamAll(SeenRows)[e] ELSE graph[e]]
  /\ graphLedger' = snap.lastIngested /\ lastLedger' = snap.lastIngested
  /\ overtaken' = (overtaken \/ snap.builds # loadedFrom \/ snap.builds # builds)
  /\ spc' = "patched"
  /\ UNCHANGED <<dbVars, snap, loadedFrom>>

\* The hourly verification is not due yet.
VerifyNotDue ==
  /\ spc \in {"same", "patched"} /\ Return
  /\ UNCHANGED <<dbVars, graph, graphLedger, lastLedger, loadedFrom, overtaken>>

\* The graph is known to be that of the build in the database.
Confirmed == loadedFrom' = snap.builds /\ overtaken' = FALSE

\* MUTANT: a mismatch is only logged.
VerifyLogged ==
  /\ spc \in {"same", "patched"} /\ Return
  /\ IF graph = StreamAll(SeenRows) /\ snap.builds = builds
     THEN Confirmed ELSE UNCHANGED <<loadedFrom, overtaken>>
  /\ UNCHANGED <<dbVars, graph, graphLedger, lastLedger>>

\* verifyAllOffers, verifyAllLiquidityPools: on a mismatch the next Update resets.
Verify ==
  /\ spc \in {"same", "patched"} /\ Return
  /\ IF graph = StreamAll(SeenRows) /\ snap.builds = builds
     THEN Confirmed ELSE UNCHANGED <<loadedFrom, overtaken>>
  /\ lastLedger' = IF graph = StreamAll(SeenRows) THEN lastLedger ELSE 0
  /\ UNCHANGED <<dbVars, graph, graphLedger>>

\* A query or Apply failed: the batch is discarded and Update returns.
UpdateFail ==
  /\ spc # "idle" /\ Return
  /\ UNCHANGED <<dbVars, graph, graphLedger, lastLedger, loadedFrom, overtaken>>

StreamStep == UpdateBegin \/ Load \/ Patch \/ VerifyNotDue \/ Verify \/ UpdateFail

\* TRUNCATE waits for the transactions that have read a state table.
TruncateWaits == builds' # builds => spc # "patched"

Next ==
  \/ IngestionStep /\ TruncateWaits /\ UNCHANGED streamVars
  \/ MarkStateInvalid
  \/ StreamStep

Spec == Init /\ [][Next]_vars

\* Run calls Update for ever, queries do not fail for ever, and after an hour
\* every Update that gets that far verifies until one did.
FairSpec ==
  /\ Spec
  /\ WF_vars(StreamStep)
  /\ SF_vars(Load) /\ SF_vars(Patch) /\ SF_vars(Verify)

-----------------------------------------------------------------------------
(* Properties.                                                             *)

RowType == [mod : 0..MaxLedger, deleted : BOOLEAN]
SnapshotType ==
  [stateInvalid : BOOLEAN, latestHistory : 0..MaxLedger, lastIngested : 0..MaxLedger,
   offerCompaction : 0..MaxLedger, poolCompaction : 0..MaxLedger,
   rows : [Entries -> RowType], builds : 0..MaxBuilds]

TypeOK ==
  /\ Snapshot \in SnapshotType /\ snap \in SnapshotType
  /\ state \in 0..MaxLedger
  /\ spc \in {"idle", "load", "patch", "same", "patched"}
  /\ graph \in [Entries -> 0..MaxLedger]
  /\ graphLedger \in 0..MaxLedger /\ lastLedger \in 0..MaxLedger
  /\ loadedFrom \in 0..MaxBuilds /\ overtaken \in BOOLEAN

\* "the orderbook graph is accurate up to lastLedger" (exp/orderbook/graph.go):
\* whatever ingestion commits between and during updates, and however many
\* updates fail, the graph holds exactly the entries of its ledger; except
\* after an update that a rebuild of the state came before (no deleted rows
\* survive it) or overtook (the tables appear empty), until a reset or the
\* hourly verification.
GraphAccurate == graphLedger > 0 /\ ~ overtaken => graph = Chain[graphLedger]

\* Once ingestion rests, the graph comes to what the tables hold, and to
\* nothing while they are invalid or inconsistent with history: resets, failed
\* updates and rebuilds that went unnoticed are all repaired.  (Where there is
\* no last ledger, or a rebuild in the first ledgers left an older and higher
\* compaction sequence, every Update resets and the graph is empty in between.)
Converged ==
  graph = IF Unusable(Snapshot) THEN EmptyGraph ELSE StreamAll(rows)

Converges ==
  <>[][FALSE]_dbVars =>
    <>[](lastIngested > 0 /\ lastIngested >= offerCompaction => Converged)

-----------------------------------------------------------------------------
(* The inductive invariant behind GraphAccurate.                           *)

\* Row q is that of entry e in ledger l: a deleted row says since when e is gone.
RowAccurate(q, e, l) ==
  /\ ~ q.deleted => q.mod = Chain[l][e]
  /\ q.deleted => q.mod \in 1..l /\ \A k \in q.mod..l : Chain[k][e] = 0

Accurate(r, l) == \A e \in Entries : RowAccurate(r[e], e, l)

\* An entry without a row did not exist since ledger from, as far as the
\* compaction at ledger l allows to tell.
AbsentSince(r, from, l) ==
  \A e \in Entries :
    ~ r[e].deleted /\ r[e].mod = 0 =>
      \A k \in from..l : k >= l - compactionWindow => Chain[k][e] = 0

CompactedAt(c, l) == l > compactionWindow => c = l - compactionWindow

TablesInv ==
  /\ Accurate(rows, state) /\ CompactedAt(offerCompaction, state)
  /\ lastIngested > 0 => state = lastIngested

\* The running Update reads tables of one ledger; while no other build replaced
\* them, the tables in the database still know what vanished since.
SnapshotInv ==
  /\ snap.builds <= builds
  /\ snap.lastIngested > 0 =>
       Accurate(snap.rows, snap.lastIngested) /\ CompactedAt(snap.offerCompaction, snap.lastIngested)
  /\ snap.lastIngested > 0 /\ snap.builds = builds =>
       AbsentSince(rows, snap.lastIngested, state)
  /\ spc = "patch" =>
       /\ 0 < lastLedger /\ lastLedger <= snap.lastIngested
       /\ snap.offerCompaction <= lastLedger
       /\ ~ overtaken /\ snap.builds = loadedFrom =>
            AbsentSince(snap.rows, graphLedger, snap.lastIngested)
  /\ spc \in {"same", "patched"} => 0 < lastLedger /\ lastLedger = snap.lastIngested

GraphInv ==
  /\ lastLedger \in {0, graphLedger} /\ loadedFrom <= builds
  /\ graphLedger > 0 /\ ~ overtaken /\ loadedFrom = builds =>
       AbsentSince(rows, graphLedger, state)

IInv == TypeOK /\ TablesInv /\ SnapshotInv /\ GraphInv /\ GraphAccurate
=============================================================================
