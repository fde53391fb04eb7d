---------------------------- MODULE HistoryTables ----------------------------
\* The history tables as their readers and reapers see them, on top of the
\* ledger steps of IngestedState.  Every action is one committed transaction.
\* Module Ingestion implements it.
EXTENDS IngestedState

VARIABLE history   \* ledgers in the history tables

historyVars == <<ledgerVars, history>>

LatestLedger(h) == IF h = {} THEN 0 ELSE CHOOSE l \in h : \A k \in h : k <= l

ElderLedger(h) == IF h = {} THEN 0 ELSE CHOOSE l \in h : \A k \in h : l <= k

HistoryInit == LedgerInit /\ history = {}

\* resumeState writes the next ledger, which is not in history: its index on
\* the sequence is unique.
IngestLedger ==
  /\ lastIngested + 1 \notin history
  /\ Resume
  /\ history' = history \cup {lastIngested + 1}

BuildState(c) == Build(c) /\ UNCHANGED history

ResetState == Reset /\ UNCHANGED history

\* Only history changes.
SetHistory(h) ==
  /\ history' = h /\ latestHistory' = LatestLedger(h)
  /\ WriteHistory

\* historyRangeState catches up from ledger a to b, or a command reingests
\* them; ledger 1 is not available.
IngestRange(a, b) == 1 < a /\ a <= b /\ SetHistory(history \cup a..b)

\* Ledgers a to b are deleted from all history tables.
DeleteRangeAll(a, b) == SetHistory(history \ a..b)

HistoryStep ==
  \/ IngestLedger \/ ResetState
  \/ \E a \in 1..MaxLedger : BuildState(a) \/ \E b \in 1..MaxLedger : IngestRange(a, b)

\* A forced reingestion failed and still committed: of its range, ledgers a to
\* b are written, and those above b that it had deleted are gone.
ReingestPartial(a, b) ==
  /\ 1 < a /\ a <= b + 1
  /\ a..b \subseteq history' /\ history' \subseteq history \cup a..b
  /\ \A l \in history \ history' : l > b
  /\ latestHistory' = LatestLedger(history')
  /\ WriteHistory

HistorySpec ==
  /\ HistoryInit
  /\ [][HistoryStep \/ \E a \in 1..MaxLedger, b \in 0..MaxLedger : ReingestPartial(a, b)]_historyVars
=============================================================================
