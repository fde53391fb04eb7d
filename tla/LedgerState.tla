---------------------------- MODULE LedgerState ------------------------------
\* The ledger state that every Aurora instance caches
\* (services/aurora/internal/ledger): all that its reaper and the sessions it
\* streams to know of the tables between two queries.
EXTENDS HistoryTables

CONSTANT Instances   \* Aurora instances on one database

ASSUME LedgerStateAssumption ==
  MaxLedger \in Nat /\ CheckpointFreq \in Nat /\ CheckpointFreq > 1

VARIABLES
  status,    \* status[i]: ledger.State that instance i caches
  tick       \* tick[i]: the running UpdateAuroraLedgerState

cacheVars == <<status, tick>>

NoStatus == [HistoryLatest |-> 0, HistoryElder |-> 0, ExpHistoryLatest |-> 0]
NoTick == [running |-> FALSE, HistoryLatest |-> 0]

CacheInit ==
  /\ HistoryInit
  /\ status = [i \in Instances |-> NoStatus]
  /\ tick = [i \in Instances |-> NoTick]

-----------------------------------------------------------------------------
(* UpdateAuroraLedgerState of instance i: queries without a common snapshot. *)

QueryLatest(i) ==
  /\ ~ tick[i].running
  /\ tick' = [tick EXCEPT ![i] = [running |-> TRUE, HistoryLatest |-> latestHistory]]
  /\ UNCHANGED <<historyVars, status>>

\* ElderLedger, GetLastLedgerIngestNonBlocking and SetAuroraStatus.  Two queries
\* in one step: nothing reads the results of both.
SetAuroraStatus(i) ==
  /\ tick[i].running
  /\ status' = [status EXCEPT ![i] = [HistoryLatest |-> tick[i].HistoryLatest,
                                      HistoryElder |-> ElderLedger(history),
                                      ExpHistoryLatest |-> lastIngested]]
  /\ tick' = [tick EXCEPT ![i] = NoTick]
  /\ UNCHANGED historyVars

\* A query failed: the cached state stays.
QueryFail(i) ==
  /\ tick[i].running
  /\ tick' = [tick EXCEPT ![i] = NoTick]
  /\ UNCHANGED <<historyVars, status>>

UpdateAuroraLedgerState(i) == QueryLatest(i) \/ SetAuroraStatus(i) \/ QueryFail(i)

\* The instance stops, at any point, and starts again with nothing cached.
Forget(i) ==
  /\ status' = [status EXCEPT ![i] = NoStatus]
  /\ tick' = [tick EXCEPT ![i] = NoTick]
  /\ UNCHANGED historyVars

-----------------------------------------------------------------------------
(* Types.                                                                  *)

Ledger == 0..MaxLedger

CacheTypeOK ==
  /\ lastIngested \in Ledger /\ latestHistory \in Ledger /\ state \in Ledger
  /\ history \subseteq 1..MaxLedger
  /\ status \in [Instances -> [HistoryLatest : Ledger, HistoryElder : Ledger,
                               ExpHistoryLatest : Ledger]]
  /\ tick \in [Instances -> [running : BOOLEAN, HistoryLatest : Ledger]]
=============================================================================
