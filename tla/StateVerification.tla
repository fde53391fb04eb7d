-------------------------- MODULE StateVerification --------------------------
\* The state verifier (services/aurora/internal/ingest/verify.go), started by
\* an ingesting instance after it commits a checkpoint ledger, and the requests
\* that rely on its verdict through the state middleware
\* (httpx/middleware.go).  Every instance has a verifier, all on one database
\* that ingestion keeps changing and may rebuild.
EXTENDS IngestedState, FiniteSets

CONSTANTS
  Nodes,        \* ingesting instances
  None,         \* nobody holds the advisory lock
  NoStateVerification,  \* of the middleware; the router leaves it FALSE
  MaxRetries,   \* waits for the archive before giving up (12)
  MaxBuilds     \* BOUND: times the state is built

ASSUME StateVerificationAssumption ==
  /\ None \notin Nodes /\ NoStateVerification \in BOOLEAN
  /\ MaxLedger \in Nat /\ MaxBuilds \in Nat /\ MaxRetries \in Nat \ {0}
  /\ CheckpointFreq \in Nat /\ CheckpointFreq > 1

VARIABLES
  sound,         \* the state tables are those of ledger `state`, row by row
  stateInvalid,  \* exp_state_invalid
  builds,        \* times the state was built
  wrong,         \* GHOST: ledgers at which the tables of this build were not sound
  published,     \* latest checkpoint in the history archive
  hook,          \* ledger an instance has just committed, 0 once handled
  spawned,       \* goroutines an instance started and that have not run yet
  vpc,           \* where the running verification of an instance is
  vsnap,         \* its repeatable-read snapshot
  vlock,         \* holder of the advisory lock
  retries,       \* waits for the archive so far
  verdicts,      \* the StateErrors an instance has yet to record: build and ledger
  marked,        \* GHOST: the verdict that stateInvalid was last set on
  request,       \* where the request is
  rsnap          \* its snapshot

stateVars == <<ledgerVars, sound, stateInvalid, builds, wrong, marked>>
verifierVars == <<vpc, vsnap, vlock, retries, verdicts>>
requestVars == <<request, rsnap>>
vars == <<stateVars, published, hook, spawned, verifierVars, requestVars>>

\* What a repeatable-read transaction sees is settled by its first query, but
\* for the state tables: buildState truncates them, which is not versioned, so
\* a transaction that reads none of them before a build commits finds them
\* empty.  (One that has read one keeps the build's TRUNCATE waiting.)
VerifierSnapshot == [lastIngested |-> lastIngested, sound |-> sound, builds |-> builds]

\* What a request reads besides the flag.
RequestSnapshot ==
  [lastIngested |-> lastIngested, latestHistory |-> latestHistory, state |-> state,
   builds |-> builds]

\* No transaction is open.
NoSnapshot == [lastIngested |-> 0, sound |-> TRUE, builds |-> 0]
NoRequest == [lastIngested |-> 0, latestHistory |-> 0, state |-> 0, builds |-> 0]
NoVerdict == [build |-> 0, ledger |-> 0]

Init ==
  /\ LedgerInit
  /\ sound = TRUE /\ stateInvalid = FALSE /\ builds = 0 /\ wrong = {}
  /\ marked = NoVerdict
  /\ published = CheckpointFreq - 1
  /\ hook = [n \in Nodes |-> 0] /\ spawned = [n \in Nodes |-> 0]
  /\ vpc = [n \in Nodes |-> "idle"] /\ vsnap = [n \in Nodes |-> NoSnapshot]
  /\ vlock = None /\ retries = [n \in Nodes |-> 0]
  /\ verdicts = [n \in Nodes |-> {}]
  /\ request = "idle" /\ rsnap = NoRequest

-----------------------------------------------------------------------------
(* Ingestion and the archive.                                              *)

\* One ledger, by an instance that is done with its previous one.  A fault in
\* a processor leaves rows that differ from the ledger's, until a later ledger
\* happens to write or to delete them.
IngestLedger(n) ==
  /\ hook[n] = 0
  /\ Resume
  /\ hook' = [hook EXCEPT ![n] = lastIngested + 1]
  /\ sound' \in BOOLEAN
  /\ wrong' = IF sound' THEN wrong ELSE wrong \cup {lastIngested + 1}
  /\ UNCHANGED <<stateInvalid, builds, marked, published, spawned, verifierVars,
                 requestVars>>

\* buildState: new tables from the archive, exp_state_invalid cleared.  The
\* processors of a build may be at fault as well.
BuildState(c) ==
  /\ builds < MaxBuilds
  /\ Build(c)
  /\ sound' \in BOOLEAN /\ wrong' = IF sound' THEN {} ELSE {c}
  /\ stateInvalid' = FALSE /\ builds' = builds + 1
  /\ UNCHANGED <<marked, published, hook, spawned, verifierVars, requestVars>>

OtherIngestion ==
  /\ Reset \/ WriteHistory
  /\ UNCHANGED <<sound, stateInvalid, builds, wrong, marked, published, hook, spawned,
                 verifierVars, requestVars>>

Publish ==
  /\ published + CheckpointFreq <= MaxLedger
  /\ published' = published + CheckpointFreq
  /\ UNCHANGED <<stateVars, hook, spawned, verifierVars, requestVars>>

-----------------------------------------------------------------------------
(* Verification.                                                           *)

\* After the commit: start a verification unless the state is known to be
\* invalid or the ledger is not a checkpoint.
MaybeVerifyState(n) ==
  /\ hook[n] > 0
  /\ hook' = [hook EXCEPT ![n] = 0]
  /\ spawned' = IF ~ stateInvalid /\ IsCheckpointLedger(hook[n])
                THEN [spawned EXCEPT ![n] = @ + 1] ELSE spawned
  /\ UNCHANGED <<stateVars, published, verifierVars, requestVars>>

\* verifyState starts: if another goroutine runs it, this one exits.
VerifyStart(n) ==
  /\ spawned[n] > 0
  /\ spawned' = [spawned EXCEPT ![n] = @ - 1]
  /\ vpc' = IF vpc[n] = "idle" THEN [vpc EXCEPT ![n] = "begin"] ELSE vpc
  /\ UNCHANGED <<stateVars, published, hook, vsnap, vlock, retries, verdicts, requestVars>>

\* verifyState returns: the transaction is rolled back and its lock released.
Return(n) ==
  /\ vpc' = [vpc EXCEPT ![n] = "idle"]
  /\ vsnap' = [vsnap EXCEPT ![n] = NoSnapshot]
  /\ retries' = [retries EXCEPT ![n] = 0]
  /\ vlock' = IF vlock = n THEN None ELSE vlock

\* The first query takes the snapshot; it may be of a later ledger than the
\* one that started the verification.
VerifyBegin(n) ==
  /\ vpc[n] = "begin"
  /\ \/ /\ ~ IsCheckpointLedger(lastIngested)
        /\ Return(n)
     \/ /\ IsCheckpointLedger(lastIngested)
        /\ vsnap' = [vsnap EXCEPT ![n] = VerifierSnapshot]
        /\ vpc' = [vpc EXCEPT ![n] = "lock"]
        /\ UNCHANGED <<vlock, retries>>
  /\ UNCHANGED <<stateVars, published, hook, spawned, verdicts, requestVars>>

\* MUTANT: the answer of pg_try_advisory_xact_lock is not looked at.
VerifyLockUnchecked(n) ==
  /\ vpc[n] = "lock"
  /\ vlock' = IF vlock = None THEN n ELSE vlock
  /\ vpc' = [vpc EXCEPT ![n] = "wait"]
  /\ UNCHANGED <<stateVars, published, hook, spawned, vsnap, retries, verdicts, requestVars>>

VerifyLock(n) ==
  /\ vpc[n] = "lock"
  /\ \/ /\ vlock # None /\ Return(n)
     \/ /\ vlock = None /\ vlock' = n
        /\ vpc' = [vpc EXCEPT ![n] = "wait"]
        /\ UNCHANGED <<vsnap, retries>>
  /\ UNCHANGED <<stateVars, published, hook, spawned, verdicts, requestVars>>

\* MUTANT: waits for the archive are not counted.
VerifyWaitUncounted(n) ==
  /\ vpc[n] = "wait"
  /\ \/ vsnap[n].lastIngested < published /\ Return(n)
     \/ /\ vsnap[n].lastIngested = published
        /\ vpc' = [vpc EXCEPT ![n] = "read"]
        /\ UNCHANGED <<vsnap, vlock, retries>>
     \/ /\ vsnap[n].lastIngested > published
        /\ UNCHANGED <<vpc, vsnap, vlock, retries>>
  /\ UNCHANGED <<stateVars, published, hook, spawned, verdicts, requestVars>>

\* MUTANT: one wait more.
VerifyWaitOneMore(n) ==
  /\ vpc[n] = "wait"
  /\ \/ vsnap[n].lastIngested < published /\ Return(n)
     \/ /\ vsnap[n].lastIngested = published
        /\ vpc' = [vpc EXCEPT ![n] = "read"]
        /\ UNCHANGED <<vsnap, vlock, retries>>
     \/ /\ vsnap[n].lastIngested > published /\ retries[n] < MaxRetries
        /\ retries' = [retries EXCEPT ![n] = @ + 1]
        /\ UNCHANGED <<vpc, vsnap, vlock>>
     \/ /\ vsnap[n].lastIngested > published /\ retries[n] = MaxRetries
        /\ Return(n)
  /\ UNCHANGED <<stateVars, published, hook, spawned, verdicts, requestVars>>

\* Only the latest checkpoint of the archive is verified; it may be late.
VerifyWait(n) ==
  /\ vpc[n] = "wait"
  /\ \/ vsnap[n].lastIngested < published /\ Return(n)
     \/ /\ vsnap[n].lastIngested = published
        /\ vpc' = [vpc EXCEPT ![n] = "read"]
        /\ UNCHANGED <<vsnap, vlock, retries>>
     \/ /\ vsnap[n].lastIngested > published /\ retries[n] + 1 < MaxRetries
        /\ retries' = [retries EXCEPT ![n] = @ + 1]
        /\ UNCHANGED <<vpc, vsnap, vlock>>
     \/ /\ vsnap[n].lastIngested > published /\ retries[n] + 1 = MaxRetries
        /\ Return(n)
  /\ UNCHANGED <<stateVars, published, hook, spawned, verdicts, requestVars>>

Verdict(n) == [build |-> vsnap[n].builds, ledger |-> vsnap[n].lastIngested]

\* MUTANT: the rows are read outside the snapshot.
VerifyReadCommitted(n) ==
  /\ vpc[n] = "read"
  /\ verdicts' = IF sound /\ state = vsnap[n].lastIngested THEN verdicts
                 ELSE [verdicts EXCEPT ![n] = @ \cup {Verdict(n)}]
  /\ Return(n)
  /\ UNCHANGED <<stateVars, published, hook, spawned, requestVars>>

\* All entries of the checkpoint against the rows of the snapshot: none of them
\* is there if the state was built since.  The lock is gone before a StateError
\* is recorded.
VerifyRead(n) ==
  /\ vpc[n] = "read"
  /\ verdicts' = IF vsnap[n].sound /\ vsnap[n].builds = builds THEN verdicts
                 ELSE [verdicts EXCEPT ![n] = @ \cup {Verdict(n)}]
  /\ Return(n)
  /\ UNCHANGED <<stateVars, published, hook, spawned, requestVars>>

\* A failed query or the time-out: no verdict.
VerifyFail(n) ==
  /\ vpc[n] # "idle"
  /\ Return(n)
  /\ UNCHANGED <<stateVars, published, hook, spawned, verdicts, requestVars>>

\* markStateInvalid, in a session of its own; it may fail.
MarkStateInvalid(n) ==
  \E v \in verdicts[n] :
    /\ verdicts' = [verdicts EXCEPT ![n] = @ \ {v}]
    /\ \/ stateInvalid' = TRUE /\ marked' = v
       \/ UNCHANGED <<stateInvalid, marked>>
    /\ UNCHANGED <<ledgerVars, sound, builds, wrong, published, hook, spawned, vpc, vsnap,
                   vlock, retries, requestVars>>

-----------------------------------------------------------------------------
(* Requests through the state middleware.                                  *)

Ready(s) == s.lastIngested > 0 /\ s.lastIngested = s.latestHistory

\* BeginTx and the checks, which NoStateVerification turns off.  An invalid
\* state (500), or a database that is behind or of another version (503), ends
\* the request; an event stream goes on without the transaction and is not
\* followed here.
RequestBegin ==
  /\ request = "idle"
  /\ NoStateVerification \/ (~ stateInvalid /\ Ready(RequestSnapshot))
  /\ request' = "serve"
  /\ rsnap' = RequestSnapshot
  /\ UNCHANGED <<stateVars, published, hook, spawned, verifierVars>>

\* MUTANT: the handler's queries are not in the transaction of the checks.
ResponseUnisolated ==
  [header |-> rsnap.lastIngested, history |-> latestHistory, data |-> state]

\* The Latest-Ledger header, and the ledgers that the handler's queries are
\* answered from at this moment; 0 for empty state tables.
Response ==
  [header |-> rsnap.lastIngested, history |-> rsnap.latestHistory,
   data |-> IF rsnap.builds = builds THEN rsnap.state ELSE 0]

\* The handler returns and the transaction is rolled back.
RequestEnd ==
  /\ request = "serve"
  /\ request' = "idle" /\ rsnap' = NoRequest
  /\ UNCHANGED <<stateVars, published, hook, spawned, verifierVars>>

-----------------------------------------------------------------------------
VerifierStep(n) == VerifyBegin(n) \/ VerifyLock(n) \/ VerifyWait(n) \/ VerifyRead(n)

Next ==
  \/ OtherIngestion \/ Publish
  \/ \E c \in 1..MaxLedger : BuildState(c)
  \/ \E n \in Nodes : IngestLedger(n) \/ MaybeVerifyState(n) \/ VerifyStart(n)
                      \/ VerifierStep(n) \/ VerifyFail(n) \/ MarkStateInvalid(n)
  \/ RequestBegin \/ RequestEnd

Spec == Init /\ [][Next]_vars

\* Go schedules the goroutine that verifies.  Nothing is assumed of ingestion
\* or the archive, nor that the optional time-out is set.
FairSpec == Spec /\ \A n \in Nodes : WF_vars(VerifierStep(n))

-----------------------------------------------------------------------------
(* Properties.                                                             *)

VerifierSnapshotType == [lastIngested : 0..MaxLedger, sound : BOOLEAN, builds : 0..MaxBuilds]
RequestSnapshotType ==
  [lastIngested : 0..MaxLedger, latestHistory : 0..MaxLedger, state : 0..MaxLedger,
   builds : 0..MaxBuilds]
VerdictType == [build : 0..MaxBuilds, ledger : 0..MaxLedger]

TypeOK ==
  /\ VerifierSnapshot \in VerifierSnapshotType /\ RequestSnapshot \in RequestSnapshotType
  /\ stateInvalid \in BOOLEAN /\ marked \in VerdictType /\ wrong \subseteq 0..MaxLedger
  /\ published \in Nat
  /\ hook \in [Nodes -> 0..MaxLedger] /\ spawned \in [Nodes -> Nat]
  /\ vpc \in [Nodes -> {"idle", "begin", "lock", "wait", "read"}]
  /\ vsnap \in [Nodes -> VerifierSnapshotType]
  /\ vlock \in Nodes \cup {None}
  /\ retries \in [Nodes -> 0..MaxRetries - 1]
  /\ verdicts \in [Nodes -> SUBSET VerdictType]
  /\ request \in {"idle", "serve"}
  /\ rsnap \in RequestSnapshotType

\* "exclusive access to perform state verification": one instance at a time
\* waits for the archive and reads the whole state.
OneVerifier ==
  \A m, n \in Nodes :
    vpc[m] \in {"wait", "read"} /\ vpc[n] \in {"wait", "read"} => m = n

\* exp_state_invalid is only set on proof: while the state is of the build the
\* verdict is about, however far ingestion has moved on or repaired the rows
\* and whichever instance verified, the tables were wrong at the ledger that
\* was verified.  (Not so for a state built since: the flag names neither, and
\* a verification that the build overtakes reads empty tables.)
InvalidIsProved == stateInvalid /\ marked.build = builds => marked.ledger \in wrong

\* A response is made of one ledger, though ingestion commits between the checks
\* and the handler's queries: whenever it queries, the state it gets is that of
\* the Latest-Ledger header, or nothing at all once the state was built again.
\* Unless NoStateVerification is set, the history beside it agrees as well.
AnswerOfOneLedger ==
  request = "serve" =>
    /\ Response.header > 0 =>
         Response.data = IF rsnap.builds # builds THEN 0 ELSE Response.header
    /\ ~ NoStateVerification => Response.header > 0 /\ Response.history = Response.header

\* Every verification ends and gives the advisory lock back, also when the
\* archive never publishes the checkpoint.
VerifierEnds == \A n \in Nodes : vpc[n] # "idle" ~> vpc[n] = "idle" /\ vlock # n

-----------------------------------------------------------------------------
(* The inductive invariant behind the safety properties.                   *)

\* Who waits for the archive or reads the state has the advisory lock.
ReaderHoldsLock == \A n \in Nodes : vpc[n] \in {"wait", "read"} => vlock = n

\* What was seen to be wrong is remembered as long as the build is the state.
WrongIsRemembered ==
  /\ ~ sound /\ lastIngested > 0 => lastIngested \in wrong
  /\ marked.build <= builds
  /\ \A n \in Nodes :
       /\ vsnap[n].builds <= builds
       /\ vsnap[n].builds = builds /\ ~ vsnap[n].sound => vsnap[n].lastIngested \in wrong
       /\ \A v \in verdicts[n] : v.build <= builds /\ (v.build = builds => v.ledger \in wrong)

\* Whatever a request sees is of one ledger, once it has passed the checks.
OneLedger ==
  /\ lastIngested > 0 => state = lastIngested
  /\ rsnap.lastIngested > 0 => rsnap.state = rsnap.lastIngested
  /\ request = "serve" /\ ~ NoStateVerification =>
       rsnap.lastIngested > 0 /\ rsnap.latestHistory = rsnap.lastIngested

IInv ==
  /\ TypeOK /\ ReaderHoldsLock /\ WrongIsRemembered /\ OneLedger
  /\ InvalidIsProved /\ AnswerOfOneLedger
=============================================================================
