----------------------- MODULE StateVerificationProofs -----------------------
\* What holds of StateVerification for every value of its constants.
EXTENDS StateVerification, TLAPS

USE StateVerificationAssumption
    DEF ledgerVars, stateVars, verifierVars, requestVars, VerifierSnapshotType,
        RequestSnapshotType, VerifierSnapshot, RequestSnapshot, NoSnapshot, NoRequest,
        NoVerdict, VerdictType, Response

LEMMA InitIInv == Init => IInv
<1> SUFFICES ASSUME Init PROVE IInv
  OBVIOUS
<1>1. TypeOK
  <2>1. /\ hook \in [Nodes -> 0..MaxLedger] /\ spawned \in [Nodes -> Nat]
        /\ vsnap \in [Nodes -> VerifierSnapshotType]
        /\ retries \in [Nodes -> 0..MaxRetries - 1]
        /\ verdicts \in [Nodes -> SUBSET VerdictType]
    BY DEF Init
  <2>2. /\ vpc \in [Nodes -> {"idle", "begin", "lock", "wait", "read"}]
        /\ vlock \in Nodes \cup {None} /\ published \in Nat
    BY DEF Init
  <2>3. VerifierSnapshot \in VerifierSnapshotType /\ RequestSnapshot \in RequestSnapshotType
    BY DEF Init, LedgerInit
  <2>5. stateInvalid \in BOOLEAN
    BY Zenon DEF Init
  <2>4. /\ marked \in VerdictType /\ wrong \subseteq 0..MaxLedger
        /\ request \in {"idle", "serve"}
        /\ rsnap \in RequestSnapshotType
    BY DEF Init
  <2> QED BY <2>1, <2>2, <2>3, <2>4, <2>5, Zenon DEF TypeOK
<1>2. ReaderHoldsLock /\ WrongIsRemembered
  BY DEF Init, ReaderHoldsLock, WrongIsRemembered
<1> QED BY <1>1, <1>2 DEF Init, IInv, OneLedger, InvalidIsProved, AnswerOfOneLedger, LedgerInit

\* A verification never starts on ledger 0.
LEMMA CheckpointsArePositive == \A l \in Nat : IsCheckpointLedger(l) => l > 0
<1>1. 1 % CheckpointFreq = 1
  OBVIOUS
<1> QED BY <1>1 DEF IsCheckpointLedger

\* Ingestion may break the state, mend it and build it again; `wrong` keeps
\* where it was broken until the next build.
LEMMA IngestionSteps ==
  ASSUME IInv,
         \/ OtherIngestion \/ Publish
         \/ \E c \in 1..MaxLedger : BuildState(c)
         \/ \E n \in Nodes : IngestLedger(n) \/ MaybeVerifyState(n) \/ VerifyStart(n)
  PROVE  IInv'
<1>1. CASE OtherIngestion
  <2>1. TypeOK'
    BY <1>1 DEF IInv, TypeOK, OtherIngestion, Reset, WriteHistory
  <2> QED BY <1>1, <2>1 DEF IInv, ReaderHoldsLock, WrongIsRemembered, OneLedger, TypeOK,
       InvalidIsProved, AnswerOfOneLedger, OtherIngestion, Reset, WriteHistory
<1>2. CASE Publish
  BY <1>2 DEF IInv, TypeOK, ReaderHoldsLock, WrongIsRemembered, OneLedger,
       InvalidIsProved, AnswerOfOneLedger, Publish
<1>3. ASSUME NEW c \in 1..MaxLedger, BuildState(c) PROVE IInv'
  <2>1. TypeOK'
    <3>1. /\ lastIngested' \in 0..MaxLedger /\ state' \in 0..MaxLedger
          /\ builds' \in 0..MaxBuilds
      BY <1>3 DEF IInv, TypeOK, BuildState, Build
    <3>2. UNCHANGED <<latestHistory, marked, published, hook, spawned, verifierVars,
                      requestVars>>
      BY <1>3 DEF BuildState, Build
    <3>3. sound' \in BOOLEAN /\ stateInvalid' = FALSE
      BY <1>3 DEF BuildState
    <3>4. wrong' \subseteq 0..MaxLedger
      BY <1>3 DEF BuildState
    <3> QED BY <3>1, <3>2, <3>3, <3>4, Zenon DEF IInv, TypeOK
  <2>2. WrongIsRemembered'
    <3>1. lastIngested' = c /\ (~ sound' => c \in wrong')
      BY <1>3 DEF BuildState, Build
    <3>2. builds' = builds + 1 /\ UNCHANGED <<marked, vsnap, verdicts>>
      BY <1>3 DEF BuildState
    <3> QED BY <3>1, <3>2 DEF IInv, TypeOK, WrongIsRemembered
  <2>3. OneLedger' /\ AnswerOfOneLedger'
    BY <1>3 DEF IInv, TypeOK, WrongIsRemembered, OneLedger, AnswerOfOneLedger, BuildState, Build
  <2> QED BY <1>3, <2>1, <2>2, <2>3 DEF IInv, ReaderHoldsLock, InvalidIsProved, BuildState
<1>4. ASSUME NEW n \in Nodes, IngestLedger(n) PROVE IInv'
  <2>s. /\ sound' \in BOOLEAN /\ wrong \subseteq wrong' /\ wrong' \subseteq 0..MaxLedger
        /\ ~ sound' => lastIngested' \in wrong'
    <3>1. /\ sound' \in BOOLEAN
          /\ wrong' = IF sound' THEN wrong ELSE wrong \cup {lastIngested + 1}
      BY <1>4, Zenon DEF IngestLedger
    <3>2. lastIngested' = lastIngested + 1 /\ lastIngested + 1 \in 0..MaxLedger
      BY <1>4 DEF IInv, TypeOK, IngestLedger, Resume
    <3>3. wrong \subseteq 0..MaxLedger
      BY DEF IInv, TypeOK
    <3>4. CASE sound'
      BY <3>1, <3>3, <3>4, Zenon
    <3>5. CASE ~ sound'
      <4>1. wrong' = wrong \cup {lastIngested'}
        BY <3>1, <3>2, <3>5, Zenon
      <4> QED BY <3>1, <3>2, <3>3, <4>1, Zenon
    <3> QED BY <3>4, <3>5
  <2>u. UNCHANGED <<stateInvalid, builds, marked, published, spawned, verifierVars,
                    requestVars>>
    BY <1>4 DEF IngestLedger
  <2>l. /\ lastIngested' \in 1..MaxLedger /\ state' = lastIngested'
        /\ latestHistory' \in 0..MaxLedger /\ hook' \in [Nodes -> 0..MaxLedger]
    BY <1>4 DEF IInv, TypeOK, IngestLedger, Resume
  <2>1. TypeOK'
    BY <2>s, <2>u, <2>l DEF IInv, TypeOK
  <2>2. WrongIsRemembered'
    BY <2>s, <2>u, Zenon DEF IInv, WrongIsRemembered
  <2>3. InvalidIsProved'
    BY <2>s, <2>u, Zenon DEF IInv, InvalidIsProved
  <2>4. OneLedger' /\ AnswerOfOneLedger' /\ ReaderHoldsLock'
    BY <2>u, <2>l DEF IInv, OneLedger, AnswerOfOneLedger, ReaderHoldsLock
  <2> QED BY <2>1, <2>2, <2>3, <2>4 DEF IInv
<1>5. ASSUME NEW n \in Nodes, MaybeVerifyState(n) PROVE IInv'
  BY <1>5 DEF IInv, TypeOK, ReaderHoldsLock, WrongIsRemembered, OneLedger,
       InvalidIsProved, AnswerOfOneLedger, MaybeVerifyState
<1>6. ASSUME NEW n \in Nodes, VerifyStart(n) PROVE IInv'
  <2>1. TypeOK'
    BY <1>6 DEF IInv, TypeOK, VerifyStart
  <2>2. ReaderHoldsLock'
    BY <1>6 DEF IInv, TypeOK, VerifyStart, ReaderHoldsLock
  <2> QED BY <1>6, <2>1, <2>2 DEF IInv, WrongIsRemembered, OneLedger,
       InvalidIsProved, AnswerOfOneLedger, VerifyStart
<1> QED BY <1>1, <1>2, <1>3, <1>4, <1>5, <1>6

\* A verification that ends gives back its own lock only.
LEMMA ReturnSteps ==
  ASSUME IInv, NEW n \in Nodes, Return(n),
         UNCHANGED <<stateVars, published, hook, spawned, verdicts, requestVars>>
  PROVE  IInv'
<1>1. TypeOK'
  BY DEF IInv, TypeOK, Return
<1>2. ReaderHoldsLock'
  BY DEF IInv, TypeOK, Return, ReaderHoldsLock
<1>3. WrongIsRemembered'
  BY DEF IInv, TypeOK, Return, WrongIsRemembered
<1> QED BY <1>1, <1>2, <1>3 DEF IInv, OneLedger, InvalidIsProved, AnswerOfOneLedger

LEMMA VerifierSteps ==
  ASSUME IInv, NEW n \in Nodes, VerifierStep(n) \/ VerifyFail(n) \/ MarkStateInvalid(n)
  PROVE  IInv'
<1>1. CASE VerifyBegin(n)
  <2>1. CASE Return(n)
    BY <1>1, <2>1, ReturnSteps DEF VerifyBegin
  <2>2. CASE ~ Return(n)
    <3>1. TypeOK'
      <4>1. vsnap' = [vsnap EXCEPT ![n] = VerifierSnapshot] /\ vpc' = [vpc EXCEPT ![n] = "lock"]
        BY <1>1, <2>2 DEF VerifyBegin
      <4>2. vsnap' \in [Nodes -> VerifierSnapshotType]
        BY <4>1 DEF IInv, TypeOK
      <4>3. vpc' \in [Nodes -> {"idle", "begin", "lock", "wait", "read"}]
        BY <4>1 DEF IInv, TypeOK
      <4> QED BY <1>1, <2>2, <4>2, <4>3 DEF IInv, TypeOK, VerifyBegin
    <3>2. ReaderHoldsLock' /\ WrongIsRemembered'
      <4>1. /\ vsnap' = [vsnap EXCEPT ![n] = VerifierSnapshot]
            /\ vpc' = [vpc EXCEPT ![n] = "lock"] /\ vlock' = vlock
            /\ IsCheckpointLedger(lastIngested)
            /\ UNCHANGED <<stateVars, verdicts>>
        BY <1>1, <2>2 DEF VerifyBegin
      <4>2. lastIngested > 0
        BY <4>1, CheckpointsArePositive DEF IInv, TypeOK
      <4>3. ReaderHoldsLock'
        BY <4>1 DEF IInv, TypeOK, ReaderHoldsLock
      <4>4. WrongIsRemembered'
        BY <4>1, <4>2 DEF IInv, TypeOK, WrongIsRemembered
      <4> QED BY <4>3, <4>4
    <3> QED BY <1>1, <3>1, <3>2 DEF IInv, OneLedger, InvalidIsProved, AnswerOfOneLedger,
                                    VerifyBegin
  <2> QED BY <2>1, <2>2
<1>2. CASE VerifyLock(n)
  <2>1. CASE Return(n)
    BY <1>2, <2>1, ReturnSteps DEF VerifyLock
  <2>2. CASE ~ Return(n)
    <3>1. TypeOK'
      BY <1>2, <2>2 DEF IInv, TypeOK, VerifyLock
    <3>2. ReaderHoldsLock' /\ WrongIsRemembered'
      BY <1>2, <2>2 DEF IInv, TypeOK, VerifyLock, ReaderHoldsLock, WrongIsRemembered
    <3> QED BY <1>2, <3>1, <3>2 DEF IInv, OneLedger, InvalidIsProved, AnswerOfOneLedger,
                                    VerifyLock
  <2> QED BY <2>1, <2>2
<1>3. CASE VerifyWait(n)
  <2>1. CASE Return(n)
    BY <1>3, <2>1, ReturnSteps DEF VerifyWait
  <2>2. CASE ~ Return(n)
    <3>1. TypeOK'
      <4>1. vpc' \in [Nodes -> {"idle", "begin", "lock", "wait", "read"}]
        BY <1>3, <2>2 DEF IInv, TypeOK, VerifyWait
      <4>2. retries' \in [Nodes -> 0..MaxRetries - 1]
        BY <1>3, <2>2 DEF IInv, TypeOK, VerifyWait
      <4>3. UNCHANGED <<vsnap, vlock>>
        BY <1>3, <2>2 DEF VerifyWait
      <4> QED BY <1>3, <4>1, <4>2, <4>3 DEF IInv, TypeOK, VerifyWait
    <3>2. ReaderHoldsLock' /\ WrongIsRemembered'
      BY <1>3, <2>2 DEF IInv, TypeOK, VerifyWait, ReaderHoldsLock, WrongIsRemembered
    <3> QED BY <1>3, <3>1, <3>2 DEF IInv, OneLedger, InvalidIsProved, AnswerOfOneLedger,
                                    VerifyWait
  <2> QED BY <2>1, <2>2
<1>4. CASE VerifyRead(n)
  <2>v. /\ Verdict(n) \in VerdictType
        /\ Verdict(n).build = vsnap[n].builds /\ Verdict(n).ledger = vsnap[n].lastIngested
    BY DEF IInv, TypeOK, Verdict
  <2>w. verdicts' \in {verdicts, [verdicts EXCEPT ![n] = @ \cup {Verdict(n)}]}
    BY <1>4, Zenon DEF VerifyRead
  <2>1. TypeOK'
    <3>a. verdicts \in [Nodes -> SUBSET VerdictType]
      BY Zenon DEF IInv, TypeOK
    <3>1. verdicts' \in [Nodes -> SUBSET VerdictType]
      <4> HIDE DEF VerdictType
      <4>1. verdicts[n] \cup {Verdict(n)} \in SUBSET VerdictType
        BY <2>v, <3>a, Zenon
      <4> QED BY <2>w, <3>a, <4>1, Zenon
    <3> QED BY <1>4, <3>1 DEF IInv, TypeOK, VerifyRead, Return
  <2>2. ReaderHoldsLock'
    BY <1>4 DEF IInv, TypeOK, VerifyRead, Return, ReaderHoldsLock
  <2>3. WrongIsRemembered'
    <3>1. \A m \in Nodes : \A v \in verdicts'[m] :
            \/ v \in verdicts[m]
            \/ v = Verdict(n) /\ ~ (vsnap[n].sound /\ vsnap[n].builds = builds)
      BY <1>4 DEF IInv, TypeOK, VerifyRead
    <3>2. \A m \in Nodes : \A v \in verdicts'[m] :
            v.build <= builds /\ (v.build = builds => v.ledger \in wrong)
      BY <2>v, <3>1 DEF IInv, WrongIsRemembered
    <3>3. /\ UNCHANGED <<sound, lastIngested, wrong, marked, builds>>
          /\ vsnap' = [vsnap EXCEPT ![n] = NoSnapshot]
      BY <1>4 DEF VerifyRead, Return
    <3>4. vsnap \in [Nodes -> VerifierSnapshotType] /\ builds \in Nat
      BY DEF IInv, TypeOK
    <3>5. WrongIsRemembered
      BY Zenon DEF IInv
    <3> HIDE DEF VerdictType, Response
    <3> QED BY <3>2, <3>3, <3>4, <3>5 DEF WrongIsRemembered
  <2> QED BY <1>4, <2>1, <2>2, <2>3 DEF IInv, OneLedger, InvalidIsProved, AnswerOfOneLedger,
                                        VerifyRead
<1>5. CASE VerifyFail(n)
  BY <1>5, ReturnSteps DEF VerifyFail
<1>6. CASE MarkStateInvalid(n)
  <2>1. PICK b \in verdicts[n] :
          /\ verdicts' = [verdicts EXCEPT ![n] = @ \ {b}]
          /\ \/ stateInvalid' = TRUE /\ marked' = b
             \/ UNCHANGED <<stateInvalid, marked>>
          /\ UNCHANGED <<ledgerVars, sound, builds, wrong, published, hook, spawned, vpc, vsnap,
                         vlock, retries, requestVars>>
    BY <1>6, Zenon DEF MarkStateInvalid
  <2>2. TypeOK'
    <3>1. verdicts' \in [Nodes -> SUBSET VerdictType]
      BY <2>1 DEF IInv, TypeOK
    <3>2. marked' \in VerdictType
      BY <2>1 DEF IInv, TypeOK
    <3>3. stateInvalid' \in BOOLEAN
      BY <2>1, Zenon DEF IInv, TypeOK
    <3>4. UNCHANGED <<lastIngested, latestHistory, state, sound, builds, wrong, published, hook,
                      spawned, vpc, vsnap, vlock, retries, request, rsnap>>
      BY <2>1
    <3> QED BY <3>1, <3>2, <3>3, <3>4 DEF IInv, TypeOK
  <2>3. WrongIsRemembered' /\ InvalidIsProved'
    BY <2>1 DEF IInv, TypeOK, WrongIsRemembered, InvalidIsProved
  <2> QED BY <2>1, <2>2, <2>3 DEF IInv, ReaderHoldsLock, OneLedger, AnswerOfOneLedger
<1> QED BY <1>1, <1>2, <1>3, <1>4, <1>5, <1>6 DEF VerifierStep

\* The checks of the middleware and the handler's queries read one snapshot.
LEMMA RequestSteps ==
  ASSUME IInv, RequestBegin \/ RequestEnd
  PROVE  IInv'
<1>1. CASE RequestBegin
  <2>1. TypeOK'
    BY <1>1 DEF IInv, TypeOK, RequestBegin
  <2>2. OneLedger' /\ AnswerOfOneLedger'
    BY <1>1 DEF IInv, TypeOK, RequestBegin, Ready, OneLedger, AnswerOfOneLedger
  <2> QED BY <1>1, <2>1, <2>2 DEF IInv, ReaderHoldsLock, WrongIsRemembered,
                                  InvalidIsProved, RequestBegin
<1>2. CASE RequestEnd
  <2>1. TypeOK'
    BY <1>2 DEF IInv, TypeOK, RequestEnd
  <2>2. OneLedger' /\ AnswerOfOneLedger'
    BY <1>2 DEF IInv, TypeOK, RequestEnd, OneLedger, AnswerOfOneLedger
  <2> QED BY <1>2, <2>1, <2>2 DEF IInv, ReaderHoldsLock, WrongIsRemembered,
                                  InvalidIsProved, RequestEnd
<1> QED BY <1>1, <1>2, Zenon

LEMMA NextIInv == IInv /\ [Next]_vars => IInv'
<1> SUFFICES ASSUME IInv, [Next]_vars PROVE IInv'
  OBVIOUS
<1>1. CASE Next
  BY <1>1, IngestionSteps, VerifierSteps, RequestSteps, Zenon DEF Next
<1>2. CASE UNCHANGED vars
  BY <1>2 DEF vars, IInv, TypeOK, ReaderHoldsLock, WrongIsRemembered, OneLedger,
     InvalidIsProved, AnswerOfOneLedger
<1> QED BY <1>1, <1>2

\* Every variable keeps its type; a verification never waits for the archive
\* more often than verifyState allows.
THEOREM TypeCorrect == Spec => []TypeOK
<1>1. IInv => TypeOK
  BY DEF IInv
<1> QED BY <1>1, InitIInv, NextIInv, PTL DEF Spec

\* TryStateVerificationLock gives one instance of any number "exclusive access
\* to perform state verification".
THEOREM VerifierExclusive == Spec => []OneVerifier
<1>1. IInv => OneVerifier
  BY DEF IInv, ReaderHoldsLock, OneVerifier
<1> QED BY <1>1, InitIInv, NextIInv, PTL DEF Spec

\* markStateInvalid only condemns a state that was wrong at the ledger verified,
\* unless the state was built again since the verification began.
THEOREM InvalidStateProved == Spec => []InvalidIsProved
<1>1. IInv => InvalidIsProved
  BY DEF IInv
<1> QED BY <1>1, InitIInv, NextIInv, PTL DEF Spec

\* The state middleware answers from one ledger, whether or not
\* NoStateVerification is set, or from state tables that were built meanwhile
\* and appear empty.
THEOREM AnswersConsistent == Spec => []AnswerOfOneLedger
<1>1. IInv => AnswerOfOneLedger
  BY DEF IInv
<1> QED BY <1>1, InitIInv, NextIInv, PTL DEF Spec
=============================================================================
