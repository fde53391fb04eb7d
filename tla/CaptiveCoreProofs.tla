------------------------- MODULE CaptiveCoreProofs -------------------------
\* CaptiveCore implements LedgerBackend, and runs one process at a time, for
\* every set of ranges and forks and whatever its processes write.
EXTENDS CaptiveCore, TLAPS

\* What links the ledger read last to what is expected next.
StreamGood ==
  /\ prepared \in Ranges \cup {None} /\ nextLedger \in Nat /\ lastLedger \in Nat
  /\ cachedMeta \in Ledgers \cup {None}
  /\ previousLedgerHash \in (Nat \X Chains) \cup {None}
  /\ prepared # None =>
       /\ lastLedger = prepared.to
       /\ nextLedger = 0 => lastLedger = 0
  /\ previousLedgerHash # None =>
       /\ prepared # None /\ cachedMeta # None
       /\ previousLedgerHash = LedgerHash(cachedMeta)
       /\ nextLedger = cachedMeta.seq + 1
  /\ previousLedgerHash = None /\ prepared # None
       => nextLedger <= Backend!First(prepared)

\* A process that exited, or was not started, does not run; every runner but
\* the current one has exited.
RunnersGood ==
  /\ runners \in Seq(RunnerType) /\ Len(runners) = current
  /\ current \in 0 .. MaxRuns
  /\ \A k \in 1 .. current :
       runners[k].exited \/ ~ runners[k].started => runners[k].emits = 0
  /\ \A k \in 1 .. (current - 1) : runners[k].exited

\* Threads close runners that exist.
ClosingGood ==
  /\ closing \in [Threads -> CloseType]
  /\ \A t \in Threads : closing[t].at \in {"wait", "drain", "clean"}
                          => closing[t].run \in 1 .. current

\* What a call in progress has checked still holds.
CallsGood ==
  /\ user \in CallType
  /\ user.pc \in {"stop", "open", "seek"} => user.range \in Ranges
  /\ user.pc = "stop" => current # 0
  /\ user.pc = "open" /\ current # 0 => runners[current].exited
  /\ user.pc = "get" =>
       /\ prepared # None /\ current # 0
       /\ nextExpectedSequence <= user.seq
       /\ lastLedger # 0 => user.seq <= lastLedger
  /\ user.pc = "last" => cachedMeta # None

RestGood ==
  /\ closed \in BOOLEAN
  /\ answer \in [asked : Nat, got : Ledgers \cup {None}]
  /\ wiped \subseteq 1 .. MaxRuns

\* What runner r of an honest process holds from ledger n on: the results in
\* its channel, then the ledgers in its pipe, then those it will write.
Consecutive(r, n) ==
  /\ \A i \in 1 .. Len(r.chan) : r.chan[i] # Failed => r.chan[i].seq = n + i - 1
  /\ ~ r.done =>
       /\ \A i \in 1 .. Len(r.pipe) : r.pipe[i].seq = n + Len(r.chan) + i - 1
       /\ r.emits # 0 => r.emits = n + Len(r.chan) + Len(r.pipe)

\* The last ledger a stream may start at.
LatestStart(from) == IF useDB /\ from = 2 THEN 3 ELSE from

\* The stream of a runner starts at the ledger that is expected, or not after
\* the range when none was read.
InStep(r) ==
  /\ prepared # None
  /\ \E n \in Nat :
       /\ Consecutive(r, n)
       /\ nextLedger # 0 => n = nextLedger
       /\ nextLedger = 0 => n <= LatestStart(prepared.from)

\* A runner that is being closed was cancelled.
CancelGood ==
  /\ \A t \in Threads : closing[t].at \in {"wait", "drain", "clean"}
                          => runners[closing[t].run].cancelled
  /\ \A k \in 1 .. current : ~ runners[k].storage => runners[k].cancelled

\* Unless it was cancelled, the current runner is in step with GetLedger.
HonestGood ==
  /\ CancelGood
  /\ Honest /\ current # 0 /\ runners[current].started /\ ~ runners[current].cancelled
       => InStep(runners[current])

IInv == StreamGood /\ RunnersGood /\ ClosingGood /\ CallsGood /\ RestGood

-----------------------------------------------------------------------------

LEMMA LedgerFacts ==
  /\ Ledgers \subseteq [seq : Nat, chain : Chains]
  /\ None \notin Ledgers /\ None \notin Ranges
  /\ Ranges \subseteq [from : Nat \ {0}, to : Nat]
  /\ \A l \in Ledgers : LedgerHash(l) # None
BY CaptiveCoreAssumption DEF Ledgers, LedgerHash

\* roundDownToFirstReplayAfterCheckpointStart does not go past its argument.
LEMMA RoundDown ==
  ASSUME NEW r \in Ranges
  PROVE  /\ roundDownToFirstReplayAfterCheckpointStart(r.from) \in Nat \ {0}
         /\ roundDownToFirstReplayAfterCheckpointStart(r.from) <= Backend!First(r)
<1> DEFINE i == r.from  q == (i + Freq) \div Freq
<1>1. i \in Nat \ {0} /\ Freq \in Nat \ {0}
  BY CaptiveCoreAssumption
<1>2. q \in Nat /\ q * Freq <= i + Freq
  BY <1>1, SMT
<1>3. GetCheckpoint(i) = q * Freq - 1
  BY <1>1 DEF GetCheckpoint
<1>4. q * Freq \in Nat
  BY <1>1, <1>2, SMT
<1> HIDE DEF q
<1> QED
  BY <1>1, <1>2, <1>3, <1>4
  DEF roundDownToFirstReplayAfterCheckpointStart, Backend!First

LEMMA InitIInv == Init => IInv
<1> SUFFICES ASSUME Init PROVE IInv
  OBVIOUS
<1>1. StreamGood
  BY DEF Init, StreamGood
<1>2. RunnersGood
  BY CaptiveCoreAssumption DEF Init, RunnersGood
<1>3. ClosingGood
  BY CaptiveCoreAssumption DEF Init, ClosingGood, Out, CloseType
<1>4. CallsGood
  BY DEF Init, CallsGood, AtRest, CallType
<1>5. RestGood
  BY Zenon DEF Init, RestGood
<1> QED
  BY <1>1, <1>2, <1>3, <1>4, <1>5 DEF IInv

-----------------------------------------------------------------------------
(* Parts of the invariant that a step leaves alone.                          *)

LEMMA StreamKept == StreamGood /\ UNCHANGED streamVars => StreamGood'
BY DEF StreamGood, streamVars

\* A step of another goroutine, after which what had exited still has.
LEMMA CallsKept ==
  ASSUME CallsGood, RunnersGood, UNCHANGED <<streamVars, current, user>>,
         current # 0 => (runners[current].exited => runners'[current].exited)
  PROVE  CallsGood'
BY DEF CallsGood, streamVars, nextExpectedSequence

LEMMA RunnerStepKept ==
  ASSUME IInv, NEW k \in DOMAIN runners, NEW r \in RunnerType, RunnerStep(k, r),
         r.exited \/ ~ r.started => r.emits = 0,
         runners[k].exited => r.exited
  PROVE  IInv'
<1>1. k \in 1 .. current /\ Len(runners) = current
  BY DEF IInv, RunnersGood
<1>2. runners' \in Seq(RunnerType) /\ Len(runners') = current
  BY <1>1 DEF IInv, RunnersGood, RunnerStep
<1>3. \A j \in 1 .. current : runners'[j] = IF j = k THEN r ELSE runners[j]
  BY <1>1 DEF IInv, RunnersGood, RunnerStep
<1>4. RunnersGood'
  BY <1>2, <1>3 DEF IInv, RunnersGood, RunnerStep
<1>5. CallsGood'
  BY <1>1, <1>3, CallsKept DEF IInv, RunnersGood, RunnerStep
<1> QED
  BY <1>4, <1>5, StreamKept DEF IInv, RunnerStep, ClosingGood, RestGood

-----------------------------------------------------------------------------
(* Steps of a runner.                                                        *)

LEMMA CoreEmitsIInv ==
  ASSUME IInv, NEW k \in DOMAIN runners, CoreEmits(k)
  PROVE  IInv'
<1> DEFINE r == runners[k]
<1>1. r \in RunnerType /\ k \in 1 .. current
  BY DEF IInv, RunnersGood
<1>2. PICK l \in Ledgers :
        RunnerStep(k, [r EXCEPT !.pipe = Append(@, l), !.emits = Following(l.seq)])
  BY Zenon DEF CoreEmits
<1>3. Following(l.seq) \in Nat
  BY LedgerFacts DEF Following
<1>4. [r EXCEPT !.pipe = Append(@, l), !.emits = Following(l.seq)] \in RunnerType
  <2>1. Append(r.pipe, l) \in Seq(Ledgers)
    BY <1>1 DEF RunnerType
  <2> QED
    BY <1>1, <1>3, <2>1, Zenon DEF RunnerType
<1>5. ~ r.exited /\ r.started
  BY <1>1 DEF IInv, RunnersGood, CoreEmits, Live
<1> QED
  BY <1>1, <1>2, <1>4, <1>5, RunnerStepKept, Zenon DEF RunnerType

LEMMA CoreExitsIInv ==
  ASSUME IInv, NEW k \in DOMAIN runners, CoreExits(k)
  PROVE  IInv'
<1> DEFINE r == runners[k]
<1>1. r \in RunnerType
  BY DEF IInv, RunnersGood
<1>2. PICK failed \in BOOLEAN :
        RunnerStep(k, [r EXCEPT !.emits = 0, !.signalled = FALSE, !.exitErr = failed])
  BY <1>1, Zenon DEF CoreExits, RunnerType
<1>3. [r EXCEPT !.emits = 0, !.signalled = FALSE, !.exitErr = failed] \in RunnerType
  BY <1>1, Zenon DEF RunnerType
<1> QED
  BY <1>1, <1>2, <1>3, RunnerStepKept, Zenon DEF RunnerType

LEMMA InterruptIInv ==
  ASSUME IInv, NEW k \in DOMAIN runners, Interrupt(k)
  PROVE  IInv'
<1> DEFINE r == runners[k]
<1>1. r \in RunnerType /\ k \in 1 .. current
  BY DEF IInv, RunnersGood
<1>2. RunnerStep(k, [r EXCEPT !.signalled = TRUE])
  BY DEF Interrupt
<1>3. [r EXCEPT !.signalled = TRUE] \in RunnerType
  BY <1>1, Zenon DEF RunnerType
<1>4. r.exited \/ ~ r.started => r.emits = 0
  BY <1>1 DEF IInv, RunnersGood
<1> QED
  BY <1>1, <1>2, <1>3, <1>4, RunnerStepKept, Zenon DEF RunnerType

LEMMA HandleExitIInv ==
  ASSUME IInv, NEW k \in DOMAIN runners, HandleExit(k)
  PROVE  IInv'
<1> DEFINE r == runners[k]
<1>1. r \in RunnerType /\ r.emits = 0
  BY DEF IInv, RunnersGood, HandleExit, Live
<1>2. RunnerStep(k, [r EXCEPT !.exited = TRUE])
  BY DEF HandleExit
<1>3. [r EXCEPT !.exited = TRUE] \in RunnerType
  BY <1>1, Zenon DEF RunnerType
<1> QED
  BY <1>1, <1>2, <1>3, RunnerStepKept, Zenon DEF RunnerType

LEMMA BufferReadsIInv ==
  ASSUME IInv, NEW k \in DOMAIN runners, BufferReads(k)
  PROVE  IInv'
<1> DEFINE r == runners[k]
           Decoded == [r EXCEPT !.pipe = Tail(@), !.chan = Append(@, Head(r.pipe))]
           Ended == [r EXCEPT !.pipe = <<>>, !.chan = Append(@, Failed), !.done = TRUE]
<1>1. r \in RunnerType /\ k \in 1 .. current
  BY DEF IInv, RunnersGood
<1>2. r.exited \/ ~ r.started => r.emits = 0
  BY <1>1 DEF IInv, RunnersGood
<1>3. CASE r.pipe # <<>> /\ RunnerStep(k, Decoded)
  <2>1. Head(r.pipe) \in Ledgers /\ Tail(r.pipe) \in Seq(Ledgers)
    BY <1>1, <1>3 DEF RunnerType
  <2>2. Append(r.chan, Head(r.pipe)) \in Seq(Ledgers \cup {Failed})
    BY <1>1, <2>1 DEF RunnerType
  <2>3. Decoded \in RunnerType
    BY <1>1, <2>1, <2>2, Zenon DEF RunnerType
  <2> QED
    BY <1>1, <1>2, <1>3, <2>3, RunnerStepKept, Zenon DEF RunnerType
<1>4. CASE RunnerStep(k, Ended)
  <2>1. Append(r.chan, Failed) \in Seq(Ledgers \cup {Failed})
    BY <1>1 DEF RunnerType
  <2>2. Ended \in RunnerType
    <3>1. <<>> \in Seq(Ledgers)
      OBVIOUS
    <3> QED
      BY <1>1, <2>1, <3>1, Zenon DEF RunnerType
  <2> QED
    BY <1>1, <1>2, <1>4, <2>2, RunnerStepKept, Zenon DEF RunnerType
<1> QED
  BY <1>3, <1>4 DEF BufferReads

-----------------------------------------------------------------------------
(* Closing a runner.                                                         *)

LEMMA CloseEntryKept ==
  ASSUME IInv, current # 0, UNCHANGED current, NEW t \in Threads,
         NEW r \in RunnerType, CloseEntry(t, r),
         r.exited = runners[current].exited, r.started = runners[current].started,
         r.emits = runners[current].emits
  PROVE  /\ RunnersGood' /\ ClosingGood'
         /\ runners[current].exited => runners'[current].exited
<1> DEFINE q == IF r.storage
                THEN [r EXCEPT !.storage = FALSE, !.cancelled = TRUE,
                               !.exited = @ \/ ~ r.started]
                ELSE r
<1>1. current \in 1 .. current /\ Len(runners) = current /\ current \in Nat
  BY DEF IInv, RunnersGood
<1>2. q \in RunnerType
  <2>1. (r.exited \/ ~ r.started) \in BOOLEAN
    BY DEF RunnerType
  <2>2. [r EXCEPT !.storage = FALSE, !.cancelled = TRUE, !.exited = @ \/ ~ r.started]
          \in RunnerType
    BY <2>1, Zenon DEF RunnerType
  <2> QED
    BY <2>2
<1>3. /\ q.exited \/ ~ q.started => q.emits = 0
      /\ r.exited => q.exited
  BY <1>1 DEF IInv, RunnersGood, RunnerType
<1>4. runners' = [runners EXCEPT ![current] = q]
  BY DEF CloseEntry
<1> HIDE DEF q
<1>5. /\ runners' \in Seq(RunnerType) /\ Len(runners') = current
      /\ \A j \in 1 .. current : runners'[j] = IF j = current THEN q ELSE runners[j]
  BY <1>1, <1>2, <1>4 DEF IInv, RunnersGood
<1>6. RunnersGood'
  BY <1>1, <1>3, <1>5 DEF IInv, RunnersGood
<1>7. ClosingGood'
  <2>1. closing'[t] \in CloseType /\ (closing'[t].at \in {"wait", "drain", "clean"}
          => closing'[t].run \in 1 .. current)
    <3>1. current \in 0 .. MaxRuns /\ 0 \in 0 .. MaxRuns
      BY <1>1, CaptiveCoreAssumption DEF IInv, RunnersGood
    <3>2. closing'[t] \in {[at |-> "wait", run |-> current],
                          [at |-> "clean", run |-> current], Out}
      BY DEF IInv, ClosingGood, CloseEntry
    <3> QED
      BY <1>1, <3>1, <3>2 DEF CloseType, Out
  <2> QED
    BY <2>1 DEF IInv, ClosingGood, CloseEntry
<1> QED
  BY <1>1, <1>3, <1>5, <1>6, <1>7

LEMMA CloseWaitsIInv ==
  ASSUME IInv, NEW t \in Threads, CloseWaits(t)
  PROVE  IInv'
<1>1. ClosingGood'
  BY DEF IInv, ClosingGood, CloseType, CloseWaits
<1>2. CallsGood'
  BY CallsKept DEF IInv, CloseWaits
<1> QED
  BY <1>1, <1>2, StreamKept DEF IInv, CloseWaits, RunnersGood, RestGood

LEMMA CloseDrainsIInv ==
  ASSUME IInv, NEW t \in Threads, CloseDrains(t)
  PROVE  IInv'
<1> DEFINE k == closing[t].run
           r == runners[k]
           q == [r EXCEPT !.chan = Tail(@)]
<1>1. k \in 1 .. current /\ Len(runners) = current /\ r \in RunnerType
  BY DEF IInv, RunnersGood, ClosingGood, CloseDrains
<1>2. CASE r.chan # <<>> /\ runners' = [runners EXCEPT ![k].chan = Tail(@)]
           /\ UNCHANGED closing
  <2>1. q \in RunnerType
    <3>1. Tail(r.chan) \in Seq(Ledgers \cup {Failed})
      BY <1>1, <1>2 DEF RunnerType
    <3> QED
      BY <1>1, <3>1, Zenon DEF RunnerType
  <2>2. q.exited = r.exited /\ q.started = r.started /\ q.emits = r.emits
    BY <1>1 DEF RunnerType
  <2>3. runners' = [runners EXCEPT ![k] = q]
    BY <1>2
  <2> HIDE DEF q
  <2>4. /\ runners' \in Seq(RunnerType) /\ Len(runners') = current
        /\ \A j \in 1 .. current : runners'[j] = IF j = k THEN q ELSE runners[j]
    BY <1>1, <2>1, <2>3 DEF IInv, RunnersGood
  <2>5. RunnersGood'
    BY <1>1, <2>2, <2>4 DEF IInv, RunnersGood, CloseDrains
  <2>6. CallsGood'
    BY <1>1, <2>2, <2>4, CallsKept DEF IInv, RunnersGood, CloseDrains
  <2> QED
    BY <1>2, <2>5, <2>6, StreamKept DEF IInv, CloseDrains, ClosingGood, RestGood
<1>3. CASE closing' = [closing EXCEPT ![t].at = "clean"] /\ UNCHANGED runners
  <2>1. ClosingGood'
    BY <1>1, <1>3 DEF IInv, ClosingGood, CloseType, CloseDrains
  <2>2. CallsGood'
    BY <1>3, CallsKept DEF IInv, CloseDrains
  <2> QED
    BY <1>3, <2>1, <2>2, StreamKept DEF IInv, CloseDrains, RunnersGood, RestGood
<1> QED
  BY <1>2, <1>3 DEF CloseDrains

LEMMA CloseCleansIInv ==
  ASSUME IInv, NEW t \in Threads, CloseCleans(t)
  PROVE  IInv'
<1>1. ClosingGood'
  BY CaptiveCoreAssumption DEF IInv, ClosingGood, CloseType, CloseCleans, Out
<1>2. user' \in CallType /\ user'.pc = user.pc /\ user'.seq = user.seq
        /\ user'.range = user.range
  BY Zenon DEF IInv, CallsGood, CallType, CloseCleans, Removes, RunnersGood, RunnerType
<1>3. CallsGood'
  BY <1>2 DEF IInv, CallsGood, CloseCleans, streamVars, nextExpectedSequence
<1>4. wiped' \subseteq 1 .. MaxRuns
  <2>1. DOMAIN runners \subseteq 1 .. MaxRuns
    BY CaptiveCoreAssumption DEF IInv, RunnersGood
  <2> QED
    BY <2>1 DEF IInv, RestGood, CloseCleans, Wipe
<1> QED
  BY <1>1, <1>3, <1>4, StreamKept DEF IInv, CloseCleans, RunnersGood, RestGood

LEMMA CloseCallIInv == ASSUME IInv, CloseCall PROVE IInv'
<1>1. Len(runners) = current /\ runners \in Seq(RunnerType) /\ current \in Nat
  BY DEF IInv, RunnersGood
<1>2. \A k \in 1 .. current : [runners[k] EXCEPT !.cancelled = TRUE] \in RunnerType
  <2>1. \A k \in 1 .. current : runners[k] \in RunnerType
    BY <1>1
  <2> QED
    BY <2>1, Zenon DEF RunnerType
<1>3. /\ runners' \in Seq(RunnerType) /\ Len(runners') = current
      /\ \A k \in 1 .. current : runners'[k] = [runners[k] EXCEPT !.cancelled = TRUE]
  BY <1>1, <1>2 DEF CloseCall
<1>4. \A k \in 1 .. current :
        /\ runners'[k].exited = runners[k].exited
        /\ runners'[k].started = runners[k].started
        /\ runners'[k].emits = runners[k].emits
  <2> SUFFICES ASSUME NEW k \in 1 .. current
               PROVE  /\ runners'[k].exited = runners[k].exited
                      /\ runners'[k].started = runners[k].started
                      /\ runners'[k].emits = runners[k].emits
    OBVIOUS
  <2>1. runners[k] \in RunnerType
    BY <1>1
  <2>2. runners'[k] = [runners[k] EXCEPT !.cancelled = TRUE]
    BY <1>3
  <2> QED
    BY <2>1, <2>2 DEF RunnerType
<1>5. RunnersGood'
  BY <1>3, <1>4 DEF IInv, RunnersGood, CloseCall
<1>6. CallsGood'
  <2>1. current # 0 => (runners[current].exited => runners'[current].exited)
    BY <1>1, <1>4
  <2> QED
    BY <2>1, CallsKept DEF IInv, CloseCall
<1>7. ClosingGood'
  <2>1. [at |-> "call", run |-> 0] \in CloseType
    BY CaptiveCoreAssumption DEF CloseType
  <2>2. closing' \in [Threads -> CloseType]
    BY <2>1, Zenon DEF IInv, ClosingGood, CloseCall
  <2>3. \A t \in Threads : closing'[t] = closing[t] \/ closing'[t].at = "call"
    BY DEF IInv, ClosingGood, CloseCall
  <2> QED
    BY <2>2, <2>3 DEF IInv, ClosingGood, CloseCall
<1> QED
  BY <1>5, <1>6, <1>7, StreamKept DEF IInv, CloseCall, RestGood

LEMMA CloseRunnerIInv == ASSUME IInv, CloseRunner PROVE IInv'
<1>1. CASE current = 0
  <2>1. ClosingGood'
    BY <1>1, CaptiveCoreAssumption DEF IInv, ClosingGood, CloseType, CloseRunner, Out
  <2>2. CallsGood'
    BY <1>1, CallsKept DEF IInv, CloseRunner
  <2> QED
    BY <1>1, <2>1, <2>2, StreamKept DEF IInv, CloseRunner, RunnersGood, RestGood
<1>2. CASE current # 0
  <2>1. runners[current] \in RunnerType
    BY <1>2 DEF IInv, RunnersGood
  <2>2. /\ RunnersGood' /\ ClosingGood'
        /\ runners[current].exited => runners'[current].exited
    BY <1>2, <2>1, CloseEntryKept DEF CloseRunner, Threads
  <2>3. CallsGood'
    BY <2>2, CallsKept DEF IInv, CloseRunner
  <2> QED
    BY <2>2, <2>3, StreamKept DEF IInv, CloseRunner, RestGood
<1> QED
  BY <1>1, <1>2

LEMMA WatcherFiresIInv == ASSUME IInv, WatcherFires PROVE IInv'
<1>1. current # 0 /\ runners[current] \in RunnerType
  BY DEF IInv, RunnersGood, WatcherFires
<1>2. /\ RunnersGood' /\ ClosingGood'
      /\ runners[current].exited => runners'[current].exited
  BY <1>1, CloseEntryKept, Zenon DEF WatcherFires, Threads
<1>3. CallsGood'
  BY <1>2, CallsKept DEF IInv, WatcherFires
<1> QED
  BY <1>2, <1>3, StreamKept DEF IInv, WatcherFires, RestGood

-----------------------------------------------------------------------------
(* PrepareRange and GetLedger.                                               *)

LEMMA AtRestTyped == \A pc \in {"idle", "ready", "stop", "open"} : AtRest(pc) \in CallType
BY DEF AtRest, CallType

\* A call that fails, or succeeds with a ledger, leaves nothing in progress.
LEMMA FailKept == ASSUME IInv, Fail PROVE CallsGood' /\ answer' \in [asked : Nat, got : Ledgers \cup {None}]
<1>1. CallsGood'
  BY AtRestTyped DEF Fail, CallsGood, AtRest
<1> QED
  BY <1>1 DEF Fail, Answer

LEMMA SucceedKept ==
  ASSUME IInv, NEW l \in Ledgers, Succeed(l)
  PROVE  CallsGood' /\ answer' \in [asked : Nat, got : Ledgers \cup {None}]
<1>1. CallsGood'
  BY AtRestTyped, Zenon DEF Succeed, CallsGood, AtRest
<1>2. answer' \in [asked : Nat, got : Ledgers \cup {None}]
  BY LedgerFacts DEF Succeed, Answer
<1> QED
  BY <1>1, <1>2

LEMMA PrepareRangeIInv == ASSUME IInv, PrepareRange PROVE IInv'
<1> PICK r \in Ranges :
      \/ /\ isPrepared(r)
         /\ user' = AtRest("idle")
         /\ UNCHANGED <<runners, closing>>
      \/ /\ ~ isPrepared(r) /\ current = 0
         /\ user' = [AtRest("open") EXCEPT !.range = r]
         /\ UNCHANGED <<runners, closing>>
      \/ /\ ~ isPrepared(r) /\ current # 0
         /\ user' = [AtRest("stop") EXCEPT !.range = r]
         /\ CloseEntry("user", runners[current])
  BY DEF PrepareRange
<1>1. \A pc \in {"open", "stop"} :
        LET u == [AtRest(pc) EXCEPT !.range = r]
        IN  u \in CallType /\ u.pc = pc /\ u.range = r
  BY Zenon DEF AtRest, CallType
<1>2. CASE /\ UNCHANGED <<runners, closing>>
           /\ \/ user' = AtRest("idle")
              \/ current = 0 /\ user' = [AtRest("open") EXCEPT !.range = r]
  <2>1. CASE user' = AtRest("idle")
    <3>1. CallsGood'
      BY <2>1, AtRestTyped DEF CallsGood, AtRest
    <3> QED
      BY <1>2, <3>1, StreamKept DEF IInv, PrepareRange, RunnersGood, ClosingGood, RestGood
  <2>2. CASE current = 0 /\ user' = [AtRest("open") EXCEPT !.range = r]
    <3>1. CallsGood'
      BY <1>1, <2>2 DEF CallsGood, PrepareRange
    <3> QED
      BY <1>2, <3>1, StreamKept DEF IInv, PrepareRange, RunnersGood, ClosingGood, RestGood
  <2> QED
    BY <1>2, <2>1, <2>2
<1>3. CASE /\ current # 0
           /\ user' = [AtRest("stop") EXCEPT !.range = r]
           /\ CloseEntry("user", runners[current])
  <2>1. runners[current] \in RunnerType /\ "user" \in Threads
    BY <1>3 DEF IInv, RunnersGood, Threads
  <2>2. RunnersGood' /\ ClosingGood'
    BY <1>3, <2>1, CloseEntryKept DEF PrepareRange
  <2>3. CallsGood'
    BY <1>1, <1>3 DEF CallsGood, PrepareRange
  <2> QED
    BY <2>2, <2>3, StreamKept DEF IInv, PrepareRange, RestGood
<1> QED
  BY <1>2, <1>3

LEMMA PrepareStoppedIInv == ASSUME IInv, PrepareStopped PROVE IInv'
<1>1. CASE Fail
  BY <1>1, FailKept, StreamKept
  DEF IInv, PrepareStopped, RunnersGood, ClosingGood, RestGood
<1>2. CASE /\ runners[current].exited
           /\ user' = [user EXCEPT !.pc = "open"] /\ UNCHANGED answer
  <2>1. user \in CallType /\ user.pc = "stop" /\ user.range \in Ranges
    BY DEF IInv, CallsGood, PrepareStopped
  <2>2. user' \in CallType /\ user'.pc = "open" /\ user'.range = user.range
    BY <1>2, <2>1 DEF CallType
  <2>3. CallsGood'
    BY <1>2, <2>1, <2>2 DEF CallsGood, PrepareStopped
  <2> QED
    BY <1>2, <2>3, StreamKept
    DEF IInv, PrepareStopped, RunnersGood, ClosingGood, RestGood
<1> QED
  BY <1>1, <1>2 DEF PrepareStopped

LEMMA OpenFailsIInv == ASSUME IInv, OpenFails PROVE IInv'
BY FailKept, StreamKept DEF IInv, OpenFails, RunnersGood, ClosingGood, RestGood

\* A new runner joins those that have exited.
LEMMA StartsIInv ==
  ASSUME IInv, NEW online \in BOOLEAN, NEW first \in Nat, user.pc = "open",
         online => user.range.to = 0,
         NEW removed \in BOOLEAN, Starts(online, first, removed)
  PROVE  IInv'
<1>1. PICK started \in {FALSE, ~ closed} :
       /\ runners' = Append(runners, NewRunner(online, started, first))
       /\ \/ ~ started /\ Fail /\ UNCHANGED streamVars
          \/ /\ started
             /\ user' = [user EXCEPT !.pc = "seek"]
             /\ prepared' = user.range
             /\ nextLedger' = IF online THEN 0
                  ELSE roundDownToFirstReplayAfterCheckpointStart(user.range.from)
             /\ lastLedger' = user.range.to
             /\ previousLedgerHash' = None
             /\ UNCHANGED <<cachedMeta, answer>>
  BY Zenon DEF Starts
<1>2. started \in BOOLEAN /\ closed \in BOOLEAN /\ user \in CallType
      /\ user.range \in Ranges
  BY Zenon DEF IInv, RestGood, CallsGood
<1> DEFINE new == NewRunner(online, started, first)
<1>3. /\ new \in RunnerType /\ new.exited = FALSE /\ new.started = started
      /\ ~ started => new.emits = 0
  <2>1. <<>> \in Seq(Ledgers) /\ <<>> \in Seq(Ledgers \cup {Failed})
    OBVIOUS
  <2>2. (IF started THEN first ELSE 0) \in Nat
    OBVIOUS
  <2> QED
    BY <1>2, <2>1, <2>2 DEF NewRunner, RunnerType
<1> HIDE DEF new
<1>4. current \in Nat /\ current + 1 \in 0 .. MaxRuns /\ current' = current + 1
  BY CaptiveCoreAssumption DEF IInv, RunnersGood, Starts
<1>5. RunnersGood'
  <2>1. runners \in Seq(RunnerType) /\ Len(runners) = current
    BY DEF IInv, RunnersGood
  <2>2. runners' = Append(runners, new)
    BY <1>1 DEF new
  <2>3. /\ runners' \in Seq(RunnerType) /\ Len(runners') = current + 1
        /\ runners'[current + 1] = new
        /\ \A k \in 1 .. current : runners'[k] = runners[k]
    BY <1>3, <1>4, <2>1, <2>2
  <2>4. \A k \in 1 .. current : runners[k].exited
    BY <1>4 DEF IInv, RunnersGood, CallsGood
  <2> QED
    BY <1>3, <1>4, <2>3, <2>4 DEF IInv, RunnersGood
<1>6. ClosingGood'
  BY <1>4 DEF IInv, ClosingGood, Starts
<1>w. wiped' \subseteq 1 .. MaxRuns
  <2>1. DOMAIN runners \subseteq 1 .. MaxRuns
    BY CaptiveCoreAssumption DEF IInv, RunnersGood
  <2> QED
    BY <2>1 DEF IInv, RestGood, Starts, Wipe
<1>7. CASE ~ started
  BY <1>1, <1>5, <1>6, <1>7, <1>w, FailKept, StreamKept DEF IInv, Starts, RestGood
<1>8. CASE started
  <2>1. StreamGood'
    BY <1>1, <1>2, <1>8, RoundDown, LedgerFacts DEF IInv, StreamGood, Backend!First
  <2>2. user' \in CallType /\ user'.pc = "seek" /\ user'.range = user.range
    BY <1>1, <1>2, <1>8 DEF CallType
  <2>3. CallsGood'
    BY <1>2, <2>2 DEF CallsGood
  <2> QED
    BY <1>1, <1>5, <1>6, <1>8, <1>w, <2>1, <2>3 DEF IInv, Starts, RestGood
<1> QED
  BY <1>2, <1>7, <1>8

LEMMA OpenIInv ==
  ASSUME IInv, openOfflineReplaySubprocess \/ openOnlineReplaySubprocess
  PROVE  IInv'
<1>1. CASE openOfflineReplaySubprocess
  <2>1. user.range \in Ranges
    BY <1>1 DEF IInv, CallsGood, openOfflineReplaySubprocess
  <2> QED
    <3> DEFINE first == roundDownToFirstReplayAfterCheckpointStart(user.range.from)
    <3>1. first \in Nat
      BY <2>1, RoundDown
    <3>2. user.pc = "open" /\ Starts(FALSE, first, FALSE)
      BY <1>1, Zenon DEF openOfflineReplaySubprocess
    <3> HIDE DEF first
    <3> QED
      BY <3>1, <3>2, StartsIInv, Zenon
<1>2. CASE openOnlineReplaySubprocess
  <2>1. user.range \in Ranges /\ user.range.to = 0 /\ user.pc = "open"
    BY <1>2 DEF IInv, CallsGood, openOnlineReplaySubprocess
  <2> PICK latest \in Checkpoints :
          \E n \in runFromParams(user.range.from, latest), lcl \in offlineInfo :
            \E first \in FirstStreamed(n, lcl) : Starts(TRUE, first, RemovesDB(n, lcl))
    BY <1>2, Zenon DEF openOnlineReplaySubprocess
  <2>2. PICK n \in runFromParams(user.range.from, latest), lcl \in offlineInfo :
          \E first \in FirstStreamed(n, lcl) : Starts(TRUE, first, RemovesDB(n, lcl))
    BY Zenon
  <2>3. PICK first \in FirstStreamed(n, lcl) : Starts(TRUE, first, RemovesDB(n, lcl))
    BY <2>2, Zenon
  <2>4. first \in Nat
    <3>1. user.range.from \in Nat /\ latest \in Nat
      BY <2>1, CaptiveCoreAssumption DEF Checkpoints
    <3>2. n \in Int
      BY <3>1 DEF runFromParams
    <3>3. lcl \in Nat
      BY CaptiveCoreAssumption DEF offlineInfo
    <3> QED
      BY <3>2, <3>3 DEF FirstStreamed, LastClosed
  <2>5. RemovesDB(n, lcl) \in BOOLEAN
    BY Zenon DEF RemovesDB
  <2> QED
    BY <2>1, <2>3, <2>4, <2>5, StartsIInv, Zenon
<1> QED
  BY <1>1, <1>2

LEMMA GetLedgerIInv == ASSUME IInv, GetLedger PROVE IInv'
<1>1. PICK s \in Nat : GetLedgerCall(s)
  <2>1. CASE user.pc = "seek"
    BY <2>1, LedgerFacts DEF IInv, CallsGood, GetLedger
  <2>2. CASE user.pc # "seek"
    BY <2>2 DEF GetLedger
  <2> QED
    BY <2>1, <2>2
<1>2. CASE cachedMeta # None /\ Succeed(cachedMeta)
  <2>1. cachedMeta \in Ledgers
    BY <1>2 DEF IInv, StreamGood
  <2> QED
    BY <1>2, <2>1, SucceedKept, StreamKept
    DEF IInv, GetLedger, RunnersGood, ClosingGood, RestGood
<1>3. CASE Fail
  BY <1>3, FailKept, StreamKept
  DEF IInv, GetLedger, RunnersGood, ClosingGood, RestGood
<1>4. CASE /\ prepared # None /\ current # 0
           /\ ~ (s < nextExpectedSequence)
           /\ lastLedger # 0 => ~ (s > lastLedger)
           /\ user' = [user EXCEPT !.seq = s,
                          !.pc = IF runners[current].started THEN "get" ELSE "panic"]
           /\ UNCHANGED answer
  <2>1. /\ user' \in CallType /\ user'.seq = s
        /\ user'.pc \in {"get", "panic"}
    BY <1>4, Zenon DEF IInv, CallsGood, CallType
  <2>2. nextExpectedSequence \in Nat /\ lastLedger \in Nat
    BY LedgerFacts DEF IInv, StreamGood, nextExpectedSequence
  <2>3. nextExpectedSequence' = nextExpectedSequence /\ UNCHANGED streamVars
        /\ UNCHANGED <<runners, current, closing, closed, wiped>>
    BY DEF GetLedger, nextExpectedSequence, streamVars
  <2>4. CallsGood'
    BY <1>4, <2>1, <2>2, <2>3 DEF CallsGood, streamVars
  <2> QED
    BY <1>4, <2>3, <2>4, StreamKept DEF IInv, RunnersGood, ClosingGood, RestGood
<1> QED
  BY <1>1, <1>2, <1>3, <1>4 DEF GetLedgerCall

LEMMA GetLedgerCancelledIInv == ASSUME IInv, GetLedgerCancelled PROVE IInv'
BY FailKept, StreamKept DEF IInv, GetLedgerCancelled, RunnersGood, ClosingGood, RestGood

LEMMA GetLedgerReturnsIInv == ASSUME IInv, GetLedgerReturns PROVE IInv'
<1>1. CASE Fail
  BY <1>1, FailKept, StreamKept
  DEF IInv, GetLedgerReturns, RunnersGood, ClosingGood, RestGood
<1>2. CASE user.pc = "last" /\ Succeed(cachedMeta)
  <2>1. cachedMeta \in Ledgers
    BY <1>2 DEF IInv, StreamGood, CallsGood
  <2> QED
    BY <1>2, <2>1, SucceedKept, StreamKept
    DEF IInv, GetLedgerReturns, RunnersGood, ClosingGood, RestGood
<1> QED
  BY <1>1, <1>2 DEF GetLedgerReturns

\* Receiving from the channel changes nothing else of the runner.
LEMMA ReceivedTyped ==
  ASSUME IInv, user.pc = "get"
  PROVE  /\ Received \in RunnerType /\ current # 0
         /\ runners[current] \in RunnerType
         /\ Received.exited = runners[current].exited
         /\ Received.started = runners[current].started
         /\ Received.emits = runners[current].emits
<1> DEFINE r == runners[current]
           c == IF r.chan = <<>> THEN r.chan ELSE Tail(r.chan)
<1>1. current # 0 /\ r \in RunnerType
  BY DEF IInv, CallsGood, RunnersGood
<1>2. c \in Seq(Ledgers \cup {Failed})
  BY <1>1 DEF RunnerType
<1>3. Received = [r EXCEPT !.chan = c]
  BY DEF Received
<1> HIDE DEF c
<1>4. Received \in RunnerType
  BY <1>1, <1>2, <1>3, Zenon DEF RunnerType
<1> QED
  BY <1>1, <1>3, <1>4 DEF RunnerType

LEMMA ReceiveRefusedIInv == ASSUME IInv, ReceiveRefused PROVE IInv'
<1>1. "user" \in Threads /\ user.pc = "get" /\ CloseEntry("user", Received)
      /\ UNCHANGED <<closed, streamVars, current, answer, wiped>>
  BY DEF Threads, ReceiveRefused
<1>2. RunnersGood' /\ ClosingGood'
  BY <1>1, ReceivedTyped, CloseEntryKept
<1>3. user' \in CallType /\ user'.pc = "fail"
  BY DEF IInv, CallsGood, CallType, ReceiveRefused
<1>4. CallsGood'
  BY <1>3 DEF CallsGood
<1> QED
  BY <1>1, <1>2, <1>4, StreamKept DEF IInv, RestGood

\* A ledger that handleMetaPipeResult takes may be read next, and is not past
\* the one the call waits for.
LEMMA ReceivedReadable ==
  ASSUME IInv, ReceiveLedger
  PROVE  LET l == Head(runners[current].chan)
         IN  l \in Ledgers /\ l.seq <= user.seq /\ Backend!Readable(l)
<1> DEFINE l == Head(runners[current].chan)
<1>1. user.pc = "get" /\ runners[current].chan # <<>> /\ ~ Unexpected(l)
  BY DEF ReceiveLedger
<1>2. l \in Ledgers
  <2>1. runners[current].chan \in Seq(Ledgers \cup {Failed})
    BY <1>1, ReceivedTyped DEF RunnerType
  <2> QED
    BY <1>1, <2>1 DEF Unexpected
<1> HIDE DEF l
<1>3. /\ nextLedger # 0 => l.seq = nextLedger
      /\ nextLedger = 0 => ~ (l.seq > prepared.from)
      /\ previousLedgerHash # None => previousLedgerHash = PreviousLedgerHash(l)
  BY <1>1 DEF Unexpected
<1>4. /\ prepared \in Ranges /\ prepared # None
      /\ nextLedger \in Nat /\ lastLedger \in Nat
      /\ l.seq \in Nat /\ l.seq >= 2 /\ user.seq \in Nat
      /\ prepared.from \in Nat \ {0}
  BY <1>1, <1>2, CaptiveCoreAssumption
  DEF IInv, StreamGood, CallsGood, CallType, Ledgers
<1>5. l.seq <= user.seq
  BY <1>1, <1>3, <1>4 DEF IInv, CallsGood, nextExpectedSequence
<1>6. prepared.to = 0 \/ l.seq <= prepared.to
  BY <1>1, <1>4, <1>5 DEF IInv, StreamGood, CallsGood
<1>7. CASE previousLedgerHash = None
  <2>1. l.seq <= Backend!First(prepared)
    BY <1>3, <1>4, <1>7 DEF IInv, StreamGood, Backend!First
  <2> QED
    BY <1>2, <1>4, <1>5, <1>6, <1>7, <2>1 DEF Backend!Readable, l
<1>8. CASE previousLedgerHash # None
  <2>1. /\ cachedMeta \in Ledgers
        /\ <<cachedMeta.seq, cachedMeta.chain>> = <<l.seq - 1, l.chain>>
    BY <1>3, <1>8 DEF IInv, StreamGood, LedgerHash, PreviousLedgerHash
  <2>2. Backend!Extends(l, cachedMeta)
    BY <1>4, <2>1 DEF Backend!Extends, Ledgers
  <2> QED
    BY <1>2, <1>4, <1>5, <1>6, <1>8, <2>2 DEF Backend!Readable, l
<1> QED
  BY <1>7, <1>8

LEMMA ReceiveLedgerIInv == ASSUME IInv, ReceiveLedger PROVE IInv'
<1> DEFINE l == Head(runners[current].chan)
<1>1. l \in Ledgers /\ l.seq <= user.seq /\ l.seq \in Nat /\ l.seq + 1 # 0
  BY ReceivedReadable, LedgerFacts DEF Ledgers
<1>2. /\ user.pc = "get" /\ "user" \in Threads
      /\ nextLedger' = l.seq + 1 /\ previousLedgerHash' = LedgerHash(l)
      /\ cachedMeta' = l
      /\ UNCHANGED <<closed, prepared, lastLedger, current, wiped>>
  BY DEF ReceiveLedger, Threads
<1>3. \/ /\ l.seq # user.seq /\ runners' = [runners EXCEPT ![current] = Received]
         /\ UNCHANGED <<closing, user, answer>>
      \/ /\ runners' = [runners EXCEPT ![current] = Received]
         /\ Succeed(l) /\ UNCHANGED closing
      \/ /\ user' = [user EXCEPT !.pc = "last"]
         /\ CloseEntry("user", Received) /\ UNCHANGED answer
  BY DEF ReceiveLedger
<1> HIDE DEF l
<1>4. StreamGood'
  <2>1. prepared # None
    BY <1>2 DEF IInv, CallsGood
  <2>2. LedgerHash(l) \in Nat \X Chains /\ LedgerHash(l) # None
    BY <1>1, LedgerFacts DEF LedgerHash, Ledgers
  <2> QED
    BY <1>1, <1>2, <2>1, <2>2, LedgerFacts DEF IInv, StreamGood
<1>5. ASSUME runners' = [runners EXCEPT ![current] = Received], UNCHANGED closing
      PROVE  RunnersGood' /\ ClosingGood'
  <2>1. current \in 1 .. current /\ Len(runners) = current /\ current \in Nat
    BY <1>2 DEF IInv, RunnersGood, CallsGood
  <2>2. /\ runners' \in Seq(RunnerType) /\ Len(runners') = current
        /\ \A j \in 1 .. current :
             runners'[j] = IF j = current THEN Received ELSE runners[j]
    BY <1>2, <1>5, <2>1, ReceivedTyped DEF IInv, RunnersGood
  <2>3. RunnersGood'
    BY <1>2, <2>1, <2>2, ReceivedTyped DEF IInv, RunnersGood
  <2> QED
    BY <1>2, <1>5, <2>3 DEF IInv, ClosingGood
<1>6. CASE /\ l.seq # user.seq /\ runners' = [runners EXCEPT ![current] = Received]
           /\ UNCHANGED <<closing, user, answer>>
  <2>1. user.seq \in Nat /\ l.seq + 1 <= user.seq
    BY <1>1, <1>6 DEF IInv, CallsGood, CallType
  <2>2. nextExpectedSequence' = l.seq + 1
    BY <1>1, <1>2 DEF nextExpectedSequence
  <2>3. CallsGood'
    BY <1>2, <1>6, <2>1, <2>2 DEF IInv, CallsGood
  <2> QED
    BY <1>2, <1>4, <1>5, <1>6, <2>3 DEF IInv, RestGood
<1>7. CASE /\ runners' = [runners EXCEPT ![current] = Received]
           /\ Succeed(l) /\ UNCHANGED closing
  BY <1>1, <1>2, <1>4, <1>5, <1>7, SucceedKept DEF IInv, RestGood
<1>8. CASE /\ user' = [user EXCEPT !.pc = "last"]
           /\ CloseEntry("user", Received) /\ UNCHANGED answer
  <2>1. RunnersGood' /\ ClosingGood'
    BY <1>2, <1>8, ReceivedTyped, CloseEntryKept
  <2>2. user' \in CallType /\ user'.pc = "last"
    BY <1>8 DEF IInv, CallsGood, CallType
  <2>3. CallsGood'
    BY <1>1, <1>2, <2>2, LedgerFacts DEF CallsGood
  <2> QED
    BY <1>2, <1>4, <1>8, <2>1, <2>3 DEF IInv, RestGood
<1> QED
  BY <1>3, <1>6, <1>7, <1>8

-----------------------------------------------------------------------------
(* The theorems.                                                             *)

LEMMA UnchangedIInv == IInv /\ UNCHANGED vars => IInv'
<1> SUFFICES ASSUME IInv, UNCHANGED vars PROVE IInv'
  OBVIOUS
<1>1. UNCHANGED <<streamVars, current, user, runners, closing, closed, answer, wiped>>
  BY DEF vars
<1>2. CallsGood'
  BY <1>1, CallsKept DEF IInv
<1> QED
  BY <1>1, <1>2, StreamKept DEF IInv, RunnersGood, ClosingGood, RestGood

LEMMA NextIInv == IInv /\ [Next]_vars => IInv'
<1> SUFFICES ASSUME IInv, [Next]_vars PROVE IInv'
  OBVIOUS
<1>1. ASSUME NEW k \in DOMAIN runners, RunnerNext(k) PROVE IInv'
  BY <1>1, CoreEmitsIInv, CoreExitsIInv, InterruptIInv, HandleExitIInv, BufferReadsIInv
  DEF RunnerNext
<1>2. ASSUME NEW t \in Threads, CloseNext(t) PROVE IInv'
  BY <1>2, CloseWaitsIInv, CloseDrainsIInv, CloseCleansIInv DEF CloseNext
<1>3. CASE CallNext
  BY <1>3, PrepareStoppedIInv, OpenFailsIInv, OpenIInv, GetLedgerIInv,
     ReceiveRefusedIInv, ReceiveLedgerIInv, GetLedgerReturnsIInv DEF CallNext
<1>4. CASE PrepareRange \/ GetLedger \/ GetLedgerCancelled
  BY <1>4, PrepareRangeIInv, GetLedgerIInv, GetLedgerCancelledIInv
<1>5. CASE CloseCall \/ CloseRunner \/ WatcherFires
  BY <1>5, CloseCallIInv, CloseRunnerIInv, WatcherFiresIInv
<1>6. CASE Panicked \/ UNCHANGED vars
  BY <1>6, UnchangedIInv DEF Panicked
<1> QED
  BY <1>1, <1>2, <1>3, <1>4, <1>5, <1>6 DEF Next

LEMMA Invariance == Spec => []IInv
<1> QED
  BY InitIInv, NextIInv, PTL DEF Spec

\* The fields of CaptiveHcnetCore and of its runners keep their types, and
\* hcnetCoreRunner stays the runner created last, with any number of restarts.
THEOREM TypeCorrect == Spec => []TypeOK
<1>1. IInv => TypeOK
  BY DEF IInv, StreamGood, RunnersGood, ClosingGood, CallsGood, RestGood, TypeOK
<1> QED
  BY <1>1, Invariance, PTL

\* At most one hcnet-core process runs, whatever close, exit, the watcher and
\* PrepareRange do: startPreparingRange waits for the last one to have exited.
THEOREM AtMostOneProcess == Spec => []OneProcess
<1>1. IInv => OneProcess
  <2> SUFFICES ASSUME IInv, NEW j \in DOMAIN runners, NEW k \in DOMAIN runners,
                      Live(j), Live(k)
               PROVE  j = k
    BY DEF OneProcess
  <2>1. /\ DOMAIN runners = 1 .. current /\ current \in Nat
        /\ \A i \in 1 .. current : runners[i].exited => runners[i].emits = 0
        /\ \A i \in 1 .. (current - 1) : runners[i].exited
    BY DEF IInv, RunnersGood
  <2>2. ASSUME NEW i \in 1 .. current, Live(i) PROVE i = current
    BY <2>1, <2>2 DEF Live
  <2> QED
    BY <2>1, <2>2
<1> QED
  BY <1>1, Invariance, PTL

-----------------------------------------------------------------------------
(* Refinement.                                                               *)

LEMMA StutterMaps == UNCHANGED <<streamVars, answer>> => UNCHANGED Backend!vars
BY DEF streamVars, Backend!vars

LEMMA FailMaps == Fail /\ UNCHANGED streamVars => Backend!Next
BY DEF Fail, Answer, streamVars, Backend!Next, Backend!Fail, Backend!Answer

LEMMA SucceedMaps ==
  cachedMeta # None /\ Succeed(cachedMeta) /\ UNCHANGED streamVars => Backend!Next
BY DEF Succeed, Answer, streamVars, Backend!Next, Backend!Return, Backend!Answer

LEMMA StartsMaps ==
  ASSUME NEW online, NEW first, NEW removed, user.range \in Ranges,
         Starts(online, first, removed)
  PROVE  Backend!Next
<1>1. CASE Fail /\ UNCHANGED streamVars
  BY <1>1, FailMaps
<1>2. CASE /\ prepared' = user.range /\ previousLedgerHash' = None
           /\ UNCHANGED <<cachedMeta, answer>>
  BY <1>2 DEF Backend!Next, Backend!Open
<1> QED
  BY <1>1, <1>2 DEF Starts

LEMMA ReceiveMaps == ASSUME IInv, ReceiveLedger PROVE Backend!Next
<1> DEFINE l == Head(runners[current].chan)
<1>1. l \in Ledgers /\ Backend!Readable(l)
  BY ReceivedReadable
<1>2. /\ cachedMeta' = l /\ previousLedgerHash' # None /\ UNCHANGED prepared
      /\ answer' = answer \/ answer' = Backend!Answer(l.seq, l)
  BY <1>1, LedgerFacts DEF ReceiveLedger, Succeed, Answer, Backend!Answer
<1> HIDE DEF l
<1> QED
  BY <1>1, <1>2 DEF Backend!Next, Backend!Read

LEMMA CallMaps ==
  ASSUME IInv, CallNext \/ GetLedger
  PROVE  Backend!Next \/ UNCHANGED Backend!vars
<1>1. CASE PrepareStopped \/ OpenFails
  BY <1>1, FailMaps, StutterMaps DEF PrepareStopped, OpenFails
<1>2. CASE openOfflineReplaySubprocess \/ openOnlineReplaySubprocess
  <2>1. user.range \in Ranges
    BY <1>2, Zenon DEF IInv, CallsGood, openOfflineReplaySubprocess, openOnlineReplaySubprocess
  <2> QED
    BY <1>2, <2>1, StartsMaps, Zenon DEF openOfflineReplaySubprocess, openOnlineReplaySubprocess
<1>3. CASE GetLedger
  BY <1>3, FailMaps, SucceedMaps, StutterMaps, Zenon DEF GetLedger, GetLedgerCall
<1>4. CASE ReceiveRefused
  BY <1>4, StutterMaps DEF ReceiveRefused
<1>5. CASE ReceiveLedger
  BY <1>5, ReceiveMaps
<1>6. CASE GetLedgerReturns
  BY <1>6, FailMaps, SucceedMaps DEF IInv, CallsGood, GetLedgerReturns
<1> QED
  BY <1>1, <1>2, <1>3, <1>4, <1>5, <1>6 DEF CallNext

\* CaptiveHcnetCore implements the LedgerBackend interface: whatever its
\* processes stream, it reads one chain of consecutive ledgers per prepared
\* range, never past the end of it, and returns the ledger that was asked for.
THEOREM CaptiveCoreImplementsBackend == Spec => ImplementsBackend
<1>1. Init => Backend!Init
  BY DEF Init, Backend!Init, Backend!Answer
<1>2. IInv /\ [Next]_vars => [Backend!Next]_Backend!vars
  <2> SUFFICES ASSUME IInv, [Next]_vars
               PROVE  Backend!Next \/ UNCHANGED Backend!vars
    OBVIOUS
  <2>1. ASSUME NEW k \in DOMAIN runners, RunnerNext(k) PROVE UNCHANGED Backend!vars
    BY <2>1, StutterMaps, Zenon
    DEF RunnerNext, CoreEmits, CoreExits, Interrupt, HandleExit, BufferReads, RunnerStep
  <2>2. ASSUME NEW t \in Threads, CloseNext(t) PROVE UNCHANGED Backend!vars
    BY <2>2, StutterMaps DEF CloseNext, CloseWaits, CloseDrains, CloseCleans
  <2>3. CASE CallNext \/ GetLedger
    BY <2>3, CallMaps
  <2>4. CASE GetLedgerCancelled
    BY <2>4, FailMaps DEF GetLedgerCancelled
  <2>5. CASE PrepareRange \/ CloseCall \/ CloseRunner \/ WatcherFires
    BY <2>5, StutterMaps DEF PrepareRange, CloseCall, CloseRunner, WatcherFires
  <2>6. CASE Panicked \/ UNCHANGED vars
    BY <2>6, StutterMaps DEF Panicked, vars
  <2> QED
    BY <2>1, <2>2, <2>3, <2>4, <2>5, <2>6 DEF Next
<1> QED
  BY <1>1, <1>2, Invariance, PTL DEF Spec, ImplementsBackend, Backend!Spec
-----------------------------------------------------------------------------
(* A process that streams consecutive ledgers.                               *)

\* Neither runFromParams nor the database that runFrom chooses makes hcnet-core
\* start after the range, except at ledger 2.
LEMMA StartsEarly ==
  ASSUME NEW r \in Ranges, NEW latest \in Checkpoints, NEW lcl \in offlineInfo,
         NEW n \in runFromParams(r.from, latest), NEW first \in FirstStreamed(n, lcl)
  PROVE  first \in Nat /\ first <= LatestStart(r.from)
<1> DEFINE from == r.from
<1>1. from \in Nat \ {0} /\ latest \in Nat /\ Freq \in Nat \ {0}
  BY CaptiveCoreAssumption DEF Checkpoints
<1>2. from >= 2 /\ n \in Int /\ n <= (IF from <= Freq - 1 THEN 3 ELSE from) - 1
  BY <1>1 DEF runFromParams, GetCheckpoint
<1>3. CASE ~ useDB
  <2>1. first = 2 \/ (n >= Freq /\ first \in 2 .. (n + 1))
    BY <1>1, <1>2, <1>3 DEF FirstStreamed
  <2> HIDE DEF from
  <2>2. first \in Nat /\ first <= from
    BY <1>1, <1>2, <2>1
  <2> QED
    BY <1>3, <2>2 DEF LatestStart, from
<1>4. CASE useDB
  <2>1. n = (IF from <= Freq - 1 THEN 3 ELSE from) - 1
    BY <1>1, <1>4 DEF runFromParams, GetCheckpoint
  <2>2. lcl \in Nat /\ first = LastClosed(n, lcl) + 1
    BY <1>4, CaptiveCoreAssumption DEF offlineInfo, FirstStreamed
  <2>3. LastClosed(n, lcl) \in Nat /\ LastClosed(n, lcl) <= (IF n > 2 THEN n ELSE 2)
    BY <1>2, <1>4, <2>2 DEF LastClosed, RemovesDB
  <2> HIDE DEF from
  <2>4. first \in Nat /\ first <= (IF from = 2 THEN 3 ELSE from)
    BY <1>1, <1>2, <2>1, <2>2, <2>3
  <2> QED
    BY <1>4, <2>4 DEF LatestStart, from
<1> QED
  BY <1>3, <1>4

\* A ledger that an honest process wrote joins its stream at the end.
LEMMA EmitConsecutive ==
  ASSUME NEW r \in RunnerType, NEW l \in Ledgers, NEW n \in Nat,
         Consecutive(r, n), r.emits # 0, l.seq = r.emits
  PROVE  Consecutive([r EXCEPT !.pipe = Append(@, l), !.emits = l.seq + 1], n)
<1> DEFINE q == [r EXCEPT !.pipe = Append(@, l), !.emits = l.seq + 1]
<1>1. /\ q.pipe = Append(r.pipe, l) /\ q.emits = l.seq + 1
      /\ q.chan = r.chan /\ q.done = r.done
  BY DEF RunnerType
<1>2. r.pipe \in Seq(Ledgers) /\ r.chan \in Seq(Ledgers \cup {Failed}) /\ l.seq \in Nat
  BY LedgerFacts DEF RunnerType
<1> HIDE DEF q
<1>3. /\ Len(q.pipe) = Len(r.pipe) + 1 /\ q.pipe[Len(r.pipe) + 1] = l
      /\ \A i \in 1 .. Len(r.pipe) : q.pipe[i] = r.pipe[i]
      /\ Len(r.pipe) \in Nat /\ Len(r.chan) \in Nat
  BY <1>1, <1>2
<1>4. CASE r.done
  BY <1>1, <1>4 DEF Consecutive
<1>5. CASE ~ r.done
  <2>0. /\ n + Len(r.chan) + Len(r.pipe) = n + Len(r.chan) + (Len(r.pipe) + 1) - 1
        /\ (n + Len(r.chan) + Len(r.pipe)) + 1 = n + Len(r.chan) + (Len(r.pipe) + 1)
    <3> DEFINE c == Len(r.chan)  p == Len(r.pipe)
    <3>1. c \in Nat /\ p \in Nat
      BY <1>3
    <3> HIDE DEF c, p
    <3>2. n + c + p = n + c + (p + 1) - 1 /\ (n + c + p) + 1 = n + c + (p + 1)
      BY <3>1
    <3> QED
      BY <3>2, Zenon DEF c, p
  <2>1. r.emits = n + Len(r.chan) + Len(r.pipe)
    BY <1>5, Zenon DEF Consecutive
  <2>2. \A i \in 1 .. Len(q.pipe) : q.pipe[i].seq = n + Len(q.chan) + i - 1
    <3> SUFFICES ASSUME NEW i \in 1 .. Len(q.pipe)
                 PROVE  q.pipe[i].seq = n + Len(q.chan) + i - 1
      OBVIOUS
    <3>1. CASE i \in 1 .. Len(r.pipe)
      BY <1>1, <1>3, <1>5, <3>1, Zenon DEF Consecutive
    <3>2. CASE i = Len(r.pipe) + 1
      <4>1. q.pipe[i].seq = n + Len(r.chan) + Len(r.pipe) /\ Len(q.chan) = Len(r.chan)
        BY <1>1, <1>3, <2>1, <3>2, Zenon
      <4> QED
        BY <2>0, <3>2, <4>1, Zenon
    <3> QED
      BY <1>3, <3>1, <3>2
  <2>3. q.emits = n + Len(q.chan) + Len(q.pipe)
    <3>1. q.emits = (n + Len(r.chan) + Len(r.pipe)) + 1 /\ Len(q.chan) = Len(r.chan)
      BY <1>1, <2>1, Zenon
    <3> QED
      BY <1>3, <2>0, <3>1, Zenon
  <2>4. \A i \in 1 .. Len(q.chan) : q.chan[i] # Failed => q.chan[i].seq = n + i - 1
    BY <1>1 DEF Consecutive
  <2>5. Consecutive(q, n)
    BY <2>2, <2>3, <2>4, Zenon DEF Consecutive
  <2> QED
    BY <2>5, Zenon DEF q
<1> QED
  BY <1>4, <1>5 DEF q

\* The decoder moves a ledger from the pipe to the channel, or ends the stream.
LEMMA DecodeConsecutive ==
  ASSUME NEW r \in RunnerType, NEW n \in Nat, Consecutive(r, n), ~ r.done, r.pipe # <<>>
  PROVE  Consecutive([r EXCEPT !.pipe = Tail(@), !.chan = Append(@, Head(r.pipe))], n)
<1> DEFINE h == Head(r.pipe)
           q == [r EXCEPT !.pipe = Tail(@), !.chan = Append(@, h)]
<1>1. /\ q.pipe = Tail(r.pipe) /\ q.chan = Append(r.chan, h)
      /\ q.emits = r.emits /\ q.done = r.done
  BY DEF RunnerType
<1>2. r.pipe \in Seq(Ledgers) /\ r.chan \in Seq(Ledgers \cup {Failed})
  BY DEF RunnerType
<1>3. /\ h = r.pipe[1] /\ h \in Ledgers /\ Len(r.pipe) \in Nat /\ Len(r.pipe) >= 1
      /\ Len(Tail(r.pipe)) = Len(r.pipe) - 1
      /\ \A i \in 1 .. Len(Tail(r.pipe)) : Tail(r.pipe)[i] = r.pipe[i + 1]
  BY <1>2
<1> HIDE DEF h, q
<1>4. /\ Len(q.chan) = Len(r.chan) + 1 /\ Len(r.chan) \in Nat
      /\ \A i \in 1 .. Len(q.chan) : q.chan[i] = IF i = Len(r.chan) + 1 THEN h ELSE r.chan[i]
  BY <1>1, <1>2, <1>3
<1>5. \A i \in 1 .. Len(r.pipe) : r.pipe[i].seq = n + Len(r.chan) + i - 1
  BY Zenon DEF Consecutive
<1>6. h.seq = n + Len(r.chan)
  BY <1>3, <1>4, <1>5
<1>7. ASSUME NEW i \in 1 .. Len(q.chan), q.chan[i] # Failed PROVE q.chan[i].seq = n + i - 1
  <2>1. CASE i = Len(r.chan) + 1
    BY <1>4, <1>6, <2>1
  <2>2. CASE i # Len(r.chan) + 1
    BY <1>4, <1>7, <2>2, SMTT(20) DEF Consecutive
  <2> QED
    BY <2>1, <2>2
<1>8. ASSUME NEW i \in 1 .. Len(q.pipe)
      PROVE  q.pipe[i].seq = n + Len(q.chan) + i - 1
  <2>1. i + 1 \in 1 .. Len(r.pipe) /\ q.pipe[i] = r.pipe[i + 1] /\ i \in Nat
    BY <1>1, <1>3
  <2>2. r.pipe[i + 1].seq = n + Len(r.chan) + (i + 1) - 1
    BY <1>5, <2>1
  <2> QED
    BY <1>4, <2>1, <2>2
<1>9. q.emits # 0 => q.emits = n + Len(q.chan) + Len(q.pipe)
  <2>1. q.emits # 0 => q.emits = n + Len(r.chan) + Len(r.pipe)
    BY <1>1, Zenon DEF Consecutive
  <2>2. n + Len(r.chan) + Len(r.pipe) = n + Len(q.chan) + Len(q.pipe)
    <3> DEFINE c == Len(r.chan)  p == Len(r.pipe)
    <3>1. c \in Nat /\ p \in Nat /\ Len(q.chan) = c + 1 /\ Len(q.pipe) = p - 1
      BY <1>1, <1>3, <1>4
    <3> HIDE DEF c, p
    <3>2. n + c + p = n + (c + 1) + (p - 1)
      BY <3>1
    <3> QED
      BY <3>1, <3>2, Zenon DEF c, p
  <2> QED
    BY <2>1, <2>2, Zenon
<1> QED
  BY <1>7, <1>8, <1>9, Zenon DEF Consecutive, q, h

LEMMA EndConsecutive ==
  ASSUME NEW r \in RunnerType, NEW n \in Nat, Consecutive(r, n)
  PROVE  Consecutive([r EXCEPT !.pipe = <<>>, !.chan = Append(@, Failed), !.done = TRUE], n)
<1> DEFINE q == [r EXCEPT !.pipe = <<>>, !.chan = Append(@, Failed), !.done = TRUE]
<1>1. q.chan = Append(r.chan, Failed) /\ q.done = TRUE
  BY DEF RunnerType
<1>2. r.chan \in Seq(Ledgers \cup {Failed})
  BY DEF RunnerType
<1> HIDE DEF q
<1>3. /\ Len(q.chan) = Len(r.chan) + 1 /\ Len(r.chan) \in Nat
      /\ \A i \in 1 .. Len(q.chan) :
           q.chan[i] = IF i = Len(r.chan) + 1 THEN Failed ELSE r.chan[i]
  BY <1>1, <1>2
<1>4. ASSUME NEW i \in 1 .. Len(q.chan), q.chan[i] # Failed PROVE q.chan[i].seq = n + i - 1
  <2>1. i \in 1 .. Len(r.chan) /\ q.chan[i] = r.chan[i]
    BY <1>3, <1>4
  <2> QED
    BY <1>4, <2>1, Zenon DEF Consecutive
<1>5. Consecutive(q, n)
  BY <1>1, <1>4, Zenon DEF Consecutive
<1> QED
  BY <1>5, Zenon DEF q

\* GetLedger takes the first ledger of the stream.
LEMMA ReceiveConsecutive ==
  ASSUME NEW r \in RunnerType, NEW q \in RunnerType, NEW n \in Nat, Consecutive(r, n),
         r.chan # <<>>, q.chan = Tail(r.chan), q.pipe = r.pipe, q.done = r.done,
         q.emits = r.emits
  PROVE  Consecutive(q, n + 1)
<1>1. r.chan \in Seq(Ledgers \cup {Failed}) /\ r.pipe \in Seq(Ledgers)
  BY DEF RunnerType
<1>2. /\ Len(q.chan) = Len(r.chan) - 1 /\ Len(r.chan) \in Nat /\ Len(r.chan) >= 1
      /\ \A i \in 1 .. Len(q.chan) : q.chan[i] = r.chan[i + 1]
  BY <1>1
<1>3. ASSUME NEW i \in 1 .. Len(q.chan), q.chan[i] # Failed
      PROVE  q.chan[i].seq = (n + 1) + i - 1
  <2>1. i + 1 \in 1 .. Len(r.chan) /\ q.chan[i] = r.chan[i + 1] /\ i \in Nat
    BY <1>2
  <2>2. r.chan[i + 1].seq = n + (i + 1) - 1
    BY <1>3, <2>1, Zenon DEF Consecutive
  <2>3. n + (i + 1) - 1 = (n + 1) + i - 1
    BY <2>1
  <2> QED
    BY <2>1, <2>2, <2>3, Zenon
<1> DEFINE c == Len(r.chan)  p == Len(r.pipe)
<1>4. c \in Nat /\ p \in Nat /\ Len(q.chan) = c - 1
  BY <1>1, <1>2
<1>5. ASSUME ~ r.done
      PROVE  /\ \A i \in 1 .. p : r.pipe[i].seq = n + c + i - 1
             /\ r.emits # 0 => r.emits = n + c + p
  BY <1>5, Zenon DEF Consecutive
<1> HIDE DEF c, p
<1>6. /\ n + c + p = (n + 1) + (c - 1) + p
      /\ \A i \in 1 .. p : n + c + i - 1 = (n + 1) + (c - 1) + i - 1
  BY <1>4
<1>7. ASSUME ~ q.done
      PROVE  /\ \A i \in 1 .. p : q.pipe[i].seq = (n + 1) + Len(q.chan) + i - 1
             /\ q.emits # 0 => q.emits = (n + 1) + Len(q.chan) + p
  BY <1>4, <1>5, <1>6, <1>7, Zenon
<1>8. p = Len(q.pipe)
  BY DEF p
<1> QED
  BY <1>3, <1>7, <1>8, Zenon DEF Consecutive

-----------------------------------------------------------------------------
(* Steps of an honest session.                                               *)

\* Nobody takes back a cancellation, and who closes a runner cancels it.
LEMMA CancelKept ==
  ASSUME IInv, CancelGood, UNCHANGED current,
         \A k \in 1 .. current :
           /\ runners[k].cancelled => runners'[k].cancelled
           /\ ~ runners'[k].storage => ~ runners[k].storage \/ runners'[k].cancelled,
         \A t \in Threads : closing'[t].at \in {"wait", "drain", "clean"} =>
           \/ /\ closing[t].at \in {"wait", "drain", "clean"}
              /\ closing'[t].run = closing[t].run
           \/ runners'[closing'[t].run].cancelled
  PROVE  CancelGood'
BY Zenon DEF IInv, ClosingGood, CancelGood

\* A step after which the current runner holds what it held.
LEMMA InStepKept ==
  ASSUME IInv, HonestGood, CancelGood', UNCHANGED <<streamVars, current>>,
         current # 0 /\ Honest /\ runners'[current].started /\ ~ runners'[current].cancelled
           => /\ runners[current].started /\ ~ runners[current].cancelled
              /\ \A n \in Nat : Consecutive(runners[current], n)
                                  => Consecutive(runners'[current], n)
  PROVE  HonestGood'
<1> SUFFICES ASSUME Honest, current # 0, runners'[current].started,
                    ~ runners'[current].cancelled
             PROVE  InStep(runners[current])'
  BY DEF HonestGood
<1>1. InStep(runners[current])
  BY Zenon DEF HonestGood
<1>2. UNCHANGED <<prepared, nextLedger, current>>
  BY DEF streamVars
<1> QED
  BY <1>1, <1>2, Zenon DEF InStep

LEMMA SameRunnersHonest ==
  ASSUME IInv, HonestGood, UNCHANGED <<streamVars, current, runners>>,
         \A t \in Threads : closing'[t].at \in {"wait", "drain", "clean"} =>
           /\ closing[t].at \in {"wait", "drain", "clean"}
           /\ closing'[t].run = closing[t].run
  PROVE  HonestGood'
<1>1. CancelGood'
  BY CancelKept, Zenon DEF HonestGood
<1> QED
  BY <1>1, InStepKept, Zenon

LEMMA RunnerStepHonest ==
  ASSUME IInv, HonestGood, NEW k \in DOMAIN runners, NEW r \in RunnerType, RunnerStep(k, r),
         r.cancelled = runners[k].cancelled, r.storage = runners[k].storage,
         r.started = runners[k].started,
         Honest => \A n \in Nat : Consecutive(runners[k], n) => Consecutive(r, n)
  PROVE  HonestGood'
<1>1. /\ k \in 1 .. current
      /\ \A j \in 1 .. current : runners'[j] = IF j = k THEN r ELSE runners[j]
      /\ UNCHANGED <<streamVars, current, closing>>
  BY DEF IInv, RunnersGood, RunnerStep
<1>2. CancelGood'
  <2>1. \A j \in 1 .. current : /\ runners[j].cancelled = runners'[j].cancelled
                                /\ runners[j].storage = runners'[j].storage
    BY <1>1, Zenon
  <2> QED
    BY <1>1, <2>1, CancelKept, Zenon DEF HonestGood
<1>3. current # 0 => current \in 1 .. current
  BY DEF IInv, RunnersGood
<1>4. ASSUME current # 0, Honest, runners'[current].started, ~ runners'[current].cancelled
      PROVE  /\ runners[current].started /\ ~ runners[current].cancelled
             /\ \A n \in Nat : Consecutive(runners[current], n)
                                  => Consecutive(runners'[current], n)
  BY <1>1, <1>3, <1>4, Zenon
<1> QED
  BY <1>1, <1>2, <1>4, InStepKept, Zenon

LEMMA RunnerNextHonest ==
  ASSUME IInv, HonestGood, NEW k \in DOMAIN runners, RunnerNext(k)
  PROVE  HonestGood'
<1> DEFINE r == runners[k]
<1>1. r \in RunnerType
  BY DEF IInv, RunnersGood
<1>2. ASSUME NEW q \in RunnerType, RunnerStep(k, q), q.cancelled = r.cancelled,
             q.storage = r.storage, q.started = r.started, q.chan = r.chan,
             q.pipe = r.pipe, q.done = r.done, q.emits \in {0, r.emits}
      PROVE  HonestGood'
  <2>1. \A n \in Nat : Consecutive(r, n) => Consecutive(q, n)
    BY <1>2, Zenon DEF Consecutive
  <2> QED
    BY <1>2, <2>1, RunnerStepHonest, Zenon
<1>3. CASE CoreEmits(k)
  <2>1. PICK l \in Ledgers :
          /\ Honest => l.seq = r.emits
          /\ RunnerStep(k, [r EXCEPT !.pipe = Append(@, l), !.emits = Following(l.seq)])
    BY <1>3, Zenon DEF CoreEmits
  <2> DEFINE q == [r EXCEPT !.pipe = Append(@, l), !.emits = Following(l.seq)]
  <2>2. q \in RunnerType
    <3>1. Append(r.pipe, l) \in Seq(Ledgers) /\ Following(l.seq) \in Nat
      BY <1>1, LedgerFacts DEF RunnerType, Following
    <3> QED
      BY <1>1, <3>1, Zenon DEF RunnerType
  <2>3. q.cancelled = r.cancelled /\ q.storage = r.storage /\ q.started = r.started
    BY <1>1 DEF RunnerType
  <2>4. ASSUME Honest, NEW n \in Nat, Consecutive(r, n) PROVE Consecutive(q, n)
    <3>1. r.emits # 0 /\ l.seq = r.emits /\ Following(l.seq) = l.seq + 1
      BY <1>3, <2>1, <2>4 DEF CoreEmits, Live, Following
    <3>2. q = [r EXCEPT !.pipe = Append(@, l), !.emits = l.seq + 1]
      BY <3>1, Zenon
    <3> QED
      BY <1>1, <2>4, <3>1, <3>2, EmitConsecutive, Zenon
  <2> HIDE DEF q
  <2>5. RunnerStep(k, q)
    BY <2>1 DEF q
  <2> QED
    BY <2>2, <2>3, <2>4, <2>5, RunnerStepHonest, Zenon
<1>4. CASE CoreExits(k)
  <2>1. PICK failed \in BOOLEAN :
          RunnerStep(k, [r EXCEPT !.emits = 0, !.signalled = FALSE, !.exitErr = failed])
    BY <1>1, <1>4, Zenon DEF CoreExits, RunnerType
  <2> QED
    BY <1>1, <1>2, <2>1, Zenon DEF RunnerType
<1>5. CASE Interrupt(k)
  BY <1>1, <1>2, <1>5, Zenon DEF Interrupt, RunnerType
<1>6. CASE HandleExit(k)
  BY <1>1, <1>2, <1>6, Zenon DEF HandleExit, RunnerType
<1>7. CASE BufferReads(k)
  <2> DEFINE Decoded == [r EXCEPT !.pipe = Tail(@), !.chan = Append(@, Head(r.pipe))]
             Ended == [r EXCEPT !.pipe = <<>>, !.chan = Append(@, Failed), !.done = TRUE]
  <2>1. ~ r.done /\ ((r.pipe # <<>> /\ RunnerStep(k, Decoded)) \/ RunnerStep(k, Ended))
    BY <1>7 DEF BufferReads
  <2>2. CASE r.pipe # <<>> /\ RunnerStep(k, Decoded)
    <3>1. Head(r.pipe) \in Ledgers /\ Tail(r.pipe) \in Seq(Ledgers)
      BY <1>1, <2>2 DEF RunnerType
    <3>2. Append(r.chan, Head(r.pipe)) \in Seq(Ledgers \cup {Failed})
      BY <1>1, <3>1 DEF RunnerType
    <3>3. /\ Decoded \in RunnerType /\ Decoded.cancelled = r.cancelled
          /\ Decoded.storage = r.storage /\ Decoded.started = r.started
      BY <1>1, <3>1, <3>2, Zenon DEF RunnerType
    <3>4. \A n \in Nat : Consecutive(r, n) => Consecutive(Decoded, n)
      BY <1>1, <2>1, <2>2, DecodeConsecutive, Zenon
    <3> HIDE DEF Decoded
    <3> QED
      BY <2>2, <3>3, <3>4, RunnerStepHonest, Zenon
  <2>3. CASE RunnerStep(k, Ended)
    <3>1. Append(r.chan, Failed) \in Seq(Ledgers \cup {Failed}) /\ <<>> \in Seq(Ledgers)
      BY <1>1 DEF RunnerType
    <3>2. Ended \in RunnerType
      BY <1>1, <3>1, Zenon DEF RunnerType
    <3>3. /\ Ended.cancelled = r.cancelled
          /\ Ended.storage = r.storage /\ Ended.started = r.started
      BY <1>1 DEF RunnerType
    <3>4. \A n \in Nat : Consecutive(r, n) => Consecutive(Ended, n)
      BY <1>1, EndConsecutive, Zenon
    <3> HIDE DEF Ended
    <3> QED
      BY <2>3, <3>2, <3>3, <3>4, RunnerStepHonest, Zenon
  <2> QED
    BY <2>1, <2>2, <2>3
<1> QED
  BY <1>3, <1>4, <1>5, <1>6, <1>7 DEF RunnerNext

\* After close was called on the current runner it is cancelled.
LEMMA CloseEntryHonest ==
  ASSUME IInv, HonestGood, current # 0, NEW t \in Threads, UNCHANGED current,
         NEW r \in RunnerType, CloseEntry(t, r),
         r.cancelled = runners[current].cancelled, r.storage = runners[current].storage
  PROVE  HonestGood'
<1> DEFINE q == IF r.storage
                THEN [r EXCEPT !.storage = FALSE, !.cancelled = TRUE,
                               !.exited = @ \/ ~ r.started]
                ELSE r
<1>1. current \in 1 .. current /\ Len(runners) = current /\ runners \in Seq(RunnerType)
  BY DEF IInv, RunnersGood
<1>2. q.cancelled
  BY <1>1 DEF RunnerType, HonestGood, CancelGood
<1>3. /\ runners' = [runners EXCEPT ![current] = q]
      /\ closing \in [Threads -> CloseType]
  BY DEF CloseEntry, IInv, ClosingGood
<1> HIDE DEF q
<1>4. \A j \in 1 .. current : runners'[j] = IF j = current THEN q ELSE runners[j]
  BY <1>1, <1>3
<1>5. \A s \in Threads : closing'[s] = closing[s] \/ closing'[s].run = current
                           \/ closing'[s].at = "out"
  BY <1>3 DEF CloseEntry, Out
<1>6. CancelGood'
  BY <1>1, <1>2, <1>4, <1>5, CancelKept DEF HonestGood
<1> QED
  BY <1>1, <1>2, <1>4, <1>6 DEF HonestGood

LEMMA CloseNextHonest ==
  ASSUME IInv, HonestGood, NEW t \in Threads, CloseNext(t)
  PROVE  HonestGood'
<1>1. closing \in [Threads -> CloseType]
  BY DEF IInv, ClosingGood
<1>2. CASE CloseWaits(t)
  <2>1. \A s \in Threads : closing'[s].run = closing[s].run
                           /\ (closing'[s] = closing[s] \/ closing[s].at = "wait")
    BY <1>1, <1>2 DEF CloseWaits, CloseType
  <2> QED
    BY <1>2, <2>1, SameRunnersHonest DEF CloseWaits
<1>3. CASE CloseCleans(t)
  <2>1. \A s \in Threads : closing'[s] = closing[s] \/ closing'[s].at = "out"
    BY <1>1, <1>3 DEF CloseCleans, Out
  <2> QED
    BY <1>3, <2>1, SameRunnersHonest DEF CloseCleans
<1>4. CASE CloseDrains(t)
  <2> DEFINE k == closing[t].run
             r == runners[k]
             q == [r EXCEPT !.chan = Tail(@)]
  <2>1. /\ k \in 1 .. current /\ Len(runners) = current /\ r \in RunnerType
        /\ runners \in Seq(RunnerType) /\ closing[t].at = "drain" /\ r.cancelled
    BY <1>4 DEF IInv, RunnersGood, ClosingGood, CloseDrains, HonestGood, CancelGood
  <2>2. CASE runners' = [runners EXCEPT ![k].chan = Tail(@)] /\ UNCHANGED closing
    <3>1. q.cancelled = r.cancelled /\ q.storage = r.storage
      BY <2>1, Zenon DEF RunnerType
    <3>2. \A j \in 1 .. current : runners'[j] = IF j = k THEN q ELSE runners[j]
      BY <2>1, <2>2
    <3> HIDE DEF q
    <3>3. \A j \in 1 .. current : /\ runners'[j].cancelled = runners[j].cancelled
                                  /\ runners'[j].storage = runners[j].storage
      BY <3>1, <3>2, Zenon
    <3>4. UNCHANGED <<streamVars, current, closing>>
      BY <1>4, <2>2 DEF CloseDrains
    <3>5. CancelGood'
      BY <3>3, <3>4, CancelKept, Zenon DEF HonestGood
    <3>6. current # 0 => current \in 1 .. current
      BY <2>1
    <3>7. current # 0 /\ ~ runners'[current].cancelled => runners'[current] = runners[current]
      BY <2>1, <3>1, <3>2, <3>6, Zenon
    <3> QED
      BY <3>4, <3>5, <3>7, InStepKept, Zenon
  <2>3. CASE closing' = [closing EXCEPT ![t].at = "clean"] /\ UNCHANGED runners
    <3>1. \A s \in Threads : closing'[s].run = closing[s].run
                             /\ (closing'[s] = closing[s] \/ closing[s].at = "drain")
      BY <1>1, <2>1, <2>3 DEF CloseType
    <3> QED
      BY <1>4, <2>3, <3>1, SameRunnersHonest DEF CloseDrains
  <2> QED
    BY <1>4, <2>2, <2>3 DEF CloseDrains
<1> QED
  BY <1>2, <1>3, <1>4 DEF CloseNext

LEMMA CloseCallHonest == ASSUME IInv, HonestGood, CloseCall PROVE HonestGood'
<1>1. Len(runners) = current /\ runners \in Seq(RunnerType) /\ current \in Nat
  BY DEF IInv, RunnersGood
<1>2. \A k \in 1 .. current : /\ runners'[k] = [runners[k] EXCEPT !.cancelled = TRUE]
                              /\ runners[k] \in RunnerType
  BY <1>1 DEF CloseCall
<1>3. \A k \in 1 .. current : runners'[k].cancelled
  BY <1>2, Zenon DEF RunnerType
<1>4. /\ closing' = [closing EXCEPT !["closer"] = [at |-> "call", run |-> 0]]
      /\ closing \in [Threads -> CloseType] /\ UNCHANGED current
  BY DEF CloseCall, IInv, ClosingGood
<1>5. \A t \in Threads : closing'[t] = closing[t] \/ closing'[t].at = "call"
  BY <1>4
<1>6. CancelGood'
  BY <1>3, <1>4, <1>5, CancelKept DEF HonestGood
<1> QED
  BY <1>1, <1>3, <1>4, <1>6 DEF HonestGood

\* The new runner streams from a ledger that is expected.
LEMMA StartsHonest ==
  ASSUME IInv, HonestGood, NEW online \in BOOLEAN, NEW first \in Nat, user.pc = "open",
         NEW removed \in BOOLEAN, Starts(online, first, removed),
         online => first <= LatestStart(user.range.from),
         ~ online => /\ first # 0
                     /\ first = roundDownToFirstReplayAfterCheckpointStart(user.range.from)
  PROVE  HonestGood'
<1>1. PICK started \in {FALSE, ~ closed} :
       /\ runners' = Append(runners, NewRunner(online, started, first))
       /\ started => /\ prepared' = user.range
                     /\ nextLedger' = IF online THEN 0
                          ELSE roundDownToFirstReplayAfterCheckpointStart(user.range.from)
  BY Zenon DEF Starts
<1> DEFINE new == NewRunner(online, started, first)
<1>2. /\ new.storage = TRUE /\ new.cancelled = closed /\ new.started = started
      /\ new.chan = <<>> /\ new.pipe = <<>>
      /\ started => new.emits = first
  BY DEF NewRunner
<1>3. current' = current + 1 /\ UNCHANGED closing /\ user.range \in Ranges
  BY DEF Starts, IInv, CallsGood
<1> HIDE DEF new
<1>4. /\ current \in Nat /\ current + 1 # 0 /\ runners'[current + 1] = new
      /\ \A k \in 1 .. current : runners'[k] = runners[k]
  <2>1. runners \in Seq(RunnerType) /\ Len(runners) = current /\ current \in Nat
    BY DEF IInv, RunnersGood
  <2>2. runners' = Append(runners, new)
    BY <1>1 DEF new
  <2> QED
    BY <2>1, <2>2
<1>5. CancelGood'
  <2>1. \A t \in Threads : closing[t].at \in {"wait", "drain", "clean"}
                             => closing[t].run \in 1 .. current
    BY Zenon DEF IInv, ClosingGood
  <2>2. \A k \in 1 .. (current + 1) : k \in 1 .. current \/ k = current + 1
    BY <1>4
  <2>3. \A k \in 1 .. (current + 1) : ~ runners'[k].storage => runners'[k].cancelled
    BY <1>2, <1>4, <2>2, Zenon DEF HonestGood, CancelGood
  <2> QED
    BY <1>3, <1>4, <2>1, <2>3, Zenon DEF HonestGood, CancelGood
<1>6. ASSUME started
      PROVE  /\ prepared' # None
             /\ Consecutive(new, first)
             /\ nextLedger' # 0 => first = nextLedger'
             /\ nextLedger' = 0 => first <= LatestStart(prepared'.from)
  <2>1. Consecutive(new, first)
    BY <1>2, <1>6 DEF Consecutive
  <2>2. prepared' # None /\ prepared' = user.range
    BY <1>1, <1>3, <1>6, LedgerFacts
  <2>3. CASE online
    <3>1. nextLedger' = 0
      BY <1>1, <1>6, <2>3
    <3> QED
      BY <2>1, <2>2, <2>3, <3>1, Zenon
  <2>4. CASE ~ online
    <3>1. nextLedger' = first /\ first # 0
      BY <1>1, <1>6, <2>4
    <3> QED
      BY <2>1, <2>2, <3>1, Zenon
  <2> QED
    BY <2>3, <2>4
<1>7. runners'[current'] = new
  BY <1>3, <1>4, Zenon
<1> QED
  BY <1>2, <1>5, <1>6, <1>7, Zenon DEF HonestGood, InStep

LEMMA OpenHonest ==
  ASSUME IInv, HonestGood, openOfflineReplaySubprocess \/ openOnlineReplaySubprocess
  PROVE  HonestGood'
<1>1. user.range \in Ranges /\ user.pc = "open"
  BY Zenon DEF IInv, CallsGood, openOfflineReplaySubprocess, openOnlineReplaySubprocess
<1>2. CASE openOfflineReplaySubprocess
  <2> DEFINE first == roundDownToFirstReplayAfterCheckpointStart(user.range.from)
  <2>1. first \in Nat /\ first # 0
    BY <1>1, RoundDown
  <2>2. Starts(FALSE, first, FALSE)
    BY <1>2, Zenon DEF openOfflineReplaySubprocess
  <2> HIDE DEF first
  <2> QED
    BY <1>1, <2>1, <2>2, StartsHonest, Zenon DEF first
<1>3. CASE openOnlineReplaySubprocess
  <2>1. PICK latest \in Checkpoints :
          \E n \in runFromParams(user.range.from, latest), lcl \in offlineInfo :
            \E first \in FirstStreamed(n, lcl) : Starts(TRUE, first, RemovesDB(n, lcl))
    BY <1>3, Zenon DEF openOnlineReplaySubprocess
  <2>2. PICK n \in runFromParams(user.range.from, latest), lcl \in offlineInfo :
          \E first \in FirstStreamed(n, lcl) : Starts(TRUE, first, RemovesDB(n, lcl))
    BY <2>1, Zenon
  <2>3. PICK first \in FirstStreamed(n, lcl) : Starts(TRUE, first, RemovesDB(n, lcl))
    BY <2>2, Zenon
  <2>4. first \in Nat /\ first <= LatestStart(user.range.from)
    BY <1>1, StartsEarly, Zenon
  <2>5. RemovesDB(n, lcl) \in BOOLEAN
    BY Zenon DEF RemovesDB
  <2> QED
    BY <1>1, <2>3, <2>4, <2>5, StartsHonest, Zenon
<1> QED
  BY <1>2, <1>3

LEMMA ReceivedHonest ==
  ASSUME IInv, user.pc = "get"
  PROVE  /\ Received.cancelled = runners[current].cancelled
         /\ Received.storage = runners[current].storage
         /\ Received.started = runners[current].started
         /\ Received.exited = runners[current].exited
         /\ Received.pipe = runners[current].pipe
         /\ Received.done = runners[current].done
         /\ runners[current].chan # <<>> => Received.chan = Tail(runners[current].chan)
<1>1. runners[current] \in RunnerType
  BY ReceivedTyped
<1> QED
  BY <1>1 DEF Received, RunnerType

LEMMA ReceiveLedgerHonest == ASSUME IInv, HonestGood, ReceiveLedger PROVE HonestGood'
<1> DEFINE r == runners[current]
           l == Head(r.chan)
<1>1. /\ user.pc = "get" /\ r.chan # <<>> /\ l # Failed /\ nextLedger' = l.seq + 1
      /\ UNCHANGED <<current, prepared>> /\ "user" \in Threads
  BY DEF ReceiveLedger, Unexpected, Threads
<1>2. CASE CloseEntry("user", Received)
  BY <1>1, <1>2, ReceivedTyped, ReceivedHonest, CloseEntryHonest, Zenon
<1>3. CASE runners' = [runners EXCEPT ![current] = Received] /\ UNCHANGED closing
  <2>1. current \in 1 .. current /\ Len(runners) = current /\ runners \in Seq(RunnerType)
    BY <1>1, ReceivedTyped DEF IInv, RunnersGood
  <2>2. \A j \in 1 .. current : runners'[j] = IF j = current THEN Received ELSE runners[j]
    BY <1>3, <2>1
  <2>3. \A j \in 1 .. current : /\ runners'[j].cancelled = runners[j].cancelled
                                /\ runners'[j].storage = runners[j].storage
    BY <1>1, <2>2, ReceivedHonest, Zenon
  <2>4. CancelGood'
    BY <1>1, <1>3, <2>3, CancelKept, Zenon DEF HonestGood
  <2>5. ASSUME Honest, Received.started, ~ Received.cancelled
        PROVE  /\ prepared # None
               /\ \E n \in Nat : Consecutive(Received, n) /\ n = nextLedger' /\ nextLedger' # 0
    <3>1. r.started /\ ~ r.cancelled /\ current # 0
      BY <1>1, <2>5, ReceivedTyped, ReceivedHonest, Zenon
    <3>2. InStep(r)
      BY <2>5, <3>1, Zenon DEF HonestGood
    <3>3. PICK n \in Nat : Consecutive(r, n)
      BY <3>2, Zenon DEF InStep
    <3>4. l = r.chan[1] /\ 1 \in 1 .. Len(r.chan) /\ r.chan \in Seq(Ledgers \cup {Failed})
      BY <1>1, ReceivedTyped DEF RunnerType
    <3>5. l.seq = n + 1 - 1
      BY <1>1, <3>3, <3>4, Zenon DEF Consecutive
    <3>6. nextLedger' = n + 1 /\ n + 1 \in Nat /\ n + 1 # 0
      <4>1. n + 1 - 1 = n /\ n + 1 \in Nat /\ n + 1 # 0
        OBVIOUS
      <4> QED
        BY <1>1, <3>5, <4>1, Zenon
    <3>7. Consecutive(Received, n + 1)
      BY <1>1, <3>3, ReceivedTyped, ReceivedHonest, ReceiveConsecutive, Zenon
    <3> QED
      BY <3>2, <3>6, <3>7, Zenon DEF InStep
  <2>6. runners'[current'] = Received
    BY <1>1, <2>1, <2>2, Zenon
  <2>7. Honest /\ runners'[current'].started /\ ~ runners'[current'].cancelled
          => InStep(runners[current])'
    BY <1>1, <2>5, <2>6, Zenon DEF InStep
  <2> QED
    BY <2>4, <2>7, Zenon DEF HonestGood
<1> QED
  BY <1>2, <1>3 DEF ReceiveLedger

\* Steps of the caller that leave the runners alone, or close the current one.
LEMMA CallHonest ==
  ASSUME IInv, HonestGood,
         \/ PrepareStopped \/ OpenFails \/ GetLedger \/ ReceiveRefused
         \/ GetLedgerReturns \/ GetLedgerCancelled \/ PrepareRange
  PROVE  HonestGood'
<1>1. CASE UNCHANGED <<streamVars, current, runners, closing>>
  BY <1>1, SameRunnersHonest, Zenon
<1>2. CASE PrepareStopped \/ OpenFails \/ GetLedger \/ GetLedgerReturns \/ GetLedgerCancelled
  BY <1>1, <1>2
  DEF PrepareStopped, OpenFails, GetLedger, GetLedgerReturns, GetLedgerCancelled
<1>3. CASE ReceiveRefused
  <2>1. user.pc = "get" /\ CloseEntry("user", Received) /\ UNCHANGED current
    BY <1>3 DEF ReceiveRefused
  <2> QED
    BY <2>1, ReceivedTyped, ReceivedHonest, CloseEntryHonest DEF Threads
<1>4. CASE PrepareRange
  <2>1. \/ UNCHANGED <<streamVars, current, runners, closing>>
        \/ current # 0 /\ CloseEntry("user", runners[current]) /\ UNCHANGED current
    BY <1>4 DEF PrepareRange
  <2>2. current # 0 => runners[current] \in RunnerType
    BY DEF IInv, RunnersGood
  <2> QED
    BY <1>1, <2>1, <2>2, CloseEntryHonest DEF Threads
<1> QED
  BY <1>2, <1>3, <1>4

LEMMA CloserHonest ==
  ASSUME IInv, HonestGood, CloseRunner \/ WatcherFires
  PROVE  HonestGood'
<1>1. CASE current = 0
  <2>1. \A t \in Threads : closing'[t] = closing[t] \/ closing'[t].at = "out"
    BY <1>1 DEF CloseRunner, WatcherFires, Out, IInv, ClosingGood
  <2> QED
    BY <1>1, <2>1, SameRunnersHonest DEF CloseRunner, WatcherFires
<1>2. CASE current # 0
  <2>1. runners[current] \in RunnerType
    BY <1>2 DEF IInv, RunnersGood
  <2> QED
    BY <1>2, <2>1, CloseEntryHonest DEF CloseRunner, WatcherFires, Threads
<1> QED
  BY <1>1, <1>2

LEMMA NextHonest == IInv /\ HonestGood /\ [Next]_vars => HonestGood'
<1> SUFFICES ASSUME IInv, HonestGood, [Next]_vars PROVE HonestGood'
  OBVIOUS
<1>1. ASSUME NEW k \in DOMAIN runners, RunnerNext(k) PROVE HonestGood'
  BY <1>1, RunnerNextHonest
<1>2. ASSUME NEW t \in Threads, CloseNext(t) PROVE HonestGood'
  BY <1>2, CloseNextHonest
<1>3. CASE CallNext \/ PrepareRange \/ GetLedger \/ GetLedgerCancelled
  BY <1>3, CallHonest, OpenHonest, ReceiveLedgerHonest DEF CallNext
<1>4. CASE CloseCall \/ CloseRunner \/ WatcherFires
  BY <1>4, CloseCallHonest, CloserHonest
<1>5. CASE Panicked \/ UNCHANGED vars
  BY <1>5, SameRunnersHonest DEF Panicked, vars
<1> QED
  BY <1>1, <1>2, <1>3, <1>4, <1>5 DEF Next

\* What a step may do to a runner that was started, or whose process exited.
Grown(r, q) == q.started = r.started /\ (r.exited => q.exited)

LEMMA RunnerNextGrows ==
  ASSUME IInv, NEW k \in DOMAIN runners, RunnerNext(k)
  PROVE  \E q : RunnerStep(k, q) /\ Grown(runners[k], q)
<1> DEFINE r == runners[k]
<1>1. r \in RunnerType
  BY DEF IInv, RunnersGood
<1>2. CASE CoreEmits(k)
  <2>1. PICK l \in Ledgers :
          RunnerStep(k, [r EXCEPT !.pipe = Append(@, l), !.emits = Following(l.seq)])
    BY <1>2, Zenon DEF CoreEmits
  <2>2. Grown(r, [r EXCEPT !.pipe = Append(@, l), !.emits = Following(l.seq)])
    BY <1>1 DEF RunnerType, Grown
  <2> QED
    BY <2>1, <2>2, Zenon
<1>3. CASE CoreExits(k)
  <2>1. PICK failed : RunnerStep(k, [r EXCEPT !.emits = 0, !.signalled = FALSE,
                                              !.exitErr = failed])
    BY <1>3, Zenon DEF CoreExits
  <2>2. Grown(r, [r EXCEPT !.emits = 0, !.signalled = FALSE, !.exitErr = failed])
    BY <1>1 DEF RunnerType, Grown
  <2> QED
    BY <2>1, <2>2, Zenon
<1>4. CASE Interrupt(k)
  <2>1. Grown(r, [r EXCEPT !.signalled = TRUE])
    BY <1>1 DEF RunnerType, Grown
  <2> QED
    BY <1>4, <2>1, Zenon DEF Interrupt
<1>5. CASE HandleExit(k)
  <2>1. Grown(r, [r EXCEPT !.exited = TRUE])
    BY <1>1 DEF RunnerType, Grown
  <2> QED
    BY <1>5, <2>1, Zenon DEF HandleExit
<1>6. CASE BufferReads(k)
  <2> DEFINE d == [r EXCEPT !.pipe = Tail(@), !.chan = Append(@, Head(r.pipe))]
             e == [r EXCEPT !.pipe = <<>>, !.chan = Append(@, Failed), !.done = TRUE]
  <2>1. RunnerStep(k, d) \/ RunnerStep(k, e)
    BY <1>6 DEF BufferReads
  <2>2. Grown(r, d) /\ Grown(r, e)
    BY <1>1 DEF RunnerType, Grown
  <2> QED
    BY <2>1, <2>2, Zenon
<1> QED
  BY <1>2, <1>3, <1>4, <1>5, <1>6 DEF RunnerNext

\* GetLedger waits on a runner that was started.
WaitGood == user.pc = "get" => runners[current].started

LEMMA NextWait == IInv /\ WaitGood /\ [Next]_vars => WaitGood'
<1> SUFFICES ASSUME IInv, WaitGood, [Next]_vars, user'.pc = "get"
             PROVE  runners'[current'].started
  BY DEF WaitGood
<1>1. /\ current \in Nat /\ Len(runners) = current /\ runners \in Seq(RunnerType)
      /\ DOMAIN runners = 1 .. current /\ user \in CallType
  BY DEF IInv, RunnersGood, CallsGood
<1>2. user.pc = "get" => current # 0 /\ current \in 1 .. current /\ runners[current] \in RunnerType
  BY <1>1 DEF IInv, CallsGood
<1>3. ASSUME NEW t \in Threads, NEW r \in RunnerType, CloseEntry(t, r), current # 0,
             UNCHANGED current, r.started
      PROVE  runners'[current'].started
  BY <1>1, <1>3 DEF CloseEntry, RunnerType
<1>4. ASSUME NEW k \in DOMAIN runners, RunnerNext(k) PROVE runners'[current'].started
  <2>1. PICK q : RunnerStep(k, q) /\ q.started = runners[k].started
    BY <1>4, RunnerNextGrows, Zenon DEF Grown
  <2> QED
    BY <1>1, <1>2, <2>1 DEF RunnerStep, WaitGood
<1>5. ASSUME NEW t \in Threads, CloseNext(t) PROVE runners'[current'].started
  <2>1. user.pc = "get" /\ UNCHANGED current
    BY <1>1, <1>5 DEF CloseNext, CloseWaits, CloseDrains, CloseCleans, CallType
  <2>2. CASE UNCHANGED runners
    BY <2>1, <2>2 DEF WaitGood
  <2>3. CASE runners' = [runners EXCEPT ![closing[t].run].chan = Tail(@)]
    BY <1>1, <1>2, <2>1, <2>3 DEF WaitGood, RunnerType
  <2> QED
    BY <1>5, <2>2, <2>3 DEF CloseNext, CloseWaits, CloseDrains, CloseCleans
<1>6. CASE GetLedger
  <2>1. PICK s : GetLedgerCall(s)
    BY <1>6 DEF GetLedger
  <2>2. \/ user' = AtRest("idle") \/ user' = AtRest("ready")
        \/ user' = [user EXCEPT !.seq = s,
                     !.pc = IF runners[current].started THEN "get" ELSE "panic"]
    BY <2>1 DEF GetLedgerCall, Succeed, Fail
  <2>3. AtRest("idle").pc # "get" /\ AtRest("ready").pc # "get"
        /\ [user EXCEPT !.seq = s, !.pc = "panic"].pc # "get"
    BY <1>1 DEF AtRest, CallType
  <2>4. runners[current].started
    <3>1. CASE ~ runners[current].started
      <4>1. user' \in {AtRest("idle"), AtRest("ready"),
                       [user EXCEPT !.seq = s, !.pc = "panic"]}
        BY <2>2, <3>1
      <4> QED
        BY <2>3, <4>1, Zenon
    <3> QED
      BY <3>1
  <2> QED
    BY <1>6, <2>4 DEF GetLedger
<1>7. CASE CallNext
  <2>1. CASE ReceiveLedger
    <3>1. /\ user.pc = "get" /\ UNCHANGED current /\ user \in CallType
          /\ \/ user' = [user EXCEPT !.pc = "last"] \/ user' = AtRest("idle")
             \/ user' = AtRest("ready") \/ runners' = [runners EXCEPT ![current] = Received]
      BY <1>1, <2>1 DEF ReceiveLedger, Succeed
    <3>2. runners' = [runners EXCEPT ![current] = Received]
      BY <3>1 DEF AtRest, CallType
    <3> QED
      BY <1>1, <1>2, <3>1, <3>2, ReceivedHonest DEF WaitGood
  <2>2. CASE GetLedger
    BY <1>6, <2>2
  <2>3. CASE PrepareStopped \/ OpenFails \/ ReceiveRefused \/ GetLedgerReturns
    BY <1>1, <2>3 DEF PrepareStopped, OpenFails, ReceiveRefused, GetLedgerReturns, Succeed,
       Fail, AtRest, CallType
  <2>4. CASE openOfflineReplaySubprocess \/ openOnlineReplaySubprocess
    <3>1. PICK online, first, removed : Starts(online, first, removed)
      BY <2>4, Zenon DEF openOfflineReplaySubprocess, openOnlineReplaySubprocess
    <3>2. user' = AtRest("idle") \/ user' = [user EXCEPT !.pc = "seek"]
      BY <3>1 DEF Starts, Fail
    <3> QED
      BY <1>1, <3>2 DEF AtRest, CallType
  <2> QED
    BY <1>7, <2>1, <2>2, <2>3, <2>4 DEF CallNext
<1>8. CASE PrepareRange \/ GetLedgerCancelled
  BY <1>8 DEF PrepareRange, GetLedgerCancelled, Fail, AtRest
<1>9. CASE CloseCall \/ CloseRunner \/ WatcherFires
  <2>1. user.pc = "get" /\ UNCHANGED current
    BY <1>9 DEF CloseCall, CloseRunner, WatcherFires
  <2>2. CASE CloseCall
    BY <1>1, <1>2, <2>1, <2>2, Zenon DEF CloseCall, WaitGood, RunnerType
  <2>3. CASE CloseRunner \/ WatcherFires
    BY <1>2, <1>3, <2>1, <2>3 DEF CloseRunner, WatcherFires, WaitGood, Threads
  <2> QED
    BY <1>9, <2>2, <2>3
<1>10. CASE Panicked \/ UNCHANGED vars
  BY <1>10 DEF Panicked, vars, WaitGood
<1> QED
  BY <1>4, <1>5, <1>7, <1>8, <1>6, <1>9, <1>10 DEF Next

\* What comes next from a runner that holds consecutive ledgers is the first of
\* them.
LEMMA ComingFacts ==
  ASSUME NEW r \in RunnerType, NEW n \in Nat, Consecutive(r, n),
         NEW l \in Coming(r), l # Failed
  PROVE  l.seq = n /\ l.chain \in Chains
<1>1. r.chan \in Seq(Ledgers \cup {Failed}) /\ r.pipe \in Seq(Ledgers) /\ r.emits \in Nat
  BY DEF RunnerType
<1>2. CASE r.chan # <<>>
  <2>1. l = r.chan[1] /\ 1 \in 1 .. Len(r.chan) /\ l \in Ledgers
    BY <1>1, <1>2 DEF Coming
  <2>2. l.seq = n + 1 - 1
    BY <2>1, Zenon DEF Consecutive
  <2> QED
    BY <2>1, <2>2 DEF Ledgers
<1>3. CASE r.chan = <<>> /\ r.pipe # <<>>
  <2>1. l = r.pipe[1] /\ 1 \in 1 .. Len(r.pipe) /\ l \in Ledgers /\ ~ r.done
    BY <1>1, <1>3 DEF Coming
  <2>2. l.seq = n + Len(r.chan) + 1 - 1
    BY <2>1, Zenon DEF Consecutive
  <2> QED
    BY <1>3, <2>1, <2>2 DEF Ledgers
<1>4. CASE r.chan = <<>> /\ r.pipe = <<>>
  <2>1. ~ r.done /\ r.emits # 0 /\ l \in [seq : {r.emits}, chain : Chains]
    BY <1>4, Zenon DEF Coming
  <2>2. r.emits = n + Len(r.chan) + Len(r.pipe)
    BY <2>1, Zenon DEF Consecutive
  <2> QED
    BY <1>4, <2>1, <2>2
<1> QED
  BY <1>2, <1>3, <1>4

\* The start that runFromParams, the checkpoint arithmetic and the database of
\* runFrom lead to is never too late, for every checkpoint frequency, range and
\* buffer and every ledger an earlier process left the database at, except at
\* ledger 2: until somebody closes the session, handleMetaPipeResult will refuse
\* no ledger on its way from a process that streams consecutive ledgers of one
\* chain.
THEOREM HonestStreamAccepted == Spec => []HonestAccepted
<1>1. Init => HonestGood /\ WaitGood
  BY CaptiveCoreAssumption DEF Init, HonestGood, CancelGood, WaitGood, Out, AtRest
<1>2. IInv /\ HonestGood /\ WaitGood => HonestAccepted
  <2> DEFINE r == runners[current]
  <2> SUFFICES ASSUME IInv, HonestGood, WaitGood, Honest, user.pc = "get",
                      NEW l \in Coming(r), l # Failed, ~ r.cancelled
               PROVE  Unexpected(l) => StartsAfterTwo(l)
    BY Zenon DEF HonestAccepted
  <2>1. r \in RunnerType /\ current # 0
    BY ReceivedTyped
  <2>3. r.started
    BY Zenon DEF WaitGood
  <2>4. PICK n \in Nat : /\ Consecutive(r, n)
                         /\ nextLedger # 0 => n = nextLedger
                         /\ nextLedger = 0 => n <= LatestStart(prepared.from)
    BY <2>1, <2>3, Zenon DEF HonestGood, InStep
  <2> HIDE DEF r
  <2>5. l.seq = n /\ l.chain \in Chains
    BY <2>1, <2>4, ComingFacts, Zenon
  <2>6. previousLedgerHash # None => previousLedgerHash = PreviousLedgerHash(l)
    <3> SUFFICES ASSUME previousLedgerHash # None
                 PROVE  previousLedgerHash = PreviousLedgerHash(l)
      OBVIOUS
    <3>1. /\ previousLedgerHash = LedgerHash(cachedMeta) /\ cachedMeta \in Ledgers
          /\ nextLedger = cachedMeta.seq + 1
      BY DEF IInv, StreamGood
    <3>2. cachedMeta.seq \in Nat /\ cachedMeta.chain \in Chains /\ l.chain \in Chains
      BY <2>5, <3>1, LedgerFacts DEF Ledgers
    <3>3. l.seq - 1 = cachedMeta.seq
      BY <2>4, <2>5, <3>1, <3>2
    <3>4. l.chain = cachedMeta.chain
      BY <3>2, CaptiveCoreAssumption, Zenon
    <3> QED
      BY <3>1, <3>3, <3>4, Zenon DEF LedgerHash, PreviousLedgerHash
  <2>7. prepared.from \in Nat
    BY CaptiveCoreAssumption DEF IInv, CallsGood, StreamGood
  <2> QED
    BY <2>4, <2>5, <2>6, <2>7 DEF Unexpected, LatestStart, StartsAfterTwo, r
<1> QED
  BY <1>1, <1>2, NextHonest, NextWait, Invariance, PTL DEF Spec

-----------------------------------------------------------------------------
(* Nobody waits for ever on a channel or on an exit that nobody brings about. *)

\* The process exited, or runs and was cancelled (Interrupt, CoreExits), or
\* its exit is still to be handled (HandleExit).
ExitComes(r) == r.exited \/ (r.emits # 0 /\ r.cancelled) \/ (r.emits = 0 /\ r.started)

\* The channel has a result or is closed, or the decoder has something to send
\* and room for it (BufferReads).
ResultComes(r) ==
  \/ r.chan # <<>> \/ r.done
  \/ r.started /\ Len(r.chan) < BufferSize /\ (r.pipe # <<>> \/ r.exited)

\* close gets on wherever it is, and so does GetLedger: when its channel has
\* nothing to come, the process has room to write or its exit is to be handled.
NobodyStuck ==
  /\ \A t \in Threads :
       /\ closing[t].at = "call" => t = "closer"
       /\ closing[t].at = "wait" => ExitComes(runners[closing[t].run])
       /\ closing[t].at = "drain" => ResultComes(runners[closing[t].run])
  /\ user.pc = "get" =>
       \/ ResultComes(runners[current])
       \/ /\ runners[current].started /\ ~ runners[current].exited
          /\ Len(runners[current].pipe) < PipeSize

\* What close has waited for stays so.
ClosersGood ==
  \A t \in Threads :
    /\ closing[t].at = "call" => t = "closer"
    /\ closing[t].at \in {"wait", "drain"} => runners[closing[t].run].started
    /\ closing[t].at = "drain" => runners[closing[t].run].exited

\* A step that only moves the thread that closes.
LEMMA ClosersKept ==
  ASSUME IInv, ClosersGood,
         \A k \in 1 .. current : Grown(runners[k], runners'[k]),
         \A t \in Threads :
           \/ closing'[t] = closing[t]
           \/ closing'[t].at = "out" \/ closing'[t].at = "clean"
           \/ closing'[t].at = "call" /\ t = "closer"
           \/ closing'[t].at = "wait" /\ runners'[closing'[t].run].started
           \/ /\ closing[t].at = "wait" /\ closing'[t].at = "drain"
              /\ closing'[t].run = closing[t].run /\ runners[closing[t].run].exited
  PROVE  ClosersGood'
<1> SUFFICES ASSUME NEW t \in Threads
             PROVE  /\ closing'[t].at = "call" => t = "closer"
                    /\ closing'[t].at \in {"wait", "drain"} => runners'[closing'[t].run].started
                    /\ closing'[t].at = "drain" => runners'[closing'[t].run].exited
  BY Zenon DEF ClosersGood
<1>1. closing[t].at \in {"wait", "drain"} =>
        /\ runners[closing[t].run].started
        /\ Grown(runners[closing[t].run], runners'[closing[t].run])
  BY Zenon DEF ClosersGood, IInv, ClosingGood
<1>2. closing[t].at = "drain" => runners[closing[t].run].exited
  BY DEF ClosersGood
<1>3. closing[t].at = "call" => t = "closer"
  BY DEF ClosersGood
<1>4. CASE closing'[t] = closing[t]
  BY <1>1, <1>2, <1>3, <1>4 DEF Grown
<1>5. CASE closing[t].at = "wait" /\ closing'[t].at = "drain"
           /\ closing'[t].run = closing[t].run /\ runners[closing[t].run].exited
  BY <1>1, <1>5 DEF Grown
<1> QED
  BY <1>4, <1>5, Zenon

\* close is entered.
LEMMA CloseEntryClosers ==
  ASSUME IInv, ClosersGood, current # 0, NEW t \in Threads, NEW r \in RunnerType,
         CloseEntry(t, r), Grown(runners[current], r)
  PROVE  ClosersGood'
<1> DEFINE q == IF r.storage
                THEN [r EXCEPT !.storage = FALSE, !.cancelled = TRUE,
                               !.exited = @ \/ ~ r.started]
                ELSE r
           c == IF r.storage
                THEN [at |-> IF r.started THEN "wait" ELSE "clean", run |-> current] ELSE Out
<1>1. current \in 1 .. current /\ Len(runners) = current /\ runners \in Seq(RunnerType)
  BY DEF IInv, RunnersGood
<1>2. Grown(r, q)
  BY DEF Grown, RunnerType
<1>3. runners' = [runners EXCEPT ![current] = q] /\ closing' = [closing EXCEPT ![t] = c]
  BY DEF CloseEntry
<1>4. \/ c.at = "out" \/ c.at = "clean"
      \/ c.at = "wait" /\ c.run = current /\ r.started
  BY DEF Out
<1> HIDE DEF q, c
<1>5. \A k \in 1 .. current : runners'[k] = IF k = current THEN q ELSE runners[k]
  BY <1>1, <1>3
<1>6. \A k \in 1 .. current : Grown(runners[k], runners'[k])
  BY <1>2, <1>5, Zenon DEF Grown
<1>7. \A s \in Threads : closing'[s] = IF s = t THEN c ELSE closing[s]
  BY <1>3 DEF IInv, ClosingGood
<1>8. q.started = r.started /\ runners'[current] = q
  BY <1>1, <1>2, <1>5, Zenon DEF Grown
<1> QED
  BY <1>4, <1>6, <1>7, <1>8, ClosersKept, Zenon

LEMMA NextClosers == IInv /\ ClosersGood /\ [Next]_vars => ClosersGood'
<1> SUFFICES ASSUME IInv, ClosersGood, [Next]_vars PROVE ClosersGood'
  OBVIOUS
<1>1. /\ current \in Nat /\ Len(runners) = current /\ runners \in Seq(RunnerType)
      /\ DOMAIN runners = 1 .. current /\ closing \in [Threads -> CloseType]
      /\ \A k \in 1 .. current : runners[k] \in RunnerType
      /\ current # 0 => current \in 1 .. current
  BY DEF IInv, RunnersGood, ClosingGood
<1>2. \A r : Grown(r, r)
  BY DEF Grown
<1>3. CASE UNCHANGED <<runners, closing>>
  BY <1>2, <1>3, ClosersKept
<1>4. ASSUME NEW k \in DOMAIN runners, RunnerNext(k) PROVE ClosersGood'
  <2>1. PICK q : RunnerStep(k, q) /\ Grown(runners[k], q)
    BY <1>4, RunnerNextGrows
  <2>2. \A j \in 1 .. current : runners'[j] = IF j = k THEN q ELSE runners[j]
    BY <1>1, <2>1 DEF RunnerStep
  <2>3. \A j \in 1 .. current : Grown(runners[j], runners'[j])
    BY <1>2, <2>1, <2>2, Zenon
  <2> QED
    BY <2>1, <2>3, ClosersKept DEF RunnerStep
<1>5. ASSUME NEW t \in Threads, CloseNext(t) PROVE ClosersGood'
  <2>1. closing[t] \in CloseType
    BY <1>1
  <2>2. CASE CloseWaits(t)
    BY <1>1, <1>2, <2>1, <2>2, ClosersKept DEF CloseWaits, CloseType
  <2>3. CASE CloseDrains(t)
    <3>1. closing[t].run \in 1 .. current
      BY <2>3 DEF CloseDrains, IInv, ClosingGood
    <3>2. CASE runners' = [runners EXCEPT ![closing[t].run].chan = Tail(@)] /\ UNCHANGED closing
      <4>1. \A j \in 1 .. current : Grown(runners[j], runners'[j])
        BY <1>1, <3>1, <3>2, Zenon DEF Grown, RunnerType
      <4> QED
        BY <3>2, <4>1, ClosersKept, Zenon
    <3>3. CASE closing' = [closing EXCEPT ![t].at = "clean"] /\ UNCHANGED runners
      BY <1>1, <1>2, <2>1, <3>3, ClosersKept DEF CloseType
    <3> QED
      BY <2>3, <3>2, <3>3 DEF CloseDrains
  <2>4. CASE CloseCleans(t)
    BY <1>1, <1>2, <2>4, ClosersKept DEF CloseCleans, Out
  <2> QED
    BY <1>5, <2>2, <2>3, <2>4 DEF CloseNext
<1>6. CASE CallNext
  <2>1. CASE ReceiveRefused \/ ReceiveLedger
    <3>1. user.pc = "get" /\ current # 0
      BY <2>1 DEF ReceiveRefused, ReceiveLedger, IInv, CallsGood
    <3>2. Received \in RunnerType /\ Grown(runners[current], Received)
      BY <3>1, ReceivedTyped, ReceivedHonest DEF Grown
    <3>3. CASE CloseEntry("user", Received)
      BY <3>1, <3>2, <3>3, CloseEntryClosers DEF Threads
    <3>4. CASE runners' = [runners EXCEPT ![current] = Received] /\ UNCHANGED closing
      <4>1. \A j \in 1 .. current : runners'[j] = IF j = current THEN Received ELSE runners[j]
        BY <1>1, <3>4
      <4>2. \A j \in 1 .. current : Grown(runners[j], runners'[j])
        BY <1>2, <3>2, <4>1, Zenon
      <4> QED
        BY <3>4, <4>2, ClosersKept
    <3> QED
      BY <2>1, <3>3, <3>4 DEF ReceiveRefused, ReceiveLedger
  <2>2. CASE openOfflineReplaySubprocess \/ openOnlineReplaySubprocess
    <3>1. PICK online, first, removed : Starts(online, first, removed)
      BY <2>2, Zenon DEF openOfflineReplaySubprocess, openOnlineReplaySubprocess
    <3>2. UNCHANGED closing /\ \E r : runners' = Append(runners, r)
      BY <3>1, Zenon DEF Starts
    <3>3. \A j \in 1 .. current : runners'[j] = runners[j]
      BY <1>1, <3>2
    <3> QED
      BY <1>2, <3>2, <3>3, ClosersKept, Zenon
  <2> QED
    BY <1>3, <1>6, <2>1, <2>2
    DEF CallNext, PrepareStopped, OpenFails, GetLedger, GetLedgerReturns
<1>7. CASE PrepareRange
  BY <1>1, <1>2, <1>3, <1>7, CloseEntryClosers DEF PrepareRange, Threads
<1>8. CASE CloseCall
  <2>1. \A k \in 1 .. current : Grown(runners[k], runners'[k])
    BY <1>1, <1>8, Zenon DEF CloseCall, Grown, RunnerType
  <2>2. \A t \in Threads : \/ closing'[t] = closing[t]
                           \/ t = "closer" /\ closing'[t].at = "call"
    BY <1>1, <1>8 DEF CloseCall
  <2> QED
    BY <2>1, <2>2, ClosersKept
<1>9. CASE CloseRunner \/ WatcherFires
  <2>1. CASE current = 0
    <3>1. UNCHANGED runners
          /\ \A t \in Threads : closing'[t] = closing[t] \/ closing'[t].at = "out"
      BY <1>1, <1>9, <2>1 DEF CloseRunner, WatcherFires, Out
    <3> QED
      BY <1>2, <3>1, ClosersKept
  <2>2. CASE current # 0
    BY <1>1, <1>2, <1>9, <2>2, CloseEntryClosers DEF CloseRunner, WatcherFires, Threads
  <2> QED
    BY <2>1, <2>2
<1> QED
  BY <1>3, <1>4, <1>5, <1>6, <1>7, <1>8, <1>9
  DEF Next, GetLedger, GetLedgerCancelled, Panicked, vars

\* The exits and the results that close and GetLedger wait for are always on
\* their way, for every buffer, pipe, range and number of processes: close
\* cancelled the process it waits for, the decoder closes the channel that
\* close drains once the process exited, and GetLedger waits on a process
\* that was started, whose exit the decoder reports if nothing else.
THEOREM NeverStuck == Spec => []NobodyStuck
<1>1. Init => HonestGood /\ WaitGood /\ ClosersGood
  BY CaptiveCoreAssumption
  DEF Init, HonestGood, CancelGood, WaitGood, ClosersGood, Out, AtRest
<1>2. IInv /\ HonestGood /\ WaitGood /\ ClosersGood => NobodyStuck
  <2> SUFFICES ASSUME IInv, HonestGood, WaitGood, ClosersGood PROVE NobodyStuck
    OBVIOUS
  <2>1. BufferSize > 0 /\ PipeSize > 0 /\ Len(<<>>) = 0
    BY CaptiveCoreAssumption
  <2>2. ASSUME NEW t \in Threads
        PROVE  /\ closing[t].at = "call" => t = "closer"
               /\ closing[t].at = "wait" => ExitComes(runners[closing[t].run])
               /\ closing[t].at = "drain" => ResultComes(runners[closing[t].run])
    <3>1. closing[t].at \in {"wait", "drain"} => runners[closing[t].run].cancelled
      BY DEF HonestGood, CancelGood
    <3> QED
      BY <2>1, <3>1, Zenon DEF ClosersGood, ExitComes, ResultComes
  <2>3. ASSUME user.pc = "get"
        PROVE  \/ ResultComes(runners[current])
               \/ /\ runners[current].started /\ ~ runners[current].exited
                  /\ Len(runners[current].pipe) < PipeSize
    BY <2>1, <2>3 DEF WaitGood, ResultComes
  <2> QED
    BY <2>2, <2>3, Zenon DEF NobodyStuck
<1> QED
  BY <1>1, <1>2, NextHonest, NextWait, NextClosers, Invariance, PTL DEF Spec
=============================================================================
