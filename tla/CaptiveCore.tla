---------------------------- MODULE CaptiveCore ----------------------------
\* Captive core (ingest/ledgerbackend): the CaptiveHcnetCore backend, the
\* runner of every hcnet-core process it starts, the goroutine that decodes
\* the process's output, the watcher of its binary and a concurrent Close.
EXTENDS Integers, Sequences, FiniteSets

CONSTANTS
  None,        \* nil
  Chains,      \* forks of the network; a hash names a ledger and its chain
  MaxLedger,   \* bound on ledger sequence numbers
  Freq,        \* checkpoint frequency
  Ranges,      \* ranges a caller prepares: from, to (0 if unbounded)
  BufferSize,  \* ledgerReadAheadBufferSize
  PipeSize,    \* ledgers the pipe and its binary buffer hold
  MaxRuns,     \* bound on the processes started
  Honest,      \* the process streams consecutive ledgers of one chain
  useDB        \* hcnet-core keeps its ledgers on disk (CaptiveCoreConfig.UseDB)

ASSUME CaptiveCoreAssumption ==
  /\ MaxLedger \in Nat /\ MaxRuns \in Nat
  /\ Freq \in Nat \ {0} /\ BufferSize \in Nat \ {0} /\ PipeSize \in Nat \ {0}
  /\ useDB \in BOOLEAN /\ Honest \in BOOLEAN /\ (Honest => \A c, d \in Chains : c = d)
  /\ Ranges \subseteq [from : Nat \ {0}, to : Nat]
  /\ None \notin Ranges /\ None \notin [seq : Nat, chain : Chains]
  /\ None \notin Nat \X Chains

VARIABLES
  closed, prepared, nextLedger, lastLedger, previousLedgerHash, cachedMeta,
               \* fields of CaptiveHcnetCore; lastLedger is 0 for nil
  current,     \* hcnetCoreRunner: the runner created last, 0 for nil
  runners,     \* hcnetCoreRunner structs, with their process and pipe
  closing,     \* threads inside hcnetCoreRunner.close
  user,        \* the goroutine that calls PrepareRange and GetLedger
  answer,      \* ledger its last call asked for and what it returned
  wiped        \* processes whose storage directory was removed under them

streamVars == <<prepared, nextLedger, lastLedger, previousLedgerHash, cachedMeta>>
vars == <<closed, streamVars, current, runners, closing, user, answer, wiped>>

Ledgers == [seq : 2 .. MaxLedger, chain : Chains]   \* ledger 1 is not streamed
Threads == {"user", "closer", "watcher"}
Failed  == [seq |-> 0, chain |-> None]   \* a metaResult that carries an error

-----------------------------------------------------------------------------
(* Ranges and checkpoints.                                                   *)

\* Hash of a ledger and hash of its predecessor.
LedgerHash(l)         == <<l.seq, l.chain>>
PreviousLedgerHash(l) == <<l.seq - 1, l.chain>>

GetCheckpoint(i) == IF i = 0 THEN Freq - 1 ELSE ((i + Freq) \div Freq) * Freq - 1

\* hcnet-core streams a whole checkpoint, and does not stream ledger 1.
roundDownToFirstReplayAfterCheckpointStart(i) ==
  LET low == GetCheckpoint(i) - Freq + 1 IN IF low <= 1 THEN 2 ELSE low

\* Mutant: the ledger before the range is not taken into account.
runFromParamsLate(from, latest) ==
  IF from = 1 THEN {} ELSE {from}

\* runFromParams: the ledger to start from.  Without a database its hash comes
\* from the hash store, or from the archive whose last checkpoint is latest.
runFromParams(from, latest) ==
  LET first == IF from <= GetCheckpoint(0) THEN 3 ELSE from
  IN  IF from = 1 \/ first > latest + 2 * (GetCheckpoint(0) + 1) THEN {}
      ELSE IF useDB THEN {first - 1}
      ELSE {first - 1, (IF first > latest THEN latest ELSE first) - 1}

Checkpoints == {l \in 1 .. MaxLedger : (l + 1) % Freq = 0}

\* The last ledger in hcnet-core's database, left there by any earlier process;
\* 0 if there is none or offline-info fails.
offlineInfo == IF useDB THEN 0 .. MaxLedger ELSE {0}

\* runFrom does not want a database that is ahead of ledger n.
RemovesDB(n, lcl) == useDB /\ (lcl = 0 \/ lcl > n)

\* Last ledger of the database runFrom ends up with: a new one catches up to
\* the ledger before n, but not to ledger 1.
LastClosed(n, lcl) ==
  IF RemovesDB(n, lcl) THEN IF n > 2 THEN n - 1 ELSE 2 ELSE lcl

\* First ledgers hcnet-core may stream: the next one of its database, or, in
\* memory and run from ledger n, one that is not after n + 1.
FirstStreamed(n, lcl) ==
  IF useDB THEN {LastClosed(n, lcl) + 1} ELSE IF n < Freq THEN {2} ELSE 2 .. (n + 1)

nextExpectedSequence ==
  IF nextLedger = 0 /\ prepared # None THEN prepared.from ELSE nextLedger

isPrepared(r) ==
  /\ ~ closed /\ current # 0
  /\ ~ runners[current].cancelled /\ ~ runners[current].exited
  /\ prepared # None
  /\ \/ nextExpectedSequence <= r.from
     \/ cachedMeta # None /\ cachedMeta.seq = r.from
  /\ lastLedger # 0 => r.to # 0 /\ lastLedger >= r.to

-----------------------------------------------------------------------------
(* hcnetCoreRunner: process, exit handler, decoder, close.                   *)

NewRunner(online, started, first) ==
  [online |-> online, started |-> started, storage |-> TRUE,
   cancelled |-> closed, signalled |-> FALSE, exited |-> FALSE, exitErr |-> FALSE,
   emits |-> IF started THEN first ELSE 0, pipe |-> <<>>, chan |-> <<>>, done |-> FALSE]

\* The process runs: it will write a ledger next.
Live(k) == runners[k].emits # 0

Out == [at |-> "out", run |-> 0]

AtRest(pc) == [pc |-> pc, seq |-> 0, range |-> None, err |-> FALSE]

Init ==
  /\ closed = FALSE /\ prepared = None /\ nextLedger = 0 /\ lastLedger = 0
  /\ previousLedgerHash = None /\ cachedMeta = None
  /\ current = 0 /\ runners = <<>>
  /\ closing = [t \in Threads |-> Out]
  /\ user = AtRest("idle")
  /\ answer = [asked |-> 0, got |-> None]
  /\ wiped = {}

\* A panic ends the program.
Running == user.pc # "panic"

RunnerStep(k, r) ==
  /\ Running
  /\ runners' = [runners EXCEPT ![k] = r]
  /\ UNCHANGED <<closed, streamVars, current, closing, user, answer, wiped>>

\* What a process writes after ledger n.
Following(n) == IF Honest THEN n + 1 ELSE 2

\* The process writes a ledger: any, or the next one if it is honest.
CoreEmits(k) ==
  LET r == runners[k] IN
  /\ Live(k) /\ Len(r.pipe) < PipeSize
  /\ \E l \in Ledgers :
       /\ Honest => l.seq = r.emits
       /\ RunnerStep(k, [r EXCEPT !.pipe = Append(@, l), !.emits = Following(l.seq)])

\* The process exits, by itself or because it was signalled.  The error of an
\* interrupted process is context.Canceled, which does not count as one.
CoreExits(k) ==
  /\ Live(k)
  /\ \E failed \in {FALSE, ~ runners[k].signalled} :
       RunnerStep(k, [runners[k] EXCEPT !.emits = 0, !.signalled = FALSE,
                                        !.exitErr = failed])

\* handleExit: the process is interrupted, and killed 10 seconds later.
Interrupt(k) ==
  LET r == runners[k] IN
  /\ Live(k) /\ r.cancelled /\ ~ r.signalled
  /\ RunnerStep(k, [r EXCEPT !.signalled = TRUE])

\* handleExit: Wait returned; the pipe is closed.
HandleExit(k) ==
  LET r == runners[k] IN
  /\ r.started /\ ~ Live(k) /\ ~ r.exited
  /\ RunnerStep(k, [r EXCEPT !.exited = TRUE])

\* bufferedLedgerMetaReader.start: decode a ledger.  An error or the end of
\* the pipe is sent as the last result, and the channel is closed.
BufferReads(k) ==
  LET r == runners[k] IN
  /\ r.started /\ ~ r.done /\ Len(r.chan) < BufferSize
  /\ \/ /\ r.pipe # <<>>
        /\ RunnerStep(k, [r EXCEPT !.pipe = Tail(@), !.chan = Append(@, Head(r.pipe))])
     \/ /\ r.pipe # <<>> \/ r.exited
        /\ RunnerStep(k, [r EXCEPT !.pipe = <<>>, !.chan = Append(@, Failed),
                                   !.done = TRUE])

\* Entry of close on the current runner r: the first caller cancels the
\* context and goes on to the cleanup, any other returns at once.
CloseEntry(t, r) ==
  /\ runners' = [runners EXCEPT ![current] =
       IF r.storage THEN [r EXCEPT !.storage = FALSE, !.cancelled = TRUE,
                                   !.exited = @ \/ ~ r.started]
       ELSE r]
  /\ closing' = [closing EXCEPT ![t] =
       IF r.storage THEN [at |-> IF r.started THEN "wait" ELSE "clean", run |-> current]
       ELSE Out]

\* Wait for the exit of the process.
CloseWaits(t) ==
  /\ Running /\ closing[t].at = "wait" /\ runners[closing[t].run].exited
  /\ closing' = [closing EXCEPT ![t].at = "drain"]
  /\ UNCHANGED <<closed, streamVars, current, runners, user, answer, wiped>>

\* Mutant: close does not drain the channel.
CloseDrainsNothing(t) ==
  /\ Running /\ closing[t].at = "drain"
  /\ closing' = [closing EXCEPT ![t].at = "clean"]
  /\ UNCHANGED <<closed, streamVars, current, runners, user, answer, wiped>>

\* Mutant: close goes on receiving from the closed channel.
CloseDrainsForever(t) ==
  LET k == closing[t].run IN
  /\ Running /\ closing[t].at = "drain"
  /\ \/ /\ runners[k].chan # <<>>
        /\ runners' = [runners EXCEPT ![k].chan = Tail(@)]
     \/ runners[k].chan = <<>> /\ UNCHANGED runners
  /\ UNCHANGED <<closed, streamVars, current, closing, user, answer, wiped>>

\* Drain the channel until the decoder has closed it.
CloseDrains(t) ==
  LET k == closing[t].run
      r == runners[k]
  IN
  /\ Running /\ closing[t].at = "drain"
  /\ \/ /\ r.chan # <<>>
        /\ runners' = [runners EXCEPT ![k].chan = Tail(@)]
        /\ UNCHANGED closing
     \/ /\ r.chan = <<>> /\ r.done
        /\ closing' = [closing EXCEPT ![t].at = "clean"]
        /\ UNCHANGED runners
  /\ UNCHANGED <<closed, streamVars, current, user, answer, wiped>>

\* Online processes share a storage directory: those that run lose it when it
\* is removed.
Wipe(removed) ==
  wiped' = wiped \cup {j \in DOMAIN runners : removed /\ runners[j].online /\ Live(j)}

\* It is removed after an error; that of an offline process always is.
Removes(k) == runners[k].exitErr \/ ~ runners[k].online

CloseCleans(t) ==
  LET k == closing[t].run IN
  /\ Running /\ closing[t].at = "clean"
  /\ closing' = [closing EXCEPT ![t] = Out]
  /\ Wipe(Removes(k) /\ runners[k].online)
  /\ \E failed \in {FALSE, Removes(k)} :
       user' = IF t = "user" THEN [user EXCEPT !.err = failed] ELSE user
  /\ UNCHANGED <<closed, streamVars, current, runners, answer>>

-----------------------------------------------------------------------------
(* CaptiveHcnetCore.                                                         *)

Answer(s, l) == [asked |-> s, got |-> l]

\* The call in progress returns ledger l, or an error.
Succeed(l) ==
  /\ answer' = Answer(l.seq, l)
  /\ user' = AtRest(IF user.range = None THEN "idle" ELSE "ready")

Fail ==
  /\ answer' = Answer(0, None)
  /\ user' = AtRest("idle")

\* startPreparingRange, under the write lock: close the last runner.
PrepareRange ==
  /\ user.pc \in {"idle", "ready"}
  /\ closing["closer"] = Out
  /\ \E r \in Ranges :
       \/ /\ isPrepared(r)
          /\ user' = AtRest("idle")
          /\ UNCHANGED <<runners, closing>>
       \/ /\ ~ isPrepared(r) /\ current = 0
          /\ user' = [AtRest("open") EXCEPT !.range = r]
          /\ UNCHANGED <<runners, closing>>
       \/ /\ ~ isPrepared(r) /\ current # 0
          /\ user' = [AtRest("stop") EXCEPT !.range = r]
          /\ CloseEntry("user", runners[current])
  /\ UNCHANGED <<closed, streamVars, current, answer, wiped>>

\* Mutant: a new process is started whatever became of the last one.
PrepareStoppedUnchecked ==
  /\ user.pc = "stop" /\ closing["user"] = Out
  /\ user' = [user EXCEPT !.pc = "open"]
  /\ UNCHANGED <<closed, streamVars, current, runners, closing, answer, wiped>>

\* The last process must have exited.
PrepareStopped ==
  /\ user.pc = "stop" /\ closing["user"] = Out
  /\ \/ /\ ~ user.err /\ runners[current].exited
        /\ user' = [user EXCEPT !.pc = "open"]
        /\ UNCHANGED answer
     \/ /\ user.err \/ ~ runners[current].exited
        /\ Fail
  /\ UNCHANGED <<closed, streamVars, current, runners, closing, wiped>>

\* The archive or the hash store fails, or does not reach the range.
OpenFails ==
  /\ user.pc = "open"
  /\ Fail
  /\ UNCHANGED <<closed, streamVars, current, runners, closing, wiped>>

\* Mutant: the new session keeps the hash of the last one.
StartsKeepingHash(online, first, removed) ==
  /\ current < MaxRuns /\ ~ closed
  /\ current' = current + 1
  /\ runners' = Append(runners, NewRunner(online, TRUE, first))
  /\ user' = [user EXCEPT !.pc = "seek"]
  /\ prepared' = user.range /\ nextLedger' = 0 /\ lastLedger' = user.range.to
  /\ UNCHANGED <<closed, closing, cachedMeta, previousLedgerHash, answer, wiped>>

\* Mutant: a start that fails leaves the runner behind without recording it.
StartsForgetting(online, first, removed) ==
  /\ runners' = Append(runners, NewRunner(online, FALSE, first))
  /\ Fail
  /\ UNCHANGED <<closed, closing, streamVars, current, wiped>>

\* catchup and runFrom start a process, or return an error after the runner
\* was replaced.  A runner that is closed already does nothing.
Starts(online, first, removed) ==
  /\ current < MaxRuns
  /\ current' = current + 1
  /\ \E started \in {FALSE, ~ closed} :
       /\ runners' = Append(runners, NewRunner(online, started, first))
       /\ \/ ~ started /\ Fail /\ UNCHANGED streamVars
          \/ /\ started
             /\ user' = [user EXCEPT !.pc = "seek"]
             /\ prepared' = user.range
             /\ nextLedger' = IF online THEN 0
                  ELSE roundDownToFirstReplayAfterCheckpointStart(user.range.from)
             /\ lastLedger' = user.range.to
             /\ previousLedgerHash' = None
             /\ UNCHANGED <<cachedMeta, answer>>
  /\ Wipe(removed /\ ~ closed)
  /\ UNCHANGED <<closed, closing>>

openOfflineReplaySubprocess ==
  /\ user.pc = "open" /\ user.range.to # 0
  /\ \E latest \in Checkpoints : user.range.from <= latest /\ user.range.to <= latest
  /\ Starts(FALSE, roundDownToFirstReplayAfterCheckpointStart(user.range.from), FALSE)

openOnlineReplaySubprocess ==
  /\ user.pc = "open" /\ user.range.to = 0
  /\ \E latest \in Checkpoints :
       \E n \in runFromParams(user.range.from, latest), lcl \in offlineInfo :
         \E first \in FirstStreamed(n, lcl) : Starts(TRUE, first, RemovesDB(n, lcl))

\* GetLedger up to its loop: answer from the cache, refuse, or wait for the
\* stream.  A runner that was not started has no channel to wait on.
GetLedgerCall(s) ==
  \/ /\ cachedMeta # None /\ cachedMeta.seq = s
     /\ Succeed(cachedMeta)
  \/ /\ cachedMeta # None => cachedMeta.seq # s
     /\ IF \/ closed \/ prepared = None \/ current = 0
           \/ s < nextExpectedSequence
           \/ lastLedger # 0 /\ s > lastLedger
        THEN Fail
        ELSE /\ user' = [user EXCEPT !.seq = s,
                          !.pc = IF runners[current].started THEN "get" ELSE "panic"]
             /\ UNCHANGED answer

GetLedger ==
  /\ \/ user.pc \in {"idle", "ready"} /\ \E s \in 1 .. MaxLedger : GetLedgerCall(s)
     \/ user.pc = "seek" /\ GetLedgerCall(user.range.from)
  /\ UNCHANGED <<closed, streamVars, current, runners, closing, wiped>>

\* The caller's context is done.
GetLedgerCancelled ==
  /\ user.pc = "get"
  /\ Fail
  /\ UNCHANGED <<closed, streamVars, current, runners, closing, wiped>>

\* Mutant: hashes are not compared.
UnexpectedSequenceOnly(l) ==
  \/ runners[current].cancelled
  \/ l = Failed
  \/ nextLedger # 0 /\ l.seq # nextLedger
  \/ nextLedger = 0 /\ l.seq > prepared.from

\* handleMetaPipeResult refuses a result, and closes the runner.
Unexpected(l) ==
  \/ runners[current].cancelled
  \/ l = Failed
  \/ nextLedger # 0 /\ l.seq # nextLedger
  \/ nextLedger = 0 /\ l.seq > prepared.from
  \/ previousLedgerHash # None /\ previousLedgerHash # PreviousLedgerHash(l)

\* The result at the head of the channel; none is left once it is closed.
Received == [runners[current] EXCEPT !.chan = IF @ = <<>> THEN @ ELSE Tail(@)]

\* Mutant: GetLedger goes on waiting when the channel is closed.
ReceiveRefusedWaits ==
  /\ user.pc = "get" /\ runners[current].chan # <<>>
  /\ Unexpected(Head(runners[current].chan))
  /\ user' = [user EXCEPT !.pc = "fail"]
  /\ CloseEntry("user", Received)
  /\ UNCHANGED <<closed, streamVars, current, answer, wiped>>

ReceiveRefused ==
  LET r == runners[current] IN
  /\ user.pc = "get"
  /\ IF r.chan = <<>> THEN r.done ELSE Unexpected(Head(r.chan))
  /\ user' = [user EXCEPT !.pc = "fail"]
  /\ CloseEntry("user", Received)
  /\ UNCHANGED <<closed, streamVars, current, answer, wiped>>

\* handleMetaPipeResult takes the ledger; the last one of a bounded range
\* closes the runner.
ReceiveLedger ==
  LET r == runners[current]
      l == Head(r.chan)
  IN
  /\ user.pc = "get" /\ r.chan # <<>> /\ ~ Unexpected(l)
  /\ nextLedger' = l.seq + 1
  /\ previousLedgerHash' = LedgerHash(l)
  /\ cachedMeta' = l
  /\ \/ /\ l.seq # user.seq
        /\ runners' = [runners EXCEPT ![current] = Received]
        /\ UNCHANGED <<closing, user, answer>>
     \/ /\ l.seq = user.seq /\ lastLedger # l.seq
        /\ runners' = [runners EXCEPT ![current] = Received]
        /\ Succeed(l)
        /\ UNCHANGED closing
     \/ /\ l.seq = user.seq /\ lastLedger = l.seq
        /\ user' = [user EXCEPT !.pc = "last"]
        /\ CloseEntry("user", Received)
        /\ UNCHANGED answer
  /\ UNCHANGED <<closed, prepared, lastLedger, current, wiped>>

\* GetLedger returns once it has closed the runner.
GetLedgerReturns ==
  /\ closing["user"] = Out
  /\ \/ user.pc = "last" /\ ~ user.err /\ Succeed(cachedMeta)
     \/ user.pc = "last" /\ user.err /\ Fail
     \/ user.pc = "fail" /\ Fail
  /\ UNCHANGED <<closed, streamVars, current, runners, closing, wiped>>

\* Close, under the read lock: no new process can be started from here on.
CloseCall ==
  /\ ~ closed /\ user.pc \notin {"stop", "open", "panic"}
  /\ closed' = TRUE
  /\ runners' = [k \in DOMAIN runners |-> [runners[k] EXCEPT !.cancelled = TRUE]]
  /\ closing' = [closing EXCEPT !["closer"] = [at |-> "call", run |-> 0]]
  /\ UNCHANGED <<streamVars, current, user, answer, wiped>>

CloseRunner ==
  /\ Running /\ closing["closer"].at = "call"
  /\ IF current = 0 THEN closing' = [closing EXCEPT !["closer"] = Out] /\ UNCHANGED runners
     ELSE CloseEntry("closer", runners[current])
  /\ UNCHANGED <<closed, streamVars, current, user, answer, wiped>>

\* fileWatcher: the binary was replaced.
WatcherFires ==
  /\ Running /\ closing["watcher"] = Out
  /\ current # 0 /\ runners[current].started /\ runners[current].storage
  /\ CloseEntry("watcher", runners[current])
  /\ UNCHANGED <<closed, streamVars, current, user, answer, wiped>>

RunnerNext(k) ==
  CoreEmits(k) \/ CoreExits(k) \/ Interrupt(k) \/ HandleExit(k) \/ BufferReads(k)

CloseNext(t) == CloseWaits(t) \/ CloseDrains(t) \/ CloseCleans(t)

\* Steps of a call in progress.
CallNext ==
  \/ PrepareStopped \/ OpenFails \/ openOfflineReplaySubprocess
  \/ openOnlineReplaySubprocess \/ (user.pc = "seek" /\ GetLedger)
  \/ ReceiveRefused \/ ReceiveLedger \/ GetLedgerReturns

Panicked == user.pc = "panic" /\ UNCHANGED vars

Next ==
  \/ \E k \in DOMAIN runners : RunnerNext(k)
  \/ \E t \in Threads : CloseNext(t)
  \/ CallNext \/ PrepareRange \/ GetLedger \/ GetLedgerCancelled
  \/ CloseCall \/ CloseRunner \/ WatcherFires \/ Panicked

Spec == Init /\ [][Next]_vars

\* handleExit goes on: it interrupts the process, which exits once it was
\* killed, and closes the pipe.
ExitNext(k) == Interrupt(k) \/ (runners[k].signalled /\ CoreExits(k)) \/ HandleExit(k)

\* Goroutines that can go on do, and a network closes ledgers.
Fairness ==
  /\ WF_vars(CallNext)
  /\ \A t \in Threads : WF_vars(CloseNext(t) \/ (t = "closer" /\ CloseRunner))
  /\ \A k \in 1 .. MaxRuns :
       /\ WF_vars(k \in DOMAIN runners /\ CoreEmits(k))
       /\ WF_vars(k \in DOMAIN runners /\ ExitNext(k))
       /\ WF_vars(k \in DOMAIN runners /\ BufferReads(k))

FairSpec == Spec /\ Fairness

-----------------------------------------------------------------------------
(* Properties.                                                               *)

RunnerType ==
  [online : BOOLEAN, started : BOOLEAN, storage : BOOLEAN, cancelled : BOOLEAN,
   signalled : BOOLEAN,
   exited : BOOLEAN, exitErr : BOOLEAN, emits : Nat, pipe : Seq(Ledgers),
   chan : Seq(Ledgers \cup {Failed}), done : BOOLEAN]

CloseType == [at : {"out", "call", "wait", "drain", "clean"}, run : 0 .. MaxRuns]

CallType ==
  [pc : {"idle", "ready", "stop", "open", "seek", "get", "fail", "last", "panic"},
   seq : Nat, range : Ranges \cup {None}, err : BOOLEAN]

\* Every field has its type, and hcnetCoreRunner is the runner created last.
TypeOK ==
  /\ closed \in BOOLEAN
  /\ prepared \in Ranges \cup {None}
  /\ nextLedger \in Nat /\ lastLedger \in Nat
  /\ cachedMeta \in Ledgers \cup {None}
  /\ previousLedgerHash \in (Nat \X Chains) \cup {None}
  /\ current \in 0 .. MaxRuns
  /\ runners \in Seq(RunnerType) /\ Len(runners) = current
  /\ closing \in [Threads -> CloseType]
  /\ user \in CallType
  /\ answer \in [asked : Nat, got : Ledgers \cup {None}]
  /\ wiped \subseteq 1 .. MaxRuns

\* The backend the interface promises: CaptiveHcnetCore reads one chain of
\* ledgers per prepared range and returns the ledger that was asked for.
Backend == INSTANCE LedgerBackend WITH
  range <- prepared, tip <- cachedMeta, fresh <- previousLedgerHash = None

ImplementsBackend == Backend!Spec

\* "Make sure Hcnet-Core is terminated before starting a new instance": two
\* processes never run at once, however close, exit and restart interleave.
OneProcess ==
  \A j, k \in DOMAIN runners : Live(j) /\ Live(k) => j = k

\* With a database, hcnet-core cannot be made to stream ledger 2 to a range
\* that starts there: catchup leaves it at ledger 2, and it streams ledger 3.
StartsAfterTwo(l) == useDB /\ nextLedger = 0 /\ prepared.from = 2 /\ l.seq = 3

\* What GetLedger receives next from runner r: a result in its channel, a ledger
\* in its pipe, or one that its process has still to write.
Coming(r) ==
  IF r.chan # <<>> THEN {Head(r.chan)}
  ELSE IF r.done THEN {}
  ELSE IF r.pipe # <<>> THEN {Head(r.pipe)}
  ELSE {l \in [seq : {r.emits}, chain : Chains] : r.emits # 0}

\* The start that runFromParams, the checkpoint arithmetic and runFrom's choice
\* of a database lead to is never too late, except at ledger 2:
\* handleMetaPipeResult will refuse no ledger that is on its way from a process
\* that streams consecutive ledgers, in a session that nobody closes.
HonestAccepted ==
  Honest /\ user.pc = "get" =>
    \A l \in Coming(runners[current]) :
      Unexpected(l) => l = Failed \/ runners[current].cancelled \/ StartsAfterTwo(l)

\* No call is stuck: PrepareRange and GetLedger return, whether the ledger
\* comes, the process exits, the binary changes or the backend is closed, and
\* whatever became of the process before.  (GetLedger after a start that failed
\* never gets as far as waiting: it panics at once, on the missing channel.)
CallsReturn == user.pc \in {"stop", "open", "seek", "get", "fail", "last"}
                 ~> user.pc \in {"idle", "ready"}

\* A thread that closes a runner gets out of close, whichever of the three
\* threads was there first.
CloseReturns == \A t \in Threads : closing[t] # Out ~> closing[t] = Out \/ user.pc = "panic"

\* The decoder of a runner that was closed ends, although nobody receives from
\* its channel any more.
DecoderEnds ==
  \A k \in 1 .. MaxRuns :
    k \in DOMAIN runners /\ runners[k].started /\ runners[k].cancelled
      ~> user.pc = "panic" \/ (k \in DOMAIN runners /\ runners[k].done)
=============================================================================
