------------------------------- MODULE TxSub -------------------------------
\* Transaction submission (services/aurora/internal/txsub): requests submit
\* transactions to hcnet-core and wait in the open submission list for the
\* tick that finds their result in the history database.
EXTENDS Integers, Sequences, FiniteSets

CONSTANTS
  Requests,     \* requests to POST /transactions
  Txs,          \* transaction hashes, all of one source account
  None,
  Inner,        \* Inner[t]: hash of the transaction that fee bump t wraps
  SeqNum,       \* SeqNum[t]: sequence number of t
  Window,       \* ledgers a tick looks back (60 in the code)
  MaxLedger,    \* bound on the ledgers of the network
  MaxFaults     \* bound on the failing calls

ASSUME TxSubAssumption ==
  /\ None \notin Txs
  /\ Inner \in [Txs -> Txs \cup {None}]
  /\ SeqNum \in [Txs -> Nat \ {0}]
  /\ Window \in Nat /\ MaxLedger \in Nat /\ MaxFaults \in Nat

VARIABLES
  queue,       \* transaction queue of hcnet-core
  applied,     \* applied[t]: ledger that includes t, 0 if none does
  ok,          \* ok[t]: t was applied successfully
  coreLatest,  \* latest ledger of hcnet-core
  ingested,    \* latest ledger in the history database
  status,      \* ledger.State: cached CoreLatest and HistoryLatest
  pc, tx,      \* control state and transaction of every request
  chan,        \* results sent on the result channel of every request
  open,        \* submissionList: listeners of every hash
  old,         \* hashes submitted more than SubmissionTimeout ago
  tick,        \* App.Tick and System.Tick
  faults       \* failing calls so far

coreVars == <<queue, applied, ok, coreLatest>>
reqVars  == <<pc, tx>>
listVars == <<open, old>>
vars     == <<coreVars, ingested, status, reqVars, chan, listVars, tick, faults>>

Results == {"success", "failed", "badSeq", "rejected", "timeout", "error"}

-----------------------------------------------------------------------------
(* hcnet-core and the history database.                                    *)

\* Rows a hash selects: transaction_hash or inner_transaction_hash.
Rows(h) == {t \in Txs : t = h \/ Inner[t] = h}

\* Rows of h in history_transactions, from ledger since on.
RowsSince(h, since) ==
  {t \in Rows(h) : applied[t] > 0 /\ applied[t] >= since /\ applied[t] <= ingested}

\* Sequence number of the source account as of ledger l.
SequenceReached(n, l) ==
  \E t \in Txs : applied[t] > 0 /\ applied[t] <= l /\ SeqNum[t] >= n

\* The network accepts the next sequence number only.
NextInSequence(t) ==
  /\ ~ SequenceReached(SeqNum[t], coreLatest)
  /\ SeqNum[t] = 1 \/ SequenceReached(SeqNum[t] - 1, coreLatest)

\* No tick in progress.
Idle == [at |-> "idle", todo |-> {}, pending |-> {}, found |-> {}, asOf |-> 0]

Init ==
  /\ queue = {} /\ applied = [t \in Txs |-> 0] /\ ok = [t \in Txs |-> FALSE]
  /\ coreLatest = 0 /\ ingested = 0
  /\ status = [core |-> 0, history |-> 0]
  /\ pc = [r \in Requests |-> "idle"] /\ tx = [r \in Requests |-> None]
  /\ chan = [r \in Requests |-> <<>>]
  /\ open = [t \in Txs |-> {}] /\ old = {}
  /\ tick = Idle
  /\ faults = 0

\* A ledger closes with one queued transaction, or without any.
CloseLedger ==
  /\ coreLatest < MaxLedger
  /\ coreLatest' = coreLatest + 1
  /\ \/ \E t \in queue :
          /\ NextInSequence(t)
          /\ applied' = [applied EXCEPT ![t] = coreLatest + 1]
          /\ \E b \in BOOLEAN : ok' = [ok EXCEPT ![t] = b]
          /\ queue' = queue \ {t}
     \/ UNCHANGED <<queue, applied, ok>>
  /\ UNCHANGED <<ingested, status, reqVars, chan, listVars, tick, faults>>

\* hcnet-core gives up on a transaction.
DropTx ==
  /\ \E t \in queue : queue' = queue \ {t}
  /\ UNCHANGED <<applied, ok, coreLatest, ingested, status, reqVars, chan,
                 listVars, tick, faults>>

IngestLedger ==
  /\ ingested < coreLatest
  /\ ingested' = ingested + 1
  /\ UNCHANGED <<coreVars, status, reqVars, chan, listVars, tick, faults>>

Fault ==
  /\ faults < MaxFaults
  /\ faults' = faults + 1

-----------------------------------------------------------------------------
(* System.Submit, run by the request's handler.  A request in "open" is     *)
(* left to the select of GetResource: its handler receives the result, or    *)
(* goes away while the listener stays in the list.                           *)

\* finish: send the result and close the channel, whose buffer is one.
finish(r, result) == chan' = [chan EXCEPT ![r] = Append(@, result)]

ReqStep(r, from, to) ==
  /\ pc[r] = from
  /\ pc' = [pc EXCEPT ![r] = to]

Request(r) ==
  /\ ReqStep(r, "idle", "lookup")
  /\ \E t \in Txs : tx' = [tx EXCEPT ![r] = t]
  /\ UNCHANGED <<coreVars, ingested, status, chan, listVars, tick, faults>>

\* The sequence numbers in the envelope make no sense.
RejectSequence(r) ==
  /\ ReqStep(r, "idle", "open")
  /\ \E t \in Txs : tx' = [tx EXCEPT ![r] = t]
  /\ finish(r, "badSeq")
  /\ UNCHANGED <<coreVars, ingested, status, listVars, tick, faults>>

\* txResultByHash: a result in the database is the answer.
Lookup(r) ==
  /\ \/ /\ ReqStep(r, "lookup", "open")
        /\ \E t \in RowsSince(tx[r], 0) :
             finish(r, IF ok[t] THEN "success" ELSE "failed")
        /\ UNCHANGED faults
     \/ /\ ReqStep(r, "lookup", "submit")
        /\ RowsSince(tx[r], 0) = {}
        /\ UNCHANGED <<chan, faults>>
     \/ /\ ReqStep(r, "lookup", "open")
        /\ Fault /\ finish(r, "error")
  /\ UNCHANGED <<coreVars, ingested, status, tx, listVars, tick>>

\* submitOnce: PENDING, DUPLICATE and TRY_AGAIN_LATER count as accepted.  A
\* fee bump replaces the transaction it wraps in the queue.
SubmitAccepted(r) ==
  /\ ReqStep(r, "submit", "add")
  /\ \/ NextInSequence(tx[r]) /\ queue' = (queue \ {Inner[tx[r]]}) \cup {tx[r]}
     \/ ~ SequenceReached(SeqNum[tx[r]], coreLatest) /\ UNCHANGED queue
  /\ UNCHANGED <<applied, ok, coreLatest, ingested, status, tx, chan, listVars,
                 tick, faults>>

\* txBAD_SEQ: wait until ingestion has caught up.
SubmitBadSeq(r) ==
  /\ ReqStep(r, "submit", "wait")
  /\ ~ NextInSequence(tx[r])
  /\ UNCHANGED <<coreVars, ingested, status, tx, chan, listVars, tick, faults>>

\* Any other error is the answer, a lost response included.
SubmitFails(r) ==
  /\ ReqStep(r, "submit", "open")
  /\ \/ /\ NextInSequence(tx[r]) /\ finish(r, "rejected")
        /\ UNCHANGED <<queue, faults>>
     \/ /\ Fault /\ finish(r, "error")
        /\ \/ NextInSequence(tx[r]) /\ queue' = (queue \ {Inner[tx[r]]}) \cup {tx[r]}
           \/ UNCHANGED queue
  /\ UNCHANGED <<applied, ok, coreLatest, ingested, status, tx, listVars, tick>>

isSyncedUp == status.core <= status.history

\* waitUntilAccountSequence returns: the account has reached the sequence
\* number, or the cached ledger state says that there is nothing to wait for.
SequenceFound(r) ==
  /\ ReqStep(r, "wait", "relookup")
  /\ SequenceReached(SeqNum[tx[r]], ingested) \/ isSyncedUp
  /\ UNCHANGED <<coreVars, ingested, status, tx, chan, listVars, tick, faults>>

\* ... or the context of the request is done.
WaitTimesOut(r) ==
  /\ ReqStep(r, "wait", "open")
  /\ finish(r, "timeout")
  /\ UNCHANGED <<coreVars, ingested, status, tx, listVars, tick, faults>>

\* The second txResultByHash: any error, that of a failed transaction
\* included, makes txBAD_SEQ the answer.
LookupAgain(r) ==
  /\ ReqStep(r, "relookup", "open")
  /\ \/ /\ \E t \in RowsSince(tx[r], 0) : ok[t]
        /\ finish(r, "success") /\ UNCHANGED faults
     \/ /\ \A t \in RowsSince(tx[r], 0) : ~ ok[t]
        /\ finish(r, "badSeq") /\ UNCHANGED faults
     \/ Fault /\ finish(r, "badSeq")
  /\ UNCHANGED <<coreVars, ingested, status, tx, listVars, tick>>

\* MUTANT: a listener that joins late is not added to the submission.
AddFirstOnly(r) ==
  LET h == tx[r] IN
  /\ ReqStep(r, "add", "open")
  /\ open' = [open EXCEPT ![h] = IF @ = {} THEN {r} ELSE @]
  /\ old' = IF open[h] = {} THEN old \ {h} ELSE old
  /\ UNCHANGED <<coreVars, ingested, status, tx, chan, tick, faults>>

\* submissionList.Add: a listener joins the submission of its hash, whose age
\* is that of its first listener.
Add(r) ==
  LET h == tx[r] IN
  /\ ReqStep(r, "add", "open")
  /\ open' = [open EXCEPT ![h] = @ \cup {r}]
  /\ old' = IF open[h] = {} THEN old \ {h} ELSE old
  /\ UNCHANGED <<coreVars, ingested, status, tx, chan, tick, faults>>

\* SubmissionTimeout passes for an open submission.
Age(h) ==
  /\ open[h] # {} /\ h \notin old
  /\ old' = old \cup {h}
  /\ UNCHANGED <<coreVars, ingested, status, reqVars, chan, open, tick, faults>>

-----------------------------------------------------------------------------
(* App.Tick: refresh the cached ledger state, then System.Tick.            *)

StartTick ==
  /\ tick.at = "idle"
  /\ tick' = [tick EXCEPT !.at = "refresh", !.todo = {"core", "history"}]
  /\ UNCHANGED <<coreVars, ingested, status, reqVars, chan, listVars, faults>>

\* UpdateCoreLedgerState and UpdateAuroraLedgerState run in parallel; one that
\* fails, or is skipped, leaves the cached value alone.
Refresh ==
  /\ \/ /\ "core" \in tick.todo
        /\ tick' = [tick EXCEPT !.todo = @ \ {"core"}]
        /\ \/ status' = [status EXCEPT !.core = coreLatest] /\ UNCHANGED faults
           \/ Fault /\ UNCHANGED status
     \/ /\ "history" \in tick.todo
        /\ tick' = [tick EXCEPT !.todo = @ \ {"history"}]
        /\ \/ status' = [status EXCEPT !.history = ingested] /\ UNCHANGED faults
           \/ Fault /\ UNCHANGED status
  /\ UNCHANGED <<coreVars, ingested, reqVars, chan, listVars>>

\* submissionList.Pending.
TickPending ==
  /\ tick.at = "refresh" /\ tick.todo = {}
  /\ LET pending == {h \in Txs : open[h] # {}} IN
     tick' = [tick EXCEPT !.at = IF pending = {} THEN "finish" ELSE "load",
                          !.pending = pending]
  /\ UNCHANGED <<coreVars, ingested, status, reqVars, chan, listVars, faults>>

sinceLedgerSeq == IF ingested > Window THEN ingested - Window ELSE 0

\* MUTANT: only the hash of the outer transaction is matched.
TickLoadOuterOnly ==
  /\ tick.at = "load"
  /\ tick' = [tick EXCEPT !.at = "finish", !.asOf = ingested,
                          !.found = {h \in tick.pending : h \in RowsSince(h, sinceLedgerSeq)}]
  /\ UNCHANGED <<coreVars, ingested, status, reqVars, chan, listVars, faults>>

\* The queries of one repeatable-read transaction.
TickLoad ==
  /\ tick.at = "load"
  /\ tick' = [tick EXCEPT !.at = "finish", !.asOf = ingested,
                          !.found = {h \in tick.pending : RowsSince(h, sinceLedgerSeq) # {}}]
  /\ UNCHANGED <<coreVars, ingested, status, reqVars, chan, listVars, faults>>

\* App.Tick is through with the refreshes, System.Tick has not loaded results.
BeforeLoad == tick.at \in {"refresh", "load"} /\ tick.todo = {}

\* MUTANT: tickInProgress stays set when a query fails.
TickFailsInProgress ==
  /\ BeforeLoad /\ Fault
  /\ tick' = [tick EXCEPT !.at = "stuck"]
  /\ UNCHANGED <<coreVars, ingested, status, reqVars, chan, listVars>>

\* UpdateHcnetCoreInfo, BeginTx or a query fails, which ends the tick before
\* Clean.
TickFails ==
  /\ BeforeLoad /\ Fault
  /\ tick' = Idle
  /\ UNCHANGED <<coreVars, ingested, status, reqVars, chan, listVars>>

\* Send a result to every listener in ls and close its channel.
SendAll(ls, result) ==
  chan' = [r \in Requests |-> IF r \in ls THEN Append(chan[r], result) ELSE chan[r]]

\* Result of h in the database.
HistoryResult(h) ==
  IF ok[CHOOSE t \in RowsSince(h, 0) : TRUE] THEN "success" ELSE "failed"

\* MUTANT: the result of a failed transaction is sent as a success.
TickFinishIgnoringResult(h) ==
  /\ tick.at = "finish" /\ h \in tick.found
  /\ SendAll(open[h], "success")
  /\ open' = [open EXCEPT ![h] = {}]
  /\ old' = old \ {h}
  /\ tick' = [tick EXCEPT !.found = @ \ {h}, !.pending = @ \ {h}]
  /\ UNCHANGED <<coreVars, ingested, status, reqVars, faults>>

\* submissionList.Finish.
TickFinish(h) ==
  /\ tick.at = "finish" /\ h \in tick.found
  /\ SendAll(open[h], HistoryResult(h))
  /\ open' = [open EXCEPT ![h] = {}]
  /\ old' = old \ {h}
  /\ tick' = [tick EXCEPT !.found = @ \ {h}, !.pending = @ \ {h}]
  /\ UNCHANGED <<coreVars, ingested, status, reqVars, faults>>

\* MUTANT: timed out submissions stay in the list.
TickCleanKeeps ==
  /\ tick.at = "finish" /\ tick.found = {}
  /\ SendAll(UNION {open[h] : h \in old}, "timeout")
  /\ tick' = Idle
  /\ UNCHANGED <<coreVars, ingested, status, reqVars, listVars, faults>>

\* submissionList.Clean, then the tick is over.
TickClean ==
  /\ tick.at = "finish" /\ tick.found = {}
  /\ SendAll(UNION {open[h] : h \in old}, "timeout")
  /\ open' = [h \in Txs |-> IF h \in old THEN {} ELSE open[h]]
  /\ old' = {}
  /\ tick' = Idle
  /\ UNCHANGED <<coreVars, ingested, status, reqVars, faults>>

-----------------------------------------------------------------------------
ReqNext(r) ==
  \/ Lookup(r) \/ SubmitAccepted(r) \/ SubmitBadSeq(r) \/ SubmitFails(r)
  \/ SequenceFound(r) \/ WaitTimesOut(r) \/ LookupAgain(r) \/ Add(r)

TickNext ==
  \/ StartTick \/ Refresh \/ TickPending \/ TickLoad \/ TickFails \/ TickClean
  \/ \E h \in Txs : TickFinish(h)

Next ==
  \/ CloseLedger \/ DropTx \/ IngestLedger
  \/ \E h \in Txs : Age(h)
  \/ TickNext
  \/ \E r \in Requests :
       Request(r) \/ RejectSequence(r) \/ ReqNext(r)

Spec == Init /\ [][Next]_vars

\* A handler runs on, the context of a waiting request has a deadline, time
\* passes, and App.run ticks every second.
Fairness ==
  /\ \A r \in Requests : WF_vars(ReqNext(r))
  /\ \A h \in Txs : WF_vars(Age(h))
  /\ WF_vars(TickNext)

FairSpec == Spec /\ Fairness

-----------------------------------------------------------------------------
(* Properties.                                                             *)

TypeOK ==
  /\ queue \subseteq Txs
  /\ applied \in [Txs -> 0..MaxLedger] /\ ok \in [Txs -> BOOLEAN]
  /\ coreLatest \in 0..MaxLedger /\ ingested \in 0..coreLatest
  /\ status \in [core : 0..MaxLedger, history : 0..MaxLedger]
  /\ pc \in [Requests -> {"idle", "lookup", "submit", "wait", "relookup", "add",
                          "open"}]
  /\ tx \in [Requests -> Txs \cup {None}]
  /\ chan \in [Requests -> Seq(Results)]
  /\ open \in [Txs -> SUBSET Requests] /\ old \subseteq Txs
  /\ tick \in [at : {"idle", "refresh", "load", "finish"},
               todo : SUBSET {"core", "history"},
               pending : SUBSET Txs, found : SUBSET Txs, asOf : 0..MaxLedger]
  /\ faults \in 0..MaxFaults

\* No channel is sent to twice: a second send would be on a closed channel and
\* panic, whichever of Submit, Finish and Clean race for it.
SentOnce == \A r \in Requests : Len(chan[r]) <= 1

\* A request is told the result that the history database holds for its hash,
\* or for the fee bump that wraps it.
ResultsTrue ==
  \A r \in Requests : \A i \in DOMAIN chan[r] :
    /\ chan[r][i] = "success" => \E t \in RowsSince(tx[r], 0) : ok[t]
    /\ chan[r][i] = "failed" => \E t \in RowsSince(tx[r], 0) : ~ ok[t]

\* t was in the snapshot of the tick, and in its window.
InSnapshot(t) ==
  applied[t] > 0 /\ applied[t] <= tick.asOf /\ applied[t] >= tick.asOf - Window

\* A submission that was pending when a tick began, and whose result was in
\* the snapshot and the window of that tick, is never timed out by it.
NoTimeoutOverResult ==
  [][\A r \in Requests :
       (tx[r] # None /\ r \in open[tx[r]] /\ chan'[r] = <<"timeout">> /\ chan[r] = <<>>)
         => ~ (/\ tx[r] \in tick.pending
               /\ \E t \in Rows(tx[r]) : InSnapshot(t))]_vars

\* Every request that was made gets a result, though ticks and calls fail and
\* hcnet-core drops transactions.
Answered ==
  \A r \in Requests : (pc[r] = "lookup") ~> (chan[r] # <<>>)

-----------------------------------------------------------------------------
(* The inductive invariant behind SentOnce and ResultsTrue.                *)

\* What is in the ledger stays there, and a tick only finds what is there.
LedgerConsistent ==
  /\ \A t \in Txs : applied[t] <= coreLatest
  /\ \A h \in tick.found : RowsSince(h, 0) # {}

\* A request whose Submit has not finished has no result yet.
UnansweredWhileRunning ==
  \A r \in Requests :
    /\ pc[r] # "open" => chan[r] = <<>>
    /\ pc[r] # "idle" => tx[r] \in Txs

\* A listener is in the list of its own hash, once, and waits for its result.
ListenersWait ==
  \A h \in Txs : \A r \in open[h] :
    pc[r] = "open" /\ tx[r] = h /\ chan[r] = <<>>

IInv ==
  /\ TypeOK /\ LedgerConsistent /\ UnansweredWhileRunning /\ ListenersWait
  /\ SentOnce /\ ResultsTrue

\* Until Clean, a tick still has to finish every pending hash it has a result
\* of.
SnapshotCovered ==
  /\ tick.asOf <= ingested
  /\ tick.at = "finish" =>
       \A h \in tick.pending : (\E t \in Rows(h) : InSnapshot(t)) => h \in tick.found
=============================================================================
