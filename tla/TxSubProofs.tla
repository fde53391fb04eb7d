---------------------------- MODULE TxSubProofs ----------------------------
\* What holds of TxSub for every set of requests and transactions.
EXTENDS TxSub, TLAPS

USE TxSubAssumption DEF coreVars, reqVars, listVars

\* Closing and ingesting ledgers never takes a result away from a hash, nor
\* changes it.
LEMMA ResultsStay ==
  ASSUME IInv, CloseLedger \/ IngestLedger
  PROVE  /\ \A h \in Txs : \A t \in RowsSince(h, 0) : t \in RowsSince(h, 0)' /\ ok'[t] = ok[t]
         /\ \A t \in Txs : applied'[t] <= coreLatest'
<1> USE DEF IInv, TypeOK, LedgerConsistent
<1>1. CASE CloseLedger
  <2>1. \A t \in Txs : applied[t] > 0 => applied'[t] = applied[t] /\ ok'[t] = ok[t]
    BY <1>1 DEF CloseLedger, NextInSequence, SequenceReached
  <2>2. \A t \in Txs : applied'[t] <= coreLatest'
    BY <1>1 DEF CloseLedger
  <2>3. ingested' = ingested
    BY <1>1 DEF CloseLedger
  <2> QED
    BY <2>1, <2>2, <2>3 DEF RowsSince, Rows
<1>2. CASE IngestLedger
  BY <1>2 DEF IngestLedger, RowsSince, Rows
<1> QED
  BY <1>1, <1>2

\* The network and ingestion move on.
LEMMA EnvironmentStep ==
  ASSUME IInv, CloseLedger \/ DropTx \/ IngestLedger
  PROVE  IInv'
<1> USE DEF IInv
<1>1. UNCHANGED <<status, pc, tx, chan, open, old, tick, faults>>
  BY DEF CloseLedger, DropTx, IngestLedger
<1>2. TypeOK'
  <2>1. CASE CloseLedger
    <3>1. ok' \in [Txs -> BOOLEAN]
      BY <2>1, Zenon DEF TypeOK, CloseLedger
    <3>2. coreLatest' \in 0..MaxLedger /\ ingested' \in 0..coreLatest'
      BY <2>1 DEF TypeOK, CloseLedger
    <3>3. applied' \in [Txs -> 0..MaxLedger]
      BY <2>1, <3>2, ZenonT(30) DEF TypeOK, CloseLedger
    <3>4. queue' \subseteq Txs
      BY <2>1 DEF TypeOK, CloseLedger
    <3> QED
      BY <1>1, <3>1, <3>2, <3>3, <3>4 DEF TypeOK
  <2>2. CASE DropTx
    BY <1>1, <2>2 DEF TypeOK, DropTx
  <2>3. CASE IngestLedger
    BY <1>1, <2>3 DEF TypeOK, IngestLedger
  <2> QED
    BY <2>1, <2>2, <2>3
<1>3. /\ \A h \in Txs : \A t \in RowsSince(h, 0) : t \in RowsSince(h, 0)' /\ ok'[t] = ok[t]
      /\ \A t \in Txs : applied'[t] <= coreLatest'
  <2>1. CASE DropTx
    BY <2>1 DEF DropTx, RowsSince, Rows, LedgerConsistent
  <2> QED
    BY <2>1, ResultsStay
<1>4. LedgerConsistent'
  BY <1>1, <1>3 DEF LedgerConsistent, TypeOK
<1>5. UnansweredWhileRunning' /\ ListenersWait' /\ SentOnce'
  BY <1>1 DEF UnansweredWhileRunning, ListenersWait, SentOnce
<1>6. ResultsTrue'
  <2>1. ASSUME NEW r \in Requests, chan[r] # <<>>
        PROVE  /\ (\E t \in RowsSince(tx[r], 0) : ok[t])
                    => (\E t \in RowsSince(tx[r], 0) : ok[t])'
               /\ (\E t \in RowsSince(tx[r], 0) : ~ ok[t])
                    => (\E t \in RowsSince(tx[r], 0) : ~ ok[t])'
    <3>1. PICK h \in Txs : h = tx[r]
      BY <2>1 DEF UnansweredWhileRunning, TypeOK
    <3>2. tx'[r] = h
      BY <1>1, <3>1
    <3>3. RowsSince(tx[r], 0)' = RowsSince(h, 0)'
      BY <3>2 DEF RowsSince, Rows
    <3> QED
      BY <1>3, <3>1, <3>3, Zenon
  <2>2. ASSUME NEW r \in Requests, NEW i \in DOMAIN chan'[r]
        PROVE  /\ (chan[r][i] = "success" => \E t \in RowsSince(tx[r], 0) : ok[t])'
               /\ (chan[r][i] = "failed" => \E t \in RowsSince(tx[r], 0) : ~ ok[t])'
    <3>1. chan' = chan /\ i \in DOMAIN chan[r] /\ chan[r] # <<>>
      BY <1>1, <2>2
    <3> QED
      BY <2>1, <3>1, Zenon DEF ResultsTrue
  <2> QED
    BY <2>2, Zenon DEF ResultsTrue
<1> QED
  BY <1>2, <1>4, <1>5, <1>6

-----------------------------------------------------------------------------
\* No ledger closes and none is ingested.
SameLedger == UNCHANGED <<applied, ok, coreLatest, ingested>>

\* The request goes on without a result.
Passes(r, from, to) ==
  /\ pc[r] = from /\ pc' = [pc EXCEPT ![r] = to]
  /\ from # "open"
  /\ to \in {"lookup", "submit", "wait", "relookup", "add"}
  /\ tx' \in [Requests -> Txs \cup {None}] /\ tx'[r] \in Txs
  /\ \A q \in Requests \ {r} : tx'[q] = tx[q]
  /\ SameLedger /\ UNCHANGED <<chan, open, old, tick, status, faults>>
  /\ queue' \subseteq Txs

\* The early steps of Submit leave channels and submission list alone.
LEMMA PassesPreserves ==
  ASSUME IInv, NEW r \in Requests, NEW from, NEW to, Passes(r, from, to)
  PROVE  IInv'
<1> USE DEF IInv, Passes, SameLedger
<1>1. TypeOK'
  BY DEF TypeOK
<1>2. \A h : RowsSince(h, 0)' = RowsSince(h, 0)
  BY DEF RowsSince, Rows
<1>3. LedgerConsistent'
  BY DEF LedgerConsistent, RowsSince, Rows
<1>4. UnansweredWhileRunning'
  BY DEF UnansweredWhileRunning, TypeOK
<1>5. ListenersWait'
  BY DEF ListenersWait, TypeOK
<1>6. SentOnce'
  BY DEF SentOnce
<1>7. ResultsTrue'
  <2>1. ASSUME NEW q \in Requests, NEW i \in DOMAIN chan[q]
        PROVE  q # r /\ tx'[q] = tx[q]
    BY <2>1 DEF UnansweredWhileRunning
  <2>2. ASSUME NEW q \in Requests, NEW i \in DOMAIN chan'[q]
        PROVE  /\ (chan[q][i] = "success" => \E t \in RowsSince(tx[q], 0) : ok[t])'
               /\ (chan[q][i] = "failed" => \E t \in RowsSince(tx[q], 0) : ~ ok[t])'
    <3>1. RowsSince(tx[q], 0)' = RowsSince(tx[q], 0) /\ i \in DOMAIN chan[q]
      BY <2>1, <2>2 DEF RowsSince, Rows
    <3> QED
      BY <3>1, Zenon DEF ResultsTrue
  <2> QED
    BY <2>2, Zenon DEF ResultsTrue
<1> QED
  BY <1>1, <1>3, <1>4, <1>5, <1>6, <1>7

\* Submit ends by sending a result that is true.
Answers(r, result) ==
  /\ pc[r] # "open" /\ pc' = [pc EXCEPT ![r] = "open"]
  /\ result \in Results
  /\ finish(r, result)
  /\ tx' \in [Requests -> Txs \cup {None}] /\ tx'[r] \in Txs
  /\ \A q \in Requests \ {r} : tx'[q] = tx[q]
  /\ result = "success" => \E t \in RowsSince(tx'[r], 0) : ok[t]
  /\ result = "failed" => \E t \in RowsSince(tx'[r], 0) : ~ ok[t]
  /\ SameLedger /\ UNCHANGED <<open, old, tick, status>>
  /\ queue' \subseteq Txs /\ faults' \in 0..MaxFaults

\* Every way in which Submit itself ends sends one true result on a channel
\* that nothing was sent on.
LEMMA AnswersPreserves ==
  ASSUME IInv, NEW r \in Requests, NEW result, Answers(r, result)
  PROVE  IInv'
<1> USE DEF IInv, Answers, SameLedger, finish
<1>0. chan[r] = <<>> /\ chan' = [chan EXCEPT ![r] = <<result>>]
  <2>1. chan[r] = <<>>
    BY DEF UnansweredWhileRunning
  <2>2. Append(<<>>, result) = <<result>>
    OBVIOUS
  <2> QED
    BY <2>1, <2>2, Zenon
<1>1. TypeOK'
  <2>1. chan' \in [Requests -> Seq(Results)]
    BY <1>0 DEF TypeOK
  <2>2. pc' \in [Requests -> {"idle", "lookup", "submit", "wait", "relookup", "add",
                               "open"}]
    BY DEF TypeOK
  <2> QED
    BY <2>1, <2>2 DEF TypeOK
<1>3. LedgerConsistent'
  BY DEF LedgerConsistent, RowsSince, Rows
<1>4. UnansweredWhileRunning'
  BY <1>0 DEF UnansweredWhileRunning, TypeOK
<1>5. ListenersWait'
  BY <1>0 DEF ListenersWait, TypeOK
<1>6. SentOnce'
  BY <1>0 DEF SentOnce, TypeOK
<1>7. ResultsTrue'
  <2>2. ASSUME NEW q \in Requests, NEW i \in DOMAIN chan'[q]
        PROVE  /\ (chan[q][i] = "success" => \E t \in RowsSince(tx[q], 0) : ok[t])'
               /\ (chan[q][i] = "failed" => \E t \in RowsSince(tx[q], 0) : ~ ok[t])'
    <3>1. CASE q = r
      <4>1. chan'[q][i] = result
        BY <1>0, <2>2, <3>1 DEF TypeOK
      <4>2. RowsSince(tx[q], 0)' = RowsSince(tx'[q], 0)
        BY DEF RowsSince, Rows
      <4>3. /\ result = "success" => \E t \in RowsSince(tx'[q], 0) : ok[t]
            /\ result = "failed" => \E t \in RowsSince(tx'[q], 0) : ~ ok[t]
        BY <3>1
      <4> HIDE DEF Answers, IInv
      <4>4. ok' = ok
        BY DEF Answers
      <4> QED
        BY <4>1, <4>2, <4>3, <4>4
    <3>2. CASE q # r
      <4>1. i \in DOMAIN chan[q] /\ chan'[q] = chan[q]
        BY <1>0, <2>2, <3>2 DEF TypeOK
      <4>2. RowsSince(tx[q], 0)' = RowsSince(tx[q], 0)
        BY <3>2 DEF RowsSince, Rows
      <4>3. /\ chan[q][i] = "success" => \E t \in RowsSince(tx[q], 0) : ok[t]
            /\ chan[q][i] = "failed" => \E t \in RowsSince(tx[q], 0) : ~ ok[t]
        BY <4>1 DEF ResultsTrue
      <4> HIDE DEF Answers, IInv
      <4>4. ok' = ok
        BY DEF Answers
      <4> QED
        BY <4>1, <4>2, <4>3, <4>4
    <3> QED
      BY <3>1, <3>2
  <2> QED
    BY <2>2, Zenon DEF ResultsTrue
<1> QED
  BY <1>1, <1>3, <1>4, <1>5, <1>6, <1>7

\* submissionList.Add: the listener is new and waits for its result.
LEMMA AddStep ==
  ASSUME IInv, NEW r \in Requests, Add(r)
  PROVE  IInv'
<1> USE DEF IInv, Add, ReqStep
<1>1. tx[r] \in Txs /\ chan[r] = <<>>
  BY DEF UnansweredWhileRunning
<1>2. TypeOK'
  BY <1>1 DEF TypeOK
<1>3. LedgerConsistent'
  BY DEF LedgerConsistent, RowsSince, Rows
<1>4. UnansweredWhileRunning'
  BY DEF UnansweredWhileRunning, TypeOK
<1>5. ListenersWait'
  BY <1>1 DEF ListenersWait, TypeOK
<1>6. SentOnce' /\ ResultsTrue'
  BY DEF SentOnce, ResultsTrue, RowsSince, Rows
<1> QED
  BY <1>2, <1>3, <1>4, <1>5, <1>6

\* Steps of a tick that neither send nor change the submission list, and the
\* passing of time.
Quiet == SameLedger /\ UNCHANGED <<queue, pc, tx, chan, open>>

LEMMA QuietStep ==
  ASSUME IInv, Quiet, TypeOK', \A h \in tick'.found : RowsSince(h, 0) # {}
  PROVE  IInv'
<1> USE DEF IInv, Quiet, SameLedger
<1>1. LedgerConsistent'
  BY DEF LedgerConsistent, RowsSince, Rows
<1>2. UnansweredWhileRunning' /\ ListenersWait' /\ SentOnce'
  BY DEF UnansweredWhileRunning, ListenersWait, SentOnce
<1>3. ResultsTrue'
  BY DEF ResultsTrue, RowsSince, Rows
<1> QED
  BY <1>1, <1>2, <1>3

LEMMA TickQuietStep ==
  ASSUME IInv, \/ StartTick \/ Refresh \/ TickPending \/ TickLoad \/ TickFails
               \/ \E h \in Txs : Age(h)
  PROVE  IInv'
<1> USE DEF IInv
<1>1. Quiet
  BY DEF StartTick, Refresh, TickPending, TickLoad, TickFails, Age, Quiet, SameLedger
<1>2. TypeOK'
  <2> DEFINE TickType == [at : {"idle", "refresh", "load", "finish"},
                          todo : SUBSET {"core", "history"},
                          pending : SUBSET Txs, found : SUBSET Txs, asOf : 0..MaxLedger]
  <2>1. UNCHANGED <<queue, applied, ok, coreLatest, ingested, pc, tx, chan, open>>
    BY <1>1 DEF Quiet, SameLedger
  <2>2. tick \in TickType /\ ingested \in 0..MaxLedger
    BY DEF TypeOK
  <2>3. tick' \in TickType
    <3>1. CASE StartTick
      BY <2>2, <3>1, Zenon DEF StartTick
    <3>2. CASE Refresh
      BY <2>2, <3>2, SMTT(20) DEF Refresh
    <3>3. CASE TickPending
      BY <2>2, <3>3, Zenon DEF TickPending
    <3>4. CASE TickLoad
      <4>1. {h \in tick.pending : RowsSince(h, sinceLedgerSeq) # {}} \in SUBSET Txs
        BY <2>2
      <4> QED
        BY <2>2, <3>4, <4>1, Zenon DEF TickLoad
    <3>5. CASE TickFails
      BY <2>2, <3>5 DEF TickFails, Idle
    <3>6. CASE \E h \in Txs : Age(h)
      BY <2>2, <3>6 DEF Age
    <3> QED
      BY <3>1, <3>2, <3>3, <3>4, <3>5, <3>6
  <2>4. status' \in [core : 0..MaxLedger, history : 0..MaxLedger]
    <3>1. coreLatest \in 0..MaxLedger
      BY DEF TypeOK
    <3>2. CASE Refresh
      BY <2>2, <3>1, <3>2, Zenon DEF Refresh, TypeOK
    <3>3. CASE ~ Refresh
      BY <3>3 DEF StartTick, TickPending, TickLoad, TickFails, Age, TypeOK
    <3> QED
      BY <3>2, <3>3
  <2>5. old' \subseteq Txs
    BY DEF StartTick, Refresh, TickPending, TickLoad, TickFails, Age, TypeOK
  <2>6. faults' \in 0..MaxFaults
    BY DEF StartTick, Refresh, TickPending, TickLoad, TickFails, Age, Fault, TypeOK
  <2> QED
    BY <2>1, <2>3, <2>4, <2>5, <2>6 DEF TypeOK
<1>3. \A h \in tick'.found : RowsSince(h, 0) # {}
  <2>1. CASE TickLoad
    <3>1. \A h \in tick'.found : RowsSince(h, sinceLedgerSeq) # {}
      BY <2>1 DEF TickLoad, TypeOK
    <3>2. \A h : RowsSince(h, sinceLedgerSeq) \subseteq RowsSince(h, 0)
      BY DEF RowsSince, Rows, TypeOK
    <3> QED
      BY <3>1, <3>2
  <2>2. CASE ~ TickLoad
    <3>1. tick'.found \subseteq tick.found
      <4>1. CASE TickFails
        BY <4>1 DEF TickFails, Idle
      <4>2. CASE StartTick \/ Refresh \/ TickPending
        BY <4>2, Zenon DEF StartTick, Refresh, TickPending, TypeOK
      <4>3. CASE \E h \in Txs : Age(h)
        BY <4>3 DEF Age
      <4> QED
        BY <2>2, <4>1, <4>2, <4>3
    <3> QED
      BY <3>1 DEF LedgerConsistent
  <2> QED
    BY <2>1, <2>2
<1> QED
  BY <1>1, <1>2, <1>3, QuietStep

\* A tick sends one result to some of the listeners, which all wait for it,
\* and takes them off the list.
Delivers(ls, result) ==
  /\ ls \subseteq Requests /\ result \in Results
  /\ \A r \in ls : pc[r] = "open" /\ tx[r] \in Txs /\ chan[r] = <<>>
  /\ \A r \in ls : /\ result = "success" => \E t \in RowsSince(tx[r], 0) : ok[t]
                   /\ result = "failed" => \E t \in RowsSince(tx[r], 0) : ~ ok[t]
  /\ SendAll(ls, result)
  /\ open' \in [Txs -> SUBSET Requests]
  /\ \A h \in Txs : open'[h] \subseteq open[h] \ ls
  /\ old' \subseteq Txs
  /\ tick'.found \subseteq tick.found
  /\ SameLedger /\ UNCHANGED <<queue, status, pc, tx, faults>>

\* Finish and Clean send to listeners that nothing was sent to, and leave none
\* of them in the list.
LEMMA DeliversPreserves ==
  ASSUME IInv, NEW ls, NEW result, Delivers(ls, result),
         tick' \in [at : {"idle", "refresh", "load", "finish"},
                    todo : SUBSET {"core", "history"},
                    pending : SUBSET Txs, found : SUBSET Txs, asOf : 0..MaxLedger]
  PROVE  IInv'
<1>1. \A r \in Requests : chan'[r] = IF r \in ls THEN <<result>> ELSE chan[r]
  <2>1. \A r \in Requests : chan'[r] = IF r \in ls THEN Append(chan[r], result) ELSE chan[r]
    BY Zenon DEF Delivers, SendAll
  <2>2. Append(<<>>, result) = <<result>>
    OBVIOUS
  <2> QED
    BY <2>1, <2>2, Zenon DEF Delivers
<1>2. /\ \A r \in ls : /\ result = "success" => \E t \in RowsSince(tx[r], 0) : ok[t]
                       /\ result = "failed" => \E t \in RowsSince(tx[r], 0) : ~ ok[t]
      /\ \A r \in Requests : RowsSince(tx[r], 0)' = RowsSince(tx[r], 0)
      /\ ok' = ok
  BY DEF Delivers, SameLedger, RowsSince, Rows
<1>3. ResultsTrue
  BY DEF IInv
<1>4. ResultsTrue'
  <2>1. ASSUME NEW r \in Requests, NEW i \in DOMAIN chan'[r]
        PROVE  /\ (chan[r][i] = "success" => \E t \in RowsSince(tx[r], 0) : ok[t])'
               /\ (chan[r][i] = "failed" => \E t \in RowsSince(tx[r], 0) : ~ ok[t])'
    <3>1. CASE r \in ls
      <4>1. chan'[r][i] = result
        BY <1>1, <2>1, <3>1
      <4> QED
        BY <1>2, <2>1, <3>1, <4>1
    <3>2. CASE r \notin ls
      <4>1. chan'[r] = chan[r]
        BY <1>1, <3>2
      <4> QED
        BY <1>2, <1>3, <2>1, <4>1, Zenon DEF ResultsTrue
    <3> QED
      BY <3>1, <3>2
  <2> QED
    BY <2>1, Zenon DEF ResultsTrue
<1> USE DEF IInv, Delivers, SameLedger
<1>5. chan' \in [Requests -> Seq(Results)]
  BY <1>1 DEF TypeOK, SendAll
<1>6. TypeOK'
  BY <1>5 DEF TypeOK
<1>7. LedgerConsistent'
  BY DEF LedgerConsistent, RowsSince, Rows
<1>8. UnansweredWhileRunning'
  BY <1>1 DEF UnansweredWhileRunning
<1>9. ListenersWait'
  BY <1>1 DEF ListenersWait, TypeOK
<1>10. SentOnce'
  <2>1. Len(<<result>>) <= 1
    OBVIOUS
  <2>2. \A r \in Requests : chan'[r] = <<result>> \/ chan'[r] = chan[r]
    BY <1>1
  <2>3. \A r \in Requests : Len(chan'[r]) <= 1
    BY <2>1, <2>2, Zenon DEF SentOnce
  <2> QED
    BY <2>3 DEF SentOnce
<1> QED
  BY <1>6, <1>7, <1>8, <1>9, <1>10, <1>4

LEMMA TickFinishStep ==
  ASSUME IInv, NEW h \in Txs, TickFinish(h)
  PROVE  IInv'
<1> USE DEF IInv
<1>1. \A r \in open[h] : pc[r] = "open" /\ tx[r] = h /\ chan[r] = <<>> /\ r \in Requests
  BY DEF ListenersWait, TypeOK
<1>2. /\ HistoryResult(h) = "success" => \E t \in RowsSince(h, 0) : ok[t]
      /\ HistoryResult(h) = "failed" => \E t \in RowsSince(h, 0) : ~ ok[t]
  <2>1. RowsSince(h, 0) # {}
    BY DEF LedgerConsistent, TickFinish
  <2> QED
    BY <2>1, Zenon DEF HistoryResult
<1>3. \A q \in Txs : open'[q] \subseteq open[q] \ open[h]
  BY DEF TickFinish, TypeOK, ListenersWait
<1>4. tick' \in [at : {"idle", "refresh", "load", "finish"},
                 todo : SUBSET {"core", "history"},
                 pending : SUBSET Txs, found : SUBSET Txs, asOf : 0..MaxLedger]
  BY Zenon DEF TickFinish, TypeOK
<1>5. tick'.found \subseteq tick.found
  BY DEF TickFinish, TypeOK
<1>6. /\ open' \in [Txs -> SUBSET Requests] /\ old' \subseteq Txs
      /\ SendAll(open[h], HistoryResult(h)) /\ HistoryResult(h) \in Results
      /\ SameLedger /\ UNCHANGED <<queue, status, pc, tx, faults>>
  BY DEF TickFinish, TypeOK, SameLedger, HistoryResult, Results
<1>7. PICK ls, result : ls = open[h] /\ result = HistoryResult(h)
  OBVIOUS
<1>8. Delivers(ls, result)
  BY <1>1, <1>2, <1>3, <1>5, <1>6, <1>7 DEF Delivers
<1> QED
  BY <1>4, <1>8, DeliversPreserves

LEMMA TickCleanStep ==
  ASSUME IInv, TickClean
  PROVE  IInv'
<1> USE DEF IInv
<1>1. PICK ls : ls = UNION {open[h] : h \in old}
  BY Zenon
<1>2. \A r \in ls : pc[r] = "open" /\ tx[r] \in old /\ chan[r] = <<>> /\ r \in Requests
  BY <1>1 DEF ListenersWait, TypeOK
<1>3. \A q \in Txs : open'[q] \subseteq open[q] \ ls
  BY <1>2 DEF TickClean, TypeOK, ListenersWait
<1>4. tick' \in [at : {"idle", "refresh", "load", "finish"},
                 todo : SUBSET {"core", "history"},
                 pending : SUBSET Txs, found : SUBSET Txs, asOf : 0..MaxLedger]
  BY DEF TickClean, Idle
<1>5. tick'.found \subseteq tick.found
  BY DEF TickClean, Idle
<1>6. /\ open' \in [Txs -> SUBSET Requests] /\ old' \subseteq Txs
      /\ SendAll(ls, "timeout")
      /\ SameLedger /\ UNCHANGED <<queue, status, pc, tx, faults>>
  BY <1>1 DEF TickClean, TypeOK, SameLedger
<1>7. old \subseteq Txs
  BY DEF TypeOK
<1>8. Delivers(ls, "timeout")
  BY <1>2, <1>3, <1>5, <1>6, <1>7 DEF Delivers, Results
<1> QED
  BY <1>4, <1>8, DeliversPreserves

-----------------------------------------------------------------------------
\* The steps of Submit before the result, or the listener, is there.
LEMMA RequestPasses ==
  ASSUME IInv, NEW r \in Requests,
         \/ Request(r) \/ SubmitAccepted(r) \/ SubmitBadSeq(r) \/ SequenceFound(r)
         \/ Lookup(r) /\ pc'[r] = "submit"
  PROVE  IInv'
<1> USE DEF IInv, ReqStep
<1>1. pc[r] # "idle" => tx[r] \in Txs
  BY DEF UnansweredWhileRunning
<1>2. CASE Request(r)
  <2>1. Passes(r, "idle", "lookup")
    BY <1>2 DEF Request, Passes, SameLedger, TypeOK
  <2> QED
    BY <2>1, PassesPreserves
<1>3. CASE SubmitAccepted(r)
  <2>1. Passes(r, "submit", "add")
    BY <1>1, <1>3 DEF SubmitAccepted, Passes, SameLedger, TypeOK
  <2> QED
    BY <2>1, PassesPreserves
<1>4. CASE SubmitBadSeq(r)
  <2>1. Passes(r, "submit", "wait")
    BY <1>1, <1>4 DEF SubmitBadSeq, Passes, SameLedger, TypeOK
  <2> QED
    BY <2>1, PassesPreserves
<1>5. CASE SequenceFound(r)
  <2>1. Passes(r, "wait", "relookup")
    BY <1>1, <1>5 DEF SequenceFound, Passes, SameLedger, TypeOK
  <2> QED
    BY <2>1, PassesPreserves
<1>6. CASE Lookup(r) /\ pc'[r] = "submit"
  <2>1. Passes(r, "lookup", "submit")
    BY <1>1, <1>6 DEF Lookup, Passes, SameLedger, TypeOK
  <2> QED
    BY <2>1, PassesPreserves
<1> QED
  BY <1>2, <1>3, <1>4, <1>5, <1>6

\* The ways in which Submit sends the result itself.
LEMMA RequestAnswers ==
  ASSUME IInv, NEW r \in Requests,
         \/ RejectSequence(r) \/ SubmitFails(r) \/ WaitTimesOut(r) \/ LookupAgain(r)
         \/ Lookup(r) /\ pc'[r] = "open"
  PROVE  IInv'
<1> USE DEF IInv, ReqStep
<1>1. \E result : Answers(r, result)
  <2>1. pc[r] # "idle" => tx[r] \in Txs
    BY DEF UnansweredWhileRunning
  <2>2. CASE RejectSequence(r)
    <3>1. Answers(r, "badSeq")
      BY <2>2 DEF RejectSequence, Answers, SameLedger, TypeOK, Results
    <3> QED
      BY <3>1
  <2>3. CASE SubmitFails(r)
    <3>1. Answers(r, "rejected") \/ Answers(r, "error")
      BY <2>1, <2>3 DEF SubmitFails, Fault, Answers, SameLedger, TypeOK, Results
    <3> QED
      BY <3>1
  <2>4. CASE WaitTimesOut(r)
    <3>1. Answers(r, "timeout")
      BY <2>1, <2>4 DEF WaitTimesOut, Answers, SameLedger, TypeOK, Results
    <3> QED
      BY <3>1
  <2>5. CASE LookupAgain(r)
    <3>1. Answers(r, "success") \/ Answers(r, "badSeq")
      BY <2>1, <2>5 DEF LookupAgain, Fault, Answers, SameLedger, TypeOK, Results
    <3> QED
      BY <3>1
  <2>6. CASE Lookup(r) /\ pc'[r] = "open"
    <3>1. Answers(r, "success") \/ Answers(r, "failed") \/ Answers(r, "error")
      BY <2>1, <2>6, SMTT(20) DEF Lookup, Fault, Answers, SameLedger, TypeOK, Results
    <3> QED
      BY <3>1
  <2> QED
    BY <2>2, <2>3, <2>4, <2>5, <2>6
<1> QED
  BY <1>1, AnswersPreserves

LEMMA InitIInv == Init => IInv
<1> SUFFICES ASSUME Init PROVE IInv
  OBVIOUS
<1>1. TypeOK
  <2>1. ok \in [Txs -> BOOLEAN]
    BY Zenon DEF Init
  <2>2. tick \in [at : {"idle", "refresh", "load", "finish"},
                 todo : SUBSET {"core", "history"},
                 pending : SUBSET Txs, found : SUBSET Txs, asOf : 0..MaxLedger]
    BY DEF Init, Idle
  <2> QED
    BY <2>1, <2>2 DEF Init, TypeOK
<1>2. LedgerConsistent /\ UnansweredWhileRunning /\ ListenersWait
  BY DEF Init, Idle, LedgerConsistent, UnansweredWhileRunning, ListenersWait
<1>3. SentOnce /\ ResultsTrue
  BY DEF Init, SentOnce, ResultsTrue
<1> QED
  BY <1>1, <1>2, <1>3 DEF IInv

LEMMA NextIInv == IInv /\ [Next]_vars => IInv'
<1> SUFFICES ASSUME IInv, [Next]_vars PROVE IInv'
  OBVIOUS
<1>1. CASE UNCHANGED vars
  <2>1. Quiet /\ TypeOK' /\ \A h \in tick'.found : RowsSince(h, 0) # {}
    BY <1>1 DEF vars, IInv, TypeOK, LedgerConsistent, Quiet, SameLedger
  <2> QED
    BY <2>1, QuietStep
<1>2. CASE CloseLedger \/ DropTx \/ IngestLedger
  BY <1>2, EnvironmentStep
<1>3. CASE TickNext \/ \E h \in Txs : Age(h)
  BY <1>3, TickQuietStep, TickFinishStep, TickCleanStep DEF TickNext
<1>4. ASSUME NEW r \in Requests, Request(r) \/ RejectSequence(r) \/ ReqNext(r)
      PROVE  IInv'
  <2>1. Lookup(r) => pc'[r] \in {"submit", "open"}
    BY DEF Lookup, ReqStep, IInv, TypeOK
  <2> QED
    BY <1>4, <2>1, RequestPasses, RequestAnswers, AddStep DEF ReqNext
<1> QED
  BY <1>1, <1>2, <1>3, <1>4 DEF Next

\* Submit, Finish and Clean never send twice on one channel, however requests,
\* ticks, timeouts and failing calls interleave.
THEOREM ChannelSentOnce == Spec => []SentOnce
<1>1. IInv => SentOnce
  BY DEF IInv
<1> QED
  BY <1>1, InitIInv, NextIInv, PTL DEF Spec

\* Every success and every failure that a client is told is in the history
\* database, and stays there.
THEOREM ResultsAreTrue == Spec => []ResultsTrue
<1>1. IInv => ResultsTrue
  BY DEF IInv
<1> QED
  BY <1>1, InitIInv, NextIInv, PTL DEF Spec

\* Every step keeps the state of txsub within its types.
THEOREM TypeCorrect == Spec => []TypeOK
<1>1. IInv => TypeOK
  BY DEF IInv
<1> QED
  BY <1>1, InitIInv, NextIInv, PTL DEF Spec

-----------------------------------------------------------------------------
LEMMA NextCovered == IInv /\ SnapshotCovered /\ [Next]_vars => SnapshotCovered'
<1> SUFFICES ASSUME IInv, SnapshotCovered, [Next]_vars PROVE SnapshotCovered'
  OBVIOUS
<1> USE DEF IInv
<1>1. CASE UNCHANGED <<applied, ingested, tick>>
  BY <1>1 DEF SnapshotCovered, InSnapshot, Rows
<1>2. CASE CloseLedger
  <2>1. \A t \in Txs : InSnapshot(t)' => InSnapshot(t)
    <3>1. /\ \A t \in Txs : applied'[t] = applied[t] \/ applied'[t] = coreLatest + 1
          /\ tick' = tick
      BY <1>2 DEF CloseLedger, TypeOK
    <3>2. tick.asOf < coreLatest + 1 /\ tick.asOf \in Nat
      BY DEF SnapshotCovered, TypeOK
    <3>3. coreLatest \in Nat
      BY DEF TypeOK
    <3> QED
      BY <3>1, <3>2, <3>3 DEF InSnapshot
  <2>2. UNCHANGED <<ingested, tick>>
    BY <1>2 DEF CloseLedger
  <2> QED
    BY <2>1, <2>2 DEF SnapshotCovered, Rows
<1>3. CASE IngestLedger
  BY <1>3 DEF IngestLedger, SnapshotCovered, InSnapshot, Rows, TypeOK
<1>4. CASE StartTick
  BY <1>4 DEF StartTick, SnapshotCovered, TypeOK
<1>5. CASE Refresh
  <2>1. /\ tick'.at = tick.at /\ tick'.asOf = tick.asOf
        /\ tick'.pending = tick.pending /\ tick'.found = tick.found
        /\ UNCHANGED <<applied, ingested>>
    BY <1>5, Zenon DEF Refresh, TypeOK
  <2> QED
    BY <2>1 DEF SnapshotCovered, InSnapshot, Rows
<1>6. CASE TickPending
  <2>1. /\ tick'.at = "finish" => tick'.pending = {}
        /\ tick'.asOf = tick.asOf /\ ingested' = ingested
    BY <1>6 DEF TickPending, TypeOK
  <2> QED
    BY <2>1 DEF SnapshotCovered
<1>7. CASE TickLoad
  <2>1. /\ tick'.asOf = ingested /\ tick'.pending = tick.pending
        /\ tick'.found = {h \in tick.pending : RowsSince(h, sinceLedgerSeq) # {}}
        /\ UNCHANGED <<applied, ingested>>
    BY <1>7, Zenon DEF TickLoad, TypeOK
  <2>2. \A h, t : t \in Rows(h) /\ InSnapshot(t)' => t \in RowsSince(h, sinceLedgerSeq)
    BY <2>1 DEF InSnapshot, RowsSince, Rows, sinceLedgerSeq, TypeOK
  <2>3. ingested <= ingested
    BY DEF TypeOK
  <2> QED
    BY <2>1, <2>2, <2>3 DEF SnapshotCovered, Rows
<1>8. CASE TickFails \/ TickClean
  <2>1. tick' = Idle /\ ingested' \in Nat
    BY <1>8 DEF TickFails, TickClean, TypeOK
  <2> QED
    BY <2>1 DEF SnapshotCovered, Idle
<1>9. ASSUME NEW h \in Txs, TickFinish(h)
      PROVE  SnapshotCovered'
  <2>1. /\ tick'.at = tick.at /\ tick'.asOf = tick.asOf
        /\ tick'.pending = tick.pending \ {h} /\ tick'.found = tick.found \ {h}
        /\ UNCHANGED <<applied, ingested>>
    BY <1>9, Zenon DEF TickFinish, TypeOK
  <2> QED
    BY <2>1 DEF SnapshotCovered, InSnapshot, Rows
<1>10. CASE DropTx \/ \E h \in Txs : Age(h)
  BY <1>1, <1>10 DEF DropTx, Age
<1>11. ASSUME NEW r \in Requests, Request(r) \/ RejectSequence(r) \/ ReqNext(r)
       PROVE  SnapshotCovered'
  BY <1>1, <1>11, Zenon DEF Request, RejectSequence, ReqNext, Lookup, SubmitAccepted, SubmitBadSeq,
    SubmitFails, SequenceFound, WaitTimesOut, LookupAgain, Add
<1>12. CASE UNCHANGED vars
  BY <1>1, <1>12 DEF vars
<1> QED
  BY <1>2, <1>3, <1>4, <1>5, <1>6, <1>7, <1>8, <1>9, <1>10, <1>11, <1>12 DEF Next, TickNext

\* Clean never times out a submission whose result the same tick has read: the
\* results of the snapshot are finished first.
THEOREM ResultBeforeTimeout == Spec => NoTimeoutOverResult
<1> DEFINE Fine ==
      \A r \in Requests :
        (tx[r] # None /\ r \in open[tx[r]] /\ chan'[r] = <<"timeout">> /\ chan[r] = <<>>)
          => ~ (/\ tx[r] \in tick.pending
                /\ \E t \in Rows(tx[r]) : InSnapshot(t))
<1>1. Init => SnapshotCovered
  BY DEF Init, Idle, SnapshotCovered
<1>2. IInv /\ SnapshotCovered /\ [Next]_vars => [Fine]_vars
  <2> SUFFICES ASSUME IInv, SnapshotCovered, Next,
                      NEW r \in Requests, tx[r] # None, r \in open[tx[r]],
                      chan'[r] = <<"timeout">>, chan[r] = <<>>
               PROVE  ~ (/\ tx[r] \in tick.pending
                         /\ \E t \in Rows(tx[r]) : InSnapshot(t))
    OBVIOUS
  <2>1. chan'[r] # chan[r] /\ tx[r] \in Txs /\ pc[r] = "open"
    BY DEF IInv, TypeOK, ListenersWait
  <2>2. ASSUME NEW q \in Requests, Request(q) \/ RejectSequence(q) \/ ReqNext(q)
        PROVE  FALSE
    <3>1. pc[q] # "open"
      BY <2>2, Zenon DEF Request, RejectSequence, ReqNext, Lookup, SubmitAccepted, SubmitBadSeq,
        SubmitFails, SequenceFound, WaitTimesOut, LookupAgain, Add, ReqStep
    <3>2. q # r
      BY <2>1, <3>1
    <3>3. chan' = chan \/ \E result : finish(q, result)
      BY <2>2, Zenon DEF Request, RejectSequence, ReqNext, Lookup, SubmitAccepted, SubmitBadSeq,
        SubmitFails, SequenceFound, WaitTimesOut, LookupAgain, Add
    <3> QED
      BY <2>1, <3>2, <3>3, Zenon DEF finish, IInv, TypeOK
  <2>3. ASSUME NEW h \in Txs, TickFinish(h)
        PROVE  FALSE
    <3>1. chan'[r] = chan[r] \/ chan'[r] = Append(<<>>, HistoryResult(h))
      BY <2>3, Zenon DEF TickFinish, SendAll
    <3>2. HistoryResult(h) # "timeout"
      BY DEF HistoryResult
    <3> QED
      BY <2>1, <3>1, <3>2 DEF HistoryResult
  <2>4. CASE TickClean
    BY <2>4 DEF TickClean, SnapshotCovered
  <2>5. CASE \/ CloseLedger \/ DropTx \/ IngestLedger \/ StartTick \/ Refresh
             \/ TickPending \/ TickLoad \/ TickFails \/ \E h \in Txs : Age(h)
    BY <2>1, <2>5, Zenon DEF CloseLedger, DropTx, IngestLedger, StartTick, Refresh, TickPending,
      TickLoad, TickFails, Age
  <2> QED
    BY <2>2, <2>3, <2>4, <2>5 DEF Next, TickNext
<1> QED
  BY <1>1, <1>2, InitIInv, NextIInv, NextCovered, PTL DEF Spec, NoTimeoutOverResult

-----------------------------------------------------------------------------
\* Who waits for a tick is in its list, and no age outlives its submission.
Listed ==
  /\ \A r \in Requests : pc[r] = "open" /\ chan[r] = <<>> => r \in open[tx[r]]
  /\ \A h \in old : open[h] # {}

LEMMA AppendNotEmpty ==
  ASSUME NEW S, NEW s \in Seq(S), NEW x
  PROVE  Append(s, x) # <<>>
<1>1. Len(Append(s, x)) = Len(s) + 1 /\ Len(s) \in Nat
  OBVIOUS
<1>2. Len(<<>>) = 0
  OBVIOUS
<1> QED
  BY <1>1, <1>2

LEMMA RequestListed ==
  ASSUME IInv, Listed, NEW r \in Requests, Request(r) \/ RejectSequence(r) \/ ReqNext(r)
  PROVE  Listed'
<1> USE DEF Listed
<1>1. /\ pc \in [Requests -> {"idle", "lookup", "submit", "wait", "relookup", "add", "open"}]
      /\ chan \in [Requests -> Seq(Results)] /\ open \in [Txs -> SUBSET Requests]
      /\ tx \in [Requests -> Txs \cup {None}]
      /\ pc[r] # "idle" => tx[r] \in Txs
  BY DEF IInv, TypeOK, UnansweredWhileRunning
<1>2. CASE Add(r)
  <2> DEFINE h == tx[r]
  <2>1. /\ pc[r] = "add" /\ pc' = [pc EXCEPT ![r] = "open"] /\ UNCHANGED <<tx, chan>>
        /\ open' = [open EXCEPT ![h] = open[h] \cup {r}] /\ old' \subseteq old
    BY <1>2 DEF Add, ReqStep
  <2>2. h \in Txs
    BY <1>1, <2>1
  <2> HIDE DEF h
  <2>3. \A g \in Txs : open'[g] = IF g = h THEN open[g] \cup {r} ELSE open[g]
    BY <1>1, <2>1, <2>2, Zenon
  <2>4. ASSUME NEW q \in Requests, pc'[q] = "open", chan'[q] = <<>> PROVE q \in open'[tx'[q]]
    <3>1. CASE q = r
      <4>1. tx'[q] = h
        BY <2>1, <3>1, Zenon DEF h
      <4> QED
        BY <2>2, <2>3, <3>1, <4>1, Zenon
    <3>2. CASE q # r
      <4>1. pc[q] = "open" /\ chan[q] = <<>> /\ tx'[q] = tx[q]
        BY <1>1, <2>1, <2>4, <3>2
      <4>2. q \in open[tx[q]] /\ tx[q] \in Txs
        BY <4>1 DEF IInv, UnansweredWhileRunning
      <4> QED
        BY <2>3, <4>1, <4>2, Zenon
    <3> QED
      BY <3>1, <3>2, Zenon
  <2>5. \A g \in old' : open'[g] # {}
    <3>1. old \subseteq Txs
      BY DEF IInv, TypeOK
    <3> QED
      BY <2>1, <2>3, <3>1
  <2> QED
    BY <2>4, <2>5
<1>3. ASSUME ~ Add(r) PROVE Listed'
  <2>1. UNCHANGED <<open, old>> /\ \A q \in Requests \ {r} : tx'[q] = tx[q] /\ pc'[q] = pc[q]
    BY <1>1, <1>3, Zenon DEF Request, RejectSequence, ReqNext, Lookup, SubmitAccepted, SubmitBadSeq,
       SubmitFails, SequenceFound, WaitTimesOut, LookupAgain, ReqStep, listVars
  <2>2. \/ pc'[r] # "open" /\ chan' = chan
        \/ \E result : finish(r, result)
    BY <1>1, <1>3, Zenon DEF Request, RejectSequence, ReqNext, Lookup, SubmitAccepted, SubmitBadSeq,
       SubmitFails, SequenceFound, WaitTimesOut, LookupAgain, ReqStep
  <2>3. ASSUME NEW result, finish(r, result)
        PROVE  chan'[r] # <<>> /\ \A q \in Requests \ {r} : chan'[q] = chan[q]
    <3>1. chan'[r] = Append(chan[r], result) /\ \A q \in Requests \ {r} : chan'[q] = chan[q]
      BY <1>1, <2>3 DEF finish
    <3>2. Append(chan[r], result) # <<>>
      BY <1>1, AppendNotEmpty
    <3> QED
      BY <3>1, <3>2, Zenon
  <2> QED
    BY <2>1, <2>2, <2>3
<1> QED
  BY <1>2, <1>3

\* Finish and Clean take no listener off the list without a result.
LEMMA TickListed ==
  ASSUME IInv, Listed, TickNext \/ \E h \in Txs : Age(h)
  PROVE  Listed'
<1> USE DEF Listed
<1>1. /\ chan \in [Requests -> Seq(Results)] /\ open \in [Txs -> SUBSET Requests]
      /\ old \subseteq Txs /\ ListenersWait
      /\ \A r \in Requests : pc[r] = "open" => tx[r] \in Txs
  BY DEF IInv, TypeOK, UnansweredWhileRunning
<1>2. CASE StartTick \/ Refresh \/ TickPending \/ TickLoad \/ TickFails
  BY <1>2 DEF StartTick, Refresh, TickPending, TickLoad, TickFails, reqVars, listVars
<1>3. ASSUME NEW h \in Txs, Age(h) PROVE Listed'
  BY <1>3, Zenon DEF Age, reqVars
<1>4. ASSUME NEW ls, NEW result, SendAll(ls, result), NEW r \in Requests
      PROVE  chan'[r] = <<>> => r \notin ls /\ chan[r] = <<>>
  <2>1. chan'[r] = IF r \in ls THEN Append(chan[r], result) ELSE chan[r]
    BY <1>4, Zenon DEF SendAll
  <2>2. Append(chan[r], result) # <<>>
    BY <1>1, AppendNotEmpty
  <2> QED
    BY <2>1, <2>2, Zenon
<1>5. ASSUME NEW h \in Txs, TickFinish(h) PROVE Listed'
  <2>1. /\ UNCHANGED <<pc, tx>> /\ open' = [open EXCEPT ![h] = {}] /\ old' = old \ {h}
        /\ \A r \in Requests : chan'[r] = <<>> => r \notin open[h] /\ chan[r] = <<>>
    BY <1>4, <1>5 DEF TickFinish, reqVars
  <2> QED
    BY <1>1, <2>1
<1>6. CASE TickClean
  <2>1. /\ UNCHANGED <<pc, tx>> /\ open' = [h \in Txs |-> IF h \in old THEN {} ELSE open[h]]
        /\ old' = {}
        /\ \A r \in Requests : chan'[r] = <<>> => r \notin UNION {open[h] : h \in old} /\ chan[r] = <<>>
    BY <1>4, <1>6, Zenon DEF TickClean, reqVars
  <2> QED
    BY <1>1, <2>1
<1> QED
  BY <1>2, <1>3, <1>5, <1>6, Zenon DEF TickNext

\* System.Submit, Finish and Clean: a request that still waits for its result
\* is in the open submission list under its hash, so that every tick looks for
\* it, and Clean ends it when the submission is too old; and a hash is too old
\* only while someone waits for it.  It is what Answered rests on, apart from
\* fairness.
THEOREM NobodyForgotten == Spec => []Listed
<1>1. Init => Listed
  BY DEF Init, Listed
<1>2. IInv /\ Listed /\ [Next]_vars => Listed'
  <2> SUFFICES ASSUME IInv, Listed, [Next]_vars PROVE Listed'
    OBVIOUS
  <2>1. CASE UNCHANGED vars
    BY <2>1, Zenon DEF vars, reqVars, listVars, Listed
  <2>2. CASE CloseLedger \/ DropTx \/ IngestLedger
    BY <2>2 DEF CloseLedger, DropTx, IngestLedger, reqVars, listVars, Listed
  <2> QED
    BY <2>1, <2>2, RequestListed, TickListed DEF Next
<1> QED
  BY <1>1, <1>2, InitIInv, NextIInv, PTL DEF Spec
=============================================================================
