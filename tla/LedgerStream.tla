---------------------------- MODULE LedgerStream -----------------------------
\* Streaming of history, end to end: the Go client's Client.stream
\* (clients/auroraclient), which reconnects to any instance with the ID of
\* the last event it got, and the server's StreamHandler.ServeStream
\* (services/aurora/internal/render/sse), which sends a page of events, waits
\* until the cached ledger state of its instance moves, and queries again.
\* The stream is that of the ledgers, oldest first; an event's ID is its ledger.
EXTENDS LedgerState, FiniteSets, Sequences

CONSTANT Limit   \* events that a session may send, and records of a page

ASSUME LedgerStreamAssumption == Instances # {} /\ Limit \in Nat /\ Limit > 0

VARIABLES
  cli,         \* the client: "connect", "read" or "ended", its cursor and, as a
               \* history variable, the last event its handler got
  srv,         \* the session
  wire,        \* events sent and not yet received
  late         \* history variable: ledgers were filled in since the latest one

serverVars == <<historyVars, cacheVars, late>>
sessionVars == <<cli, srv, wire>>
streamVars == <<serverVars, sessionVars>>

Now == -1    \* the cursor "now"
None == -1   \* the Last-Event-ID header is not set

\* now: the cursor the request is read with is still "now"; pq: that cursor as
\* renderStream resolved it; limit: events left; current: the ledger after
\* which NextLedger waits; from (history variable): the ledgers up to it may be
\* sent a ledger late.
Closed(i) ==
  [pc |-> "closed", on |-> i, now |-> FALSE, pq |-> 0, lastEventID |-> None,
   cursor |-> 0, current |-> 0, from |-> 0, limit |-> 0]

StreamInit ==
  /\ CacheInit
  /\ \E c \in {Now, 0} : cli = [pc |-> "connect", cursor |-> c, got |-> c]
  /\ srv = Closed(CHOOSE i \in Instances : TRUE)
  /\ wire = <<>> /\ late = FALSE

-----------------------------------------------------------------------------
(* The server.                                                             *)

\* getCursor: "now" is the end of the latest ledger in the cached state.
getCursor(i, c) == IF c = Now THEN status[i].HistoryLatest ELSE c

\* The request arrives at instance i: renderStream resolves the cursor.
Connect(i) ==
  /\ cli.pc = "connect"
  /\ cli' = [cli EXCEPT !.pc = "read"]
  /\ srv' = [pc |-> "start", on |-> i, now |-> (cli.cursor = Now),
             pq |-> getCursor(i, cli.cursor), lastEventID |-> None,
             cursor |-> 0, current |-> 0, from |-> 0, limit |-> Limit]
  /\ UNCHANGED <<serverVars, wire>>

\* ServeStream: CurrentLedger, before the first query.
ServeStream ==
  /\ srv.pc = "start"
  /\ srv' = [srv EXCEPT !.pc = "page", !.current = status[srv.on].ExpHistoryLatest,
                        !.from = IF srv.now THEN status[srv.on].ExpHistoryLatest ELSE 0]
  /\ UNCHANGED <<serverVars, cli, wire>>

\* GetResourcePage resolves the cursor again, unless an event was sent.
GetPageQuery ==
  /\ srv.pc = "page"
  /\ srv' = [srv EXCEPT !.pc = "select",
                        !.cursor = IF srv.lastEventID # None THEN srv.lastEventID
                                   ELSE getCursor(srv.on, IF srv.now THEN Now ELSE srv.pq)]
  /\ UNCHANGED <<serverVars, cli, wire>>

\* MUTANT: a page is one record shorter than what a session may send.
PageShort(c) ==
  LET after == {l \in history : l > c}
  IN  {l \in after : Cardinality({k \in after : k < l}) < Limit - 1}

\* MUTANT: a page starts at its cursor.
PageFrom(c) ==
  LET after == {l \in history : l >= c}
  IN  {l \in after : Cardinality({k \in after : k < l}) < Limit}

\* The ledgers of a page: the first Limit of those after cursor c.
Page(c) ==
  LET after == {l \in history : l > c}
  IN  {l \in after : Cardinality({k \in after : k < l}) < Limit}

\* MUTANT: the limit of the session is not applied to a page.
AscendingAll(S, n) ==
  [k \in 1..Cardinality(S) |-> CHOOSE l \in S : Cardinality({m \in S : m < l}) = k - 1]

\* The first n elements of S, in order.
Ascending(S, n) ==
  [k \in 1..(IF Cardinality(S) < n THEN Cardinality(S) ELSE n) |->
     CHOOSE l \in S : Cardinality({m \in S : m < l}) = k - 1]

\* Where the next query starts.
LastEventID(page) ==
  IF page # {} THEN LatestLedger(page)
  ELSE IF srv.lastEventID # None THEN srv.lastEventID ELSE srv.pq

\* The query, and the events it gives; a session that sent Limit events is done.
GenerateEvents ==
  LET page == Page(srv.cursor)
      events == Ascending(page, srv.limit)
      limit == srv.limit - Len(events)
  IN  /\ srv.pc = "select"
      /\ wire' = wire \o events
      /\ srv' = IF limit = 0 THEN Closed(srv.on)
                ELSE [srv EXCEPT !.pc = "wait", !.cursor = 0, !.limit = limit,
                                 !.lastEventID = LastEventID(page),
                                 !.now = @ /\ LastEventID(page) = None]
      /\ UNCHANGED <<serverVars, cli>>

\* MUTANT: a session sleeps through one new ledger.
NextLedgerLate ==
  /\ srv.pc = "wait" /\ status[srv.on].ExpHistoryLatest > srv.current + 1
  /\ srv' = [srv EXCEPT !.pc = "page", !.current = status[srv.on].ExpHistoryLatest]
  /\ UNCHANGED <<serverVars, cli, wire>>

\* HistoryDBSource.NextLedger polls the cached state.
NextLedger ==
  /\ srv.pc = "wait" /\ status[srv.on].ExpHistoryLatest > srv.current
  /\ srv' = [srv EXCEPT !.pc = "page", !.current = status[srv.on].ExpHistoryLatest]
  /\ UNCHANGED <<serverVars, cli, wire>>

\* The context ends while waiting, or after the first page an error is sent
\* as an event; what was sent still arrives.
StreamDone ==
  /\ srv.pc # "closed" /\ srv.lastEventID # None
  /\ srv' = Closed(srv.on)
  /\ UNCHANGED <<serverVars, cli, wire>>

\* Instance i stops, with its session, and starts again.
StopSession(i) ==
  /\ Forget(i)
  /\ srv' = IF srv.on = i THEN Closed(i) ELSE srv
  /\ UNCHANGED <<late, cli, wire>>

-----------------------------------------------------------------------------
(* The client.                                                             *)

\* An event: its ID becomes the cursor.
Receive ==
  /\ cli.pc = "read" /\ wire # <<>>
  /\ cli' = [cli EXCEPT !.cursor = Head(wire), !.got = Head(wire)]
  /\ wire' = Tail(wire)
  /\ UNCHANGED <<serverVars, srv>>

\* The end of the response: the next request.
EndOfFile ==
  /\ cli.pc = "read" /\ wire = <<>> /\ srv.pc = "closed"
  /\ cli' = [cli EXCEPT !.pc = "connect"]
  /\ UNCHANGED <<serverVars, srv, wire>>

\* A proxy closes the connection: events on their way are lost.
Break ==
  /\ cli.pc = "read"
  /\ cli' = [cli EXCEPT !.pc = "connect"]
  /\ srv' = Closed(srv.on) /\ wire' = <<>>
  /\ UNCHANGED serverVars

\* The request fails, is answered with an error, or its events cannot be
\* read: stream returns.
ClientEnds ==
  /\ cli.pc # "ended"
  /\ cli' = [pc |-> "ended", cursor |-> Now, got |-> Now]
  /\ srv' = Closed(srv.on) /\ wire' = <<>>
  /\ UNCHANGED serverVars

ServerStep == ServeStream \/ GetPageQuery \/ GenerateEvents \/ NextLedger \/ StreamDone
ClientStep == Receive \/ EndOfFile \/ Break \/ ClientEnds \/ \E i \in Instances : Connect(i)

\* Ingestion adds a ledger on top of history.
NewLedger ==
  /\ lastIngested' = lastIngested + 1 /\ latestHistory < lastIngested'
  /\ history' # history

StreamNext ==
  \/ /\ HistoryStep
     /\ late' = (~ NewLedger /\ (late \/ history' # history))
     /\ UNCHANGED <<cacheVars, sessionVars>>
  \/ \E i \in Instances :
       \/ UpdateAuroraLedgerState(i) /\ UNCHANGED <<late, sessionVars>>
       \/ StopSession(i)
  \/ ServerStep
  \/ ClientStep

\* Ledgers go away: a reaper, or a forced reingestion that fails.
LedgersRemoved ==
  /\ \E a \in 1..MaxLedger, b \in 0..MaxLedger : DeleteRangeAll(a, b) \/ ReingestPartial(a, b)
  /\ late' = TRUE
  /\ UNCHANGED <<cacheVars, sessionVars>>

StreamSpec == StreamInit /\ [][StreamNext \/ LedgersRemoved]_streamVars

\* The state is not built again at a ledger below one that was ingested: a
\* session that remembers the later one would wait until it is passed.
Onward ==
  \/ lastIngested' \in {0, lastIngested}
  \/ lastIngested > 0 /\ lastIngested' = lastIngested + 1
  \/ lastIngested' >= lastIngested /\ lastIngested' >= latestHistory

OnwardSpec == StreamInit /\ [][StreamNext /\ Onward]_streamVars

\* App.run ticks every second and its queries succeed again and again.  The
\* client reconnects; connections may break at any time, but not so that one
\* step of a session is cut off each time it is due.  No ledger goes away.
FairStreamSpec ==
  /\ OnwardSpec
  /\ \A i \in Instances :
       /\ WF_streamVars(QueryLatest(i) /\ UNCHANGED <<late, sessionVars>>)
       /\ SF_streamVars(SetAuroraStatus(i) /\ UNCHANGED <<late, sessionVars>>)
  /\ WF_streamVars(\E i \in Instances : Connect(i)) /\ WF_streamVars(EndOfFile)
  /\ SF_streamVars(ServeStream) /\ SF_streamVars(GetPageQuery)
  /\ SF_streamVars(GenerateEvents) /\ SF_streamVars(NextLedger) /\ SF_streamVars(Receive)

-----------------------------------------------------------------------------
(* Properties.                                                             *)

StreamTypeOK ==
  /\ CacheTypeOK
  /\ cli \in [pc : {"connect", "read", "ended"}, cursor : Ledger \cup {Now},
              got : Ledger \cup {Now}]
  /\ srv \in [pc : {"closed", "start", "page", "select", "wait"}, on : Instances,
              now : BOOLEAN, pq : Ledger, lastEventID : Ledger \cup {None},
              cursor : Ledger, current : Ledger, from : Ledger, limit : 0..Limit]
  /\ wire \in Seq(1..MaxLedger) /\ Len(wire) <= Limit /\ late \in BOOLEAN

\* The last event its handler got, then the events on their way to it.
Events(got, w) == IF got = Now THEN w ELSE <<got>> \o w

SentInOrder(before, after) ==
  \A k \in 1..(Len(after) - 1) : k >= Len(before) =>
    /\ after[k] < after[k + 1]
    /\ \A l \in history : ~ (after[k] < l /\ l < after[k + 1])

\* The events that reach a client's handler, over sessions, instances and lost
\* connections: whenever events are sent, each is later than the one before it,
\* be that sent now, still on its way or the last that the handler got, and
\* every ledger between the two that is in history is sent as well.
InOrder ==
  [][Len(wire') > Len(wire) => SentInOrder(Events(cli.got, wire), Events(cli.got, wire'))]_wire

\* Where the client's stream stands.  "now" is settled when the session starts:
\* by the cached state that renderStream reads, and by the one ServeStream reads.
Position ==
  IF cli.cursor # Now THEN {cli.cursor}
  ELSE IF srv.pc \in {"closed", "start"} THEN {MaxLedger} ELSE {srv.pq, srv.from}

\* A ledger that a streaming client lacks; one that was filled in is sent
\* with the next new ledger only.
Starved ==
  /\ cli.pc # "ended" /\ ~ late
  /\ \E l \in history : l <= lastIngested /\ \A p \in Position : l > p

\* A session that waits while its client lacks a ledger will be woken: the next
\* refresh of the cached state passes the ledger it remembers.  No ledger is
\* committed, cached or cut off a page unnoticed between what CurrentLedger
\* read, what the query saw and what NextLedger compares with.
NoMissedWakeup ==
  srv.pc = "wait" /\ wire = <<>> /\ Starved => lastIngested > srv.current

\* "sending data every time there is a new ledger" (stream_handler.go): a
\* client that keeps streaming is brought up to the last ingested ledger,
\* though sessions end, connections break, instances lag, and a session is only
\* woken when the cached state passes the ledger it remembers.
Delivered == []<> ~ Starved
=============================================================================
