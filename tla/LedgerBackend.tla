--------------------------- MODULE LedgerBackend ---------------------------
\* What the LedgerBackend interface (ingest/ledgerbackend/ledger_backend.go)
\* promises its callers, whatever process or store is behind it: a session
\* reads one chain of ledgers in order, without gaps and not past the end of a
\* bounded range, and a call that succeeds returns the ledger it asked for.
EXTENDS Integers

CONSTANTS
  Ledgers,   \* ledgers, records with a sequence number seq and a chain
  Ranges,    \* ranges, records with bounds from and to (0: unbounded)
  None       \* no ledger, no range

VARIABLES
  range,     \* range of the session, None before the first
  tip,       \* the ledger read last
  fresh,     \* no ledger was read in this session
  answer     \* the ledger asked for by the last call and what it returned

vars == <<range, tip, fresh, answer>>

\* The answer to a call that asked for ledger s.
Answer(s, l) == [asked |-> s, got |-> l]

\* l is the ledger after k in the same chain.
Extends(l, k) == l.seq = k.seq + 1 /\ l.chain = k.chain

\* First ledger of a range that can be read: ledger 1 never is.
First(r) == IF r.from = 1 THEN 2 ELSE r.from

\* l may be read next: the first ledger of a session is not after the start of
\* its range, every other one extends the one before.
Readable(l) ==
  /\ range # None
  /\ IF fresh THEN l.seq <= First(range) ELSE Extends(l, tip)
  /\ range.to = 0 \/ l.seq <= range.to

Init ==
  /\ range = None /\ tip = None /\ fresh = TRUE
  /\ answer = Answer(0, None)

\* PrepareRange starts a session.
Open ==
  /\ \E r \in Ranges : range' = r
  /\ fresh' = TRUE
  /\ UNCHANGED <<tip, answer>>

\* The next ledger is read, and returned if it is the one asked for.
Read ==
  \E l \in Ledgers :
    /\ Readable(l)
    /\ tip' = l /\ fresh' = FALSE
    /\ answer' \in {answer, Answer(l.seq, l)}
    /\ UNCHANGED range

\* GetLedger returns the ledger read last.
Return ==
  /\ tip # None
  /\ answer' = Answer(tip.seq, tip)
  /\ UNCHANGED <<range, tip, fresh>>

\* A call fails.
Fail ==
  /\ answer' = Answer(0, None)
  /\ UNCHANGED <<range, tip, fresh>>

Next == Open \/ Read \/ Return \/ Fail

Spec == Init /\ [][Next]_vars
=============================================================================
