------------------------- MODULE MCOrderBookStream -------------------------
(* A small instance of OrderBookStream for TLC.  Entries never influence    *)
(* each other, so one entry per life that an entry can have, all in one     *)
(* instance, stands for every set of such entries.                          *)
EXTENDS OrderBookStream, Sequences, FiniteSets, FiniteSetsExt

CONSTANT MaxChanges   \* BOUND: ledgers that change one entry

\* The ledger that last modified an entry, as of every ledger: it is created,
\* updated, removed and created again by any MaxChanges ledgers.
Lives ==
  {h \in [0..MaxLedger -> 0..MaxLedger] :
     /\ h[0] = 0
     /\ \A l \in 1..MaxLedger : h[l] \in {h[l - 1], l, 0}
     /\ Cardinality({l \in 1..MaxLedger : h[l] # h[l - 1]}) \in 1..MaxChanges}

LifeSeq == FoldSet(LAMBDA h, s : Append(s, h), <<>>, Lives)
MCEntries == DOMAIN LifeSeq
MCChain == [l \in 0..MaxLedger |-> [e \in MCEntries |-> LifeSeq[e][l]]]
=============================================================================
