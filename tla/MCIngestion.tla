---------------------------- MODULE MCIngestion ----------------------------
(* Small instances of Ingestion for TLC.                                   *)
EXTENDS Ingestion

CONSTANTS n1, n2, c1

\* One ingestion version everywhere, or a rolling upgrade: n2 is newer.
SameVersion == [p \in Procs |-> 1]
Upgrade     == [p \in Procs |-> IF p = n2 THEN 2 ELSE 1]

\* Ranges inside, across and above what the instances have ingested.
MCRanges ==
  {[from |-> 1, to |-> 3, force |-> FALSE],
   [from |-> 4, to |-> 5, force |-> FALSE],
   [from |-> 3, to |-> 8, force |-> FALSE],
   [from |-> 3, to |-> 5, force |-> TRUE]}
=============================================================================
