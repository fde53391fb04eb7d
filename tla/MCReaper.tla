------------------------------ MODULE MCReaper -------------------------------
\* One instance that retains two ledgers.
EXTENDS Reaper

CONSTANT i1

MCInstances == {i1}
MCRetentionCount == [i \in Instances |-> 2]
=============================================================================
