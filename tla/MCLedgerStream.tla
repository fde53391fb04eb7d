--------------------------- MODULE MCLedgerStream ----------------------------
\* One instance, one client.
EXTENDS LedgerStream

CONSTANT i1

MCInstances == {i1}
=============================================================================
