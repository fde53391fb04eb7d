--------------------------- MODULE MCCaptiveCore ---------------------------
\* Instances of CaptiveCore for TLC.
EXTENDS CaptiveCore, TLC

\* An unbounded range, a bounded one that starts inside a checkpoint, and one
\* from the ledger that is never streamed.
AllRanges ==
  {[from |-> 2, to |-> 0], [from |-> 3, to |-> 3], [from |-> 1, to |-> 3]}

\* An unbounded range that starts inside the first checkpoint, and a bounded
\* one that starts with it.
RestartRanges == {[from |-> 3, to |-> 0], [from |-> 2, to |-> 2]}
=============================================================================
