------------------------------ MODULE MCTxSub ------------------------------
EXTENDS TxSub, TLC

CONSTANTS r1, r2, t1, f1

\* Two transactions of one account, one the fee bump of the other.
MCInner == f1 :> t1 @@ t1 :> None
MCSeqNum == f1 :> 1 @@ t1 :> 1
=============================================================================
