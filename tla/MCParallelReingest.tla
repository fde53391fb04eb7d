------------------------ MODULE MCParallelReingest ------------------------
(* Small instances of ParallelReingest for TLC.                            *)
EXTENDS ParallelReingest

CONSTANTS w1, w2
=============================================================================
