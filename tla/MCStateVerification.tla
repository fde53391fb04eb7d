------------------------ MODULE MCStateVerification ------------------------
(* A small instance of StateVerification for TLC.                          *)
EXTENDS StateVerification

CONSTANTS n1, n2
=============================================================================
