------------------------------- MODULE MCArena -------------------------------
(***************************************************************************)
(* The instances of Arena that TLC checks: the owner, which also drops     *)
(* handles, beside two other threads.                                      *)
(***************************************************************************)
EXTENDS Arena

CONSTANTS owner, t1, t2

ThreeThreads == {owner, t1, t2}
=============================================================================
