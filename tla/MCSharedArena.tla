---------------------------- MODULE MCSharedArena ----------------------------
(***************************************************************************)
(* The instances of SharedArena that TLC checks: one thread that allocates *)
(* and shrinks beside threads that drop handles, two threads that do       *)
(* everything or everything but shrink, and one thread alone.              *)
(***************************************************************************)
EXTENDS SharedArena

CONSTANTS t1, t2

OneThread == {t1}

NoThread == {}

TwoThreads == {t1, t2}

=============================================================================
