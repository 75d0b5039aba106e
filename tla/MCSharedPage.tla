---------------------------- MODULE MCSharedPage ----------------------------
(***************************************************************************)
(* The instances of SharedPage that TLC checks.                            *)
(***************************************************************************)
EXTENDS SharedPage

CONSTANTS t1, t2, t3

TwoThreads == {t1, t2}

ThreeThreads == {t1, t2, t3}

\* t1 allocates and shrinks; the others drop and clone what it hands out.
Mover == [alloc |-> {t1}, shrink |-> {t1}]

\* t1 and t2 allocate, nobody shrinks.
NoShrinker == [alloc |-> {t1, t2}, shrink |-> {}]

\* t2 shrinks while t1 allocates.
TwoMovers == [alloc |-> {t1, t2}, shrink |-> {t2}]

OnlyMover == {Mover}

Orderly == {Mover, NoShrinker}

Disorderly == {TwoMovers}
=============================================================================
