------------------------------ MODULE PageLife ------------------------------
(***************************************************************************)
(* What the bitfield of a page promises, without the word, the threads and *)
(* the order of their atomic operations: a page is shared by its arena and *)
(* by the blocks in use, it is freed exactly once, only when nobody shares *)
(* it any more, and from that moment nobody comes to share it again        *)
(* ("used to determine when to deallocate the Page",                       *)
(* src/page/shared_arena.rs, field bitfield).                              *)
(***************************************************************************)

CONSTANTS
  Blocks,   \* the blocks of the page
  Arena     \* the arena the page belongs to, which is not one of them

VARIABLES
  sharers,  \* the arena, until it lets the page go, and the blocks in use
  freed     \* the page has been given back to the system allocator

vars == <<sharers, freed>>

TypeOK ==
  /\ sharers \subseteq Blocks \cup {Arena}
  /\ freed \in BOOLEAN

Init ==
  /\ sharers = {Arena}
  /\ freed = FALSE

\* A free block is handed out. The page is still shared by somebody.
Take(b) ==
  /\ sharers # {}
  /\ b \notin sharers
  /\ sharers' = sharers \cup {b}
  /\ UNCHANGED freed

\* A block comes back, or the arena lets the page go.
Leave(s) ==
  /\ s \in sharers
  /\ sharers' = sharers \ {s}
  /\ UNCHANGED freed

Free ==
  /\ sharers = {}
  /\ ~freed
  /\ freed' = TRUE
  /\ UNCHANGED sharers

\* The last to leave frees the page in the same step.
LeaveAndFree(s) ==
  /\ sharers = {s}
  /\ ~freed
  /\ sharers' = {}
  /\ freed' = TRUE

Next ==
  \/ \E b \in Blocks : Take(b)
  \/ \E s \in Blocks \cup {Arena} : Leave(s)
  \/ Free
  \/ \E s \in Blocks \cup {Arena} : LeaveAndFree(s)

Spec == Init /\ [][Next]_vars /\ WF_vars(Free)
=============================================================================
