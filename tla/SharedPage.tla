----------------------------- MODULE SharedPage -----------------------------
(***************************************************************************)
(* One page of a SharedArena, the handles (ArenaBox, ArenaArc, ArenaRc) to *)
(* its blocks and the threads that use it: src/page/shared_arena.rs,       *)
(* src/arena_box.rs, src/arena_arc.rs, src/arena_rc.rs.                    *)
(*                                                                         *)
(* Every atomic operation on the page is a step of its own, so the threads *)
(* interleave between the load and the fetch_and of acquire_free_block and *)
(* between the fetch_add of drop_block and everything drop_block reads     *)
(* after it.  The lists of the arena appear only as the place `at' where   *)
(* the arena keeps the page, and as `strays' where it has the page besides *)
(* after a stale compare_exchange; module SharedArena has the lists.       *)
(*                                                                         *)
(* What the crate guarantees depends on who uses the arena.  Each          *)
(* behaviour follows one of the disciplines in Usages: which threads call  *)
(* alloc and its like, and which call shrink_to_fit.  Any thread may hold, *)
(* clone and drop handles.                                                 *)
(***************************************************************************)
EXTENDS Bitfield

CONSTANTS
  Threads,
  MaxArcs,   \* bound on the clones of one ArenaArc
  Usages     \* the ways the clients may share the work

ASSUME SharedPageAssumption ==
  /\ MaxArcs \in Nat /\ MaxArcs >= 1
  /\ Usages \subseteq [alloc : SUBSET Threads, shrink : SUBSET Threads]

VARIABLES
  bitfield,    \* the 1 bits of page.bitfield
  inFreeList,  \* page.in_free_list
  freed,       \* deallocate_page was executed
  counter,     \* block.counter
  live,        \* the blocks whose value is initialised and not yet dropped
  boxes,       \* the blocks an ArenaBox points to
  arcs,        \* how many ArenaArc (or ArenaRc) point to each block
  usage,       \* who allocates and who shrinks, chosen once and for all
  at,          \* where the arena keeps the page, one of Places
  strays,      \* where the arena may have the page too: "listed", "held"
  arena,       \* "open" or "dropped"
  pc,          \* what each thread does next
  blk          \* the index of the block it does it with

pageVars == <<bitfield, inFreeList, freed>>
handleVars == <<counter, live, boxes, arcs>>
arenaVars == <<usage, at, strays, arena>>
vars == <<bitfield, inFreeList, freed, counter, live, boxes, arcs, usage, at, strays, arena,
          pc, blk>>

\* The thread, if there is one, that does all of the moving of pages between
\* the lists.
OneMover(use) == \E t \in Threads : use.alloc \cup use.shrink \subseteq {t}

\* The disciplines under which the crate keeps its promises about freeing: one
\* thread allocates and shrinks, or nobody shrinks.
OrderlyUses == \A use \in Usages : OneMover(use) \/ use.shrink = {}

\* "listed" in free_list or pending_free_list, "out" of both after find_place
\* removed it; "withdrawn" by a shrink_to_fit in progress, which either puts it
\* in to_free ("held") or leaves it in full_list only ("stranded"); "retired"
\* by drop_page.
Places == {"listed", "out", "withdrawn", "held", "stranded", "retired"}

\* The points at which a thread is inside find_place or alloc on this page,
\* holding a `&self' borrow of the arena.
Allocating == {"load", "and", "next", "cas", "unmark", "publish"}

\* The points at which a thread is about to push the page.
Pushing == {"upgrade", "push", "pushCas"}

\* The points at which a thread is about to access the memory of the page: the
\* two compare_exchange are on the arena's lists.
Touching == {"load", "and", "next", "unmark", "publish",
             "value", "add", "marked", "swap", "upgrade", "push"}

Labels == Touching \cup {"idle", "cas", "pushCas", "retain", "dealloc", "panic", "wild"}

TypeOK ==
  /\ bitfield \subseteq Bits
  /\ inFreeList \in BOOLEAN
  /\ freed \in BOOLEAN
  /\ counter \in [Blocks -> Nat]
  /\ live \subseteq Blocks
  /\ boxes \subseteq Blocks
  /\ arcs \in [Blocks -> Nat]
  /\ usage \in Usages
  /\ at \in Places
  /\ strays \subseteq {"listed", "held"}
  /\ arena \in {"open", "dropped"}
  /\ pc \in [Threads -> Labels]
  /\ blk \in [Threads -> Nat]

\* PageSharedArena::new; with_capacity has put the page on the free list.
Init ==
  /\ bitfield = Bits
  /\ inFreeList = TRUE
  /\ freed = FALSE
  /\ counter = [b \in Blocks |-> 0]
  /\ live = {}
  /\ boxes = {}
  /\ arcs = [b \in Blocks |-> 0]
  /\ usage \in Usages
  /\ at = "listed"
  /\ strays = {}
  /\ arena = "open"
  /\ pc = [t \in Threads |-> "idle"]
  /\ blk = [t \in Threads |-> 0]

Goto(t, label) == pc' = [pc EXCEPT ![t] = label]

\* find_place or shrink_to_fit can find the page in the lists; whoever empties
\* to_free can find it there.
Listed == "listed" \in {at} \cup strays
Held == "held" \in {at} \cup strays

-----------------------------------------------------------------------------
(* Faulty variants of the actions below, named for the slip. No behaviour  *)
(* of this module uses them: a property is worth its run only if the slip, *)
(* put in the place of the action, violates it.                            *)

FetchAndUnchecked(t) ==
  /\ pc[t] = "and"
  /\ ~freed
  /\ bitfield' = FetchAndNot(bitfield, ShiftedOne(blk[t]))
  /\ Goto(t, IF blk[t] \in Blocks THEN "publish" ELSE "next")
  /\ UNCHANGED <<inFreeList, freed, handleVars, arenaVars, blk>>

PublishUncounted(t) ==
  /\ pc[t] = "publish"
  /\ ~freed
  /\ live' = live \cup {blk[t]}
  /\ \/ boxes' = boxes \cup {blk[t]} /\ UNCHANGED arcs
     \/ arcs' = [arcs EXCEPT ![blk[t]] = 1] /\ UNCHANGED boxes
  /\ Goto(t, "idle")
  /\ UNCHANGED <<pageVars, counter, arenaVars, blk>>

DropBoxCounterNotReset(t, b) ==
  /\ pc[t] = "idle"
  /\ ~freed
  /\ b \in boxes
  /\ boxes' = boxes \ {b}
  /\ Goto(t, IF counter[b] = 1 THEN "value" ELSE "panic")
  /\ blk' = [blk EXCEPT ![t] = b]
  /\ UNCHANGED <<pageVars, counter, live, arcs, arenaVars>>

DropBoxWithoutDropBlock(t, b) ==
  /\ pc[t] = "idle"
  /\ ~freed
  /\ b \in boxes
  /\ boxes' = boxes \ {b}
  /\ counter' = [counter EXCEPT ![b] = 0]
  /\ UNCHANGED <<pageVars, live, arcs, arenaVars, pc, blk>>

DropArcTestsNewCount(t, b) ==
  /\ pc[t] = "idle"
  /\ ~freed
  /\ arcs[b] > 0
  /\ arcs' = [arcs EXCEPT ![b] = @ - 1]
  /\ counter' = [counter EXCEPT ![b] = @ - 1]
  /\ Goto(t, IF counter[b] - 1 = 1 THEN "value" ELSE "idle")
  /\ blk' = [blk EXCEPT ![t] = b]
  /\ UNCHANGED <<pageVars, live, boxes, arenaVars>>

FetchAddIgnoresArenaBit(t) ==
  /\ pc[t] = "add"
  /\ ~freed
  /\ bitfield' = FetchAddBit(bitfield, blk[t])
  /\ Goto(t, IF Blocks \subseteq bitfield \cup {blk[t]} THEN "dealloc" ELSE "marked")
  /\ UNCHANGED <<inFreeList, freed, handleVars, arenaVars, blk>>

FetchAddTestsOldWord(t) ==
  /\ pc[t] = "add"
  /\ ~freed
  /\ bitfield' = FetchAddBit(bitfield, blk[t])
  /\ Goto(t, IF Bits \ bitfield = {ArenaBit} THEN "dealloc" ELSE "marked")
  /\ UNCHANGED <<inFreeList, freed, handleVars, arenaVars, blk>>

SwapMarkIgnoresOld(t) ==
  /\ pc[t] = "swap"
  /\ ~freed
  /\ inFreeList' = TRUE
  /\ Goto(t, "upgrade")
  /\ UNCHANGED <<bitfield, freed, handleVars, arenaVars, blk>>

WithdrawUnmarks(t) ==
  /\ t \in usage.shrink
  /\ pc[t] = "idle"
  /\ arena = "open"
  /\ at = "listed"
  /\ bitfield = Bits
  /\ at' = "withdrawn"
  /\ inFreeList' = FALSE
  /\ Goto(t, "retain")
  /\ UNCHANGED <<bitfield, freed, handleVars, usage, strays, arena, blk>>

DropPageAlwaysFrees(t) ==
  /\ pc[t] = "idle"
  /\ ~freed
  /\ at' = "retired"
  /\ bitfield' = FetchSubArenaBit(bitfield)
  /\ Goto(t, "dealloc")
  /\ UNCHANGED <<inFreeList, freed, handleVars, usage, strays, blk>>

DropPageTestsNewWord(t) ==
  /\ pc[t] = "idle"
  /\ ~freed
  /\ at' = "retired"
  /\ bitfield' = FetchSubArenaBit(bitfield)
  /\ Goto(t, IF Bits \ bitfield' = {} THEN "dealloc" ELSE "idle")
  /\ UNCHANGED <<inFreeList, freed, handleVars, usage, strays, blk>>

-----------------------------------------------------------------------------
(* Allocation: SharedArena::find_place, acquire_free_block, alloc.         *)

\* find_place reads this page from the head of the free list.
FindPage(t) ==
  /\ t \in usage.alloc
  /\ pc[t] = "idle"
  /\ arena = "open"
  /\ Listed
  /\ Goto(t, "load")
  /\ UNCHANGED <<pageVars, handleVars, arenaVars, blk>>

\* find_place takes another page off the free list and installs the next_free
\* that it read before: this page. A thread alone in moving pages finds there
\* the page's own successor, which stays in the list. Beside another mover the
\* next_free may be stale and the page anywhere by then.
InstallStaleNext(t) ==
  /\ t \in usage.alloc
  /\ pc[t] = "idle"
  /\ arena = "open"
  /\ ~OneMover(usage)
  /\ strays' = strays \cup {"listed"}
  /\ UNCHANGED <<pageVars, handleVars, usage, at, arena, pc, blk>>

\* acquire_free_block: the load and the choice of an index.
LoadBitfield(t) ==
  /\ pc[t] = "load"
  /\ ~freed
  /\ LET i == TrailingZeros(bitfield)
     IN  IF i = BLOCK_PER_PAGE
         THEN Goto(t, "next") /\ UNCHANGED blk
         ELSE Goto(t, "and") /\ blk' = [blk EXCEPT ![t] = i]
  /\ UNCHANGED <<pageVars, handleVars, arenaVars>>

\* acquire_free_block: the fetch_and and its check. An index that is not
\* that of a block (both the block bits and the arena bit were clear) wraps
\* in the shift, and blocks.get(index) gives None.
FetchAnd(t) ==
  /\ pc[t] = "and"
  /\ ~freed
  /\ LET bit == ShiftedOne(blk[t])
     IN  /\ bitfield' = FetchAndNot(bitfield, bit)
         /\ \/ bit \notin bitfield /\ Goto(t, "load")
            \/ bit \in bitfield /\ blk[t] \in Blocks /\ Goto(t, "publish")
            \/ bit \in bitfield /\ blk[t] \notin Blocks /\ Goto(t, "next")
  /\ UNCHANGED <<inFreeList, freed, handleVars, arenaVars, blk>>

\* ArenaBox::new and ArenaArc::new (ArenaRc::new is the same), after their
\* assert that the counter is zero.
NewBox(b) ==
  /\ counter' = [counter EXCEPT ![b] = 1]
  /\ boxes' = boxes \cup {b}
  /\ UNCHANGED arcs

NewArc(b) ==
  /\ counter' = [counter EXCEPT ![b] = 1]
  /\ arcs' = [arcs EXCEPT ![b] = 1]
  /\ UNCHANGED boxes

\* alloc, alloc_arc, alloc_rc: the value is written, then the handle is made,
\* unless the assert fails. In alloc_with and its like the handle is made first
\* and the value written through it; they return the handle only then.
Publish(t) ==
  /\ pc[t] = "publish"
  /\ ~freed
  /\ live' = live \cup {blk[t]}
  /\ IF counter[blk[t]] = 0
     THEN (NewBox(blk[t]) \/ NewArc(blk[t])) /\ Goto(t, "idle")
     ELSE Goto(t, "panic") /\ UNCHANGED <<counter, boxes, arcs>>
  /\ UNCHANGED <<pageVars, arenaVars, blk>>

\* find_place found no free block: the load of next_free.
LoadNextFree(t) ==
  /\ pc[t] = "next"
  /\ ~freed
  /\ Goto(t, "cas")
  /\ UNCHANGED <<pageVars, handleVars, arenaVars, blk>>

\* compare_exchange of the head of the free list. It fails when the page is
\* not (or no longer) the head.
PopPage(t) ==
  /\ pc[t] = "cas"
  /\ \/ /\ Listed
        /\ at' = IF at = "listed" THEN "out" ELSE at
        /\ Goto(t, "unmark")
     \/ UNCHANGED at /\ Goto(t, "idle")
  /\ UNCHANGED <<pageVars, handleVars, usage, strays, arena, blk>>

\* find_place: page.in_free_list.store(false).
UnmarkPage(t) ==
  /\ pc[t] = "unmark"
  /\ ~freed
  /\ inFreeList' = FALSE
  /\ Goto(t, "idle")
  /\ UNCHANGED <<bitfield, freed, handleVars, arenaVars, blk>>

-----------------------------------------------------------------------------
(* Handles: Clone and Drop of ArenaBox, ArenaArc and ArenaRc.              *)

\* ArenaArc::clone, ArenaRc::clone, by anyone who can reach the handle.
CloneArc(b) ==
  /\ ~freed
  /\ arcs[b] \in 1 .. MaxArcs - 1
  /\ counter' = [counter EXCEPT ![b] = @ + 1]
  /\ arcs' = [arcs EXCEPT ![b] = @ + 1]
  /\ UNCHANGED <<pageVars, live, boxes, arenaVars, pc, blk>>

\* ArenaBox::drop up to the call of drop_block.
DropBox(t, b) ==
  /\ pc[t] = "idle"
  /\ ~freed
  /\ b \in boxes
  /\ boxes' = boxes \ {b}
  /\ IF counter[b] = 1
     THEN counter' = [counter EXCEPT ![b] = 0] /\ Goto(t, "value")
     ELSE Goto(t, "panic") /\ UNCHANGED counter
  /\ blk' = [blk EXCEPT ![t] = b]
  /\ UNCHANGED <<pageVars, live, arcs, arenaVars>>

\* ArenaArc::drop, ArenaRc::drop up to the call of drop_block by the last.
DropArc(t, b) ==
  /\ pc[t] = "idle"
  /\ ~freed
  /\ arcs[b] > 0
  /\ arcs' = [arcs EXCEPT ![b] = @ - 1]
  /\ counter' = [counter EXCEPT ![b] = @ - 1]
  /\ Goto(t, IF counter[b] = 1 THEN "value" ELSE "idle")
  /\ blk' = [blk EXCEPT ![t] = b]
  /\ UNCHANGED <<pageVars, live, boxes, arenaVars>>

-----------------------------------------------------------------------------
(* PageSharedArena::drop_block.                                            *)

\* drop_in_place of the value.
DropValue(t) ==
  /\ pc[t] = "value"
  /\ ~freed
  /\ live' = live \ {blk[t]}
  /\ Goto(t, "add")
  /\ UNCHANGED <<pageVars, counter, boxes, arcs, arenaVars, blk>>

\* bitfield.fetch_add(bit) and the test of the word it produced: the thread
\* that leaves nothing but the arena's cleared bit frees the page.
FetchAdd(t) ==
  /\ pc[t] = "add"
  /\ ~freed
  /\ bitfield' = FetchAddBit(bitfield, blk[t])
  /\ Goto(t, IF Bits \ (bitfield \cup {blk[t]}) = {ArenaBit}
             THEN "dealloc" ELSE "marked")
  /\ UNCHANGED <<inFreeList, freed, handleVars, arenaVars, blk>>

\* deallocate_page, called by drop_block or by drop_page.
Deallocate(t) ==
  /\ pc[t] = "dealloc"
  /\ freed' = TRUE
  /\ Goto(t, "idle")
  /\ UNCHANGED <<bitfield, inFreeList, handleVars, arenaVars, blk>>

\* page.in_free_list.load
LoadMark(t) ==
  /\ pc[t] = "marked"
  /\ ~freed
  /\ Goto(t, IF inFreeList THEN "idle" ELSE "swap")
  /\ UNCHANGED <<pageVars, handleVars, arenaVars, blk>>

\* page.in_free_list.swap(true): one of the threads that saw false wins.
SwapMark(t) ==
  /\ pc[t] = "swap"
  /\ ~freed
  /\ inFreeList' = TRUE
  /\ Goto(t, IF inFreeList THEN "idle" ELSE "upgrade")
  /\ UNCHANGED <<bitfield, freed, handleVars, arenaVars, blk>>

\* arena_pending_list.upgrade(), which gives None once SharedArena::drop is over.
UpgradePending(t) ==
  /\ pc[t] = "upgrade"
  /\ ~freed
  /\ \/ Goto(t, "push")
     \/ arena = "dropped" /\ Goto(t, "idle")
  /\ UNCHANGED <<pageVars, handleVars, arenaVars, blk>>

\* The load of the head of pending_free_list and the store of it in next_free.
LinkPending(t) ==
  /\ pc[t] = "push"
  /\ ~freed
  /\ Goto(t, "pushCas")
  /\ UNCHANGED <<pageVars, handleVars, arenaVars, blk>>

\* compare_exchange of the head of pending_free_list. A page that is pushed
\* while the arena has it in another list is in two of them from there on.
PushPending(t) ==
  /\ pc[t] = "pushCas"
  /\ \/ /\ IF at \in {"out", "stranded"}
           THEN at' = "listed" /\ UNCHANGED strays
           ELSE strays' = strays \cup {"listed"} /\ UNCHANGED at
        /\ Goto(t, "idle")
     \/ Goto(t, "push") /\ UNCHANGED <<at, strays>>
  /\ UNCHANGED <<pageVars, handleVars, usage, arena, blk>>

\* A thread whose next access is to the memory of a page that was freed.
\* What it does from there is undefined: it takes no further step here.
TouchFreed(t) ==
  /\ freed
  /\ pc[t] \in Touching
  /\ Goto(t, "wild")
  /\ UNCHANGED <<pageVars, handleVars, arenaVars, blk>>

-----------------------------------------------------------------------------
(* What the arena does with the page. An operation of these that meets the *)
(* page in the arena's lists after it was freed is not followed.           *)

\* The caller of shrink_to_fit is the writer, so that nobody else shrinks or
\* puts pages of to_free on the free list meanwhile.
NobodyShrinks == \A u \in Threads : pc[u] # "retain"

\* shrink_to_fit, first loop: a page without a used block goes to to_drop, also
\* if it strayed into free_list and is in to_free already.
\* That the other pages leave the free list too until the end of the call
\* shows only as FindPage and PopPage not succeeding, which they need not do.
Withdraw(t) ==
  /\ t \in usage.shrink
  /\ pc[t] = "idle"
  /\ ~freed
  /\ arena = "open"
  /\ NobodyShrinks
  /\ Listed
  /\ bitfield = Bits
  /\ at' = "withdrawn"
  /\ strays' = strays \cup ({at} \cap {"held"})
  /\ Goto(t, "retain")
  /\ UNCHANGED <<pageVars, handleVars, usage, arena, blk>>

\* shrink_to_fit, to_drop.retain: the page is read again. A page of which a
\* thread has taken a block meanwhile is kept, but it is already off the list.
Retain(t) ==
  /\ pc[t] = "retain"
  /\ at' = IF at # "withdrawn" THEN at
           ELSE IF bitfield = Bits THEN "held" ELSE "stranded"
  /\ Goto(t, "idle")
  /\ UNCHANGED <<pageVars, handleVars, usage, strays, arena, blk>>

\* take_pages_to_be_freed puts the page on a new free list.
Reuse(t) ==
  /\ t \in usage.alloc
  /\ pc[t] = "idle"
  /\ ~freed
  /\ arena = "open"
  /\ NobodyShrinks
  /\ Held
  /\ at' = "listed"
  /\ inFreeList' = TRUE
  /\ UNCHANGED <<bitfield, freed, handleVars, usage, strays, arena, pc, blk>>

\* drop_page: clear the arena's bit, free the page if nothing else is used.
DropPage(t) ==
  /\ pc[t] = "idle"
  /\ ~freed
  /\ at' = "retired"
  /\ bitfield' = FetchSubArenaBit(bitfield)
  /\ Goto(t, IF Bits \ bitfield = {} THEN "dealloc" ELSE "idle")
  /\ UNCHANGED <<inFreeList, freed, handleVars, usage, strays, blk>>

\* maybe_free_pages, in a find_place that is not on this page. It empties
\* to_free whoever else is in find_place: nothing waits for them to leave.
MaybeFreePage(t) ==
  /\ t \in usage.alloc
  /\ arena = "open"
  /\ Held
  /\ DropPage(t)
  /\ UNCHANGED arena

\* SharedArena::drop. It has `&mut self': nobody is in
\* find_place, alloc or shrink_to_fit.
DropArena(t) ==
  /\ arena = "open"
  /\ \A u \in Threads : pc[u] \notin Allocating \cup {"retain"}
  /\ arena' = "dropped"
  /\ \/ (at # "retired" \/ Held) /\ DropPage(t)
     \/ /\ at = "retired"
        /\ pc[t] = "idle"
        /\ UNCHANGED <<pageVars, handleVars, usage, at, strays, pc, blk>>

-----------------------------------------------------------------------------

\* What a thread goes on to do by itself once it has started.
Continue(t) ==
  \/ LoadBitfield(t) \/ FetchAnd(t) \/ Publish(t)
  \/ LoadNextFree(t) \/ PopPage(t) \/ UnmarkPage(t)
  \/ DropValue(t) \/ FetchAdd(t) \/ Deallocate(t)
  \/ LoadMark(t) \/ SwapMark(t)
  \/ UpgradePending(t) \/ LinkPending(t) \/ PushPending(t)
  \/ Retain(t)
  \/ TouchFreed(t)

\* What its caller decides.
Start(t) ==
  \/ FindPage(t) \/ InstallStaleNext(t)
  \/ \E b \in Blocks : DropBox(t, b) \/ DropArc(t, b)
  \/ Withdraw(t) \/ Reuse(t) \/ MaybeFreePage(t)
  \/ DropArena(t)

Next ==
  \/ \E t \in Threads : Continue(t) \/ Start(t)
  \/ \E b \in Blocks : CloneArc(b)

Spec == Init /\ [][Next]_vars

\* A thread inside an operation is scheduled until the operation is done.
FairSpec == Spec /\ \A t \in Threads : WF_vars(Continue(t))

-----------------------------------------------------------------------------
(* Who a block belongs to.                                                 *)

Handled(b) == b \in boxes \/ arcs[b] > 0

\* The thread was given the block and has not made a handle of it yet, or it
\* dropped the last handle and has not given the block back yet.
Holds(t, b) == pc[t] \in {"publish", "value", "add"} /\ blk[t] = b

Quiet == \A t \in Threads : pc[t] = "idle"

(* Safety, whoever allocates and shrinks.                                  *)

\* acquire_free_block never gives one block to two users: a block in use is
\* marked used, and belongs to one thread, or to one ArenaBox, or to the
\* clones of one ArenaArc. That is why drop_block may add its bit instead of
\* or-ing it ("we're sure to be the only thread to set this bit").
NoSharedBlock ==
  /\ \A b \in Blocks : Handled(b) => b \notin bitfield
  /\ \A b \in boxes : arcs[b] = 0
  /\ \A t \in Threads, b \in Blocks :
       Holds(t, b) =>
         /\ b \notin bitfield
         /\ ~Handled(b)
         /\ \A u \in Threads : Holds(u, b) => u = t

\* block.counter is the number of handles of the block, so the asserts of
\* ArenaBox::new, ArenaArc::new ("Counter not zero") and ArenaBox::drop
\* ("Counter != 1 on drop") hold whatever the threads do.
CounterCountsHandles ==
  /\ \A b \in Blocks : counter[b] = IF b \in boxes THEN 1 ELSE arcs[b]
  /\ \A t \in Threads : pc[t] # "panic"

(* Safety, when the uses are orderly (OrderlyUses).                        *)

\* A page that is referenced is not freed: neither while the arena keeps it or
\* its lists lead to it, nor while a handle or a thread in the middle of an
\* operation uses one of its blocks, nor while a thread looks for a block in it.
ReferencedPageSurvives ==
  freed =>
    /\ at = "retired"
    /\ arena = "open" => strays = {}
    /\ \A b \in Blocks : ~Handled(b)
    /\ \A t \in Threads : pc[t] \notin Allocating \cup {"value", "add"}

\* deallocate_page is reached at most once: by the drop_block that gives back
\* the last block or by drop_page, whichever comes last, never by both.
FreedOnce ==
  /\ \A t \in Threads : pc[t] = "dealloc" => ~freed
  /\ \A t, u \in Threads : pc[t] = "dealloc" /\ pc[u] = "dealloc" => t = u

\* No block is lost: one that is marked used is in somebody's hands.
NoLostBlock ==
  \A b \in Blocks \ bitfield : Handled(b) \/ \E t \in Threads : Holds(t, b)

\* The value of a block lives exactly as long as its handles: it is neither
\* dropped twice, nor leaked, nor dropped while a handle can reach it.
ValueLivesWithHandles ==
  live = {b \in Blocks : Handled(b) \/ \E t \in Threads : pc[t] = "value" /\ blk[t] = b}

\* Where one thread moves the pages, a page is pushed on pending_free_list only
\* while it is in no list of a living arena: the swap on in_free_list lets one
\* dropper through, and not before the page left. (With two threads in
\* find_place it is false: a stale next_free puts an unmarked page back.)
PushedOnlyWhenOut ==
  OneMover(usage) =>
    \A t \in Threads : pc[t] \in Pushing =>
      /\ at = IF arena = "open" THEN "out" ELSE "retired"
      /\ \A u \in Threads \ {t} : pc[u] \notin Pushing \cup {"unmark"}

(* Action properties and liveness.                                         *)

\* Once the arena's bit is clear nobody comes to use the page: the used blocks
\* are given back one by one and no free block is taken.
RetiredPageDrains ==
  [][ArenaBit \notin bitfield => Blocks \cap bitfield \subseteq bitfield']_vars

\* A page the arena let go is freed once its handles are dropped: the drops in
\* progress finish and the last of them, or drop_page, frees it ("While the
\* time is not determined, it's guarantee that it will be deallocated").
Reclaimed ==
  (/\ at = "retired"
   /\ \A b \in Blocks : ~Handled(b)
   /\ \A t \in Threads : pc[t] # "publish") ~> freed

\* The page as PageLife describes it: the arena's bit is inverted with respect
\* to those of the blocks.
Life == INSTANCE PageLife WITH
  Arena <- ArenaBit,
  sharers <- (Blocks \ bitfield) \cup (bitfield \cap {ArenaBit})

\* The bitfield, the one word that all the threads share, keeps the promise of
\* PageLife, including that the page is freed in the end.
ImplementsPageLife == Life!Spec

-----------------------------------------------------------------------------
(* What the code does not guarantee; each is refuted by a run.             *)

\* Only the last to reference the page goes on to free it, so that nobody is
\* left who would still read it ("We were the last block/arena referencing
\* this page").
NoTouchAfterFree == \A t \in Threads : pc[t] # "wild"

\* A page with an ArenaBox, ArenaArc or ArenaRc on it is not freed, whatever
\* the time since shrink_to_fit ("If there is still one or more references to
\* a page, the page won't be dropped").
HandledPageSurvives == freed => \A b \in Blocks : ~Handled(b)

\* A page that find_place removed from the free list comes back when a block
\* of it is dropped ("drops of an ArenaBox/Arc on that page will insert the
\* page"): at rest, a page outside the lists has a block in use, whose drop
\* will push it.
FreePageComesBack ==
  Quiet /\ arena = "open" /\ at = "out" => ~(Blocks \subseteq bitfield)
=============================================================================
