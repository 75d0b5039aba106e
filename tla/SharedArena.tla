----------------------------- MODULE SharedArena -----------------------------
(***************************************************************************)
(* The lists of a SharedArena and the threads that move pages between      *)
(* them: find_place, shrink_to_fit, the pushes of drop_block and the drop  *)
(* of the arena (src/shared_arena.rs, src/page/shared_arena.rs).           *)
(*                                                                         *)
(* free_list and pending_free_list are chains of next_free pointers, since *)
(* find_place removes a page with a pointer it read earlier. full_list is  *)
(* a sequence: its pointers are written under the writer lock only. Of the *)
(* bitfield of a page there remain the number of used blocks and the       *)
(* arena's bit; module SharedPage has the word and the races on it.        *)
(***************************************************************************)
EXTENDS PageList

CONSTANTS
  Threads,
  Allocators,         \* those that call alloc
  Shrinkers,          \* those that call shrink_to_fit
  Droppers,           \* those that drop handles, or the arena
  BLOCK_PER_PAGE,
  DELAY_DROP_SHRINK,
  Capacity,           \* the number of pages with_capacity starts with
  MaxAllocate,        \* 900_000, the limit on the pages allocated at once
  USIZE               \* 2^64

ASSUME SharedArenaAssumption ==
  /\ Allocators \subseteq Threads
  /\ Shrinkers \subseteq Threads
  /\ Droppers \subseteq Threads
  /\ {BLOCK_PER_PAGE, DELAY_DROP_SHRINK, Capacity, MaxPages, MaxAllocate} \subseteq Nat \ {0}
  /\ Capacity <= MaxPages
  /\ USIZE \in Nat /\ USIZE > MaxPages

\* Every block has an address, so a usize can count them.
ASSUME BlocksHaveAddresses == MaxPages * BLOCK_PER_PAGE < USIZE

VARIABLES
  \* the pages
  nextFree,    \* page.next_free
  marked,      \* the pages whose in_free_list is true
  used,        \* how many blocks of each page are in use
  arenaBit,    \* the pages whose arena bit is set
  freed,       \* the pages that were deallocated
  \* the arena
  free, pending, full, npages, writer, shrinking, toFree, delay,
  arena,       \* "open", "dropping" or "dropped"
  made,        \* how many pages were allocated so far
  \* the threads
  pc,
  loc          \* the locals of the operation the thread is in

pageVars == <<nextFree, marked, used, arenaBit, freed>>
listVars == <<free, pending, full>>
arenaVars == <<npages, writer, shrinking, toFree, delay, arena, made>>
vars == <<nextFree, marked, used, arenaBit, freed,
          free, pending, full, npages, writer, shrinking, toFree, delay, arena, made,
          pc, loc>>

\* Where a thread is. In FindPlace and Shrink it borrows the arena.
FindPlace ==
  {"head", "acquire", "next", "cas", "unmark", "guard", "locked", "recheck",
   "pending", "take", "install", "toFree", "reuse", "allocate", "putFull",
   "putFree", "count", "rest", "zeroDelay", "release", "delay", "bump",
   "sweep", "dropPages"}
Shrink ==
  {"lock", "detach", "walk", "unlink", "retain", "unfull", "resetDelay",
   "grab", "give", "restore", "uncount", "unshrink", "unlock"}
DropBlock == {"marked", "swap", "upgrade", "push", "pushCas"}

Locals ==
  [page    : Pointer,     \* the page at hand
   nxt     : Pointer,     \* the pointer read from it
   start   : Pointer,     \* shrink_to_fit: the head of the detached list
   cur     : Pointer,     \* and the page whose next_free is `current', if any
   batch   : Seq(Pages),  \* pages being put in the lists, shrunk or dropped
   rest    : Seq(Pages),  \* pages taken from to_free that go back into it
   reusing : BOOLEAN,     \* in take_pages_to_be_freed
   guarded : BOOLEAN]     \* holding a WriterGuard

NoLocals ==
  [page |-> Null, nxt |-> Null, start |-> Null, cur |-> Null,
   batch |-> <<>>, rest |-> <<>>, reusing |-> FALSE, guarded |-> FALSE]

TypeOK ==
  /\ nextFree \in [Pages -> Pointer]
  /\ marked \subseteq Pages /\ arenaBit \subseteq Pages /\ freed \subseteq Pages
  /\ used \in [Pages -> 0 .. BLOCK_PER_PAGE]
  /\ free \in Pointer /\ pending \in Pointer
  /\ full \in Seq(Pages) /\ toFree \in Seq(Pages)
  /\ npages \in 0 .. USIZE - 1
  /\ writer \in BOOLEAN /\ shrinking \in BOOLEAN
  /\ delay \in Nat
  /\ arena \in {"open", "dropping", "dropped"}
  /\ made \in 0 .. MaxPages
  /\ pc \in [Threads -> FindPlace \cup Shrink \cup DropBlock
                          \cup {"idle", "dropArena", "panic", "wild"}]
  /\ loc \in [Threads -> Locals]

-----------------------------------------------------------------------------
(* Helpers.                                                                *)

\* A faulty variant of Untouched, for the mutation of ImplementsPageLife.
UntouchedIgnoresBlocks(p) == p \in arenaBit

\* The bitfield is `!0'.
Untouched(p) == used[p] = 0 /\ p \in arenaBit

Goto(t, label) == pc' = [pc EXCEPT ![t] = label]

\* The operation of the thread is over, and so are its locals.
Return(t) ==
  /\ Goto(t, "idle")
  /\ loc' = [loc EXCEPT ![t] = NoLocals]

\* shrink_to_fit's `current' is the pointer to a list cell: the local one that
\* holds the head of the detached list, or the next_free of a page.
Cell(t) == IF loc[t].cur = Null THEN loc[t].start ELSE nextFree[loc[t].cur]

\* The pages whose memory the next step of the thread accesses.
Touched(t) ==
  CASE pc[t] \in {"acquire", "next", "unmark", "marked", "swap", "upgrade", "push"} ->
         {loc[t].page}
    [] pc[t] = "walk" -> {loc[t].cur, Cell(t)}
    [] pc[t] = "unlink" -> {loc[t].cur}
    [] pc[t] \in {"retain", "putFull"} -> ToSet(loc[t].batch)
    [] pc[t] = "reuse" -> ToSet(toFree)
    [] pc[t] = "unfull" -> ToSet(full)
    [] pc[t] \in {"dropPages", "dropArena"} /\ loc[t].batch # <<>> -> {Head(loc[t].batch)}
    [] OTHER -> {}

Safe(t) == Touched(t) \cap freed = {}

\* with_capacity: one list of pages, in free_list and in full_list.
Init ==
  /\ made = Capacity
  /\ nextFree = [p \in Pages |-> IF p \in 2 .. Capacity THEN p - 1 ELSE Null]
  /\ marked = 1 .. Capacity
  /\ used = [p \in Pages |-> 0]
  /\ arenaBit = 1 .. Capacity
  /\ freed = {}
  /\ free = Capacity
  /\ pending = Null
  /\ full = NewList(0, Capacity)
  /\ npages = Capacity
  /\ writer = FALSE
  /\ shrinking = FALSE
  /\ toFree = <<>>
  /\ delay = DELAY_DROP_SHRINK
  /\ arena = "open"
  /\ pc = [t \in Threads |-> "idle"]
  /\ loc = [t \in Threads |-> NoLocals]

-----------------------------------------------------------------------------
(* Faulty variants of the actions below, named for the slip. No behaviour  *)
(* of this module uses them: a property is worth its run only if the slip, *)
(* put in the place of the action, violates it.                            *)

AcquireFromFullPage(t) ==
  /\ pc[t] = "acquire"
  /\ Safe(t)
  /\ used' = [used EXCEPT ![loc[t].page] = @ + 1]
  /\ Return(t)
  /\ UNCHANGED <<nextFree, marked, arenaBit, freed, listVars, arenaVars>>

TryGuardIgnoresWriter(t) ==
  /\ pc[t] = "guard"
  /\ writer' = TRUE
  /\ Goto(t, "recheck")
  /\ loc' = [loc EXCEPT ![t].guarded = TRUE]
  /\ UNCHANGED <<pageVars, listVars, npages, shrinking, toFree, delay, arena, made>>

RecheckFreeSkipped(t) ==
  /\ pc[t] = "recheck"
  /\ Goto(t, "pending")
  /\ UNCHANGED <<pageVars, listVars, arenaVars, loc>>

TakePendingByLoad(t) ==
  /\ pc[t] = "take"
  /\ loc' = [loc EXCEPT ![t].page = pending]
  /\ Goto(t, "install")
  /\ UNCHANGED <<pageVars, listVars, arenaVars>>

ReleaseForgotten(t) ==
  /\ pc[t] = "release"
  /\ loc' = [loc EXCEPT ![t] = NoLocals]
  /\ Goto(t, "head")
  /\ UNCHANGED <<pageVars, listVars, arenaVars>>

RemoveFromFullForgotten(t) ==
  /\ pc[t] = "unfull"
  /\ Safe(t)
  /\ Goto(t, IF loc[t].batch = <<>> THEN "restore" ELSE "resetDelay")
  /\ UNCHANGED <<pageVars, listVars, arenaVars, loc>>

UnlinkOnlyAdvances(t) ==
  /\ pc[t] = "unlink"
  /\ Safe(t)
  /\ loc' = [loc EXCEPT ![t].cur = loc[t].page, ![t].batch = Append(@, loc[t].page)]
  /\ Goto(t, "walk")
  /\ UNCHANGED <<pageVars, listVars, arenaVars>>

UncountForgotten(t) ==
  /\ pc[t] = "uncount"
  /\ Goto(t, "unshrink")
  /\ UNCHANGED <<pageVars, listVars, arenaVars, loc>>

PushPendingWithoutRetry(t) ==
  /\ pc[t] = "pushCas"
  /\ pending' = IF pending = loc[t].nxt THEN loc[t].page ELSE pending
  /\ Return(t)
  /\ UNCHANGED <<pageVars, free, full, arenaVars>>

StartDropArenaWithoutToFree(t) ==
  /\ t \in Droppers
  /\ pc[t] = "idle"
  /\ arena = "open"
  /\ \A u \in Threads : pc[u] \notin FindPlace \cup Shrink
  /\ arena' = "dropping"
  /\ loc' = [loc EXCEPT ![t].batch = full]
  /\ Goto(t, "dropArena")
  /\ UNCHANGED <<pageVars, listVars, npages, writer, shrinking, toFree, delay, made>>

-----------------------------------------------------------------------------
(* SharedArena::find_place: the search in the free list. The caller, alloc *)
(* and its variants, makes a handle of the block.                          *)

StartAlloc(t) ==
  /\ t \in Allocators
  /\ pc[t] = "idle"
  /\ arena = "open"
  /\ Goto(t, "head")
  /\ UNCHANGED <<pageVars, listVars, arenaVars, loc>>

LoadHead(t) ==
  /\ pc[t] = "head"
  /\ loc' = [loc EXCEPT ![t].page = free]
  /\ Goto(t, IF free = Null THEN "guard" ELSE "acquire")
  /\ UNCHANGED <<pageVars, listVars, arenaVars>>

\* page.acquire_free_block(): see SharedPage for its steps. A page that is full
\* and has lost the arena's bit has no index to give: the shift wraps and the
\* loop goes round until a block comes back, which is then found, or taken by
\* the wrapped shift and lost (blocks.get gives None).
AcquireFreeBlock(t) ==
  /\ pc[t] = "acquire"
  /\ Safe(t)
  /\ \/ /\ used[loc[t].page] < BLOCK_PER_PAGE
        /\ used' = [used EXCEPT ![loc[t].page] = @ + 1]
        /\ \E lost \in {FALSE, loc[t].page \notin arenaBit} :
             IF lost THEN Goto(t, "next") /\ UNCHANGED loc ELSE Return(t)
     \/ /\ used[loc[t].page] = BLOCK_PER_PAGE
        /\ loc[t].page \in arenaBit
        /\ Goto(t, "next")
        /\ UNCHANGED <<used, loc>>
  /\ UNCHANGED <<nextFree, marked, arenaBit, freed, listVars, arenaVars>>

LoadNextFree(t) ==
  /\ pc[t] = "next"
  /\ Safe(t)
  /\ loc' = [loc EXCEPT ![t].nxt = nextFree[loc[t].page]]
  /\ Goto(t, "cas")
  /\ UNCHANGED <<pageVars, listVars, arenaVars>>

\* self.free_list.compare_exchange(page, next)
PopFree(t) ==
  /\ pc[t] = "cas"
  /\ \/ free = loc[t].page /\ free' = loc[t].nxt /\ Goto(t, "unmark")
     \/ free # loc[t].page /\ Goto(t, "head") /\ UNCHANGED free
  /\ UNCHANGED <<pageVars, pending, full, arenaVars, loc>>

UnmarkPage(t) ==
  /\ pc[t] = "unmark"
  /\ Safe(t)
  /\ marked' = marked \ {loc[t].page}
  /\ Goto(t, "head")
  /\ UNCHANGED <<nextFree, used, arenaBit, freed, listVars, arenaVars, loc>>

-----------------------------------------------------------------------------
(* SharedArena::find_place: the free list was empty.                       *)

\* WriterGuard::new. Its load before the swap only spares the swap.
TryGuard(t) ==
  /\ pc[t] = "guard"
  /\ writer' = TRUE
  /\ \/ ~writer /\ Goto(t, "recheck") /\ loc' = [loc EXCEPT ![t].guarded = TRUE]
     \/ writer /\ Goto(t, "locked") /\ UNCHANGED loc
  /\ UNCHANGED <<pageVars, listVars, npages, shrinking, toFree, delay, arena, made>>

\* Another thread is the writer: yield, or use the time to free pages.
SeeLocked(t) ==
  /\ pc[t] = "locked"
  /\ Goto(t, IF free = Null THEN "head" ELSE "delay")
  /\ UNCHANGED <<pageVars, listVars, arenaVars, loc>>

RecheckFree(t) ==
  /\ pc[t] = "recheck"
  /\ Goto(t, IF free = Null THEN "pending" ELSE "release")
  /\ UNCHANGED <<pageVars, listVars, arenaVars, loc>>

LoadPending(t) ==
  /\ pc[t] = "pending"
  /\ Goto(t, IF pending # Null THEN "take" ELSE "toFree")
  /\ UNCHANGED <<pageVars, listVars, arenaVars, loc>>

TakePending(t) ==
  /\ pc[t] = "take"
  /\ loc' = [loc EXCEPT ![t].page = pending]
  /\ pending' = Null
  /\ Goto(t, "install")
  /\ UNCHANGED <<pageVars, free, full, arenaVars>>

\* self.free_list.swap(pending); assert!(old.is_null())
InstallPending(t) ==
  /\ pc[t] = "install"
  /\ free' = loc[t].page
  /\ Goto(t, IF free = Null THEN "delay" ELSE "panic")
  /\ UNCHANGED <<pageVars, pending, full, arenaVars, loc>>

LoadToFree(t) ==
  /\ pc[t] = "toFree"
  /\ Goto(t, IF toFree # <<>> THEN "reuse" ELSE "allocate")
  /\ UNCHANGED <<pageVars, listVars, arenaVars, loc>>

\* take_pages_to_be_freed: the last npages pages are linked into a new list,
\* the others stay to be freed. Another thread may have taken them all.
TakeToFree(t) ==
  /\ pc[t] = "reuse"
  /\ Safe(t)
  /\ toFree' = <<>>
  /\ LET n   == Max({npages, 1})
         cut == Max({Len(toFree) - n, 0})
         reinserted == SubSeq(toFree, cut + 1, Len(toFree))
     IN  \/ /\ toFree = <<>>
            /\ Goto(t, "release")
            /\ UNCHANGED <<nextFree, marked, loc>>
         \/ /\ toFree # <<>>
            /\ nextFree' = Linked(nextFree, reinserted)
            /\ marked' = marked \cup ToSet(reinserted)
            /\ loc' = [loc EXCEPT ![t].batch = reinserted,
                                  ![t].rest = SubSeq(toFree, 1, cut),
                                  ![t].reusing = TRUE]
            /\ Goto(t, "putFull")
  /\ UNCHANGED <<used, arenaBit, freed, listVars, npages, writer, shrinking, delay, arena, made>>

\* alloc_new_page: as many new pages as there are already.
AllocNewPages(t) ==
  /\ pc[t] = "allocate"
  /\ LET n    == Min({Max({npages, 1}), MaxAllocate})
         list == NewList(made, n)
     IN  /\ made + n <= MaxPages
         /\ made' = made + n
         /\ nextFree' = Linked(nextFree, list)
         /\ marked' = marked \cup ToSet(list)
         /\ arenaBit' = arenaBit \cup ToSet(list)
         /\ loc' = [loc EXCEPT ![t].batch = list]
  /\ Goto(t, "putFull")
  /\ UNCHANGED <<used, freed, listVars, npages, writer, shrinking, toFree, delay, arena>>

\* put_pages_in_lists: full_list first. Only the writer changes full_list, so
\* that the value loaded is the one swapped out.
PutFull(t) ==
  /\ pc[t] = "putFull"
  /\ Safe(t)
  /\ full' = loc[t].batch \o full
  /\ Goto(t, "putFree")
  /\ UNCHANGED <<pageVars, free, pending, arenaVars, loc>>

\* put_pages_in_lists: then free_list, which must still be null.
PutFree(t) ==
  /\ pc[t] = "putFree"
  /\ free' = Head(loc[t].batch)
  /\ Goto(t, IF free = Null THEN "count" ELSE "panic")
  /\ UNCHANGED <<pageVars, pending, full, arenaVars, loc>>

CountPages(t) ==
  /\ pc[t] = "count"
  /\ npages' = (npages + Len(loc[t].batch)) % USIZE
  /\ Goto(t, IF loc[t].reusing THEN "rest" ELSE "release")
  /\ UNCHANGED <<pageVars, listVars, writer, shrinking, toFree, delay, arena, made, loc>>

\* take_pages_to_be_freed: the pages that were not needed go back.
PutBackRest(t) ==
  /\ pc[t] = "rest"
  /\ \/ /\ loc[t].rest # <<>>
        /\ toFree' = loc[t].rest
        /\ Goto(t, IF toFree = <<>> THEN "zeroDelay" ELSE "panic")
        /\ UNCHANGED delay
     \/ /\ loc[t].rest = <<>>
        /\ delay' = DELAY_DROP_SHRINK
        /\ Goto(t, "release")
        /\ UNCHANGED toFree
  /\ UNCHANGED <<pageVars, listVars, npages, writer, shrinking, arena, made, loc>>

ZeroDelay(t) ==
  /\ pc[t] = "zeroDelay"
  /\ delay' = 0
  /\ Goto(t, "release")
  /\ UNCHANGED <<pageVars, listVars, npages, writer, shrinking, toFree, arena, made, loc>>

\* The WriterGuard is dropped, and the loop continues.
Release(t) ==
  /\ pc[t] = "release"
  /\ writer' = FALSE
  /\ loc' = [loc EXCEPT ![t] = NoLocals]
  /\ Goto(t, "head")
  /\ UNCHANGED <<pageVars, listVars, npages, shrinking, toFree, delay, arena, made>>

-----------------------------------------------------------------------------
(* SharedArena::maybe_free_pages, with or without the WriterGuard.         *)

AfterMaybeFree(t) == Goto(t, IF loc[t].guarded THEN "release" ELSE "head")

LoadDelay(t) ==
  /\ pc[t] = "delay"
  /\ IF delay < DELAY_DROP_SHRINK THEN Goto(t, "bump") ELSE AfterMaybeFree(t)
  /\ UNCHANGED <<pageVars, listVars, arenaVars, loc>>

BumpDelay(t) ==
  /\ pc[t] = "bump"
  /\ delay' = delay + 1
  /\ IF delay = DELAY_DROP_SHRINK - 1 THEN Goto(t, "sweep") ELSE AfterMaybeFree(t)
  /\ UNCHANGED <<pageVars, listVars, npages, writer, shrinking, toFree, arena, made, loc>>

SweepToFree(t) ==
  /\ pc[t] = "sweep"
  /\ loc' = [loc EXCEPT ![t].batch = toFree]
  /\ toFree' = <<>>
  /\ Goto(t, "dropPages")
  /\ UNCHANGED <<pageVars, listVars, npages, writer, shrinking, delay, arena, made>>

\* drop_page: the fetch_sub clears the arena bit, or sets it if it was clear.
DropPage(p) ==
  /\ arenaBit' = IF p \in arenaBit THEN arenaBit \ {p} ELSE arenaBit \cup {p}
  /\ freed' = IF Untouched(p) THEN freed \cup {p} ELSE freed

\* The loop over the pages, in maybe_free_pages and in SharedArena::drop.
DropPages(t) ==
  /\ pc[t] \in {"dropPages", "dropArena"}
  /\ loc[t].batch # <<>>
  /\ Safe(t)
  /\ DropPage(Head(loc[t].batch))
  /\ loc' = [loc EXCEPT ![t].batch = Tail(@)]
  /\ UNCHANGED <<nextFree, marked, used, listVars, arenaVars, pc>>

EndOfSweep(t) ==
  /\ pc[t] = "dropPages"
  /\ loc[t].batch = <<>>
  /\ AfterMaybeFree(t)
  /\ UNCHANGED <<pageVars, listVars, arenaVars, loc>>

-----------------------------------------------------------------------------
(* SharedArena::shrink_to_fit.                                             *)

\* self.shrinking.swap(true). When it was set already the call returns.
StartShrink(t) ==
  /\ t \in Shrinkers
  /\ pc[t] = "idle"
  /\ arena = "open"
  /\ ~shrinking
  /\ shrinking' = TRUE
  /\ Goto(t, "lock")
  /\ UNCHANGED <<pageVars, listVars, npages, writer, toFree, delay, arena, made, loc>>

\* WriterGuard::new_blocking
Lock(t) ==
  /\ pc[t] = "lock"
  /\ ~writer
  /\ writer' = TRUE
  /\ loc' = [loc EXCEPT ![t].guarded = TRUE]
  /\ Goto(t, "detach")
  /\ UNCHANGED <<pageVars, listVars, npages, shrinking, toFree, delay, arena, made>>

DetachFree(t) ==
  /\ pc[t] = "detach"
  /\ loc' = [loc EXCEPT ![t].start = free]
  /\ free' = Null
  /\ Goto(t, "walk")
  /\ UNCHANGED <<pageVars, pending, full, arenaVars>>

\* The loop on the detached list: the loads of the cell, of next_free and of
\* the bitfield. Only this thread writes the next_free of a detached page.
WalkFree(t) ==
  /\ pc[t] = "walk"
  /\ Safe(t)
  /\ \/ /\ Cell(t) = Null
        /\ Goto(t, "retain")
        /\ UNCHANGED loc
     \/ /\ Cell(t) # Null
        /\ Untouched(Cell(t))
        /\ loc' = [loc EXCEPT ![t].page = Cell(t), ![t].nxt = nextFree[Cell(t)]]
        /\ Goto(t, "unlink")
     \/ /\ Cell(t) # Null
        /\ ~Untouched(Cell(t))
        /\ loc' = [loc EXCEPT ![t].cur = Cell(t)]
        /\ UNCHANGED pc
  /\ UNCHANGED <<pageVars, listVars, arenaVars>>

\* current.compare_exchange(current_value, next_value)
Unlink(t) ==
  /\ pc[t] = "unlink"
  /\ Safe(t)
  /\ LET taken == Append(loc[t].batch, loc[t].page)
     IN  \/ /\ Cell(t) = loc[t].page
            /\ loc[t].cur = Null
            /\ loc' = [loc EXCEPT ![t].start = loc[t].nxt, ![t].batch = taken]
            /\ UNCHANGED nextFree
         \/ /\ Cell(t) = loc[t].page
            /\ loc[t].cur # Null
            /\ loc' = [loc EXCEPT ![t].batch = taken]
            /\ nextFree' = [nextFree EXCEPT ![loc[t].cur] = loc[t].nxt]
         \/ /\ Cell(t) # loc[t].page
            /\ UNCHANGED <<nextFree, loc>>
  /\ Goto(t, "walk")
  /\ UNCHANGED <<marked, used, arenaBit, freed, listVars, arenaVars>>

\* to_drop.retain: check that the page has not been used by another thread.
RetainUntouched(t) ==
  /\ pc[t] = "retain"
  /\ Safe(t)
  /\ loc' = [loc EXCEPT ![t].batch = Kept(@, {p \in Pages : Untouched(p)})]
  /\ Goto(t, "unfull")
  /\ UNCHANGED <<pageVars, listVars, arenaVars>>

\* The loop on the full list, which nobody but the writer changes.
RemoveFromFull(t) ==
  /\ pc[t] = "unfull"
  /\ Safe(t)
  /\ full' = Kept(full, Pages \ ToSet(loc[t].batch))
  /\ Goto(t, IF loc[t].batch = <<>> THEN "restore" ELSE "resetDelay")
  /\ UNCHANGED <<pageVars, free, pending, arenaVars, loc>>

ResetDelay(t) ==
  /\ pc[t] = "resetDelay"
  /\ delay' = 0
  /\ Goto(t, "grab")
  /\ UNCHANGED <<pageVars, listVars, npages, writer, shrinking, toFree, arena, made, loc>>

\* self.to_free.swap(null)
GrabToFree(t) ==
  /\ pc[t] = "grab"
  /\ loc' = [loc EXCEPT ![t].rest = toFree]
  /\ toFree' = <<>>
  /\ Goto(t, "give")
  /\ UNCHANGED <<pageVars, listVars, npages, writer, shrinking, delay, arena, made>>

\* to_free.append(to_drop); self.to_free.swap(to_free); assert!(old.is_null())
GiveToFree(t) ==
  /\ pc[t] = "give"
  /\ toFree' = loc[t].rest \o loc[t].batch
  /\ Goto(t, IF toFree = <<>> THEN "restore" ELSE "panic")
  /\ UNCHANGED <<pageVars, listVars, npages, writer, shrinking, delay, arena, made, loc>>

\* self.free_list.swap(start); assert!(old.is_null(), "OLD NOT NULL")
RestoreFree(t) ==
  /\ pc[t] = "restore"
  /\ free' = loc[t].start
  /\ Goto(t, IF free = Null THEN "uncount" ELSE "panic")
  /\ UNCHANGED <<pageVars, pending, full, arenaVars, loc>>

UncountPages(t) ==
  /\ pc[t] = "uncount"
  /\ npages' = (npages - Len(loc[t].batch)) % USIZE
  /\ Goto(t, "unshrink")
  /\ UNCHANGED <<pageVars, listVars, writer, shrinking, toFree, delay, arena, made, loc>>

EndShrinking(t) ==
  /\ pc[t] = "unshrink"
  /\ shrinking' = FALSE
  /\ Goto(t, "unlock")
  /\ UNCHANGED <<pageVars, listVars, npages, writer, toFree, delay, arena, made, loc>>

Unlock(t) ==
  /\ pc[t] = "unlock"
  /\ writer' = FALSE
  /\ Return(t)
  /\ UNCHANGED <<pageVars, listVars, npages, shrinking, toFree, delay, arena, made>>

-----------------------------------------------------------------------------
(* PageSharedArena::drop_block, by any thread that has a handle.           *)

\* The fetch_add, and the deallocation by the last user of the page.
GiveBlock(t, p) ==
  /\ t \in Droppers
  /\ pc[t] = "idle"
  /\ p \notin freed
  /\ used[p] > 0
  /\ used' = [used EXCEPT ![p] = @ - 1]
  /\ \/ /\ used[p] = 1 /\ p \notin arenaBit
        /\ freed' = freed \cup {p}
        /\ UNCHANGED <<pc, loc>>
     \/ /\ used[p] > 1 \/ p \in arenaBit
        /\ Goto(t, "marked")
        /\ loc' = [loc EXCEPT ![t].page = p]
        /\ UNCHANGED freed
  /\ UNCHANGED <<nextFree, marked, arenaBit, listVars, arenaVars>>

LoadMark(t) ==
  /\ pc[t] = "marked"
  /\ Safe(t)
  /\ \/ loc[t].page \in marked /\ Return(t)
     \/ loc[t].page \notin marked /\ Goto(t, "swap") /\ UNCHANGED loc
  /\ UNCHANGED <<pageVars, listVars, arenaVars>>

SwapMark(t) ==
  /\ pc[t] = "swap"
  /\ Safe(t)
  /\ marked' = marked \cup {loc[t].page}
  /\ \/ loc[t].page \in marked /\ Return(t)
     \/ loc[t].page \notin marked /\ Goto(t, "upgrade") /\ UNCHANGED loc
  /\ UNCHANGED <<nextFree, used, arenaBit, freed, listVars, arenaVars>>

\* page.arena_pending_list.upgrade(): None once the arena is gone.
UpgradePending(t) ==
  /\ pc[t] = "upgrade"
  /\ Safe(t)
  /\ \/ arena # "dropped" /\ Goto(t, "push") /\ UNCHANGED loc
     \/ arena = "dropped" /\ Return(t)
  /\ UNCHANGED <<pageVars, listVars, arenaVars>>

\* The load of the head of the pending list and the store of next_free.
LinkPending(t) ==
  /\ pc[t] = "push"
  /\ Safe(t)
  /\ loc' = [loc EXCEPT ![t].nxt = pending]
  /\ nextFree' = [nextFree EXCEPT ![loc[t].page] = pending]
  /\ Goto(t, "pushCas")
  /\ UNCHANGED <<marked, used, arenaBit, freed, listVars, arenaVars>>

\* arena_pending_list.compare_exchange(current, page_ptr)
PushPending(t) ==
  /\ pc[t] = "pushCas"
  /\ \/ pending = loc[t].nxt /\ pending' = loc[t].page /\ Return(t)
     \/ pending # loc[t].nxt /\ Goto(t, "push") /\ UNCHANGED <<pending, loc>>
  /\ UNCHANGED <<pageVars, free, full, arenaVars>>

-----------------------------------------------------------------------------
(* SharedArena::drop has `&mut self': nobody is in find_place or shrink.   *)

StartDropArena(t) ==
  /\ t \in Droppers
  /\ pc[t] = "idle"
  /\ arena = "open"
  /\ \A u \in Threads : pc[u] \notin FindPlace \cup Shrink
  /\ arena' = "dropping"
  /\ loc' = [loc EXCEPT ![t].batch = toFree \o full]
  /\ Goto(t, "dropArena")
  /\ UNCHANGED <<pageVars, listVars, npages, writer, shrinking, toFree, delay, made>>

\* The fields are dropped, with the strong reference to pending_free_list.
EndDropArena(t) ==
  /\ pc[t] = "dropArena"
  /\ loc[t].batch = <<>>
  /\ arena' = "dropped"
  /\ Return(t)
  /\ UNCHANGED <<pageVars, listVars, npages, writer, shrinking, toFree, delay, made>>

\* A thread whose next access is to the memory of a page that was freed: it
\* takes no further step here.
TouchFreed(t) ==
  /\ ~Safe(t)
  /\ Goto(t, "wild")
  /\ UNCHANGED <<pageVars, listVars, arenaVars, loc>>

-----------------------------------------------------------------------------
(* What a call returns that only reads, when nobody moves pages meanwhile. *)

Chain(head) == Listed(nextFree, head)

\* count_ones and count_zeros of the bitfield, with the arena's bit.
Ones(p)  == BLOCK_PER_PAGE - used[p] + (IF p \in arenaBit THEN 1 ELSE 0)
Zeros(p) == BLOCK_PER_PAGE + 1 - Ones(p)

\* The free blocks are counted in the lists, the others are what is missing to
\* npages full pages.
stats ==
  LET count(head) == Total([p \in Pages |-> IF p \in Chain(head) THEN Ones(p) - 1 ELSE 0])
      blocks_free == count(free) + count(pending)
  IN  <<(npages * BLOCK_PER_PAGE - blocks_free) % USIZE, blocks_free>>

\* Debug: the used and the free blocks of the pages of full_list.
fmt ==
  LET pages == [i \in DOMAIN full |->
                 [used |-> Zeros(full[i]), free |-> BLOCK_PER_PAGE - Zeros(full[i])]]
  IN  [blocks_free |-> Total([i \in DOMAIN pages |-> pages[i].free]),
       blocks_used |-> Total([i \in DOMAIN pages |-> pages[i].used]),
       npages |-> npages, pages |-> pages]

-----------------------------------------------------------------------------

FindPlaceStep(t) ==
  \/ LoadHead(t) \/ AcquireFreeBlock(t) \/ LoadNextFree(t) \/ PopFree(t) \/ UnmarkPage(t)
  \/ TryGuard(t) \/ SeeLocked(t) \/ RecheckFree(t)
  \/ LoadPending(t) \/ TakePending(t) \/ InstallPending(t)
  \/ LoadToFree(t) \/ TakeToFree(t) \/ AllocNewPages(t)
  \/ PutFull(t) \/ PutFree(t) \/ CountPages(t) \/ PutBackRest(t) \/ ZeroDelay(t)
  \/ Release(t)
  \/ LoadDelay(t) \/ BumpDelay(t) \/ SweepToFree(t) \/ DropPages(t) \/ EndOfSweep(t)

ShrinkStep(t) ==
  \/ Lock(t) \/ DetachFree(t) \/ WalkFree(t) \/ Unlink(t) \/ RetainUntouched(t)
  \/ RemoveFromFull(t) \/ ResetDelay(t) \/ GrabToFree(t) \/ GiveToFree(t)
  \/ RestoreFree(t) \/ UncountPages(t) \/ EndShrinking(t) \/ Unlock(t)

DropBlockStep(t) ==
  LoadMark(t) \/ SwapMark(t) \/ UpgradePending(t) \/ LinkPending(t) \/ PushPending(t)

\* What a thread goes on to do by itself once it has started.
Continue(t) ==
  FindPlaceStep(t) \/ ShrinkStep(t) \/ DropBlockStep(t) \/ EndDropArena(t) \/ TouchFreed(t)

\* What its caller decides.
Start(t) ==
  \/ StartAlloc(t)
  \/ StartShrink(t)
  \/ \E p \in Pages : GiveBlock(t, p)
  \/ StartDropArena(t)

Next == \E t \in Threads : Continue(t) \/ Start(t)

Spec == Init /\ [][Next]_vars

\* Every thread inside an operation goes on until the operation is over.
FairSpec == Spec /\ \A t \in Threads : WF_vars(Continue(t))

-----------------------------------------------------------------------------
(* Where the pages are.                                                    *)

\* The list that a thread has taken from the arena and puts back later.
InHand(t) ==
  CASE pc[t] = "install" -> loc[t].page
    [] pc[t] \in Shrink \ {"lock", "detach", "uncount", "unshrink", "unlock"} -> loc[t].start
    [] OTHER -> Null

ListedPages == Chain(free) \cup Chain(pending) \cup UNION {Chain(InHand(t)) : t \in Threads}

\* Nobody is inside find_place, shrink_to_fit or the drop of the arena.
Resting == \A t \in Threads : pc[t] \notin FindPlace \cup Shrink \cup {"dropArena"}

(* Whatever the threads (Spec, all threads allocating and shrinking).      *)

\* The asserts on the lists never fail ("Arena.free isn't null", "OLD NOT
\* NULL", the old to_free is null): find_place can make the free list empty at
\* any moment, but only the writer makes an empty list non-empty.
AssertsHold == \A t \in Threads : pc[t] # "panic"

\* Two threads never hold a WriterGuard at the same time, and writer tells
\* whether one does ("A single and only thread run this block at a time").
WriterIsExclusive ==
  /\ \A t, u \in Threads : loc[t].guarded /\ loc[u].guarded => t = u
  /\ writer <=> \E t \in Threads : loc[t].guarded

(* When one thread allocates and shrinks, while any thread drops handles.  *)

\* A page is at most once in at most one of free_list, pending_free_list and
\* the list that shrink_to_fit or find_place has in hand.
ListsAreDisjoint ==
  /\ Ends(nextFree, free) /\ Ends(nextFree, pending) /\ \A t \in Threads : Ends(nextFree, InHand(t))
  /\ Chain(free) \cap Chain(pending) = {}
  /\ \A t \in Threads : Chain(InHand(t)) \cap (Chain(free) \cup Chain(pending)) = {}

\* No handle points into a page that waits to be freed, so freeing it cannot
\* take a value from under its handle.
ToFreeIsUnused == \A p \in ToSet(toFree) : used[p] = 0

\* A page from which find_place can take a block is one that shrink_to_fit
\* finds in full_list ("If we update self.page_list _after_ self.free
\* shrink_to_fit will try to remove pages that are not yet in
\* self.page_list"), and those that wait to be freed are not among them, nor in use.
ListedPagesAreInFull ==
  /\ ListedPages \subseteq ToSet(full)
  /\ ListedPages \cap ToSet(toFree) = {}
  /\ ToFreeIsUnused

\* Between two calls the arena has every page it has not let go exactly once,
\* in full_list or in to_free, and npages counts those of full_list; so the
\* subtraction of stats does not wrap, and stats, which looks at other lists,
\* never takes a block for free that Debug shows as used.
PagesAreAccountedFor ==
  Resting /\ arena = "open" =>
    /\ IsInjective(full \o toFree)
    /\ ToSet(full \o toFree) = arenaBit
    /\ npages = Len(full)
    /\ stats[1] + stats[2] = npages * BLOCK_PER_PAGE
    /\ stats[1] >= fmt.blocks_used

\* Between two calls a page that says it is in the free list is in a list, in
\* to_free, or on its way to the pending list: only then is it right that a
\* drop_block that sees the mark does not push the page.
MarkedPagesAreReachable ==
  Resting /\ arena = "open" =>
    marked \cap arenaBit \subseteq
      ListedPages \cup ToSet(toFree)
        \cup {loc[t].page : t \in {u \in Threads : pc[u] \in {"upgrade", "push", "pushCas"}}}

\* When the arena is gone exactly the pages with a block in use are left.
DroppedArenaFreesPages ==
  arena = "dropped" => \A p \in 1 .. made : p \in freed <=> used[p] = 0

\* drop_page runs once per page: its fetch_sub never finds the arena bit clear,
\* which would set the bit again and revive the page.
DropPageOnce == [][\A p \in 1 .. made : p \in arenaBit' => p \in arenaBit]_vars

\* Each page as PageLife describes it, before it is made as after. Its used blocks
\* are only counted here: which they are is in SharedPage.
Life(p) == INSTANCE PageLife WITH
  Blocks <- 1 .. BLOCK_PER_PAGE,
  Arena <- Null,
  sharers <- (1 .. used[p]) \cup {x \in {Null} : p \in arenaBit \/ p > made},
  freed <- p \in freed

\* The lists keep the promise of PageLife for every page: find_place takes no
\* block of a page that nobody shares, the arena bit is cleared once and never set
\* again, and of the threads that drop the blocks of a page, maybe_free_pages and
\* the drop of the arena one frees it, once.
ImplementsPageLife ==
  /\ \A p \in Pages : Life(p)!Init
  /\ [][\A p \in Pages : [Life(p)!Next]_(Life(p)!vars)]_vars

\* Neither find_place nor shrink_to_fit nor the drop of the arena accesses the
\* memory of a freed page, while other threads free pages by dropping handles: what
\* they find in the lists, or have read before, still exists.
MovedPagesExist ==
  \A t \in Threads : pc[t] \in FindPlace \cup Shrink \cup {"dropArena"} => Safe(t)

\* alloc returns: find_place does not go round for ever among empty lists, a
\* lock it holds itself and pages that are full, unless no page can be made.
AllocReturns ==
  \A t \in Allocators : pc[t] = "head" ~> pc[t] = "idle" \/ pc[t] = "allocate"

(* When nobody shrinks, while any threads allocate and drop handles.       *)

\* Whatever the threads read and install late, from the head of the free list one
\* comes only to pages that full_list has, and thus only to pages that exist and
\* that the drop of the arena finds. The compare_exchange of find_place, which may
\* install a next_free that is out of date, does not give that when a thread shrinks
\* beside another that allocates.
FreePagesAreInFull == Chain(free) \subseteq ToSet(full)

(* What the code does not guarantee; each is refuted by a run.             *)

\* When every block is in use and one thread allocates alone, it comes to the end
\* of the free list and makes pages ("The Arena will reallocate itself if there is
\* not enough space when allocating"): the list is no circle of full pages.
FullArenaGrows ==
  \A t \in Threads :
    /\ pc[t] = "head" /\ \A u \in Threads \ {t} : pc[u] = "idle"
    /\ \A p \in 1 .. made : used[p] = BLOCK_PER_PAGE
    => Ends(nextFree, free)

\* shrink_to_fit leaves no unused page in the arena ("It will drop all pages
\* that are unused").
ShrinkLeavesNoUnusedPage ==
  \A t \in Threads : pc[t] = "unlock" => \A p \in ToSet(full) : used[p] > 0
=============================================================================
