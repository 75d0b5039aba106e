-------------------------------- MODULE Arena --------------------------------
(***************************************************************************)
(* Arena and its pages (src/arena.rs, src/page/arena.rs). One thread, the  *)
(* owner, allocates and shrinks: free_list, full_list and npages are its   *)
(* own. Handles are dropped by any thread. A page therefore has two words: *)
(* the plain one, from which only the owner takes blocks, and the atomic   *)
(* one, in which the others return them; the owner moves the content of    *)
(* the second into the first. The arena's bit is in the plain word until   *)
(* drop_page joins the plain word to the atomic one.                       *)
(*                                                                         *)
(* What only the owner reads and writes changes in the same step as the    *)
(* access to shared memory before it. Each atomic access is a step.        *)
(***************************************************************************)
EXTENDS Bitfield, PageList

CONSTANTS
  Threads,      \* those that drop handles
  Owner,        \* the one of them that has the Arena
  Capacity,     \* the number of pages with_capacity starts with
  MaxAllocate   \* 900_000, the limit on the pages allocated at once

ASSUME ArenaAssumption ==
  /\ Owner \in Threads
  /\ {Capacity, MaxPages, MaxAllocate} \subseteq Nat \ {0}
  /\ Capacity <= MaxPages

VARIABLES
  \* the pages
  plain,       \* page.bitfield
  atomic,      \* page.bitfield_atomic
  nextFree,    \* page.next_free
  marked,      \* the pages whose in_free_list is true
  freed,       \* the pages that were deallocated
  \* the arena
  free, pending, full, npages,
  arena,       \* "open", "dropping" or "dropped"
  made,        \* how many pages were allocated so far
  \* the threads
  held,        \* the blocks <<page, index>> that have a handle
  pc,
  page, nxt,   \* drop_block: the page at hand, and the head of the pending list
  own          \* the owner's locals

wordVars == <<plain, atomic, held>>
listVars == <<nextFree, marked, free, pending, full, npages, made>>
vars == <<plain, atomic, nextFree, marked, freed, free, pending, full, npages,
          arena, made, held, pc, page, nxt, own>>

Locals ==
  [page : Pointer, block : Blocks,  \* find_place: the page, and the block it found
   init : BOOLEAN,                  \* alloc_with: an initializer has to run
   start : Pointer,                 \* shrink_to_fit: the head of the list in hand
   cur   : Pointer,                 \* and the page whose next_free is `current', if any
   batch : Seq(Pages),              \* to_drop, or what the drop of the arena lets go
   i     : 0 .. MaxPages]           \* how many of them have been let go

NoLocals ==
  [page |-> Null, block |-> 0, init |-> FALSE, start |-> Null, cur |-> Null,
   batch |-> <<>>, i |-> 0]

OwnerLabels ==
  {"head", "refill", "pop", "unmark", "init", "walk", "unfull", "dropPages", "dealloc",
   "dropArena", "panic"}
DropLabels == {"marked", "swap", "upgrade", "push", "pushCas", "last"}

TypeOK ==
  /\ plain \in [Pages -> SUBSET Bits] /\ atomic \in [Pages -> SUBSET Bits]
  /\ nextFree \in [Pages -> Pointer]
  /\ marked \subseteq Pages /\ freed \subseteq Pages
  /\ free \in Pointer /\ pending \in Pointer
  /\ full \in Seq(Pages) /\ npages \in 0 .. MaxPages
  /\ arena \in {"open", "dropping", "dropped"} /\ made \in 0 .. MaxPages
  /\ held \subseteq Pages \X Blocks
  /\ pc \in [Threads -> {"idle", "wild"} \cup DropLabels \cup OwnerLabels]
  /\ \A t \in Threads \ {Owner} : pc[t] \notin OwnerLabels
  /\ page \in [Threads -> Pointer] /\ nxt \in [Threads -> Pointer]
  /\ own \in Locals

-----------------------------------------------------------------------------
(* Helpers.                                                                *)

Goto(t, label) == pc' = [pc EXCEPT ![t] = label]

\* In drop_block, whose locals are gone when it returns.
Move(t, label) ==
  /\ Goto(t, label)
  /\ IF label = "idle"
     THEN page' = [page EXCEPT ![t] = Null] /\ nxt' = [nxt EXCEPT ![t] = Null]
     ELSE UNCHANGED <<page, nxt>>

\* What `bitfield | bitfield_atomic' shows of a page.
Union(p) == plain[p] \cup atomic[p]

\* shrink_to_fit's `current' is the pointer to a list cell: the local one that
\* holds the head of the list in hand, or the next_free of a page.
Cell == IF own.cur = Null THEN own.start ELSE nextFree[own.cur]

\* PageArena::new: all the blocks of a page and the arena's bit are in the plain
\* word. The model has a page's words from the start, also before it is made.
NewPage == [bitfield |-> Bits, bitfield_atomic |-> {}]

\* PageArena::make_list: the next n pages.
make_list(n) == NewList(made, n)

\* with_capacity.
Init ==
  /\ made = Capacity
  /\ plain = [p \in Pages |-> NewPage.bitfield]
  /\ atomic = [p \in Pages |-> NewPage.bitfield_atomic]
  /\ nextFree = Linked([p \in Pages |-> Null], NewList(0, Capacity))
  /\ marked = 1 .. Capacity
  /\ freed = {}
  /\ free = Capacity
  /\ pending = Null
  /\ full = NewList(0, Capacity)
  /\ npages = Capacity
  /\ arena = "open"
  /\ held = {}
  /\ pc = [t \in Threads |-> "idle"]
  /\ page = [t \in Threads |-> Null]
  /\ nxt = [t \in Threads |-> Null]
  /\ own = NoLocals

-----------------------------------------------------------------------------
(* Faulty variants of the actions below, named for the slip. No behaviour  *)
(* of this module uses them: each violates a property when it takes the    *)
(* place of the action.                                                    *)

AcquireArenaBit ==
  /\ pc[Owner] = "head"
  /\ free # Null
  /\ LET b == TrailingZeros(plain[free])
     IN  plain' = [plain EXCEPT ![free] = FetchAndNot(@, b)] /\ held' = held \cup {<<free, b>>}
  /\ own' = NoLocals /\ Goto(Owner, "idle")
  /\ UNCHANGED <<atomic, listVars, freed, arena, page, nxt>>

RefillByLoad ==
  /\ pc[Owner] = "refill"
  /\ plain' = [plain EXCEPT ![free] = @ \cup atomic[free]]
  /\ Goto(Owner, "head")
  /\ UNCHANGED <<atomic, held, listVars, freed, arena, page, nxt, own>>

PopFullForgotten ==
  /\ pc[Owner] = "pop"
  /\ own' = [own EXCEPT !.page = free]
  /\ Goto(Owner, "unmark")
  /\ UNCHANGED <<wordVars, listVars, freed, arena, page, nxt>>

ReturnIgnoresArenaBit(t, p, b) ==
  /\ held' = held \ {<<p, b>>}
  /\ atomic' = [atomic EXCEPT ![p] = FetchAddBit(@, b)]
  /\ page' = [page EXCEPT ![t] = p]
  /\ Goto(t, IF Blocks \subseteq atomic[p] \cup {b} THEN "last" ELSE "marked")
  /\ UNCHANGED <<plain, listVars, freed, arena, nxt>>

SwapMarkIgnoresOld(t) ==
  /\ pc[t] = "swap"
  /\ marked' = marked \cup {page[t]}
  /\ Move(t, "upgrade")
  /\ UNCHANGED <<wordVars, nextFree, free, pending, full, npages, made, freed, arena, own>>

UnlinkAnyPage ==
  /\ pc[Owner] = "walk"
  /\ Cell # Null
  /\ own.cur = Null
  /\ own' = [own EXCEPT !.start = nextFree[Cell], !.batch = Append(@, Cell)]
  /\ UNCHANGED <<wordVars, listVars, freed, arena, pc, page, nxt>>

RemoveFromFullForgotten ==
  /\ pc[Owner] = "walk"
  /\ Cell = Null
  /\ Goto(Owner, "dropPages")
  /\ UNCHANGED <<wordVars, listVars, freed, arena, page, nxt, own>>

DropPageOnlyArenaBit(p) ==
  /\ atomic' = [atomic EXCEPT ![p] = @ \cup {ArenaBit}]
  /\ own' = [own EXCEPT !.i = @ + 1, !.page = IF Union(p) = Bits THEN p ELSE Null]
  /\ IF Union(p) = Bits THEN Goto(Owner, "dealloc") ELSE UNCHANGED pc
  /\ UNCHANGED <<plain, held, listVars, freed, arena, page, nxt>>

-----------------------------------------------------------------------------
(* Arena::find_place, by the owner.                                        *)

StartAlloc(with) ==
  /\ pc[Owner] = "idle"
  /\ arena = "open"
  /\ own' = [NoLocals EXCEPT !.init = with]
  /\ Goto(Owner, "head")
  /\ UNCHANGED <<wordVars, listVars, freed, arena, page, nxt>>

\* alloc_arc and alloc_rc differ in the handle they make, which does not matter
\* here, and so do those `with' an initializer.
alloc      == StartAlloc(FALSE)
alloc_with == StartAlloc(TRUE)

\* acquire_free_block: the plain word has a free block, and there is a handle.
Acquire ==
  /\ pc[Owner] = "head"
  /\ free # Null
  /\ LET b == TrailingZeros(plain[free])
     IN  /\ b # BLOCK_PER_PAGE
         /\ plain' = [plain EXCEPT ![free] = FetchAndNot(@, b)]
         /\ held' = held \cup {<<free, b>>}
         /\ IF own.init
            THEN own' = [own EXCEPT !.page = free, !.block = b] /\ Goto(Owner, "init")
            ELSE own' = NoLocals /\ Goto(Owner, "idle")
  /\ UNCHANGED <<atomic, listVars, freed, arena, page, nxt>>

\* Only the arena's bit is left: were blocks returned?
LoadReturned ==
  /\ pc[Owner] = "head"
  /\ free # Null
  /\ TrailingZeros(plain[free]) = BLOCK_PER_PAGE
  /\ Goto(Owner, IF atomic[free] # {} THEN "refill" ELSE "pop")
  /\ UNCHANGED <<wordVars, listVars, freed, arena, page, nxt, own>>

\* bitfield.get() | bitfield_atomic.swap(0)
Refill ==
  /\ pc[Owner] = "refill"
  /\ plain' = [plain EXCEPT ![free] = @ \cup atomic[free]]
  /\ atomic' = [atomic EXCEPT ![free] = {}]
  /\ Goto(Owner, "head")
  /\ UNCHANGED <<held, listVars, freed, arena, page, nxt, own>>

PopFull ==
  /\ pc[Owner] = "pop"
  /\ own' = [own EXCEPT !.page = free]
  /\ free' = nextFree[free]
  /\ Goto(Owner, "unmark")
  /\ UNCHANGED <<wordVars, nextFree, marked, pending, full, npages, made, freed, arena, page, nxt>>

Unmark ==
  /\ pc[Owner] = "unmark"
  /\ marked' = marked \ {own.page}
  /\ own' = [own EXCEPT !.page = Null]
  /\ Goto(Owner, "head")
  /\ UNCHANGED <<wordVars, nextFree, free, pending, full, npages, made, freed, arena, page, nxt>>

\* The load of the pending list, then the swap: only the owner empties it.
TakePending ==
  /\ pc[Owner] = "head"
  /\ free = Null
  /\ pending # Null
  /\ free' = pending
  /\ pending' = Null
  /\ UNCHANGED <<wordVars, nextFree, marked, full, npages, made, freed, arena, pc, page, nxt, own>>

\* alloc_new_page makes as many new pages as there are already.
ToAllocate == Min({Max({npages, 1}), MaxAllocate})

AllocNewPage ==
  /\ pc[Owner] = "head"
  /\ free = Null
  /\ pending = Null
  /\ made + ToAllocate <= MaxPages
  /\ LET list == make_list(ToAllocate)
     IN  /\ made' = made + ToAllocate
         /\ nextFree' = Linked(nextFree, list)
         /\ marked' = marked \cup ToSet(list)
         /\ full' = list \o full
         /\ free' = Head(list)
         /\ npages' = npages + ToAllocate
  /\ UNCHANGED <<wordVars, pending, freed, arena, pc, page, nxt, own>>

\* alloc_with made the handle before it ran the initializer, which returned the
\* reference it was given.
EndInit ==
  /\ pc[Owner] = "init"
  /\ own' = NoLocals
  /\ Goto(Owner, "idle")
  /\ UNCHANGED <<wordVars, listVars, freed, arena, page, nxt>>

-----------------------------------------------------------------------------
(* PageArena::drop_block, by any thread that has a handle.                 *)

\* The fetch_add, after the value was dropped. Who sees all the bits set goes
\* on to deallocate the page.
Return(t, p, b) ==
  /\ held' = held \ {<<p, b>>}
  /\ atomic' = [atomic EXCEPT ![p] = FetchAddBit(@, b)]
  /\ page' = [page EXCEPT ![t] = p]
  /\ Goto(t, IF atomic[p] \cup {b} = Bits THEN "last" ELSE "marked")
  /\ UNCHANGED <<plain, listVars, freed, arena, nxt>>

\* The last handle of a block is dropped. That of a block whose initializer
\* runs is not out yet.
DropBlock(t, p, b) ==
  /\ pc[t] = "idle"
  /\ <<p, b>> \in held
  /\ pc[Owner] = "init" => <<p, b>> # <<own.page, own.block>>
  /\ Return(t, p, b)
  /\ UNCHANGED own

\* The initializer panics, or returns another reference, on which alloc_with
\* panics: the handle that was made is dropped.
InitPanics ==
  /\ pc[Owner] = "init"
  /\ Return(Owner, own.page, own.block)
  /\ own' = NoLocals

Deallocate(t) ==
  /\ pc[t] = "last"
  /\ freed' = freed \cup {page[t]}
  /\ Move(t, "idle")
  /\ UNCHANGED <<wordVars, listVars, arena, own>>

\* The accesses to the page that follow. It may have been freed in the
\* meantime: what the thread does then is undefined, and not followed.
Safe(t) == page[t] \notin freed

LoadMark(t) ==
  /\ pc[t] = "marked"
  /\ Safe(t)
  /\ Move(t, IF page[t] \in marked THEN "idle" ELSE "swap")
  /\ UNCHANGED <<wordVars, listVars, freed, arena, own>>

SwapMark(t) ==
  /\ pc[t] = "swap"
  /\ Safe(t)
  /\ marked' = marked \cup {page[t]}
  /\ Move(t, IF page[t] \in marked THEN "idle" ELSE "upgrade")
  /\ UNCHANGED <<wordVars, nextFree, free, pending, full, npages, made, freed, arena, own>>

\* page.arena_pending_list.upgrade(): None once the arena is gone.
UpgradePending(t) ==
  /\ pc[t] = "upgrade"
  /\ Safe(t)
  /\ Move(t, IF arena = "dropped" THEN "idle" ELSE "push")
  /\ UNCHANGED <<wordVars, listVars, freed, arena, own>>

LinkPending(t) ==
  /\ pc[t] = "push"
  /\ Safe(t)
  /\ nxt' = [nxt EXCEPT ![t] = pending]
  /\ nextFree' = [nextFree EXCEPT ![page[t]] = pending]
  /\ Goto(t, "pushCas")
  /\ UNCHANGED <<wordVars, marked, free, pending, full, npages, made, freed, arena, page, own>>

PushPending(t) ==
  /\ pc[t] = "pushCas"
  /\ \/ pending = nxt[t] /\ pending' = page[t] /\ Move(t, "idle")
     \/ pending # nxt[t] /\ Move(t, "push") /\ UNCHANGED pending
  /\ UNCHANGED <<wordVars, nextFree, marked, free, full, npages, made, freed, arena, own>>

TouchFreed(t) ==
  /\ pc[t] \in {"marked", "swap", "upgrade", "push"}
  /\ ~Safe(t)
  /\ Goto(t, "wild")
  /\ UNCHANGED <<wordVars, listVars, freed, arena, page, nxt, own>>

-----------------------------------------------------------------------------
(* Arena::shrink_to_fit and Arena::drop, by the owner.                     *)

\* The free list is taken in hand.
StartShrink ==
  /\ pc[Owner] = "idle"
  /\ arena = "open"
  /\ own' = [NoLocals EXCEPT !.start = free]
  /\ free' = Null
  /\ Goto(Owner, "walk")
  /\ UNCHANGED <<wordVars, nextFree, marked, pending, full, npages, made, freed, arena, page, nxt>>

\* The loop on the list in hand. Nobody else writes the pointers of its cells,
\* so that the compare_exchange succeeds.
Unlink ==
  /\ pc[Owner] = "walk"
  /\ Cell # Null
  /\ Union(Cell) = Bits
  /\ IF own.cur = Null
     THEN /\ own' = [own EXCEPT !.start = nextFree[Cell], !.batch = Append(@, Cell)]
          /\ UNCHANGED nextFree
     ELSE /\ own' = [own EXCEPT !.batch = Append(@, Cell)]
          /\ nextFree' = [nextFree EXCEPT ![own.cur] = nextFree[Cell]]
  /\ UNCHANGED <<wordVars, marked, free, pending, full, npages, made, freed, arena, pc, page, nxt>>

KeepUsed ==
  /\ pc[Owner] = "walk"
  /\ Cell # Null
  /\ Union(Cell) # Bits
  /\ own' = [own EXCEPT !.cur = Cell]
  /\ UNCHANGED <<wordVars, listVars, freed, arena, pc, page, nxt>>

\* The end of that loop, and the loop on the full list.
RemoveFromFull ==
  /\ pc[Owner] = "walk"
  /\ Cell = Null
  /\ full' = Kept(full, Pages \ ToSet(own.batch))
  /\ Goto(Owner, "dropPages")
  /\ UNCHANGED <<wordVars, nextFree, marked, free, pending, npages, made, freed, arena, page, nxt, own>>

\* drop_page joins the plain word to the atomic one, with the arena's bit.
DropPage(p) ==
  /\ atomic' = [atomic EXCEPT ![p] = @ \cup plain[p]]
  /\ own' = [own EXCEPT !.i = @ + 1, !.page = IF Union(p) = Bits THEN p ELSE Null]
  /\ IF Union(p) = Bits THEN Goto(Owner, "dealloc") ELSE UNCHANGED pc
  /\ UNCHANGED <<plain, held, listVars, freed, arena, page, nxt>>

\* The loop on to_drop asserts that the pages are still unused.
DropPages ==
  /\ pc[Owner] = "dropPages"
  /\ own.i < Len(own.batch)
  /\ LET p == own.batch[own.i + 1]
     IN  \/ Union(p) = Bits /\ DropPage(p)
         \/ /\ Union(p) # Bits
            /\ Goto(Owner, "panic")
            /\ UNCHANGED <<wordVars, listVars, freed, arena, page, nxt, own>>

OwnerDeallocates ==
  /\ pc[Owner] = "dealloc"
  /\ freed' = freed \cup {own.page}
  /\ own' = [own EXCEPT !.page = Null]
  /\ Goto(Owner, IF arena = "open" THEN "dropPages" ELSE "dropArena")
  /\ UNCHANGED <<wordVars, listVars, arena, page, nxt>>

\* The rest of the list is put back.
EndShrink ==
  /\ pc[Owner] = "dropPages"
  /\ own.i = Len(own.batch)
  /\ free' = own.start
  /\ npages' = npages - Len(own.batch)
  /\ own' = NoLocals
  /\ Goto(Owner, "idle")
  /\ UNCHANGED <<wordVars, nextFree, marked, pending, full, made, freed, arena, page, nxt>>

StartDropArena ==
  /\ pc[Owner] = "idle"
  /\ arena = "open"
  /\ arena' = "dropping"
  /\ own' = [NoLocals EXCEPT !.batch = full]
  /\ Goto(Owner, "dropArena")
  /\ UNCHANGED <<wordVars, listVars, freed, page, nxt>>

\* The loop on the full list.
LetPagesGo ==
  /\ pc[Owner] = "dropArena"
  /\ own.i < Len(own.batch)
  /\ DropPage(own.batch[own.i + 1])

\* The fields are dropped, with the strong reference to pending_free_list.
EndDropArena ==
  /\ pc[Owner] = "dropArena"
  /\ own.i = Len(own.batch)
  /\ arena' = "dropped"
  /\ own' = NoLocals
  /\ Goto(Owner, "idle")
  /\ UNCHANGED <<wordVars, listVars, freed, page, nxt>>

-----------------------------------------------------------------------------
(* What the owner's call returns, read in one step.                        *)

\* stats: the blocks in use, by the zeros of the pages, and the free ones.
stats ==
  LET used == Total([i \in DOMAIN full |-> Cardinality(Bits \ Union(full[i]))])
  IN  <<used, Len(full) * BLOCK_PER_PAGE - used>>

\* Debug: the used and the free blocks of each page, and their sums.
fmt ==
  LET pages == [i \in DOMAIN full |->
                 LET used == Cardinality(Bits \ Union(full[i]))
                 IN  [used |-> used, free |-> BLOCK_PER_PAGE - used]]
  IN  [blocks_free |-> Total([i \in DOMAIN pages |-> pages[i].free]),
       blocks_used |-> Total([i \in DOMAIN pages |-> pages[i].used]),
       npages |-> npages, pages |-> pages]

-----------------------------------------------------------------------------

OwnerStep ==
  \/ Acquire \/ LoadReturned \/ Refill \/ PopFull \/ Unmark \/ TakePending \/ AllocNewPage
  \/ Unlink \/ KeepUsed \/ RemoveFromFull \/ DropPages \/ OwnerDeallocates \/ EndShrink
  \/ LetPagesGo \/ EndDropArena
  \/ EndInit \/ InitPanics

DropBlockStep(t) ==
  \/ Deallocate(t)
  \/ LoadMark(t) \/ SwapMark(t) \/ UpgradePending(t) \/ LinkPending(t) \/ PushPending(t)
  \/ TouchFreed(t)

\* What the callers decide.
Start ==
  \/ alloc \/ alloc_with \/ StartShrink \/ StartDropArena
  \/ \E t \in Threads, p \in Pages, b \in Blocks : DropBlock(t, p, b)

Next == OwnerStep \/ (\E t \in Threads : DropBlockStep(t)) \/ Start

Spec == Init /\ [][Next]_vars

\* Every thread inside an operation goes on until the operation is over.
FairSpec ==
  /\ Spec
  /\ WF_vars(OwnerStep)
  /\ \A t \in Threads : WF_vars(DropBlockStep(t))

-----------------------------------------------------------------------------
(* Safety.                                                                 *)

\* The chain the owner has taken from the arena and puts back.
InHand == IF pc[Owner] \in {"walk", "dropPages", "dealloc"} THEN own.start ELSE Null

ListedPages ==
  Listed(nextFree, free) \cup Listed(nextFree, pending) \cup Listed(nextFree, InHand)

\* The arena has not yet called drop_page.
Attached(p) == ArenaBit \notin atomic[p]

Pushers(p) == {t \in Threads : pc[t] \in {"upgrade", "push", "pushCas"} /\ page[t] = p}

\* A block has a handle, or is free in exactly one of the two words: no step
\* between the words loses a block or gives it twice. They only both hold a
\* block once drop_page has joined them.
BlocksHaveOnePlace ==
  \A p \in Pages, b \in Blocks :
    /\ <<p, b>> \in held <=> b \notin Union(p)
    /\ Attached(p) => b \notin plain[p] \cap atomic[p]

\* Those that found the page without a user and go on to deallocate it.
Freers(p) ==
  {t \in Threads : \/ pc[t] = "last" /\ page[t] = p
                   \/ t = Owner /\ pc[t] = "dealloc" /\ own.page = p}

\* No handle points into a page that is or will be freed: neither drop_page nor
\* a drop_block frees a page that somebody uses, the owner finds no such page to
\* take a block of, and of the owner that lets a page go and the droppers of its
\* last handles one frees it, once.
ReferencedPagesSurvive ==
  /\ \A h \in held : h[1] \notin freed /\ Freers(h[1]) = {}
  /\ \A p \in Pages : Cardinality(Freers(p)) <= IF p \in freed THEN 0 ELSE 1

\* A page is at most once in one of free_list, pending_free_list and the list
\* shrink_to_fit has in hand, or about to be pushed by one thread; all those
\* pages say that they are in the free list, and none was freed.
ListsAreDisjoint ==
  arena = "open" =>
    /\ Ends(nextFree, free) /\ Ends(nextFree, pending) /\ Ends(nextFree, InHand)
    /\ Listed(nextFree, free) \cap Listed(nextFree, pending) = {}
    /\ Listed(nextFree, InHand) \cap Listed(nextFree, pending) = {}
    /\ ListedPages \subseteq marked \ freed
    /\ \A p \in Pages : Cardinality(Pushers(p)) <= 1
    /\ \A p \in ListedPages : Pushers(p) = {}

\* Between two calls the full list has every page that was not freed, once,
\* and stats, which asserts that npages agrees with it, and Debug count the
\* handles.
StatsCountHandles ==
  arena = "open" /\ (pc[Owner] \notin OwnerLabels) =>
    /\ IsInjective(full) /\ ToSet(full) = (1 .. made) \ freed
    /\ npages = Len(full)
    /\ stats = <<Cardinality(held), npages * BLOCK_PER_PAGE - Cardinality(held)>>
    /\ stats = <<fmt.blocks_used, fmt.blocks_free>>

\* shrink_to_fit finds the pages of to_drop still unused when it lets them go:
\* no handle appears while it walks the lists.
AssertHolds == pc[Owner] # "panic"

-----------------------------------------------------------------------------
(* Refinement and liveness.                                                *)

\* Each page as PageLife describes it.
Life(p) == INSTANCE PageLife WITH
  Arena <- ArenaBit,
  sharers <- (Blocks \ Union(p)) \cup ({ArenaBit} \ atomic[p]),
  freed <- p \in freed

\* The two words of a page, which its owner and the droppers change
\* independently, keep the promise of PageLife: every step of the arena is a
\* step of PageLife for every page, or none.
ImplementsPageLife ==
  /\ \A p \in Pages : Life(p)!Init
  /\ [][\A p \in Pages : [Life(p)!Next]_(Life(p)!vars)]_vars

\* A page that shrink_to_fit let go, and every page once the arena is gone, is
\* freed in the end if it has no handle: the owner's drop_page and the last
\* drop_block do not leave it to each other, and the drop misses no page.
AbandonedPagesAreFreed ==
  \A p \in Pages :
    (/\ p <= made
     /\ ~Attached(p) \/ arena = "dropped"
     /\ \A b \in Blocks : <<p, b>> \notin held) ~> p \in freed

\* alloc returns, unless no more page can be made: the owner does not go round
\* for ever among full pages and pages that come back.
AllocReturns ==
  pc[Owner] = "head" ~>
    pc[Owner] \in {"idle", "init"} \/ (free = Null /\ made + ToAllocate > MaxPages)

(* What the code does not guarantee; refuted by a run.                     *)

\* No thread accesses a page that shrink_to_fit has freed ("Now we are 100% sure
\* that pages in to_drop are/will not be referenced anymore").
ShrunkPagesAreNotTouched == arena = "open" => \A t \in Threads : pc[t] # "wild"
=============================================================================
