-------------------------------- MODULE Pool --------------------------------
(***************************************************************************)
(* Pool, its pages and its handles (src/pool.rs, src/page/pool.rs,         *)
(* src/arena_rc.rs). Nothing here crosses threads, but calls nest: the     *)
(* destructor of a value runs inside drop_block, before the block is       *)
(* returned, and an initializer runs inside alloc_with; both may allocate, *)
(* drop other handles and, as a destructor does not borrow the pool,       *)
(* shrink or drop the pool. frames is the stack of the calls that wait for *)
(* the caller's code. What runs without calling it is one step.            *)
(***************************************************************************)
EXTENDS Bitfield, PageList

CONSTANTS
  Capacity,     \* the number of pages with_capacity starts with
  MaxAllocate,  \* 900_000, the limit on the pages allocated at once
  MaxRcs,       \* bound on the ArenaRc of a block
  MaxFrames     \* bound on the calls inside one another

ASSUME PoolAssumption ==
  /\ {Capacity, MaxPages, MaxAllocate, MaxRcs, MaxFrames} \subseteq Nat \ {0}
  /\ Capacity <= MaxPages

VARIABLES
  \* the pages
  bitfield,
  counter,      \* block.counter, by <<page, index>>: the handles of the block
  marked,       \* the pages whose in_free_list is true
  freed,        \* the pages that were deallocated
  \* the pool: its lists change at their head, or as a whole in shrink_to_fit
  free, page_list, npages,
  open,         \* the pool was not dropped
  made,         \* how many pages were allocated so far
  \* its users
  boxes,        \* the blocks whose handle is a PoolBox
  frames,
  leaked        \* the blocks whose value panicked when it was dropped

listVars == <<marked, free, page_list, npages, made>>
vars == <<bitfield, counter, marked, freed, free, page_list, npages, open, made,
          boxes, frames, leaked>>

AllBlocks == Pages \X Blocks

Frame == [call : {"alloc_with", "drop_block"}, block : AllBlocks]

TypeOK ==
  /\ bitfield \in [Pages -> SUBSET Bits]
  /\ counter \in [AllBlocks -> 0 .. MaxRcs]
  /\ marked \subseteq Pages /\ freed \subseteq Pages
  /\ free \in Seq(Pages) /\ page_list \in Seq(Pages) /\ npages \in 0 .. MaxPages
  /\ open \in BOOLEAN /\ made \in 0 .. MaxPages
  /\ boxes \subseteq AllBlocks /\ leaked \subseteq AllBlocks
  /\ frames \in Seq(Frame)

\* PagePool::new. The model has a page's word from the start, also before it is
\* made.
NewPage == [bitfield |-> Bits, counter |-> 0]

\* PagePool::make_list: the next n pages.
make_list(n) == NewList(made, n)

\* with_capacity.
Init ==
  /\ bitfield = [p \in Pages |-> NewPage.bitfield]
  /\ counter = [x \in AllBlocks |-> NewPage.counter]
  /\ marked = 1 .. Capacity
  /\ freed = {}
  /\ free = NewList(0, Capacity)
  /\ page_list = NewList(0, Capacity)
  /\ npages = Capacity
  /\ open = TRUE
  /\ made = Capacity
  /\ boxes = {} /\ frames = <<>> /\ leaked = {}

-----------------------------------------------------------------------------
(* Helpers, and faulty variants of some of them and of the actions below,  *)
(* named for the slip: each violates a property in the place of the other. *)

InCall(call) == frames # <<>> /\ Last(frames).call = call

\* The user has no initializer waiting, which borrows the pool.
NotBorrowed == open /\ \A i \in DOMAIN frames : frames[i].call # "alloc_with"

\* acquire_free_block finds a block in the page.
Usable(p) == TrailingZeros(bitfield[p]) # BLOCK_PER_PAGE

LastOutIgnoresArena(word) == word = Bits

\* `!bitfield == MASK_ARENA_BIT': the arena has let the page go, and no block
\* is in use.
LastOut(word) == Bits \ word = {ArenaBit}

DropPagesUnchecked(s) ==
  /\ bitfield' = [p \in Pages |-> IF p \in s THEN bitfield[p] \ {ArenaBit} ELSE bitfield[p]]
  /\ freed' = freed \cup s

\* drop_page, for the pages of s.
DropPages(s) ==
  /\ bitfield' = [p \in Pages |-> IF p \in s THEN bitfield[p] \ {ArenaBit} ELSE bitfield[p]]
  /\ freed' = freed \cup {p \in s : LastOut(bitfield[p] \ {ArenaBit})}

BeginDropReturnsBlock(x, outer) ==
  /\ frames' = Append(outer, [call |-> "drop_block", block |-> x])
  /\ bitfield' = [bitfield EXCEPT ![x[1]] = @ \cup {x[2]}]

\* drop_block up to the destructor of the value, called in the frames of outer.
BeginDrop(x, outer) ==
  /\ frames' = Append(outer, [call |-> "drop_block", block |-> x])
  /\ UNCHANGED bitfield

-----------------------------------------------------------------------------
(* Pool::find_place and the functions that allocate.                       *)

\* alloc_new_page makes as many new pages as there are already.
ToAllocate == Min({Max({npages, 1}), MaxAllocate})

\* find_place returns the block x: of the first page of the free list that has
\* one, after removing those before it, or of a new page.
FindPlace(x) ==
  LET k    == SelectInSeq(free, Usable)
      list == make_list(ToAllocate)
  IN  /\ \/ /\ k # 0
            /\ x[1] = free[k]
            /\ free' = SubSeq(free, k, Len(free))
            /\ marked' = marked \ ToSet(SubSeq(free, 1, k - 1))
            /\ UNCHANGED <<page_list, npages, made>>
         \/ /\ k = 0
            /\ made + ToAllocate <= MaxPages
            /\ x[1] = Head(list)
            /\ free' = list
            /\ marked' = (marked \ ToSet(free)) \cup ToSet(list)
            /\ page_list' = list \o page_list
            /\ npages' = npages + ToAllocate
            /\ made' = made + ToAllocate
      /\ x[2] = TrailingZeros(bitfield[x[1]])
      /\ bitfield' = [bitfield EXCEPT ![x[1]] = FetchAndNot(@, x[2])]

\* The constructors of PoolBox and ArenaRc assert that the counter is 0.
NewHandle(x) ==
  /\ open
  /\ FindPlace(x)
  /\ counter[x] = 0
  /\ counter' = [counter EXCEPT ![x] = 1]
  /\ UNCHANGED <<freed, open, leaked>>

\* alloc_with and alloc_rc_with make the handle before they run the initializer.
RunInitializer(x) ==
  /\ Len(frames) < MaxFrames
  /\ frames' = Append(frames, [call |-> "alloc_with", block |-> x])

NewBox(x) == NewHandle(x) /\ boxes' = boxes \cup {x}

NewRc(x) == NewHandle(x) /\ UNCHANGED boxes

alloc(x)         == NewBox(x) /\ UNCHANGED frames
alloc_with(x)    == NewBox(x) /\ RunInitializer(x)
alloc_rc(x)      == NewRc(x) /\ UNCHANGED frames
alloc_rc_with(x) == NewRc(x) /\ RunInitializer(x)

\* The initializer returns the reference it was given.
EndInit ==
  /\ InCall("alloc_with")
  /\ frames' = Front(frames)
  /\ UNCHANGED <<bitfield, counter, freed, listVars, open, boxes, leaked>>

\* The initializer panics, or returns another reference, on which alloc_with
\* panics: the handle is dropped.
InitPanics ==
  /\ InCall("alloc_with")
  /\ LET x == Last(frames).block
     IN  /\ counter' = [counter EXCEPT ![x] = 0]
         /\ boxes' = boxes \ {x}
         /\ BeginDrop(x, Front(frames))
  /\ UNCHANGED <<freed, listVars, open, leaked>>

-----------------------------------------------------------------------------
(* The handles. That of a block whose initializer runs is not out yet.     *)

Out(x) == counter[x] > 0 /\ \A i \in DOMAIN frames : frames[i].block # x

\* PoolBox::drop asserts that the counter is 1.
DropBox(x) ==
  /\ x \in boxes
  /\ Out(x)
  /\ Len(frames) < MaxFrames
  /\ counter[x] = 1
  /\ counter' = [counter EXCEPT ![x] = 0]
  /\ boxes' = boxes \ {x}
  /\ BeginDrop(x, frames)
  /\ UNCHANGED <<freed, listVars, open, leaked>>

CloneRc(x) ==
  /\ x \notin boxes
  /\ Out(x)
  /\ counter[x] < MaxRcs
  /\ counter' = [counter EXCEPT ![x] = @ + 1]
  /\ UNCHANGED <<bitfield, freed, listVars, open, boxes, frames, leaked>>

\* ArenaRc::drop: the last one drops the block.
DropRc(x) ==
  /\ x \notin boxes
  /\ Out(x)
  /\ counter' = [counter EXCEPT ![x] = @ - 1]
  /\ \/ counter[x] > 1 /\ UNCHANGED <<bitfield, frames>>
     \/ counter[x] = 1 /\ Len(frames) < MaxFrames /\ BeginDrop(x, frames)
  /\ UNCHANGED <<freed, listVars, open, boxes, leaked>>

EndDropWithoutPush ==
  /\ InCall("drop_block")
  /\ frames' = Front(frames)
  /\ LET x    == Last(frames).block
         word == bitfield[x[1]] \cup {x[2]}
     IN  /\ bitfield' = [bitfield EXCEPT ![x[1]] = word]
         /\ freed' = IF LastOut(word) THEN freed \cup {x[1]} ELSE freed
  /\ UNCHANGED <<counter, listVars, open, boxes, leaked>>

\* The destructor returned: drop_block returns the block, and frees the page or
\* puts it in the free list of a pool that still exists.
EndDrop ==
  /\ InCall("drop_block")
  /\ frames' = Front(frames)
  /\ LET p    == Last(frames).block[1]
         word == bitfield[p] \cup {Last(frames).block[2]}
     IN  /\ bitfield' = [bitfield EXCEPT ![p] = word]
         /\ \/ LastOut(word) /\ freed' = freed \cup {p} /\ UNCHANGED <<marked, free>>
            \/ /\ ~LastOut(word)
               /\ marked' = marked \cup {p}
               /\ free' = IF p \notin marked /\ open THEN <<p>> \o free ELSE free
               /\ UNCHANGED freed
  /\ UNCHANGED <<counter, page_list, npages, made, open, boxes, leaked>>

\* The destructor panics: drop_block does not return the block.
DropPanics ==
  /\ InCall("drop_block")
  /\ frames' = Front(frames)
  /\ leaked' = leaked \cup {Last(frames).block}
  /\ UNCHANGED <<bitfield, counter, freed, listVars, open, boxes>>

-----------------------------------------------------------------------------
(* Pool::shrink_to_fit and Pool::drop.                                     *)

Unused(p) == bitfield[p] = Bits
UnusedPages == {p \in Pages : Unused(p)}

shrink_to_fit_stops_early ==
  /\ NotBorrowed
  /\ free # <<>>
  /\ Unused(Head(free))
  /\ free' = Tail(free)
  /\ page_list' = Kept(page_list, Pages \ {Head(free)})
  /\ npages' = npages - 1
  /\ DropPages({Head(free)})
  /\ UNCHANGED <<counter, marked, made, open, boxes, frames, leaked>>

shrink_to_fit_uncounts_used ==
  LET to_drop == Kept(free, UnusedPages)
  IN  /\ NotBorrowed
      /\ free' = Kept(free, Pages \ UnusedPages)
      /\ page_list' = Kept(page_list, Pages \ ToSet(to_drop))
      /\ npages' = npages - Len(free)
      /\ DropPages(ToSet(to_drop))
      /\ UNCHANGED <<counter, marked, made, open, boxes, frames, leaked>>

shrink_to_fit_forgets_page_list ==
  /\ NotBorrowed
  /\ free' = Kept(free, Pages \ UnusedPages)
  /\ npages' = npages - Len(Kept(free, UnusedPages))
  /\ DropPages(ToSet(Kept(free, UnusedPages)))
  /\ UNCHANGED <<counter, marked, page_list, made, open, boxes, frames, leaked>>

\* The unused pages of the free list leave both lists and are let go.
shrink_to_fit ==
  LET to_drop == Kept(free, UnusedPages)
  IN  /\ NotBorrowed
      /\ free' = Kept(free, Pages \ UnusedPages)
      /\ page_list' = Kept(page_list, Pages \ ToSet(to_drop))
      /\ npages' = npages - Len(to_drop)
      /\ DropPages(ToSet(to_drop))
      /\ UNCHANGED <<counter, marked, made, open, boxes, frames, leaked>>

DropPool ==
  /\ NotBorrowed
  /\ open' = FALSE
  /\ DropPages(ToSet(page_list))
  /\ UNCHANGED <<counter, listVars, boxes, frames, leaked>>

\* stats: the blocks in use, by the zeros of the pages, and the free ones.
stats ==
  LET used == Total([i \in DOMAIN page_list |-> Cardinality(Bits \ bitfield[page_list[i]])])
  IN  <<used, Len(page_list) * BLOCK_PER_PAGE - used>>

\* Debug: the used and the free blocks of each page, and their sums.
fmt ==
  LET pages == [i \in DOMAIN page_list |->
                 LET used == Cardinality(Bits \ bitfield[page_list[i]])
                 IN  [used |-> used, free |-> BLOCK_PER_PAGE - used]]
  IN  [blocks_free |-> Total([i \in DOMAIN pages |-> pages[i].free]),
       blocks_used |-> Total([i \in DOMAIN pages |-> pages[i].used]),
       npages |-> npages, pages |-> pages]

-----------------------------------------------------------------------------

Next ==
  \/ \E x \in AllBlocks :
       alloc(x) \/ alloc_with(x) \/ alloc_rc(x) \/ alloc_rc_with(x)
         \/ DropBox(x) \/ CloneRc(x) \/ DropRc(x)
  \/ EndInit \/ InitPanics \/ EndDrop \/ DropPanics
  \/ shrink_to_fit \/ DropPool

Spec == Init /\ [][Next]_vars

-----------------------------------------------------------------------------
(* Safety.                                                                 *)

Dropping(x) == {i \in DOMAIN frames : frames[i] = [call |-> "drop_block", block |-> x]}

\* The block is with its user, or on its way back, or lost for good.
InUse(x) == counter[x] > 0 \/ Dropping(x) # {} \/ x \in leaked

\* A block is free, or has handles, or is in one call of drop_block, or is
\* leaked: whatever a destructor or an initializer does, or how it ends, its
\* block is not given to somebody else before it is returned, and is returned
\* once. So the constructors find the counter at 0.
BlocksHaveOneOwner ==
  \A x \in AllBlocks :
    /\ x[2] \in bitfield[x[1]] <=> ~InUse(x)
    /\ counter[x] > 0 => Dropping(x) = {} /\ x \notin leaked
    /\ Cardinality(Dropping(x)) <= IF x \in leaked THEN 0 ELSE 1
    /\ x \in boxes => counter[x] = 1

\* A page is not freed while one of its blocks is in use, also by the
\* destructor that drops or shrinks the pool from inside drop_block, and the
\* pool has no page that was freed in its lists.
ReferencedPagesSurvive ==
  /\ \A x \in AllBlocks : InUse(x) => x[1] \notin freed
  /\ open => (ToSet(free) \cup ToSet(page_list)) \cap freed = {}

\* The free list has each page that says so once, and every page with a free
\* block ("keep a list of pages where at least 1 element is not used by the
\* user", src/lib.rs).
FreeListIsExact ==
  open =>
    /\ IsInjective(free)
    /\ ToSet(free) = marked \cap ToSet(page_list)
    /\ \A p \in ToSet(page_list) : Usable(p) => p \in ToSet(free)

\* page_list has every page that was not freed, once, and stats, which asserts
\* that npages agrees with it, and Debug count the blocks that are not free.
StatsCountUsedBlocks ==
  open =>
    /\ IsInjective(page_list) /\ ToSet(page_list) = (1 .. made) \ freed
    /\ npages = Len(page_list)
    /\ LET used == Cardinality({x \in AllBlocks : InUse(x)})
       IN  /\ stats = <<used, npages * BLOCK_PER_PAGE - used>>
           /\ stats = <<fmt.blocks_used, fmt.blocks_free>>

\* Without the pool the pages with a block in use are left, and no other.
DroppedPoolFreesPages ==
  ~open => \A p \in 1 .. made : p \in freed <=> \A b \in Blocks : ~InUse(<<p, b>>)

\* Each page as PageLife describes it.
Life(p) == INSTANCE PageLife WITH
  Arena <- ArenaBit,
  sharers <- (Blocks \ bitfield[p]) \cup (bitfield[p] \cap {ArenaBit}),
  freed <- p \in freed

\* Every call, up to the caller's code and from there on, is for every page a step
\* of PageLife or none: also where a destructor lets the pages go, or takes the
\* blocks, of the pool that its drop_block goes on with.
ImplementsPageLife ==
  /\ \A p \in Pages : Life(p)!Init
  /\ [][\A p \in Pages : [Life(p)!Next]_(Life(p)!vars)]_vars

\* "It will drop all pages that are unused", whatever was allocated and dropped
\* in which order before: no unused page is outside the free list.
ShrinkDropsUnusedPages ==
  [][shrink_to_fit => \A p \in ToSet(page_list') : ~Unused(p)]_vars
=============================================================================
