# Verification of `shared_arena`

TLA+ specifications of the `shared_arena` crate, the TLC instances that check
them and the proofs that TLAPS checks. Paths below are relative to the
repository; `page/x.rs` stands for `src/page/x.rs`.

The crate hands out blocks of one size from pages of 63. A page is one
allocation: 63 blocks, and a 64-bit word with a bit per block (1 = free) and a
bit for the arena. Handles (`ArenaBox`, `ArenaArc`, `ArenaRc`) outlive the
arena: the page is freed by whoever lets it go last.

## 1. Inventory

| component | state | operations | made correct by |
|---|---|---|---|
| page word (`src/common.rs`) | `bitfield` | load, `fetch_and`, `fetch_add`, `fetch_sub`, `trailing_zeros` | no carry leaves a bit, no bit is set twice |
| `PageSharedArena` (`page/shared_arena.rs`) | `bitfield`, `in_free_list`, `next_free`, `next`, weak pointer to the pending list | `acquire_free_block`, `drop_block`, `drop_page`, `make_list`, `make_list_from_slice` | a block has one owner; the page is freed once, after its last user; it is pushed only when in no list |
| handles (`src/arena_box.rs`, `arena_arc.rs`, `arena_rc.rs`) | `block.counter` | `new`, `clone`, `drop` | the counter counts the handles; the value lives as long as they do |
| `SharedArena` (`src/shared_arena.rs`) | `free_list`, `pending_free_list`, `full_list`, `npages`, `writer`, `shrinking`, `to_free`, `to_free_delay` | `alloc*`, `shrink_to_fit`, `stats`, drop | each page in one place; pages are let go once; one writer; `alloc` returns |
| `PageArena`, `Arena` (`page/arena.rs`, `src/arena.rs`) | as above with a plain and an atomic word | as above, one owner, droppers anywhere | as above; the two words never disagree on a block |
| `PagePool`, `Pool`, `PoolBox` (`page/pool.rs`, `src/pool.rs`) | as above, nothing atomic | as above, one thread | the lists hold exactly the pages of the pool |
| `Block`, `PageTaggedPtr` (`src/block.rs`) | tagged pointer | dispatch of `drop_block` | the tag gives back the pointer, the index and the kind |
| `CacheAligned`, formatting, re-exports, benches, scripts | none | | |

How they interact. `alloc` calls `find_place`, which takes the head of
`free_list` and calls `acquire_free_block` on it; a page without a free block
is removed with a compare-and-swap of the head. When the list is empty one
thread, the holder of the `WriterGuard`, refills it: from `pending_free_list`,
from `to_free`, or with new pages. Dropping the last handle of a block calls
`drop_block`, which sets the bit of the block and, if the page is in no list,
pushes it on `pending_free_list`. `shrink_to_fit` detaches `free_list`, moves its
unused pages to `to_free` and puts the rest back; `maybe_free_pages` lets the
pages of `to_free` go after `DELAY_DROP_SHRINK` calls.

What is hard: almost every step is an atomic operation on memory that other
threads use, with no lock; the memory itself goes away under the threads; and
the lists are read before and changed after other threads may have changed
them. `PROJECT.json` lists each hazard at its line, with the property that
covers it or the reason why none does.

## 2. Modules

| module | models | state and actions |
|---|---|---|
| `Bitfield` | the instructions on the word | a word is the set of positions of its 1 bits; one operator per instruction, with carry and wrap-around |
| `PageLife` | abstract specification of the word | `sharers` (the arena and the used blocks); `Take`, `Leave`, `Free` |
| `PageList` | chains of `next_free` and `next` | the pages of a chain, whether it ends, the link of a new list (`make_list`, `make_list_from_slice`), what a loop on a list keeps (`Kept`) or adds up (`Total`) |
| `SharedPage` | one `PageSharedArena`, its handles, and the threads | the fields of the page, `counter`, the handles, the place `at` where the arena keeps the page and those where it strayed (`strays`), `usage`: who allocates and who shrinks; one action per atomic operation; implements `PageLife` |
| `SharedArena` | the lists of `SharedArena` and all that moves pages | `next_free` chains, `full_list`, `to_free`, the counters and the locks; `loc` holds the locals of each thread; about forty actions; each page implements `PageLife` |
| `Arena` | `Arena` with its `PageArena`s and the threads that drop handles | per page the plain and the atomic word and `in_free_list`; the lists; `own` holds the locals of the owner; one action per atomic access; each page implements `PageLife` |
| `Pool` | `Pool` with its `PagePool`s, `PoolBox` and `ArenaRc` | per page the word; the lists; the counters of the handles; `frames`, the stack of calls that wait for a destructor or an initializer; each page implements `PageLife` |
| `TaggedPtr` | `PageTaggedPtr` | the tag with 8 bits on top (64-bit) and the list of bits of an aligned address (32-bit) as operators on words |
| `BitfieldProofs`, `PageListProofs`, `SharedPageProofs`, `SharedArenaProofs`, `ArenaProofs`, `PoolProofs` | lemmas and theorems about the module of that name | |
| `TaggedPtrProofs` | lemmas and theorems about `TaggedPtr` and `MCTaggedPtr` for any width | |
| `SharedArenaListProofs` | lemmas and theorems about the lists of `SharedArena` when one thread allocates and shrinks, and when nobody shrinks | |
| `MCTaggedPtr`, `MCSharedPage`, `MCSharedArena`, `MCArena` | the instances for TLC | |

`SharedPage` and `SharedArena` look at the same code at two scales. `SharedPage`
has every access to the word and one page; what the lists do to the page is
`at`: `listed` (in `free_list` or `pending_free_list`), `out` of both,
`withdrawn` by a `shrink_to_fit` that is under way, `held` in `to_free`,
`stranded` (kept by `to_drop.retain`, in `full_list` only) and `retired` by
`drop_page`. When two threads move pages the arena may have the page in a second place:
`find_place` installs a `next_free` that it read before the page went elsewhere
(`InstallStaleNext`), or a dropper pushes a page that is in a list already. `strays` has
these places, `listed` and `held`; a page that is `retired` may have strayed too, and then
`find_place` goes on finding it. `SharedArena` has the pointers that bring this about,
reduces a page to the number of its used blocks and its arena bit, and takes
`acquire_free_block` as one step, which `SharedPage` justifies.

`Arena` has both scales in one module: its lists are simple, since one thread
walks them, while the word is split in two and changes hands between the owner
and the droppers. `Pool` is sequential, so that a call is one step up to the
points where it runs the caller's code; what is hard there is that this code calls
the pool again, from inside `drop_block` and `alloc_with`.

In the modules with threads a thread is at a label, `pc[t]`; `idle` is outside
the allocator. `Start` is what a caller may decide (allocate, shrink, drop a
handle or the arena) and the other steps (`Continue(t)`, `OwnerStep`,
`DropBlockStep(t)`) are what the code then does by itself. An assertion of the
code that fails sends the thread to `panic`; an access to a page that was freed
sends it to `wild`, where it stops, since what follows is undefined.

Each module has a few faulty variants of its actions, named for the slip
(`FetchAndUnchecked`, `ReleaseForgotten`, ...). No behaviour uses them. They show
that the properties can fail: `PROJECT.json` pairs each property with a variant
which, in place of the action, violates it.

### Abstractions

- Atomic operations are sequentially consistent. `Relaxed`, `Acquire` and
  `Release` are not told apart.
- A page number is not used again after the page is freed. The code may get
  the same address from the system allocator, which adds to the ways in which a
  stale pointer can match; see the run `shared_arena_cycle`.
- An initializer that panics, and one that returns another reference than it was
  given, drop the handle that was made before it ran, and with it a value that was
  never written. What that does is undefined for most types and is not
  followed; what the allocator does is (`InitPanics`). In `SharedPage` and
  `SharedArena` that drop is a drop like any other.
- `SharedPage`: a value is live or not. `ArenaRc` is an `ArenaArc` that does not
  cross threads; it is in `Pool`. The other pages of the arena are not there:
  that one of them has this page as its stale `next_free` is possible whenever two
  threads move pages. `strays` only grows, since leaving one list says
  nothing of the others. Beside such threads the arena's steps are not followed once
  it comes upon the freed page, which only the disciplines excluded from the theorems reach.
- `SharedArena`: `deallocate_page` happens with the step that decides it
  (`SharedPage` has it as a step of its own); `full_list` is a sequence, since its
  pointers are written under the writer lock and by nobody else;
  `WriterGuard::new` is its swap; the store of `next_free` in the push is one step
  with the load before it; `to_drop.retain` reads all its pages in one step, and
  the assertion of `put_pages_in_lists` is one step with the swap after it. When the
  page was let go, an `acquire_free_block` that finds no free block may lose one (the
  shift that wraps), find none, or go round.
  `stats` and `Debug` are operators, read when nobody moves pages.
- `Arena`: the counter of a handle is in `SharedPage`, here a block has a handle
  or not (`held`). The drop of the value and the `fetch_add` after it are one
  step. A destructor or an initializer that calls the arena again is a call before
  or after the step, except that the handle whose initializer runs cannot be
  dropped. `stats` and `Debug` are read in one step: what other
  threads drop in between adds nothing the counts could contradict.
- `Pool`: the calls inside one another are at most `MaxFrames` deep. A destructor
  that panics leaves `drop_block` before the block is returned: it is `leaked`.

## 3. Runs

| run | question | instance | result |
|---|---|---|---|
| `tagged_ptr` | does a tagged pointer give back the page, the index and the kind it was made of? | W = 8, all 256 addresses, 2 index bits | holds |
| `shared_page` | does a block ever have two owners? do the counters count? is a page freed once, only unreferenced, and in the end? is a block or a value lost? does the word implement `PageLife`? | 3 threads, 2 blocks, 2 clones; 1 thread allocates and shrinks, or 2 allocate and none shrinks; `FairSpec` | holds |
| `shared_arena` | are the lists lists, is every page somewhere, is it let go once, does it implement `PageLife`, does a freed page stay out of the lists, does `alloc` return? | 1 thread allocates and shrinks, 2 drop; 2 blocks per page, 3 pages, delay 2, `FairSpec` | holds |
| `shared_arena_race` | is there one writer, and do the assertions hold, between two threads that allocate and shrink? | 2 threads, 1 block per page, 2 pages that become 4, nothing is dropped | holds |
| `arena` | does a block ever get lost between the two words, or out twice? are the lists lists? do the counts agree with the handles? is each page freed once, in the end, and does it implement `PageLife`? does `alloc` return? | the owner and 2 threads that drop, 2 blocks per page, 2 pages, `FairSpec` | holds |
| `pool` | is all of this so when destructors and initializers call the pool again and panic? does `shrink_to_fit` drop all unused pages? does a page implement `PageLife`? | 2 blocks per page, 3 pages, 2 clones, calls 3 deep | holds |
| `shared_page_touch` | does only the last user of a page touch it last? | 2 threads, 1 allocates and shrinks | violated |
| `shared_page_lost` | does a page that left the free list come back? | 2 threads, 1 allocates and shrinks | violated |
| `shared_page_shrink` | does a page with a handle survive whatever the delay? | 2 threads allocate, 1 of them shrinks | violated |
| `shared_arena_cycle` | does an arena whose blocks are all in use come to make a page, when two threads only allocate and drop? | 2 threads, 1 block per page, 1 page that becomes 2 | violated |
| `shared_arena_unused` | does `shrink_to_fit` leave no unused page? | 1 thread | violated |
| `arena_touch` | is a page that `Arena::shrink_to_fit` frees not referenced any more? | the owner and 2 threads, 1 block, 1 page | violated |

The bounds. With two blocks below the arena's bit a page is empty, in part used
or full, two drops on it can be first and last, and a carry out of a block's bit
has a block or the arena's bit to damage; three threads are what it takes for
two of them to race before a third (two drops and a `find_place`, two drops
and `drop_page`; two `find_place` and a drop). The two disciplines of `Orderly`
are in one run: a behaviour keeps the one it starts with. Two
clones make a first and a last drop. In `SharedArena` a page has one or two
blocks so that it fills up at once; three pages are an old list, a new list of
two (the arena doubles) and every mix of them in `free_list`,
`pending_free_list`, `to_free` and a list in hand; in `shared_arena_race` the
four pages are what it takes to double from two. In
`shared_arena_cycle` the arena has one page and makes one more, so that a
thread may be left with a `next_free` read when the list was another. `DELAY_DROP_SHRINK` is 1 or 2,
so that the delay runs out; `MaxAllocate` is the 900 000 of the code made
reachable and `USIZE` its 2^64. In `Arena` two pages are a list with a cell before
and after any other, one of them in `pending_free_list` and the other in
hand. In `Pool` a page is taken off the list by a `find_place`, a second one by
the `find_place` of its initializer, and three frames are a destructor inside an
initializer inside a destructor. `MaxPages` bounds the pages ever made: a call
that would need another cannot go on, which is why `AllocReturns` names that
case.

Deadlock is not checked except in `tagged_ptr`: the systems come to rest when the
arena and the handles are gone, and the bounds stop them too.

### Disciplines of use

What the crate promises about freeing pages depends on how its clients share the
work, and `usage` makes that explicit. It is chosen in the first state from the constant `Usages`
and never changes: the set of threads that call `alloc` and its like, and the set of those that
call `shrink_to_fit`. Any thread holds, clones and drops handles, and any may drop the
arena. `OrderlyUses` allows two disciplines: one thread allocates and
shrinks (`OneMover`), or any number allocate and nobody shrinks. They are conditions on the
program that uses the crate, not on the scheduler: nothing in the code makes a step wait
for another. When one thread shrinks beside another that allocates, a page may be freed under
a handle (run `shared_page_shrink`): the other thread is still between the load and the
`fetch_and` of `acquire_free_block` when `maybe_free_pages` drops the page, or
its compare-and-swap puts a page of `to_free` back on the free list. `to_free_delay` makes
both less likely, and rules out neither. The ownership of blocks and the
counters of the handles do not depend on the discipline.

### What the runs find

- **A drop touches a page after giving it back** (`page/shared_arena.rs:185`).
  Two droppers of a page the arena let go: one returns its block and is
  interrupted before it reads `in_free_list`; the other returns the last block
  and frees the page.
- **A free page is lost** (`src/shared_arena.rs:158`). All the blocks of a page are dropped
  between its removal from `free_list` and the store of `in_free_list`: nobody
  pushes it. It is not used again until the arena is dropped. It is not marked, so that
  `MarkedPagesAreReachable`, which `shared_arena` checks, does not speak of it.
- **A page is freed under a handle** (`src/shared_arena.rs:132`) when one thread shrinks
  beside another that allocates, as said above.
- **A stale `next_free` becomes the head, and the free list a circle**
  (`src/shared_arena.rs:151`). `find_place` compares the head with the page it read, which may
  have left the list and come back since it read that page's `next_free`. With two threads that
  only allocate and drop, the page at the stale `next_free` may be in `pending_free_list`
  too, or be pushed there next; once the pending list is taken, it leads back to itself. When
  all its pages are full `find_place` goes round them and never comes to the end of
  the list, where it would make pages, until a handle is dropped. What remains true
  then is proved in section 4: every page found is one of `full_list`, and none of those is
  freed before the drop of the arena. When a thread shrinks beside another that allocates, not even
  that remains: the stale `next_free` may be a page in `to_free` (with `Shrinkers <-
  TwoThreads` in `MCSharedArenaCycle.cfg` TLC refutes `FreePagesAreInFull`). This is also why the
  list properties of `shared_arena` are checked with one allocating thread: they need
  the lists to be intact.
- **`shrink_to_fit` keeps unused pages** (`src/shared_arena.rs:634`): those in
  `pending_free_list`, whose blocks were all dropped. `Arena::shrink_to_fit` has the
  same loop; the `Pool`, which has one free list, keeps none
  (`ShrinkDropsUnusedPages`).
- **`Arena::shrink_to_fit` frees a page that is referenced** (`page/arena.rs:174`):
  a `drop_block` of another thread has returned the last block and is about to read
  `in_free_list` when the owner, which waits for nobody, frees the page. Beyond
  that access the module follows no such thread, so that what the run
  `arena` shows is what happens until then.

Besides, the place `stranded` of `SharedPage` is a state the code reaches
(`src/shared_arena.rs:665`): a page that `shrink_to_fit` took off the free list and
that `to_drop.retain` then keeps stays in `full_list`, marked as being in a list,
and is in none until the arena is dropped.

### Fairness

Every thread inside an operation is scheduled until the operation is over
(`WF_vars(Continue(t))`, in `Arena` `WF_vars(OwnerStep)` and
`WF_vars(DropBlockStep(t))`): they are running threads of the operating system,
and nothing in the operations waits for something else than the writer lock. Weak
fairness is enough because that lock is contended for by threads that yield and
retry, and `AllocReturns` is about the allocating thread beside others that only
drop. Nobody is obliged to allocate, drop a handle or drop the arena. `Retain` is
fair as a part of `shrink_to_fit`. `Pool` has no fairness: its calls are as long as the
caller's code.

## 4. Proofs

For any set of threads, any width W >= 2 of the word, any number of pages and any
bound on the clones and on the calls inside one another:

| theorem | says | under |
|---|---|---|
| `SharedPageProofs` | | |
| `TypeCorrectness` | `[]TypeOK` | `Spec` |
| `BlocksAreNotShared` | `[]NoSharedBlock` | `Spec` |
| `CountersCountHandles` | `[]CounterCountsHandles` | `Spec` |
| `ReferencedPagesSurvive` | `[]ReferencedPageSurvives` | `Spec`, `OrderlyUses` |
| `PageFreedOnce` | `[]FreedOnce` | `Spec`, `OrderlyUses` |
| `BlocksAreNotLost` | `[]NoLostBlock` | `Spec`, `OrderlyUses` |
| `ValuesLiveWithHandles` | `[]ValueLivesWithHandles` | `Spec`, `OrderlyUses` |
| `PagePushedOnlyWhenOut` | `[]PushedOnlyWhenOut` | `Spec`, `OrderlyUses` |
| `RetiredPagesDrain` | `RetiredPageDrains` | `Spec`, `OrderlyUses` |
| `ImplementsPageLifeSafety` | every step is one of `PageLife`, or none | `Spec`, `OrderlyUses` |
| `SharedArenaProofs` | | |
| `OneWriter` | `[]WriterIsExclusive` | `Spec` |
| `ListAssertsHold` | `[]AssertsHold` | `Spec` |
| `TypeCorrect` | `[]TypeOK` | `Spec` |
| `SharedArenaListProofs` | | |
| `DisjointLists` | `[]ListsAreDisjoint` | `Spec`, `OneMover` |
| `ListedPagesInFull` | `[]ListedPagesAreInFull` | `Spec`, `OneMover` |
| `ToFreePagesAreUnused` | `[]ToFreeIsUnused` | `Spec`, `OneMover` |
| `MarkedPagesReachable` | `[]MarkedPagesAreReachable` | `Spec`, `OneMover` |
| `PagesAccounted` | `[]PagesAreAccountedFor` | `Spec`, `OneMover` |
| `ArenaDropFreesPages` | `[]DroppedArenaFreesPages` | `Spec`, `OneMover` |
| `PagesDroppedOnce` | `DropPageOnce` | `Spec`, `OneMover` |
| `PagesMovedExist` | `[]MovedPagesExist` | `Spec`, `OneMover` |
| `SharedArenaImplementsPageLife` | `ImplementsPageLife`: every step is, for every page, one of `PageLife`, or none | `Spec`, `OneMover` |
| `FreePagesInFull` | `[]FreePagesAreInFull` | `Spec`, `NoShrinker` |
| `PagesFoundExist` | `[]MovedPagesExist` | `Spec`, `NoShrinker` |
| `ArenaDropFreesAllPages` | `[]DroppedArenaFreesPages` | `Spec`, `NoShrinker` |
| `ArenaWithoutShrinkImplementsPageLife` | `ImplementsPageLife`, as above | `Spec`, `NoShrinker` |
| `ArenaProofs` | | |
| `BlocksStayInOnePlace` | `[]BlocksHaveOnePlace` | `Spec` |
| `PagesWithHandlesSurvive` | `[]ReferencedPagesSurvive` | `Spec` |
| `ShrinkAssertHolds` | `[]AssertHolds` | `Spec` |
| `PagesAreInOneList` | `[]ListsAreDisjoint` | `Spec` |
| `StatsAreHandles` | `[]StatsCountHandles` | `Spec` |
| `ArenaImplementsPageLife` | `ImplementsPageLife`: every step is, for every page, one of `PageLife`, or none | `Spec` |
| `TypeCorrect` | `[]TypeOK` | `Spec` |
| `PoolProofs` | | |
| `OneOwner` | `[]BlocksHaveOneOwner` | `Spec` |
| `UsedPagesSurvive` | `[]ReferencedPagesSurvive` | `Spec` |
| `FreeListExact` | `[]FreeListIsExact` | `Spec` |
| `StatsAreUsedBlocks` | `[]StatsCountUsedBlocks` | `Spec` |
| `DroppedPoolFrees` | `[]DroppedPoolFreesPages` | `Spec` |
| `ShrinkDropsUnused` | `ShrinkDropsUnusedPages` | `Spec` |
| `TypeCorrect` | `[]TypeOK` | `Spec` |
| `PoolImplementsPageLife` | `ImplementsPageLife` | `Spec` |
| `TaggedPtrProofs` | | |
| `TaggedPointersAlwaysRoundTrip` | `[]TaggedPointersRoundTrip` | `Spec` |

`ToFreeIsUnused` and `DropPageOnce` of `SharedArena` and `ReferencedPagesSurvive` of `Pool`
are not in a run of their own: the first is a part of `ListedPagesAreInFull`, the second
follows from `ImplementsPageLife`, the third from it and from the properties of
the lists, and these the runs check. `FreePagesAreInFull` is in no run either; in that of
`shared_arena` it is a part of `ListedPagesAreInFull`, and with two threads that allocate and none
that shrinks it was checked on the instance of `shared_arena_cycle` with three pages.

The assumptions are those the modules make about their constants, and the
discipline of use where one is named. For `SharedPage` that is `OrderlyUses`, for the
reason given above; `PushedOnlyWhenOut` speaks only of the behaviours with one mover, since
with two threads in `find_place` a page is pushed while it is in a list. In
`SharedArena` the theorems have one discipline each. `OneMover` says that no more than one thread allocates or
shrinks, whichever it is; it may drop handles and the arena too, and so may any
other thread. The run `shared_arena` is such an instance; with two such threads the
lists do not stay intact (run `shared_arena_cycle`), so that the theorems
about the lists would be false. `NoShrinker` says that no thread calls
`shrink_to_fit`, while any number of them allocates: for programs that never shrink
what the lists owe to the pages holds all the same. Neither holds, nor is it proved, of an
arena in which one thread shrinks beside another that allocates (run
`shared_page_shrink`).

**SharedPage.** The argument has two layers. `BlockInv` is inductive for every
step: a used block has one owner, a thread between `fetch_and` and the handle,
the handles, or a thread between the last handle and `fetch_add`, and the
counter counts the handles. So `fetch_add` always adds a clear bit
(`FetchAddOfClearBit`: no carry) and `BlocksAreNotShared` follows. `LifeInv` adds
what ties the page to its arena and needs `OrderlyUses`. `PlaceInv`: the
arena's bit is set until `drop_page`, after which nobody looks for a block. With one
mover that is because the page is in one place at a time, so nothing strays while the
arena is open, and the thread that would drop the page is the one that would be looking
for a block. When nobody shrinks the page may stray, but only among lists that lead to `find_place`:
it is never `held`, so that `SharedArena::drop` alone can let it go, and that has `&mut self`.
`MarkInv`, with one mover: `in_free_list` is false only while the page is in no list, and one
thread at a time is about to unmark or push it. `FreeInv`: whoever frees the page found
every block free and the arena's bit clear; after that the word does not
change. `NoLostBlock` and `ValueLivesWithHandles` complete it. `FreedOnce` is inductive only
with `FreeInv`: the thread that is about to free the page excludes the others
because all the blocks are free, which needs `NoSharedBlock` to say that no other
thread holds one.

**SharedArena.** `WriterInv` says where a thread holds the guard (`Guarded`), where
it does not, that one thread does, that the page it works on is one, and that from
the moment the writer finds or makes the free list empty until it puts a list there the
free list stays empty, and `to_free` in the same way (`FreeIsEmpty`,
`ToFreeIsEmpty`): only the writer fills them. The assertions of
`put_pages_in_lists` and of the drop of the guard follow, however
`find_place`, `shrink_to_fit` and the droppers interleave.
`TypeInv` types the locals of a thread by where it is: a page read from the free list is one,
a batch has pages, `next_free` may be `Null`. `TypeOK` is a part of it; that
`shrink_to_fit` does not take `npages` below 0 needs that it lets go no more than
`full_list` has.

**The lists of SharedArena.** With one mover the other threads do only what
`OtherStep` lists, so that each lemma has two parts, for a step of the mover and
for a step of another thread. `ActorInv` is inductive on top of `TypeInv` and `WriterInv`: who
is where, that nobody moves pages once the arena is dropped, and with which locals a
call begins. `MoveInv` is inductive on top of these three and has five parts, each of
which needs those before it. `PlaceInv`: a page is in one of `full_list`, `to_free` and what
the mover has in hand, and in that one once. `MadeInv`: a page that was never made has no
block in use, and one that was is in `full_list` or marked. `UnusedInv`: no block is in use of a
page in `to_free`, in the hand of the mover on its way there or back, or on the list
that `shrink_to_fit` has found unused. `WordInv`: while the arena is open the
arena bit is that of the pages that are in one of those places, and a page is
freed exactly if it was made, has no used block and no arena bit. `ListInv` is the
last: there are three sets of pages, disjoint, for which `free_list`,
`pending_free_list` and the list in hand are chains (`IsChain`); the pages in them are in
`full_list` and marked; a dropper that is about to push a page is the only one to do so,
and the page is marked and in none of the three (`PushersApart`); and what the mover
has read of the head and of a `next_free` is still so (`ReadsInv`), which is what its
compare-and-swap relies on and what a second mover would break. On top of it
`CountInv` says that `npages` is the length of `full_list`, but for the batch that the
mover has put there and not counted yet, or has taken off and still counts.
`PagesAccounted` then counts the blocks of the pages of `full_list` in three sets that
have none in common, free in `free_list`, free in `pending_free_list` and used; `stats` does
not wrap since a `usize` can count the blocks that were made (`BlocksHaveAddresses`).
From the same invariants follows what the lists owe to the pages. A page that the
lists lead to, or that the mover holds, has its arena bit (`PlaceInv` and `WordInv`), so
it was not freed (`PagesMovedExist`). That is also why `find_place` takes its block of a
page that the arena has not let go, which `PageLife` asks of `Take`; the droppers leave with
a block, the mover with the arena bit, and the page is freed in the step
that empties its sharers (`SharedArenaImplementsPageLife`).

**SharedArena without `shrink_to_fit`.** When any number of threads allocates,
`free_list` and `pending_free_list` may share pages and may be circles, so that none of the
invariants above holds. `TangleInv` does not say how the lists go on, only where they
lead. `NothingShrunk`: `to_free` is empty, and nobody is where pages are taken
from it. `AllInFull`: the pages made are those of `full_list` and the batch that the one
writer is about to put there, each once. `PointersInFull`: the heads, every `next_free` of a page
of `full_list` and every page or `next_free` a thread has read, however long ago, is
`Null` or a page of `full_list`, which only grows; so a compare-and-swap that installs a stale
pointer installs a page of the arena. The `next_free` of the pages of the batch stay in the
batch until `full_list` has them: this is the order that `put_pages_in_lists`
keeps. `PagesLetGo`: the arena has every page made until it is dropped, then the drop lets
each go once, and a page is freed exactly if it has neither a used block nor the arena bit.
So nobody meets a freed page in `find_place` (`PagesFoundExist`), the drop of the arena,
which goes through `full_list` and not through the tangled lists, frees all it should
(`ArenaDropFreesAllPages`), and `PageLife` follows as above.
`FreePagesInFull` is an induction along the list, over the recursive function that `Listed` is.

**Arena.** `ArenaInv` is one inductive invariant, since its parts need each other.
`WordInv` says that a block is out exactly when both words have it at 0, and that
until `drop_page` joins the words no block is in both. To keep it, the owner that adds
the atomic word to the plain one must be alone with the page, and the page must
still be the arena's: it must be in the free list, and in no other (`ListInv`). A page gets
into a list only from a dropper that found `in_free_list` false and set it,
so the invariant follows the mark: a page that says it is listed and is in none of the
lists (`Apart`) is with the one thread that is about to push it (`PushersApart`) or
with the owner that has taken it off (`OwnerApart`); these are different pages. `BatchInv`
and `FullInv` follow `shrink_to_fit`: the pages of `to_drop` have no handle and are
apart, so nobody takes one while the loops run, the last one finds them
unused (`ShrinkAssertHolds`), and `full_list` with what is still to be let go has the pages that were
not. `FreedInv` says that whoever frees a page has found all its bits set, and
that this happens to one thread; `PagesWithHandlesSurvive` and the steps of `PageLife`
follow. The bounds of `TypeOK` are inductive on top of `ArenaInv`.

**Pool.** The proof has two layers. `OwnerInv` adds to `BlocksHaveOneOwner` what ties the stack of
calls to the blocks (`FramesInv`): no two calls are about the same block, a block
in `alloc_with` has a handle and one in `drop_block` has none, a leaked one is
in no call. `FreeInv` is then an equivalence that each action keeps on both sides.
`Dropping(x)` is counted by the cardinality of a set of
positions, which is at most one because the positions are equal. `PagesInv`
is about the pages: one is freed exactly when its word has lost the arena's bit and
got back its blocks (`LastOut`), `page_list` has the pages that have the arena's bit,
and the free list those of them that are marked, each once, which are all that have a free
block. `shrink_to_fit` keeps that because its two loops keep the same pages of two
lists, and `ShrinkDropsUnused` is what they do not keep. `PoolImplementsPageLife` goes
through the actions on top of `PagesInv`: only `find_place` adds a sharer, and the page it takes
a block of is in the free list, thus the arena's; only the end of a `drop_block` and the loops
that let pages go take one away, and they free the page exactly when it was the last.

**Lists.** `PageListProofs` is about the operators on lists, for any list. `Kept` and
`Total` are recursive functions; that the recursion has a solution, and what it
returns, is proved from the least number at which it would fail
(`LeastNumber`, `UpTo`). `IsChain(next, s, head)` says that the pages of the set `s` are what the
pointers `next` lead through from `head`: they stay inside, no two meet, and
a rank goes down along them, so that there is no cycle. `ListedEquation`
and `EndsEquation` give from it what `Listed` and `Ends` compute; other lemmas say
that pushing a page, taking off the first one, unlinking one behind another
and making a list keep it (`ChainNew` and those before it). `TotalOfParts` adds
cardinalities up, for `stats`.

**Words.** `BitfieldProofs` has the lemmas the others cite: `LeastBit`,
`BlocksAndArenaBit`, `FetchAddOfClearBit`, `FetchSubInverts`, `OnlyArenaBitClear`,
`FetchSubOfFullWord`. `TaggedPtrProofs` follows each bit of the pointer: below the tag the bits
are those of the address, in the tag those of the index and, above them, of the kind
(`TaggedBits`, `TagBits`); `page_ptr` shifts the tag out and repeats the bit below
it, which gives back an address whose upper bits are all alike.

All invariants were checked with TLC on small instances before they were proved.

Model-checked only: the liveness properties (`Reclaimed`,
`AbandonedPagesAreFreed`, `AllocReturns`, the fairness part of
`SharedPage`'s `ImplementsPageLife`), which TLAPS does not reach. Every invariant and every
action property of a passing run is stated by a theorem.

## 5. Not modelled

- Memory orderings, the system allocator and its failure.
- `size_lists`, `display_list`, `Display` and `Pointer` formatting: they only read,
  for printing and for the tests. What the `Debug` of the arenas and of the pool
  counts is modelled (`fmt`).
- `stats` of a `SharedArena` while other threads move pages: the hazard at
  `src/shared_arena.rs:746` remains without a property of its own.
- `CacheAligned`, the crate root, benches and scripts: no logic of the allocator.
- The sizing of `with_capacity`: `Capacity` is the number of pages it makes.

## 6. Plan

1. Done: `Bitfield`, `SharedPage` with `PageLife`, `SharedArena`, `Arena`, `Pool`,
   `TaggedPtr`, and the theorems above.
2. Done: the proofs about `Arena` and `Pool`, with those about lists.
3. Done: the proofs about the lists of `SharedArena` with one thread that allocates
   and shrinks.
4. Done: the pages of `SharedArena` and `Pool` implement `PageLife`.
5. Done: what remains of the lists of `SharedArena`, and of a page, when several threads
   allocate and nobody shrinks.
6. `SharedArena`: `stats` against threads that move pages; the delay of each page.
