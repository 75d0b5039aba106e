----------------------------- MODULE ArenaProofs -----------------------------
(***************************************************************************)
(* Proofs about Arena, for any set of threads that drop handles, every     *)
(* width of the words and any number of pages.                             *)
(***************************************************************************)
EXTENDS Arena, BitfieldProofs, PageListProofs

-----------------------------------------------------------------------------
(* The invariant.                                                          *)

Labels == {"idle", "wild"} \cup DropLabels \cup OwnerLabels

\* TypeOK, without the bounds that follow from the rest.
WordType ==
  /\ plain \in [Pages -> SUBSET Bits] /\ atomic \in [Pages -> SUBSET Bits]
  /\ held \subseteq Pages \X Blocks
ListType ==
  /\ nextFree \in [Pages -> Pointer] /\ marked \subseteq Pages
  /\ free \in Pointer /\ pending \in Pointer
  /\ full \in Seq(Pages) /\ npages \in Int /\ made \in 0 .. MaxPages
PcType ==
  /\ pc \in [Threads -> Labels]
  /\ \A t \in Threads \ {Owner} : pc[t] \notin OwnerLabels
  /\ page \in [Threads -> Pointer] /\ nxt \in [Threads -> Pointer]
OwnType ==
  own \in [page : Pointer, block : Blocks, init : BOOLEAN, start : Pointer, cur : Pointer,
           batch : Seq(Pages), i : Nat]
Shape ==
  /\ WordType /\ ListType /\ PcType /\ OwnType
  /\ freed \subseteq Pages /\ arena \in {"open", "dropping", "dropped"}

\* The words of the pages.
WordInv ==
  \A p \in Pages :
    /\ ArenaBit \in plain[p]
    /\ \A b \in Blocks : /\ <<p, b>> \in held <=> b \notin plain[p] /\ b \notin atomic[p]
                         /\ Attached(p) => b \notin plain[p] \/ b \notin atomic[p]

\* Only pages that were made are used, and a page that was let go stays marked.
MadeInv ==
  /\ \A h \in held : h[1] <= made
  /\ \A t \in Threads : pc[t] \in DropLabels => page[t] \in Pages /\ page[t] <= made
  /\ \A p \in Pages : ~Attached(p) => p <= made /\ (arena = "open" => p \in marked)

\* The owner allocates and shrinks while the arena is open.
OwnerInv ==
  /\ pc[Owner] \in {"head", "refill", "pop", "unmark", "init", "walk", "dropPages"} => arena = "open"
  /\ pc[Owner] = "dropArena" => arena # "open"
  /\ pc[Owner] \in {"refill", "pop"} => free # Null
  /\ pc[Owner] = "init" => own.page \in Pages /\ <<own.page, own.block>> \in held
  /\ pc[Owner] # "panic"

Shrinking == {"walk", "dropPages", "dealloc"}

\* The pages of the batch are different and let go in their order. Those that
\* shrink_to_fit takes have no handle.
BatchInv ==
  /\ pc[Owner] \in Shrinking \cup {"dropArena"} =>
       /\ IsInjective(own.batch) /\ ToSet(own.batch) \subseteq 1 .. made
       /\ \A j \in DOMAIN own.batch : Attached(own.batch[j]) <=> j > own.i
       /\ pc[Owner] = "walk" => own.i = 0
  /\ arena = "open" /\ pc[Owner] \in Shrinking =>
       \A p \in ToSet(own.batch) : Bits \subseteq plain[p] \cup atomic[p]

\* Who finds the last bit set frees the page.
FreedInv ==
  /\ \A t \in Threads :
       pc[t] = "last" => atomic[page[t]] = Bits /\ page[t] \notin freed
  /\ \A t, u \in Threads :
       pc[t] = "last" /\ pc[u] = "last" /\ page[t] = page[u] => t = u
  /\ pc[Owner] = "dealloc" =>
       /\ own.page \in Pages /\ atomic[own.page] = Bits /\ own.page \notin freed
       /\ \A t \in Threads : pc[t] = "last" => page[t] # own.page
  /\ \A p \in freed : atomic[p] = Bits
  /\ \A p \in Pages :
       arena = "open" /\ ~Attached(p) =>
         p \in freed \/ (pc[Owner] = "dealloc" /\ own.page = p)

\* The full list has the pages that the arena has not let go.
Removed == IF pc[Owner] \in {"dropPages", "dealloc"} THEN ToSet(own.batch) ELSE {}
FullInv ==
  arena = "open" =>
    /\ IsInjective(full)
    /\ \A p \in Pages : p \in ToSet(full) <=> p <= made /\ Attached(p) /\ p \notin Removed
    /\ npages = Len(full) + (IF pc[Owner] \in {"dropPages", "dealloc"} THEN Len(own.batch) ELSE 0)

Pushing == {"upgrade", "push", "pushCas"}

\* A page that says it is in a list, and is in none of them.
Apart(p, s) == p \in marked /\ p <= made /\ p \notin s

\* L, P and I are the pages of the free list, the pending one and the one in
\* hand.
Chains(L, P, I) ==
  /\ IsChain(nextFree, L, free) /\ IsChain(nextFree, P, pending) /\ IsChain(nextFree, I, InHand)
  /\ L \cap P = {} /\ L \cap I = {} /\ P \cap I = {}

\* The pages of s say that they are in a list.
AllListed(s) == \A p \in s : p \in marked /\ p <= made /\ Attached(p)

\* Those that are about to push a page, none of s, do so alone.
PushersApart(s) ==
  /\ \A t \in Threads : pc[t] \in Pushing =>
       /\ Apart(page[t], s) /\ Attached(page[t])
       /\ pc[t] = "pushCas" => nextFree[page[t]] = nxt[t]
  /\ \A t, u \in Threads :
       pc[t] \in Pushing /\ pc[u] \in Pushing /\ page[t] = page[u] => t = u

\* So does the owner with the pages it has taken off a list.
OwnerApart(s) ==
  /\ pc[Owner] = "unmark" =>
       /\ own.page \in Pages /\ Apart(own.page, s) /\ Attached(own.page)
       /\ \A t \in Threads : pc[t] \in Pushing => page[t] # own.page
  /\ pc[Owner] \in Shrinking =>
       \A p \in ToSet(own.batch) :
         /\ Apart(p, s)
         /\ \A t \in Threads : pc[t] \in Pushing => page[t] # p

Lists(L, P, I) ==
  /\ Chains(L, P, I)
  /\ AllListed(L \cup P \cup I) /\ PushersApart(L \cup P \cup I) /\ OwnerApart(L \cup P \cup I)
  /\ pc[Owner] = "walk" /\ own.cur # Null => own.cur \in I

ListInv ==
  arena = "open" => \E L \in SUBSET Pages, P \in SUBSET Pages, I \in SUBSET Pages : Lists(L, P, I)

ArenaInv ==
  /\ Shape /\ WordInv /\ MadeInv /\ OwnerInv /\ BatchInv /\ FreedInv /\ FullInv /\ ListInv

-----------------------------------------------------------------------------
(* What the invariant says of the steps.                                   *)

\* A page of the free list belongs to the arena.
LEMMA FreePage ==
  ASSUME ArenaInv, arena = "open", free # Null
  PROVE  free \in Pages /\ free <= made /\ Attached(free)
<1>1. PICK L \in SUBSET Pages, P \in SUBSET Pages, I \in SUBSET Pages : Lists(L, P, I)
  BY DEF ArenaInv, ListInv
<1>2. free \in L /\ AllListed(L \cup P \cup I)
  BY <1>1 DEF Lists, Chains, IsChain
<1> QED
  BY <1>2 DEF AllListed

\* Where the owner is when it begins to let a page go.
LEMMA BatchPage ==
  ASSUME ArenaInv, pc[Owner] \in Shrinking \cup {"dropArena"}, own.i < Len(own.batch),
         NEW p, p = own.batch[own.i + 1]
  PROVE  /\ p \in Pages /\ p \in ToSet(own.batch) /\ Attached(p) /\ p <= made
         /\ own.i + 1 \in DOMAIN own.batch /\ own.i \in Nat
         /\ DOMAIN own.batch = 1 .. Len(own.batch)
<1>1. own.batch \in Seq(Pages) /\ own.i \in Nat
  BY DEF ArenaInv, Shape, OwnType
<1>2. own.i + 1 \in 1 .. Len(own.batch) /\ DOMAIN own.batch = 1 .. Len(own.batch)
  BY <1>1
<1>3. p \in Pages /\ p \in ToSet(own.batch)
  BY <1>1, <1>2 DEF ToSet
<1>4. own.i + 1 > own.i
  BY <1>1
<1>5. Attached(p) /\ p <= made
  BY <1>2, <1>3, <1>4 DEF ArenaInv, BatchInv
<1> QED
  BY <1>1, <1>2, <1>3, <1>5

-----------------------------------------------------------------------------
(* The steps on the words, and how they leave a page.                      *)

\* The owner takes the block b of p.
Taken(p, b) ==
  /\ Attached(p) /\ p <= made /\ b \in plain[p] /\ b \notin atomic[p] /\ <<p, b>> \notin held
  /\ plain' = [plain EXCEPT ![p] = @ \ {b}] /\ atomic' = atomic
  /\ held' = held \cup {<<p, b>>}

\* The owner takes the returned blocks of p into the plain word.
Refilled(p) ==
  /\ Attached(p) /\ p <= made
  /\ plain' = [plain EXCEPT ![p] = @ \cup atomic[p]]
  /\ atomic' = [atomic EXCEPT ![p] = {}]
  /\ held' = held

\* The block b of p, which had a handle, comes back.
Returned(p, b) ==
  /\ <<p, b>> \in held /\ p <= made /\ b \notin plain[p] /\ b \notin atomic[p]
  /\ plain' = plain /\ atomic' = [atomic EXCEPT ![p] = @ \cup {b}]
  /\ held' = held \ {<<p, b>>}

\* The owner lets the next page of its batch go.
LetGo(p) ==
  /\ pc[Owner] \in {"dropPages", "dropArena"} /\ own.i < Len(own.batch)
  /\ p = own.batch[own.i + 1] /\ Attached(p) /\ p <= made
  /\ pc[Owner] = "dropPages" => Union(p) = Bits
  /\ DropPage(p)

\* fetch_add does not carry: the bit of a block that has a handle is clear.
LEMMA ReturnAddsBit ==
  ASSUME ArenaInv, NEW t, NEW p, NEW b, <<p, b>> \in held, Return(t, p, b)
  PROVE  /\ p \in Pages /\ b \in Blocks /\ Returned(p, b)
         /\ atomic[p] # Bits /\ p \notin freed
<1>1. p \in Pages /\ b \in Blocks /\ b \in Bits /\ atomic[p] \subseteq Bits
  BY BlocksAndArenaBit DEF ArenaInv, Shape, WordType
<1>2. b \notin plain[p] /\ b \notin atomic[p] /\ p <= made
  BY <1>1 DEF ArenaInv, WordInv, MadeInv
<1>3. FetchAddBit(atomic[p], b) = atomic[p] \cup {b}
  BY <1>1, <1>2, FetchAddOfClearBit
<1>4. Returned(p, b)
  BY <1>1, <1>2, <1>3 DEF Return, Returned, ArenaInv, Shape, WordType
<1> QED
  BY <1>1, <1>2, <1>4 DEF ArenaInv, FreedInv

\* acquire_free_block finds a block that nobody has.
LEMMA AcquireTakesBlock ==
  ASSUME ArenaInv, Acquire, NEW b, b = TrailingZeros(plain[free])
  PROVE  free \in Pages /\ b \in Blocks /\ Taken(free, b)
<1>1. free \in Pages /\ free <= made /\ Attached(free) /\ plain[free] \subseteq Bits
  BY FreePage DEF ArenaInv, Shape, WordType, OwnerInv, Acquire
<1>2. ArenaBit \in plain[free]
  BY <1>1 DEF ArenaInv, WordInv
<1>3. b \in plain[free]
  BY <1>1, <1>2, TrailingZerosRange
<1>4. b \in Blocks
  BY <1>1, <1>3, BlocksAndArenaBit DEF Acquire
<1>5. b \notin atomic[free] /\ <<free, b>> \notin held
  BY <1>1, <1>3, <1>4 DEF ArenaInv, WordInv
<1> QED
  BY <1>1, <1>3, <1>4, <1>5 DEF Acquire, Taken, FetchAndNot

\* The pages of the batch of shrink_to_fit are unused when they are let go.
LEMMA DropPageLetsGo ==
  ASSUME ArenaInv, DropPages \/ LetPagesGo
  PROVE  \E p \in Pages : LetGo(p)
<1> DEFINE p == own.batch[own.i + 1]
<1>1. /\ pc[Owner] \in {"dropPages", "dropArena"} /\ own.i < Len(own.batch)
      /\ DropPages => pc[Owner] = "dropPages"
      /\ LetPagesGo => pc[Owner] = "dropArena" /\ DropPage(p)
  BY DEF DropPages, LetPagesGo
<1>2. p \in Pages /\ p \in ToSet(own.batch) /\ Attached(p) /\ p <= made
  BY <1>1, BatchPage DEF Shrinking
<1>3. DropPages => Union(p) = Bits
  BY <1>1, <1>2 DEF ArenaInv, OwnerInv, BatchInv, Shrinking, Union, Shape, WordType
<1>4. DropPage(p) /\ (pc[Owner] = "dropPages" => Union(p) = Bits)
  BY <1>1, <1>3 DEF DropPages
<1> HIDE DEF p
<1>5. LetGo(p)
  BY <1>1, <1>2, <1>4 DEF LetGo, p
<1> QED
  BY <1>2, <1>5

\* The words change in one of these ways, or not at all.
LEMMA WordSteps ==
  ASSUME ArenaInv, [Next]_vars
  PROVE  \/ UNCHANGED wordVars
         \/ \E p \in Pages, b \in Blocks : Taken(p, b) \/ Returned(p, b)
         \/ \E p \in Pages : Refilled(p) \/ LetGo(p)
<1> DEFINE Goal == \/ UNCHANGED wordVars
                   \/ \E p \in Pages, b \in Blocks : Taken(p, b) \/ Returned(p, b)
                   \/ \E p \in Pages : Refilled(p) \/ LetGo(p)
<1>1. CASE Acquire
  BY <1>1, AcquireTakesBlock
<1>2. CASE Refill
  <2>1. free \in Pages /\ free <= made /\ Attached(free)
    BY <1>2, FreePage DEF ArenaInv, OwnerInv, Refill
  <2>2. Refilled(free)
    BY <1>2, <2>1 DEF Refill, Refilled
  <2> QED
    BY <2>1, <2>2
<1>3. CASE InitPanics
  BY <1>3, ReturnAddsBit DEF InitPanics, ArenaInv, OwnerInv
<1>4. ASSUME NEW t \in Threads, NEW p \in Pages, NEW b \in Blocks, DropBlock(t, p, b)
      PROVE  Goal
  BY <1>4, ReturnAddsBit DEF DropBlock
<1>5. CASE DropPages \/ LetPagesGo
  BY <1>5, DropPageLetsGo
<1>7. CASE \/ LoadReturned \/ PopFull \/ Unmark \/ TakePending \/ AllocNewPage
           \/ Unlink \/ KeepUsed \/ RemoveFromFull \/ OwnerDeallocates \/ EndShrink
           \/ EndDropArena \/ EndInit
  BY <1>7 DEF LoadReturned, PopFull, Unmark, TakePending, AllocNewPage, Unlink, KeepUsed,
     RemoveFromFull, OwnerDeallocates, EndShrink, EndDropArena, EndInit
<1>8. ASSUME NEW t \in Threads, DropBlockStep(t) PROVE Goal
  BY <1>8 DEF DropBlockStep, Deallocate, LoadMark, SwapMark, UpgradePending, LinkPending,
     PushPending, TouchFreed
<1>9. CASE alloc \/ alloc_with \/ StartShrink \/ StartDropArena
  BY <1>9 DEF alloc, alloc_with, StartAlloc, StartShrink, StartDropArena
<1>10. CASE UNCHANGED vars
  BY <1>10 DEF vars, wordVars
<1> QED
  BY <1>1, <1>2, <1>3, <1>4, <1>5, <1>7, <1>8, <1>9, <1>10 DEF Next, OwnerStep, Start

\* A block stays in one place.
LEMMA WordInvNext ==
  ASSUME ArenaInv, [Next]_vars
  PROVE  WordInv'
<1>1. ArenaBit \in Bits /\ ArenaBit \notin Blocks
  BY BlocksAndArenaBit
<1>2. plain \in [Pages -> SUBSET Bits] /\ atomic \in [Pages -> SUBSET Bits]
  BY DEF ArenaInv, Shape, WordType
<1>3. CASE UNCHANGED wordVars
  BY <1>3 DEF wordVars, ArenaInv, WordInv, Attached
<1>4. ASSUME NEW p \in Pages, NEW b \in Blocks, Taken(p, b) \/ Returned(p, b)
      PROVE  WordInv'
  BY <1>1, <1>2, <1>4 DEF Taken, Returned, ArenaInv, WordInv, Attached
<1>5. ASSUME NEW p \in Pages, Refilled(p) PROVE  WordInv'
  BY <1>1, <1>2, <1>5 DEF Refilled, ArenaInv, WordInv, Attached
<1>6. ASSUME NEW p \in Pages, LetGo(p) PROVE  WordInv'
  BY <1>1, <1>2, <1>6 DEF LetGo, DropPage, ArenaInv, WordInv, Attached
<1> QED
  BY <1>3, <1>4, <1>5, <1>6, WordSteps

-----------------------------------------------------------------------------
(* The types.                                                              *)

\* alloc_new_page makes a page at least.
LEMMA SomePages ==
  ASSUME npages \in Int
  PROVE  ToAllocate \in Nat \ {0}
<1> DEFINE most == IF npages >= 1 THEN npages ELSE 1
<1>1. most \in {npages, 1} /\ most \in Nat \ {0} /\ \A y \in {npages, 1} : most >= y
  OBVIOUS
<1>2. Max({npages, 1}) \in Nat \ {0}
  BY <1>1 DEF Max
<1> DEFINE m == Max({npages, 1})
<1> HIDE DEF m
<1> DEFINE least == IF m <= MaxAllocate THEN m ELSE MaxAllocate
<1>3. m \in Nat \ {0} /\ MaxAllocate \in Nat \ {0}
  BY <1>2, ArenaAssumption DEF m
<1>4. least \in {m, MaxAllocate} /\ least \in Nat \ {0} /\ \A y \in {m, MaxAllocate} : least <= y
  BY <1>3
<1>5. Min({m, MaxAllocate}) \in Nat \ {0}
  BY <1>3, <1>4 DEF Min
<1> QED
  BY <1>5 DEF ToAllocate, m

\* What alloc_new_page adds.
LEMMA NewPages ==
  ASSUME ArenaInv, AllocNewPage, NEW n, n = ToAllocate
  PROVE  /\ n \in Nat \ {0} /\ made \in Nat /\ made + n <= MaxPages /\ made' = made + n
         /\ made + 1 .. made + n \subseteq Pages
         /\ nextFree' \in [Pages -> Pointer]
         /\ \A p \in Pages \ (made + 1 .. made + n) : nextFree'[p] = nextFree[p]
         /\ IsChain(nextFree', made + 1 .. made + n, free')
         /\ marked' = marked \cup (made + 1 .. made + n)
         /\ full' \in Seq(Pages) /\ Len(full') = Len(full) + n
         /\ ToSet(full') = ToSet(full) \cup (made + 1 .. made + n)
         /\ IsInjective(full) /\ ToSet(full) \cap (made + 1 .. made + n) = {} => IsInjective(full')
         /\ free' \in made + 1 .. made + n /\ npages' = npages + n
<1>1. /\ n \in Nat \ {0} /\ made \in Nat /\ made + n <= MaxPages /\ MaxPages \in Nat
      /\ nextFree \in [Pages -> Pointer] /\ full \in Seq(Pages)
  BY SomePages, ArenaAssumption DEF ArenaInv, Shape, ListType, AllocNewPage
<1> DEFINE list == NewList(made, n)
<1>2. /\ made' = made + n /\ nextFree' = Linked(nextFree, list) /\ marked' = marked \cup ToSet(list)
      /\ full' = list \o full /\ free' = Head(list) /\ npages' = npages + n
  BY DEF AllocNewPage, make_list
<1>3. /\ list \in Seq(made + 1 .. made + n) /\ Len(list) = n /\ IsInjective(list)
      /\ ToSet(list) = made + 1 .. made + n /\ Head(list) = made + n
  BY <1>1, NewListElements
<1>4. made + 1 .. made + n \subseteq Pages
  BY <1>1 DEF Pages
<1>5. /\ nextFree' \in [Pages -> Pointer]
      /\ \A p \in Pages \ (made + 1 .. made + n) : nextFree'[p] = nextFree[p]
      /\ IsChain(nextFree', made + 1 .. made + n, made + n)
  <2> DEFINE new == Linked(nextFree, list)
  <2>1. /\ new \in [Pages -> Pointer]
        /\ \A p \in Pages \ (made + 1 .. made + n) : new[p] = nextFree[p]
        /\ IsChain(new, made + 1 .. made + n, made + n)
    BY <1>1, ChainNew
  <2>2. nextFree' = new
    BY <1>2
  <2> HIDE DEF new
  <2> QED
    BY <2>1, <2>2
<1>6. list \in Seq(Pages)
  <2>1. list \in [1 .. n -> Pages]
    BY <1>1, <1>4 DEF NewList
  <2> QED
    BY <1>1, <2>1
<1> HIDE DEF list
<1>7. /\ full' \in Seq(Pages) /\ Len(full') = Len(full) + n
      /\ ToSet(full') = ToSet(full) \cup ToSet(list)
      /\ IsInjective(full) /\ ToSet(full) \cap ToSet(list) = {} => IsInjective(full')
  <2> DEFINE joined == list \o full
  <2>1. /\ joined \in Seq(Pages) /\ Len(joined) = Len(full) + Len(list)
        /\ ToSet(joined) = ToSet(full) \cup ToSet(list)
        /\ IsInjective(full) /\ IsInjective(list) /\ ToSet(full) \cap ToSet(list) = {}
             => IsInjective(joined)
    BY <1>1, <1>6, Joined
  <2>2. full' = joined
    BY <1>2
  <2> HIDE DEF joined
  <2> QED
    BY <1>3, <2>1, <2>2
<1> QED
  BY <1>1, <1>2, <1>3, <1>4, <1>5, <1>7

\* The cell that shrink_to_fit is at.
LEMMA CellType ==
  ASSUME Shape
  PROVE  Cell \in Pointer
BY DEF Shape, ListType, OwnType, Cell, Pointer

\* Who frees a page.
LEMMA FreedSteps ==
  ASSUME [Next]_vars
  PROVE  \/ freed' = freed
         \/ \E t \in Threads : Deallocate(t)
         \/ OwnerDeallocates
BY DEF Next, OwnerStep, DropBlockStep, Start, vars, Acquire, LoadReturned, Refill, PopFull, Unmark,
   TakePending, AllocNewPage, Unlink, KeepUsed, RemoveFromFull, DropPages, DropPage,
   EndShrink, LetPagesGo, EndDropArena, EndInit, InitPanics, Return, LoadMark, SwapMark,
   UpgradePending, LinkPending, PushPending, TouchFreed, alloc, alloc_with, StartAlloc,
   StartShrink, StartDropArena, DropBlock

\* The arena is dropped once.
LEMMA ArenaSteps ==
  ASSUME [Next]_vars
  PROVE  \/ arena' = arena
         \/ StartDropArena
         \/ EndDropArena
BY DEF Next, OwnerStep, DropBlockStep, Start, vars, Acquire, LoadReturned, Refill, PopFull, Unmark,
   TakePending, AllocNewPage, Unlink, KeepUsed, RemoveFromFull, DropPages, DropPage,
   OwnerDeallocates, EndShrink, LetPagesGo, EndInit, InitPanics, Return, Deallocate, LoadMark, SwapMark,
   UpgradePending, LinkPending, PushPending, TouchFreed, alloc, alloc_with, StartAlloc,
   StartShrink, DropBlock

\* Where the threads are.
LEMMA PcTypeNext ==
  ASSUME ArenaInv, [Next]_vars
  PROVE  PcType'
<1> USE DEF PcType
<1>0. /\ PcType /\ Owner \in Threads /\ Null \in Pointer /\ Pages \subseteq Pointer
      /\ {"head", "refill", "pop", "unmark", "init", "walk", "dropPages", "dealloc", "dropArena",
          "panic"} \subseteq Labels
      /\ {"idle", "wild", "marked", "swap", "upgrade", "push", "pushCas", "last"}
           \subseteq Labels \ OwnerLabels
  BY ArenaAssumption DEF ArenaInv, Shape, Labels, DropLabels, OwnerLabels, Pointer
<1>1. ASSUME NEW l \in Labels, Goto(Owner, l), UNCHANGED <<page, nxt>>
      PROVE  PcType'
  BY <1>0, <1>1 DEF Goto
<1>2. ASSUME NEW t \in Threads, NEW l \in Labels \ OwnerLabels, Goto(t, l),
             page' \in [Threads -> Pointer], nxt' \in [Threads -> Pointer]
      PROVE  PcType'
  BY <1>0, <1>2 DEF Goto
<1>3. CASE Acquire \/ LoadReturned \/ Refill \/ PopFull \/ Unmark \/ EndInit
  BY <1>0, <1>1, <1>3 DEF Acquire, LoadReturned, Refill, PopFull, Unmark, EndInit
<1>4. CASE TakePending \/ AllocNewPage \/ Unlink \/ KeepUsed
  BY <1>0, <1>4 DEF TakePending, AllocNewPage, Unlink, KeepUsed
<1>5. CASE RemoveFromFull \/ OwnerDeallocates \/ EndShrink \/ EndDropArena
  BY <1>0, <1>1, <1>5 DEF RemoveFromFull, OwnerDeallocates, EndShrink, EndDropArena
<1>6. CASE alloc \/ alloc_with \/ StartShrink \/ StartDropArena
  BY <1>0, <1>1, <1>6 DEF alloc, alloc_with, StartAlloc, StartShrink, StartDropArena
<1>7. ASSUME NEW p, DropPage(p) PROVE PcType'
  BY <1>0, <1>1, <1>7 DEF DropPage
<1>8. CASE DropPages
  BY <1>0, <1>1, <1>7, <1>8 DEF DropPages
<1>9. CASE LetPagesGo
  BY <1>7, <1>9 DEF LetPagesGo
<1>10. ASSUME NEW t \in Threads, NEW p \in Pages, NEW b, Return(t, p, b) PROVE PcType'
  <2>1. PICK l \in {"last", "marked"} : Goto(t, l)
    BY <1>10 DEF Return
  <2>2. page' \in [Threads -> Pointer] /\ nxt' \in [Threads -> Pointer]
    BY <1>0, <1>10 DEF Return
  <2> QED
    BY <1>0, <1>2, <2>1, <2>2
<1>11. CASE InitPanics
  BY <1>0, <1>10, <1>11 DEF InitPanics, ArenaInv, OwnerInv
<1>12. ASSUME NEW t \in Threads, NEW p \in Pages, NEW b \in Blocks, DropBlock(t, p, b)
       PROVE  PcType'
  BY <1>10, <1>12 DEF DropBlock
<1>13. ASSUME NEW t \in Threads, NEW l \in Labels \ OwnerLabels, Move(t, l)
       PROVE  PcType'
  <2>1. page' \in [Threads -> Pointer] /\ nxt' \in [Threads -> Pointer]
    BY <1>0, <1>13 DEF Move
  <2> QED
    BY <1>2, <1>13, <2>1 DEF Move
<1>14. ASSUME NEW t \in Threads, Deallocate(t) \/ LoadMark(t) \/ SwapMark(t) \/ UpgradePending(t)
       PROVE  PcType'
  BY <1>0, <1>13, <1>14 DEF Deallocate, LoadMark, SwapMark, UpgradePending
<1>15. ASSUME NEW t \in Threads, LinkPending(t)
       PROVE  PcType'
  <2>1. nxt' \in [Threads -> Pointer] /\ page' = page
    BY <1>0, <1>15 DEF LinkPending, ArenaInv, Shape, ListType
  <2> QED
    BY <1>0, <1>2, <1>15, <2>1 DEF LinkPending
<1>16. ASSUME NEW t \in Threads, PushPending(t)
       PROVE  PcType'
  BY <1>0, <1>13, <1>16 DEF PushPending
<1>17. ASSUME NEW t \in Threads, TouchFreed(t)
       PROVE  PcType'
  BY <1>0, <1>2, <1>17 DEF TouchFreed
<1>18. CASE UNCHANGED vars
  BY <1>0, <1>18 DEF vars
<1> QED
  BY <1>3, <1>4, <1>5, <1>6, <1>8, <1>9, <1>11, <1>12, <1>14, <1>15, <1>16, <1>17, <1>18
     DEF Next, OwnerStep, DropBlockStep, Start

\* The owner's locals are reset to these.
LEMMA NoLocalsType ==
  NoLocals \in [page : Pointer, block : Blocks, init : BOOLEAN, start : Pointer, cur : Pointer,
                batch : Seq(Pages), i : Nat]
<1>1. Null \in Pointer /\ 0 \in Blocks /\ <<>> \in Seq(Pages)
  BY WidthAssumption DEF Blocks, BLOCK_PER_PAGE, Pointer
<1> QED
  BY <1>1 DEF NoLocals

\* The owner's locals.
LEMMA OwnTypeNext ==
  ASSUME ArenaInv, [Next]_vars
  PROVE  OwnType'
<1> USE DEF OwnType
<1>0. OwnType /\ Null \in Pointer /\ Pages \subseteq Pointer /\ 0 \in Blocks
  BY WidthAssumption DEF ArenaInv, Shape, Blocks, BLOCK_PER_PAGE, Pointer
<1>1. CASE own' = own
  BY <1>0, <1>1
<1>2. CASE own' = NoLocals
  BY <1>2, NoLocalsType
<1>3. CASE Acquire
  <2>1. TrailingZeros(plain[free]) \in Blocks /\ free \in Pointer
    BY <1>0, <1>3, AcquireTakesBlock
  <2> DEFINE b == TrailingZeros(plain[free])
  <2>2. own' = NoLocals \/ own' = [own EXCEPT !.page = free, !.block = b]
    BY <1>3 DEF Acquire
  <2> HIDE DEF b
  <2>3. b \in Blocks
    BY <2>1 DEF b
  <2> QED
    BY <1>0, <1>2, <2>1, <2>2, <2>3
<1>4. CASE PopFull
  <2>1. free \in Pointer
    BY DEF ArenaInv, Shape, ListType
  <2> QED
    BY <1>0, <1>4, <2>1 DEF PopFull
<1>5. CASE Unmark
  BY <1>0, <1>5 DEF Unmark
<1>6. CASE alloc \/ alloc_with
  <2>1. PICK with \in BOOLEAN : own' = [NoLocals EXCEPT !.init = with]
    BY <1>6 DEF alloc, alloc_with, StartAlloc
  <2> QED
    BY <2>1, NoLocalsType
<1>7. CASE StartShrink
  <2>1. own' = [NoLocals EXCEPT !.start = free] /\ free \in Pointer
    BY <1>7 DEF StartShrink, ArenaInv, Shape, ListType
  <2> QED
    BY <2>1, NoLocalsType
<1>8. CASE StartDropArena
  <2>1. own' = [NoLocals EXCEPT !.batch = full] /\ full \in Seq(Pages)
    BY <1>8 DEF StartDropArena, ArenaInv, Shape, ListType
  <2> QED
    BY <2>1, NoLocalsType
<1>9. CASE Unlink
  <2>1. Cell \in Pages /\ nextFree[Cell] \in Pointer
    BY <1>9, CellType DEF Unlink, ArenaInv, Shape, ListType, Pointer
  <2>2. own.batch \in Seq(Pages)
    BY <1>0
  <2> DEFINE b == Append(own.batch, Cell)
  <2>3. b \in Seq(Pages)
    BY <2>1, <2>2
  <2>4. \/ own' = [own EXCEPT !.start = nextFree[Cell], !.batch = b]
        \/ own' = [own EXCEPT !.batch = b]
    BY <1>9 DEF Unlink
  <2> HIDE DEF b
  <2> QED
    BY <1>0, <2>1, <2>3, <2>4
<1>10. CASE KeepUsed
  BY <1>0, <1>10, CellType DEF KeepUsed, ArenaInv
<1>11. ASSUME NEW p \in Pages, DropPage(p) PROVE OwnType'
  <2> DEFINE n == own.i + 1
  <2>1. n \in Nat
    BY <1>0
  <2>2. PICK q \in Pointer : own' = [own EXCEPT !.i = n, !.page = q]
    BY <1>0, <1>11 DEF DropPage
  <2> HIDE DEF n
  <2> QED
    BY <1>0, <2>1, <2>2
<1>12. CASE DropPages
  <2>1. own.batch[own.i + 1] \in Pages
    BY <1>12, BatchPage DEF DropPages, Shrinking
  <2> QED
    BY <1>1, <1>11, <1>12, <2>1 DEF DropPages
<1>13. CASE LetPagesGo
  <2>1. own.batch[own.i + 1] \in Pages
    BY <1>13, BatchPage DEF LetPagesGo
  <2> QED
    BY <1>11, <1>13, <2>1 DEF LetPagesGo
<1>14. CASE OwnerDeallocates
  BY <1>0, <1>14 DEF OwnerDeallocates
<1>15. CASE LoadReturned \/ Refill \/ TakePending \/ AllocNewPage \/ RemoveFromFull
  BY <1>1, <1>15 DEF LoadReturned, Refill, TakePending, AllocNewPage, RemoveFromFull
<1>16. CASE EndInit \/ InitPanics \/ EndShrink \/ EndDropArena
  BY <1>2, <1>16 DEF EndInit, InitPanics, EndShrink, EndDropArena
<1>17. ASSUME NEW t \in Threads, DropBlockStep(t) PROVE OwnType'
  BY <1>1, <1>17 DEF DropBlockStep, Deallocate, LoadMark, SwapMark, UpgradePending, LinkPending,
     PushPending, TouchFreed
<1>18. ASSUME NEW t \in Threads, NEW p \in Pages, NEW b \in Blocks, DropBlock(t, p, b)
       PROVE  OwnType'
  BY <1>1, <1>18 DEF DropBlock
<1>19. CASE UNCHANGED vars
  BY <1>1, <1>19 DEF vars
<1> QED
  BY <1>3, <1>4, <1>5, <1>6, <1>7, <1>8, <1>9, <1>10, <1>12, <1>13, <1>14, <1>15, <1>16, <1>17,
     <1>18, <1>19 DEF Next, OwnerStep, Start

\* Every step keeps the types.
LEMMA ShapeNext ==
  ASSUME ArenaInv, [Next]_vars
  PROVE  Shape'
<1> USE DEF ListType
<1>0. WordType /\ ListType /\ PcType /\ OwnType /\ freed \subseteq Pages
      /\ arena \in {"open", "dropping", "dropped"} /\ Null \in Pointer /\ Pages \subseteq Pointer
  BY DEF ArenaInv, Shape, Pointer
<1>1. WordType'
  <2>1. CASE UNCHANGED wordVars
    BY <1>0, <2>1 DEF WordType, wordVars
  <2>2. ASSUME NEW p \in Pages, NEW b \in Blocks, Taken(p, b) \/ Returned(p, b)
        PROVE  WordType'
    BY <1>0, <2>2, BlocksAndArenaBit DEF WordType, Taken, Returned
  <2>3. ASSUME NEW p \in Pages, Refilled(p) \/ LetGo(p)
        PROVE  WordType'
    BY <1>0, <2>3 DEF WordType, Refilled, LetGo, DropPage
  <2> QED
    BY <2>1, <2>2, <2>3, WordSteps
<1>2. ListType'
  <2>1. CASE UNCHANGED listVars
    BY <1>0, <2>1 DEF listVars
  <2>2. CASE PopFull
    BY <1>0, <2>2 DEF PopFull, ArenaInv, OwnerInv, Pointer
  <2>3. CASE Unmark \/ TakePending
    BY <1>0, <2>3 DEF Unmark, TakePending
  <2>4. CASE AllocNewPage
    <3>1. /\ ToAllocate \in Nat \ {0} /\ made' = made + ToAllocate /\ made + ToAllocate <= MaxPages
          /\ nextFree' \in [Pages -> Pointer] /\ full' \in Seq(Pages)
          /\ made + 1 .. made + ToAllocate \subseteq Pages
          /\ marked' = marked \cup (made + 1 .. made + ToAllocate)
          /\ free' \in made + 1 .. made + ToAllocate /\ npages' = npages + ToAllocate
      BY <2>4, NewPages
    <3> QED
      BY <1>0, <2>4, <3>1 DEF AllocNewPage
  <2>5. ASSUME NEW t \in Threads, SwapMark(t) PROVE ListType'
    <3>1. page[t] \in Pages
      BY <2>5 DEF SwapMark, ArenaInv, MadeInv, DropLabels
    <3> QED
      BY <1>0, <2>5, <3>1 DEF SwapMark
  <2>6. ASSUME NEW t \in Threads, LinkPending(t) PROVE ListType'
    BY <1>0, <2>6 DEF LinkPending
  <2>7. ASSUME NEW t \in Threads, PushPending(t) PROVE ListType'
    BY <1>0, <2>7 DEF PushPending, PcType
  <2>8. CASE StartShrink
    BY <1>0, <2>8 DEF StartShrink
  <2>9. CASE Unlink
    <3>1. Cell \in Pages /\ nextFree[Cell] \in Pointer
      BY <1>0, <2>9, CellType DEF Unlink, ArenaInv, Pointer
    <3>2. nextFree' = nextFree \/ nextFree' = [nextFree EXCEPT ![own.cur] = nextFree[Cell]]
      BY <2>9 DEF Unlink
    <3> QED
      BY <1>0, <2>9, <3>1, <3>2 DEF Unlink
  <2>10. CASE RemoveFromFull
    <3>1. full' \in Seq(Pages)
      BY <1>0, <2>10, KeptElements DEF RemoveFromFull
    <3> QED
      BY <1>0, <2>10, <3>1 DEF RemoveFromFull
  <2>11. CASE EndShrink
    BY <1>0, <2>11 DEF EndShrink, OwnType
  <2>12. ASSUME NEW p, DropPage(p) PROVE UNCHANGED listVars
    BY <2>12 DEF DropPage
  <2>13. CASE \/ Acquire \/ LoadReturned \/ Refill \/ KeepUsed \/ DropPages \/ OwnerDeallocates
             \/ LetPagesGo \/ EndDropArena \/ EndInit \/ InitPanics
    BY <2>1, <2>12, <2>13 DEF Acquire, LoadReturned, Refill, KeepUsed, DropPages, OwnerDeallocates,
       LetPagesGo, EndDropArena, EndInit, InitPanics, Return
  <2>14. ASSUME NEW t \in Threads,
                Deallocate(t) \/ LoadMark(t) \/ UpgradePending(t) \/ TouchFreed(t)
         PROVE  ListType'
    BY <2>1, <2>14 DEF Deallocate, LoadMark, UpgradePending, TouchFreed
  <2>15. ASSUME NEW t \in Threads, NEW p \in Pages, NEW b \in Blocks, DropBlock(t, p, b)
         PROVE  ListType'
    BY <2>1, <2>15 DEF DropBlock, Return
  <2>16. CASE alloc \/ alloc_with \/ StartDropArena
    BY <2>1, <2>16 DEF alloc, alloc_with, StartAlloc, StartDropArena
  <2>17. CASE UNCHANGED vars
    BY <2>1, <2>17 DEF vars, listVars
  <2> QED
    BY <2>2, <2>3, <2>4, <2>5, <2>6, <2>7, <2>8, <2>9, <2>10, <2>11, <2>13, <2>14, <2>15, <2>16,
       <2>17 DEF Next, OwnerStep, DropBlockStep, Start
<1>3. freed' \subseteq Pages
  BY <1>0, FreedSteps DEF ArenaInv, FreedInv, MadeInv, DropLabels, Deallocate, OwnerDeallocates
<1>4. arena' \in {"open", "dropping", "dropped"}
  BY <1>0, ArenaSteps DEF StartDropArena, EndDropArena
<1> QED
  BY <1>1, <1>2, <1>3, <1>4, PcTypeNext, OwnTypeNext DEF Shape

-----------------------------------------------------------------------------
(* Who moves.                                                              *)

\* The owner moves, and is not in drop_block.
OwnerMoves ==
  /\ page' = page /\ nxt' = nxt
  /\ \A t \in Threads : pc[t] \in DropLabels \/ pc'[t] \in DropLabels \/ t # Owner => pc'[t] = pc[t]

\* Each step is one of the owner, one of a drop_block, or the first of one.
LEMMA PcSteps ==
  ASSUME ArenaInv, [Next]_vars
  PROVE  \/ OwnerMoves
         \/ \E t \in Threads : DropBlockStep(t)
         \/ \E t \in Threads, p \in Pages, b \in Blocks : DropBlock(t, p, b)
         \/ InitPanics
<1>0. /\ pc \in [Threads -> Labels] /\ Owner \in Threads
      /\ OwnerLabels \cap DropLabels = {} /\ "idle" \notin DropLabels
  BY ArenaAssumption DEF ArenaInv, Shape, PcType, OwnerLabels, DropLabels
<1>1. ASSUME pc[Owner] \notin DropLabels, NEW l, l \notin DropLabels, Goto(Owner, l), page' = page, nxt' = nxt
      PROVE  OwnerMoves
  BY <1>0, <1>1 DEF Goto, OwnerMoves
<1>2. CASE Acquire \/ LoadReturned \/ Refill \/ PopFull \/ Unmark \/ EndInit
  BY <1>1, <1>2 DEF Acquire, LoadReturned, Refill, PopFull, Unmark, EndInit, DropLabels
<1>3. CASE TakePending \/ AllocNewPage \/ Unlink \/ KeepUsed \/ UNCHANGED vars
  BY <1>3 DEF OwnerMoves, TakePending, AllocNewPage, Unlink, KeepUsed, vars
<1>4. CASE RemoveFromFull \/ OwnerDeallocates \/ EndShrink \/ EndDropArena
  BY <1>1, <1>4 DEF RemoveFromFull, OwnerDeallocates, EndShrink, EndDropArena, DropLabels
<1>5. CASE alloc \/ alloc_with \/ StartShrink \/ StartDropArena
  BY <1>1, <1>5 DEF alloc, alloc_with, StartAlloc, StartShrink, StartDropArena, DropLabels
<1>6. ASSUME NEW p, DropPage(p), pc[Owner] \notin DropLabels PROVE OwnerMoves
  BY <1>1, <1>6 DEF DropPage, DropLabels, OwnerMoves
<1>7. CASE DropPages \/ LetPagesGo
  BY <1>1, <1>6, <1>7 DEF DropPages, LetPagesGo, DropLabels
<1> QED
  BY <1>2, <1>3, <1>4, <1>5, <1>7 DEF Next, OwnerStep, Start

\* What drop_block says of the thread.
LEMMA ReturnMoves ==
  ASSUME ArenaInv, NEW t \in Threads, NEW p, NEW b, Return(t, p, b)
  PROVE  /\ page'[t] = p /\ pc'[t] = IF atomic[p] \cup {b} = Bits THEN "last" ELSE "marked"
         /\ \A u \in Threads \ {t} : page'[u] = page[u] /\ pc'[u] = pc[u]
         /\ nxt' = nxt
BY DEF ArenaInv, Shape, PcType, Return, Goto

\* Who is in drop_block stays at its page.
LEMMA DropBlockMoves ==
  ASSUME ArenaInv, NEW t \in Threads, DropBlockStep(t)
  PROVE  /\ pc[t] \in DropLabels /\ pc'[t] \in {"idle", "wild", "swap", "upgrade", "push", "pushCas"}
         /\ pc'[t] # "idle" => page'[t] = page[t]
         /\ \A u \in Threads \ {t} : page'[u] = page[u] /\ pc'[u] = pc[u] /\ nxt'[u] = nxt[u]
         /\ UNCHANGED wordVars /\ own' = own /\ arena' = arena
<1> USE DEF ArenaInv, Shape, PcType, DropLabels, Goto
<1>1. CASE Deallocate(t) \/ LoadMark(t) \/ SwapMark(t) \/ UpgradePending(t)
  BY <1>1 DEF Deallocate, LoadMark, SwapMark, UpgradePending, Move
<1>2. CASE LinkPending(t) \/ PushPending(t) \/ TouchFreed(t)
  BY <1>2 DEF LinkPending, PushPending, TouchFreed, Move
<1> QED
  BY <1>1, <1>2 DEF DropBlockStep

\* A page becomes attached or let go only in drop_page.
LEMMA AttachedSteps ==
  ASSUME ArenaInv, [Next]_vars
  PROVE  \A p \in Pages : Attached(p)' <=> Attached(p) /\ ~LetGo(p)
<1> USE DEF Attached
<1>0. ArenaBit \notin Blocks /\ atomic \in [Pages -> SUBSET Bits] /\ WordInv
  BY BlocksAndArenaBit DEF ArenaInv, Shape, WordType
<1>1. CASE UNCHANGED wordVars
  BY <1>0, <1>1 DEF LetGo, DropPage, wordVars, WordInv
<1>2. ASSUME NEW q \in Pages, NEW b \in Blocks, Taken(q, b) \/ Returned(q, b)
      PROVE  \A p \in Pages : Attached(p)' <=> Attached(p) /\ ~LetGo(p)
  BY <1>0, <1>2 DEF LetGo, DropPage, Taken, Returned, WordInv
<1>3. ASSUME NEW q \in Pages, Refilled(q)
      PROVE  \A p \in Pages : Attached(p)' <=> Attached(p) /\ ~LetGo(p)
  BY <1>0, <1>3 DEF LetGo, DropPage, Refilled, WordInv
<1>4. ASSUME NEW q \in Pages, LetGo(q)
      PROVE  \A p \in Pages : Attached(p)' <=> Attached(p) /\ ~LetGo(p)
  <2>1. atomic' = [atomic EXCEPT ![q] = @ \cup plain[q]] /\ ArenaBit \in plain[q]
    BY <1>0, <1>4 DEF LetGo, DropPage, WordInv
  <2>2. \A p \in Pages : LetGo(p) => p = q
    BY <1>4 DEF LetGo
  <2> QED
    BY <1>0, <1>4, <2>1, <2>2
<1> QED
  BY <1>1, <1>2, <1>3, <1>4, WordSteps

\* Who sets and clears the marks, and makes pages.
LEMMA MarkSteps ==
  ASSUME [Next]_vars
  PROVE  \/ marked' = marked /\ made' = made
         \/ Unmark \/ AllocNewPage
         \/ \E t \in Threads : SwapMark(t)
BY DEF Next, OwnerStep, DropBlockStep, Start, vars, wordVars, listVars, Acquire, LoadReturned, Refill, PopFull,
   TakePending, Unlink, KeepUsed, RemoveFromFull, DropPages, DropPage, OwnerDeallocates,
   EndShrink, LetPagesGo, EndDropArena, EndInit, InitPanics, Return, Deallocate, LoadMark,
   UpgradePending, LinkPending, PushPending, TouchFreed, alloc, alloc_with, StartAlloc,
   StartShrink, StartDropArena, DropBlock

-----------------------------------------------------------------------------
(* The pages that are in use.                                              *)

\* Pages are only made.
LEMMA MadeGrows ==
  ASSUME ArenaInv, [Next]_vars
  PROVE  made \in Nat /\ made' \in Nat /\ made <= made'
<1>1. made \in Nat
  BY ArenaAssumption DEF ArenaInv, Shape, ListType
<1>2. CASE AllocNewPage
  BY <1>1, <1>2, NewPages
<1>3. CASE made' = made
  BY <1>1, <1>3
<1> QED
  BY <1>2, <1>3, MarkSteps DEF Unmark, SwapMark

\* A page that is in use, or let go, was made; in an open arena what was let go
\* stays marked.
LEMMA MadeInvNext ==
  ASSUME ArenaInv, [Next]_vars
  PROVE  MadeInv'
<1>0. made \in Nat /\ made' \in Nat /\ made <= made' /\ Owner \in Threads
  BY MadeGrows, ArenaAssumption
<1>1. ASSUME NEW h \in held' PROVE h[1] <= made'
  <2>1. held' = held \/ \E p \in Pages, b \in Blocks : Taken(p, b) \/ Returned(p, b)
    BY WordSteps DEF wordVars, Refilled, LetGo, DropPage
  <2>2. h \in held \/ (h[1] \in Pages /\ h[1] <= made)
    <3>1. h \in held \/ \E p \in Pages, b \in Blocks : h = <<p, b>> /\ p <= made
      BY <1>1, <2>1 DEF Taken, Returned
    <3>2. \A p, b : <<p, b>>[1] = p
      OBVIOUS
    <3> QED
      BY <3>1, <3>2, Zenon
  <2>3. h[1] <= made /\ h[1] \in Nat
    <3>1. \A x \in Pages \X Blocks : x[1] \in Pages
      OBVIOUS
    <3>2. \A x \in held : x[1] \in Pages /\ x[1] <= made
      BY <3>1 DEF ArenaInv, MadeInv, Shape, WordType
    <3> QED
      BY <2>2, <3>2 DEF Pages
  <2> QED
    BY <1>0, <2>3
<1>2. ASSUME NEW t \in Threads, pc'[t] \in DropLabels
      PROVE  page'[t] \in Pages /\ page'[t] <= made'
  <2> SUFFICES page'[t] \in Pages /\ page'[t] <= made
    BY <1>0 DEF Pages
  <2>1. CASE OwnerMoves
    BY <1>2, <2>1 DEF OwnerMoves, ArenaInv, MadeInv
  <2>2. ASSUME NEW u \in Threads, DropBlockStep(u)
        PROVE  page'[t] \in Pages /\ page'[t] <= made
    BY <1>2, <2>2, DropBlockMoves DEF ArenaInv, MadeInv, DropLabels
  <2>3. ASSUME NEW u \in Threads, NEW p, NEW b, <<p, b>> \in held, Return(u, p, b)
        PROVE  page'[t] \in Pages /\ page'[t] <= made
    <3>1. p \in Pages /\ p <= made
      BY <2>3, ReturnAddsBit DEF Returned
    <3> QED
      BY <1>2, <2>3, <3>1, ReturnMoves DEF ArenaInv, MadeInv
  <2> QED
    BY <1>0, <2>1, <2>2, <2>3, PcSteps DEF DropBlock, InitPanics, ArenaInv, OwnerInv
<1>3. ASSUME NEW p \in Pages, ~Attached(p)'
      PROVE  p <= made' /\ (arena' = "open" => p \in marked')
  <2>1. ~Attached(p) \/ LetGo(p)
    BY <1>3, AttachedSteps
  <2>2. p <= made
    BY <2>1 DEF ArenaInv, MadeInv, LetGo
  <2>3. ASSUME arena = "open" PROVE p \in marked
    <3>1. CASE ~Attached(p)
      BY <2>3, <3>1 DEF ArenaInv, MadeInv
    <3>2. CASE LetGo(p)
      <4>1. pc[Owner] \in Shrinking /\ p \in ToSet(own.batch)
        BY <2>3, <3>2, BatchPage DEF LetGo, ArenaInv, OwnerInv, Shrinking
      <4> QED
        BY <2>3, <4>1 DEF ArenaInv, ListInv, Lists, OwnerApart, Apart
    <3> QED
      BY <2>1, <3>1, <3>2
  <2>4. arena' = "open" => arena = "open"
    BY ArenaSteps DEF StartDropArena, EndDropArena
  <2>5. ASSUME arena = "open", p \in marked PROVE p \in marked'
    <3>1. CASE Unmark
      <4>1. Attached(own.page) /\ arena = "open"
        BY <3>1 DEF Unmark, ArenaInv, OwnerInv, ListInv, Lists, OwnerApart
      <4>2. own.page # p
        BY <2>1, <3>1, <4>1 DEF Unmark, LetGo
      <4> QED
        BY <2>5, <3>1, <4>2 DEF Unmark
    <3>2. CASE AllocNewPage
      BY <2>5, <3>2, NewPages
    <3> QED
      BY <2>5, <3>1, <3>2, MarkSteps DEF SwapMark
  <2> QED
    BY <1>0, <2>2, <2>3, <2>4, <2>5 DEF Pages
<1> QED
  BY <1>1, <1>2, <1>3 DEF MadeInv

-----------------------------------------------------------------------------
(* What the owner may do where.                                            *)

\* The owner allocates, shrinks and drops the arena in their turn.
LEMMA OwnerInvNext ==
  ASSUME ArenaInv, [Next]_vars
  PROVE  OwnerInv'
<1> USE DEF OwnerInv, Goto
<1>0. /\ pc \in [Threads -> Labels] /\ Owner \in Threads /\ OwnerInv
      /\ OwnType /\ free \in Pointer /\ Null \notin Pages
  BY ArenaAssumption DEF ArenaInv, Shape, PcType, ListType, Pages, Null
<1>1. CASE Acquire
  <2>1. free \in Pages /\ own \in [page : Pointer, block : Blocks, init : BOOLEAN, start : Pointer, cur : Pointer,
           batch : Seq(Pages), i : Nat]
    BY <1>0, <1>1, AcquireTakesBlock DEF OwnType
  <2> DEFINE b == TrailingZeros(plain[free])
  <2>2. /\ held' = held \cup {<<free, b>>} /\ arena' = arena /\ pc[Owner] = "head"
        /\ \/ own' = [own EXCEPT !.page = free, !.block = b] /\ Goto(Owner, "init")
           \/ Goto(Owner, "idle")
    BY <1>1 DEF Acquire
  <2> HIDE DEF b
  <2> QED
    BY <1>0, <2>1, <2>2
<1>2. CASE LoadReturned \/ Refill
  BY <1>0, <1>2 DEF LoadReturned, Refill, wordVars, listVars
<1>3. CASE PopFull \/ Unmark \/ TakePending \/ AllocNewPage \/ EndInit
  BY <1>0, <1>3 DEF PopFull, Unmark, TakePending, AllocNewPage, EndInit, wordVars
<1>4. CASE alloc \/ alloc_with \/ StartShrink \/ StartDropArena
  BY <1>0, <1>4 DEF alloc, alloc_with, StartAlloc, StartShrink, StartDropArena
<1>5. CASE Unlink \/ KeepUsed \/ RemoveFromFull
  BY <1>0, <1>5 DEF Unlink, KeepUsed, RemoveFromFull
<1>6. CASE OwnerDeallocates \/ EndShrink \/ EndDropArena
  BY <1>0, <1>6 DEF OwnerDeallocates, EndShrink, EndDropArena
<1>7. CASE DropPages \/ LetPagesGo
  BY <1>0, <1>7, DropPageLetsGo DEF LetGo, DropPage
<1>9. ASSUME NEW t \in Threads, DropBlockStep(t) PROVE OwnerInv'
  <2>1. free' = free
    BY <1>9 DEF DropBlockStep, Deallocate, LoadMark, SwapMark, UpgradePending, LinkPending,
     PushPending, TouchFreed, listVars
  <2> QED
    BY <1>0, <1>9, <2>1, DropBlockMoves DEF wordVars, DropLabels
<1>10. ASSUME NEW t \in Threads, NEW p \in Pages, NEW b \in Blocks, DropBlock(t, p, b)
       PROVE  OwnerInv'
  BY <1>0, <1>10, ReturnMoves DEF DropBlock, Return, listVars
<1>11. CASE InitPanics
  BY <1>0, <1>11, ReturnMoves DEF InitPanics
<1>12. CASE UNCHANGED vars
  BY <1>0, <1>12 DEF vars
<1> QED
  BY <1>1, <1>2, <1>3, <1>4, <1>5, <1>6, <1>7, <1>9, <1>10, <1>11, <1>12
     DEF Next, OwnerStep, Start

-----------------------------------------------------------------------------
(* The batch of the owner, and the full list.                              *)

\* A page of the list in hand that has no user joins the batch.
LEMMA CellInHand ==
  ASSUME ArenaInv, pc[Owner] = "walk", Cell # Null
  PROVE  /\ arena = "open" /\ Cell \in Pages /\ Attached(Cell) /\ Cell <= made
         /\ Cell \notin ToSet(own.batch) /\ own.batch \in Seq(Pages)
<1>1. arena = "open" /\ own.batch \in Seq(Pages)
  BY DEF ArenaInv, OwnerInv, Shape, OwnType
<1>2. PICK L \in SUBSET Pages, P \in SUBSET Pages, I \in SUBSET Pages : Lists(L, P, I)
  BY <1>1 DEF ArenaInv, ListInv
<1>3. Cell \in I
  BY <1>2 DEF Lists, Chains, IsChain, Cell, InHand
<1> QED
  BY <1>1, <1>2, <1>3 DEF Lists, AllListed, OwnerApart, Shrinking, Apart

\* Those of the owner's steps that concern its batch.
LEMMA BatchSteps ==
  ASSUME ArenaInv, [Next]_vars, pc'[Owner] \in Shrinking \cup {"dropArena"}
  PROVE  \/ StartShrink \/ StartDropArena \/ Unlink \/ OwnerDeallocates
         \/ \E p \in Pages : LetGo(p)
         \/ /\ pc[Owner] \in Shrinking \cup {"dropArena"}
            /\ own'.batch = own.batch /\ own'.i = own.i
            /\ arena' = arena
            /\ \A p \in Pages : /\ plain'[p] \cup atomic'[p] = plain[p] \cup atomic[p]
                                   \/ \E b \in Blocks : Returned(p, b)
            /\ \/ pc'[Owner] = pc[Owner]
               \/ pc[Owner] = "walk" /\ pc'[Owner] = "dropPages" /\ RemoveFromFull
<1> DEFINE Goal ==
         /\ pc[Owner] \in Shrinking \cup {"dropArena"}
         /\ own'.batch = own.batch /\ own'.i = own.i
         /\ arena' = arena
         /\ \A p \in Pages : /\ plain'[p] \cup atomic'[p] = plain[p] \cup atomic[p]
                                \/ \E b \in Blocks : Returned(p, b)
         /\ \/ pc'[Owner] = pc[Owner]
            \/ pc[Owner] = "walk" /\ pc'[Owner] = "dropPages" /\ RemoveFromFull
<1>0. pc \in [Threads -> Labels] /\ Owner \in Threads /\ OwnType
  BY ArenaAssumption DEF ArenaInv, Shape, PcType
<1>1. CASE Acquire \/ LoadReturned \/ Refill \/ PopFull \/ Unmark \/ TakePending \/ AllocNewPage \/ EndInit
  BY <1>0, <1>1 DEF Acquire, LoadReturned, Refill, PopFull, Unmark, TakePending, AllocNewPage, EndInit,
     Shrinking, Goto
<1>2. CASE EndShrink \/ EndDropArena \/ alloc \/ alloc_with
  BY <1>0, <1>2 DEF EndShrink, EndDropArena, alloc, alloc_with, StartAlloc, Shrinking, Goto
<1>3. CASE KeepUsed
  BY <1>0, <1>3 DEF KeepUsed, wordVars, Shrinking, OwnType
<1>4. CASE RemoveFromFull
  BY <1>0, <1>4 DEF RemoveFromFull, wordVars, Shrinking, Goto
<1>5. ASSUME NEW t \in Threads, DropBlockStep(t) PROVE Goal
  BY <1>0, <1>5, DropBlockMoves DEF wordVars, Shrinking, DropLabels
<1>6. ASSUME NEW t \in Threads, NEW p \in Pages, NEW b \in Blocks, DropBlock(t, p, b)
      PROVE  Goal
  <2>1. Returned(p, b) /\ <<p, b>> \in held /\ Return(t, p, b) /\ pc[t] = "idle" /\ own' = own
    BY <1>6, ReturnAddsBit DEF DropBlock
  <2>2. t # Owner /\ pc'[Owner] = pc[Owner]
    BY <1>0, <2>1, ReturnMoves DEF Shrinking
  <2>3. \A q \in Pages \ {p} : plain'[q] = plain[q] /\ atomic'[q] = atomic[q]
    BY <2>1 DEF Returned, ArenaInv, Shape, WordType
  <2> QED
    BY <2>1, <2>2, <2>3 DEF Return
<1>7. CASE InitPanics
  BY <1>0, <1>7, ReturnMoves DEF InitPanics, Shrinking
<1>8. CASE DropPages \/ LetPagesGo
  BY <1>8, DropPageLetsGo
<1>9. CASE UNCHANGED vars
  BY <1>0, <1>9 DEF vars
<1> QED
  BY <1>1, <1>2, <1>3, <1>4, <1>5, <1>6, <1>7, <1>8, <1>9 DEF Next, OwnerStep, Start

\* The pages of the batch are let go one after the other.
LEMMA BatchInvNext ==
  ASSUME ArenaInv, [Next]_vars
  PROVE  BatchInv'
<1> SUFFICES ASSUME pc'[Owner] \in Shrinking \cup {"dropArena"}
             PROVE  /\ IsInjective(own'.batch) /\ ToSet(own'.batch) \subseteq 1 .. made'
                    /\ \A j \in DOMAIN own'.batch : ArenaBit \notin atomic'[own'.batch[j]] <=> j > own'.i
                    /\ pc'[Owner] = "walk" => own'.i = 0
                    /\ arena' = "open" /\ pc'[Owner] \in Shrinking =>
                         \A p \in ToSet(own'.batch) : Bits \subseteq plain'[p] \cup atomic'[p]
  BY Zenon DEF BatchInv, Attached
<1> DEFINE Goal ==
       /\ IsInjective(own'.batch) /\ ToSet(own'.batch) \subseteq 1 .. made'
       /\ \A j \in DOMAIN own'.batch : ArenaBit \notin atomic'[own'.batch[j]] <=> j > own'.i
       /\ pc'[Owner] = "walk" => own'.i = 0
       /\ arena' = "open" /\ pc'[Owner] \in Shrinking =>
            \A p \in ToSet(own'.batch) : Bits \subseteq plain'[p] \cup atomic'[p]
<1>0. /\ pc \in [Threads -> Labels] /\ Owner \in Threads /\ own.batch \in Seq(Pages) /\ own.i \in Nat
      /\ OwnType /\ made \in Nat /\ made' \in Nat /\ 1 .. made \subseteq 1 .. made'
      /\ full \in Seq(Pages) /\ 1 .. made \subseteq Pages
  BY ArenaAssumption, MadeGrows DEF ArenaInv, Shape, PcType, OwnType, ListType, Pages
<1>1. CASE StartShrink
  <2>1. own'.batch = <<>> /\ own'.i = 0 /\ pc'[Owner] = "walk"
    BY <1>0, <1>1 DEF StartShrink, NoLocals, Goto
  <2>2. DOMAIN <<>> = {}
    OBVIOUS
  <2>3. IsInjective(<<>>) /\ ToSet(<<>>) = {}
    BY <2>2 DEF IsInjective, ToSet
  <2> QED
    BY <2>1, <2>2, <2>3
<1>2. CASE StartDropArena
  <2>1. own'.batch = full /\ own'.i = 0 /\ arena' = "dropping" /\ pc'[Owner] = "dropArena" /\ pc[Owner] = "idle"
        /\ UNCHANGED wordVars
    BY <1>0, <1>2 DEF StartDropArena, NoLocals, Goto
  <2>2. IsInjective(full) /\ \A p \in Pages : p \in ToSet(full) <=> p <= made /\ Attached(p) /\ p \notin Removed
    BY <1>2 DEF ArenaInv, FullInv, StartDropArena
  <2>3. \A j \in DOMAIN full : full[j] \in Pages /\ full[j] \in ToSet(full) /\ j > 0
    BY <1>0 DEF ToSet
  <2>4. ToSet(full) \subseteq Pages
    BY <2>3 DEF ToSet
  <2>5. ToSet(full) \subseteq 1 .. made'
    BY <1>0, <2>2, <2>4 DEF Pages
  <2> QED
    BY <2>1, <2>2, <2>3, <2>5 DEF wordVars, Attached
<1>3. CASE Unlink
  <2>1. /\ Cell \in Pages /\ Attached(Cell) /\ Cell <= made /\ Cell \notin ToSet(own.batch)
        /\ pc[Owner] = "walk" /\ arena = "open" /\ own.i = 0 /\ Union(Cell) = Bits
    BY <1>3, CellInHand DEF Unlink, ArenaInv, BatchInv, Shrinking
  <2> DEFINE new == Append(own.batch, Cell)
  <2>2. own'.batch = new /\ own'.i = own.i /\ pc' = pc /\ arena' = arena /\ UNCHANGED wordVars
    BY <1>0, <1>3 DEF Unlink, OwnType
  <2>3. /\ new \in Seq(Pages) /\ ToSet(new) = ToSet(own.batch) \cup {Cell}
        /\ IsInjective(own.batch) => IsInjective(new)
    BY <1>0, <2>1, Appended
  <2>4. \A j \in DOMAIN new : j > 0 /\ new[j] \in ToSet(new)
    BY <2>3 DEF ToSet
  <2> HIDE DEF new
  <2>5. /\ IsInjective(own.batch) /\ ToSet(own.batch) \subseteq 1 .. made
        /\ \A j \in DOMAIN own.batch : Attached(own.batch[j]) <=> j > 0
        /\ \A p \in ToSet(own.batch) : Bits \subseteq plain[p] \cup atomic[p]
    BY <2>1 DEF ArenaInv, BatchInv, Shrinking
  <2>6. \A p \in ToSet(own.batch) : Attached(p)
    BY <1>0, <2>5 DEF ToSet
  <2>7. \A p \in ToSet(new) : Attached(p)' /\ Bits \subseteq plain'[p] \cup atomic'[p]
    BY <2>1, <2>2, <2>3, <2>5, <2>6 DEF wordVars, Attached, Union
  <2>8. ToSet(new) \subseteq 1 .. made'
    BY <1>0, <2>1, <2>3, <2>5 DEF Pages
  <2>9. \A p \in ToSet(new) : ArenaBit \notin atomic'[p] /\ Bits \subseteq plain'[p] \cup atomic'[p]
    BY <2>7 DEF Attached
  <2> QED
    BY <2>1, <2>2, <2>3, <2>4, <2>5, <2>8, <2>9
<1>4. CASE OwnerDeallocates
  <2>1. /\ own'.batch = own.batch /\ own'.i = own.i /\ arena' = arena /\ UNCHANGED wordVars
        /\ pc[Owner] = "dealloc" /\ pc'[Owner] \in {"dropPages", "dropArena"}
    BY <1>0, <1>4 DEF OwnerDeallocates, OwnType, Goto
  <2> QED
    BY <1>0, <2>1 DEF ArenaInv, BatchInv, Shrinking, wordVars, Attached
<1>5. ASSUME NEW p \in Pages, LetGo(p) PROVE Goal
  <2>1. /\ own'.batch = own.batch /\ own'.i = own.i + 1 /\ arena' = arena /\ plain' = plain
        /\ atomic' = [atomic EXCEPT ![p] = @ \cup plain[p]]
        /\ pc[Owner] \in {"dropPages", "dropArena"} /\ pc'[Owner] \in {pc[Owner], "dealloc"}
        /\ own.i + 1 \in DOMAIN own.batch /\ p = own.batch[own.i + 1]
    BY <1>0, <1>5, BatchPage DEF LetGo, DropPage, OwnType, Goto, Shrinking
  <2>2. /\ IsInjective(own.batch) /\ ToSet(own.batch) \subseteq 1 .. made
        /\ \A j \in DOMAIN own.batch : Attached(own.batch[j]) <=> j > own.i
        /\ arena = "open" => \A q \in ToSet(own.batch) : Bits \subseteq plain[q] \cup atomic[q]
    BY <2>1 DEF ArenaInv, BatchInv, OwnerInv, Shrinking
  <2>3. \A q \in Pages : Attached(q)' <=> Attached(q) /\ q # p
    <3>1. ArenaBit \in plain[p]
      BY DEF ArenaInv, WordInv
    <3> QED
      BY <2>1, <3>1 DEF Attached, ArenaInv, Shape, WordType
  <2>4. \A j \in DOMAIN own.batch : /\ own.batch[j] = p <=> j = own.i + 1
                                    /\ own.batch[j] \in Pages /\ j \in Nat
    BY <1>0, <2>1, <2>2 DEF IsInjective
  <2>5. \A j \in DOMAIN own.batch : ArenaBit \notin atomic'[own.batch[j]] <=> j > own.i + 1
    BY <1>0, <2>2, <2>3, <2>4 DEF Attached
  <2>6. \A q \in Pages : plain'[q] \cup atomic'[q] = plain[q] \cup atomic[q]
    BY <2>1 DEF ArenaInv, Shape, WordType
  <2>7. ToSet(own.batch) \subseteq Pages
    BY <1>0, <2>2
  <2> QED
    BY <1>0, <2>1, <2>2, <2>5, <2>6, <2>7
<1>6. ASSUME /\ pc[Owner] \in Shrinking \cup {"dropArena"}
             /\ own'.batch = own.batch /\ own'.i = own.i
             /\ arena' = arena
             /\ \A p \in Pages : \/ plain'[p] \cup atomic'[p] = plain[p] \cup atomic[p]
                                 \/ \E b \in Blocks : Returned(p, b)
             /\ \/ pc'[Owner] = pc[Owner]
                \/ pc[Owner] = "walk" /\ pc'[Owner] = "dropPages" /\ RemoveFromFull
             /\ ~ \E p \in Pages : LetGo(p)
      PROVE  Goal
  <2>1. \A p \in Pages : Attached(p)' <=> Attached(p)
    BY <1>6, AttachedSteps
  <2>2. \A p \in Pages : Bits \subseteq plain[p] \cup atomic[p] => Bits \subseteq plain'[p] \cup atomic'[p]
    BY <1>6, BlocksAndArenaBit DEF Returned, ArenaInv, Shape, WordType
  <2>3. /\ IsInjective(own.batch) /\ ToSet(own.batch) \subseteq 1 .. made
        /\ \A j \in DOMAIN own.batch : Attached(own.batch[j]) <=> j > own.i
        /\ pc[Owner] = "walk" => own.i = 0
        /\ arena = "open" /\ pc'[Owner] \in Shrinking =>
             \A q \in ToSet(own.batch) : Bits \subseteq plain[q] \cup atomic[q]
    BY <1>6 DEF ArenaInv, BatchInv, Shrinking
  <2>4. \A j \in DOMAIN own.batch : own.batch[j] \in Pages
    BY <1>0
  <2>5. ToSet(own.batch) \subseteq Pages
    BY <1>0, <2>3
  <2>6. \A j \in DOMAIN own.batch : ArenaBit \notin atomic'[own.batch[j]] <=> j > own.i
    BY <2>1, <2>3, <2>4 DEF Attached
  <2> QED
    BY <1>0, <1>6, <2>2, <2>3, <2>5, <2>6
<1>7. CASE \E p \in Pages : LetGo(p)
  BY <1>5, <1>7
<1> QED
  BY <1>1, <1>2, <1>3, <1>4, <1>6, <1>7, BatchSteps

-----------------------------------------------------------------------------
(* Who frees a page.                                                       *)

\* The word of a page that is to be freed does not change any more.
LEMMA BitsStay ==
  ASSUME ArenaInv, [Next]_vars, NEW p \in Pages, atomic[p] = Bits
  PROVE  atomic'[p] = Bits
<1>1. ~Attached(p) /\ atomic \in [Pages -> SUBSET Bits]
  BY BlocksAndArenaBit DEF Attached, ArenaInv, Shape, WordType
<1>2. ASSUME NEW q \in Pages, Refilled(q) PROVE atomic'[p] = Bits
  BY <1>1, <1>2 DEF Refilled
<1>3. ASSUME NEW q \in Pages, LetGo(q) PROVE atomic'[p] = Bits
  <2>1. atomic' = [atomic EXCEPT ![q] = @ \cup plain[q]] /\ Attached(q)
    BY <1>3 DEF LetGo, DropPage
  <2> QED
    BY <1>1, <2>1
<1>4. ASSUME NEW q \in Pages, NEW b \in Blocks, Taken(q, b) \/ Returned(q, b)
      PROVE  atomic'[p] = Bits
  BY <1>1, <1>4, BlocksAndArenaBit DEF Taken, Returned
<1> QED
  BY <1>1, <1>2, <1>3, <1>4, WordSteps DEF wordVars

\* Where the owner is about to free a page.
LEMMA DeallocSteps ==
  ASSUME ArenaInv, [Next]_vars, pc'[Owner] = "dealloc"
  PROVE  \/ \E p \in Pages : LetGo(p)
         \/ pc[Owner] = "dealloc" /\ own'.page = own.page /\ ~OwnerDeallocates
<1>0. pc \in [Threads -> Labels] /\ Owner \in Threads
  BY ArenaAssumption DEF ArenaInv, Shape, PcType
<1>1. CASE Acquire \/ LoadReturned \/ Refill \/ PopFull \/ Unmark \/ TakePending \/ AllocNewPage \/ EndInit
  BY <1>0, <1>1 DEF Acquire, LoadReturned, Refill, PopFull, Unmark, TakePending, AllocNewPage, EndInit, Goto
<1>2. CASE EndShrink \/ EndDropArena \/ alloc \/ alloc_with \/ StartShrink \/ StartDropArena
  BY <1>0, <1>2 DEF EndShrink, EndDropArena, alloc, alloc_with, StartAlloc, StartShrink, StartDropArena, Goto
<1>3. CASE Unlink \/ KeepUsed \/ RemoveFromFull \/ OwnerDeallocates
  BY <1>0, <1>3 DEF Unlink, KeepUsed, RemoveFromFull, OwnerDeallocates, Goto
<1>4. CASE DropPages \/ LetPagesGo
  BY <1>4, DropPageLetsGo
<1>5. ASSUME NEW t \in Threads, DropBlockStep(t)
      PROVE  pc[Owner] = "dealloc" /\ own'.page = own.page /\ ~OwnerDeallocates
  BY <1>0, <1>5, DropBlockMoves DEF OwnerDeallocates, Goto
<1>6. ASSUME NEW t \in Threads, NEW p \in Pages, NEW b \in Blocks, DropBlock(t, p, b)
      PROVE  pc[Owner] = "dealloc" /\ own'.page = own.page /\ ~OwnerDeallocates
  BY <1>0, <1>6, ReturnMoves DEF DropBlock, OwnerDeallocates, Goto
<1>7. CASE InitPanics
  BY <1>0, <1>7, ReturnMoves DEF InitPanics
<1>8. CASE UNCHANGED vars
  BY <1>0, <1>8 DEF vars, OwnerDeallocates, Goto
<1> QED
  BY <1>1, <1>2, <1>3, <1>4, <1>5, <1>6, <1>7, <1>8 DEF Next, OwnerStep, Start

\* The owner that is about to free a page does so.
LEMMA DeallocStays ==
  ASSUME ArenaInv, [Next]_vars, pc[Owner] = "dealloc"
  PROVE  pc'[Owner] = "dealloc" \/ OwnerDeallocates
<1>0. pc \in [Threads -> Labels] /\ Owner \in Threads
  BY ArenaAssumption DEF ArenaInv, Shape, PcType
<1>1. ASSUME NEW t \in Threads, DropBlockStep(t) PROVE pc'[Owner] = "dealloc"
  BY <1>0, <1>1, DropBlockMoves DEF DropLabels
<1>2. ASSUME NEW t \in Threads, NEW p \in Pages, NEW b \in Blocks, DropBlock(t, p, b)
      PROVE  pc'[Owner] = "dealloc"
  BY <1>0, <1>2, ReturnMoves DEF DropBlock
<1>3. CASE UNCHANGED vars
  BY <1>3 DEF vars
<1> QED
  BY <1>1, <1>2, <1>3 DEF Next, OwnerStep, Start, Acquire, LoadReturned, Refill, PopFull, Unmark, TakePending,
     AllocNewPage, Unlink, KeepUsed, RemoveFromFull, DropPages, EndShrink, LetPagesGo, EndDropArena,
     EndInit, InitPanics, alloc, alloc_with, StartAlloc, StartShrink, StartDropArena

\* One of those that find the last bit set frees the page, once.
LEMMA FreedInvNext ==
  ASSUME ArenaInv, [Next]_vars
  PROVE  FreedInv'
<1>0. /\ FreedInv /\ Shape' /\ Owner \in Threads /\ pc \in [Threads -> Labels]
      /\ \A t \in Threads : pc[t] = "last" => page[t] \in Pages
      /\ freed \subseteq Pages
  BY ShapeNext, ArenaAssumption DEF ArenaInv, MadeInv, DropLabels, Shape, PcType
<1>1. \A p \in Pages : atomic[p] = Bits => atomic'[p] = Bits
  BY BitsStay
<1>2. ASSUME NEW t \in Threads, Deallocate(t) PROVE FreedInv'
  <2>1. /\ pc[t] = "last" /\ freed' = freed \cup {page[t]} /\ own' = own /\ arena' = arena
        /\ pc'[t] = "idle" /\ \A u \in Threads \ {t} : pc'[u] = pc[u] /\ page'[u] = page[u]
        /\ UNCHANGED atomic
    BY <1>0, <1>2, DropBlockMoves DEF Deallocate, Move, Goto, wordVars, DropBlockStep
  <2> QED
    BY <1>0, <1>1, <2>1 DEF FreedInv, Attached
<1>3. CASE OwnerDeallocates
  <2>1. /\ pc[Owner] = "dealloc" /\ freed' = freed \cup {own.page} /\ arena' = arena
        /\ pc'[Owner] \notin {"last", "dealloc"} /\ \A u \in Threads \ {Owner} : pc'[u] = pc[u]
        /\ page' = page /\ UNCHANGED atomic
    BY <1>0, <1>3 DEF OwnerDeallocates, Goto, wordVars
  <2> QED
    BY <1>0, <1>1, <2>1 DEF FreedInv, Attached
<1>4. ASSUME NEW p \in Pages, LetGo(p) PROVE FreedInv'
  <2>1. /\ atomic' = [atomic EXCEPT ![p] = @ \cup plain[p]] /\ freed' = freed /\ arena' = arena
        /\ page' = page /\ \A u \in Threads \ {Owner} : pc'[u] = pc[u]
        /\ pc[Owner] \in {"dropPages", "dropArena"}
        /\ \/ /\ Union(p) = Bits /\ pc'[Owner] = "dealloc" /\ own'.page = p
           \/ /\ Union(p) # Bits /\ pc[Owner] = "dropArena" /\ pc' = pc
    BY <1>0, <1>4 DEF LetGo, DropPage, Goto, ArenaInv, Shape, OwnType
  <2>2. Attached(p) /\ atomic[p] # Bits /\ atomic \in [Pages -> SUBSET Bits]
    BY <1>4, BlocksAndArenaBit DEF LetGo, Attached, ArenaInv, Shape, WordType
  <2>3. atomic'[p] = plain[p] \cup atomic[p] /\ \A q \in Pages \ {p} : atomic'[q] = atomic[q]
    BY <2>1, <2>2
  <2>4. arena = "open" => pc[Owner] = "dropPages"
    BY <2>1 DEF ArenaInv, OwnerInv
  <2>5. Union(p) = Bits => atomic'[p] = Bits
    BY <2>3 DEF Union
  <2> QED
    BY <1>0, <1>1, <2>1, <2>2, <2>3, <2>4, <2>5 DEF FreedInv, Attached
<1>5. ASSUME NEW t \in Threads, NEW p, NEW b, <<p, b>> \in held, Return(t, p, b),
             t = Owner => pc[t] # "dealloc" /\ pc'[t] # "dealloc", t # Owner => own' = own
      PROVE  FreedInv'
  <2>1. /\ p \in Pages /\ atomic[p] # Bits /\ p \notin freed
        /\ freed' = freed /\ arena' = arena
        /\ \A q \in Pages : Attached(q)' <=> Attached(q)
        /\ page'[t] = p /\ pc'[t] = IF atomic[p] \cup {b} = Bits THEN "last" ELSE "marked"
        /\ \A u \in Threads \ {t} : page'[u] = page[u] /\ pc'[u] = pc[u]
    <3>1. Returned(p, b) /\ p \in Pages /\ b \in Blocks
      BY <1>5, ReturnAddsBit
    <3>2. \A q \in Pages : Attached(q)' <=> Attached(q)
      BY <3>1, BlocksAndArenaBit DEF Returned, Attached, ArenaInv, Shape, WordType
    <3>3. p \in Pages /\ atomic[p] # Bits /\ p \notin freed
      BY <1>5, ReturnAddsBit
    <3>4. freed' = freed /\ arena' = arena
      BY <1>5 DEF Return
    <3>5. /\ page'[t] = p /\ pc'[t] = IF atomic[p] \cup {b} = Bits THEN "last" ELSE "marked"
          /\ \A u \in Threads \ {t} : page'[u] = page[u] /\ pc'[u] = pc[u]
      BY <1>5, ReturnMoves
    <3> QED
      BY <3>2, <3>3, <3>4, <3>5
  <2>2. atomic'[p] = atomic[p] \cup {b}
    BY <1>5, ReturnAddsBit DEF Returned, ArenaInv, Shape, WordType
  <2>3. pc'[Owner] = "dealloc" <=> pc[Owner] = "dealloc"
    BY <1>0, <1>5, <2>1
  <2>4. pc[Owner] = "dealloc" => own' = own /\ t # Owner
    BY <1>5
  <2>5. (\A u \in Threads : pc[u] = "last" => atomic[page[u]] = Bits /\ page[u] \notin freed)'
    BY <1>0, <1>1, <2>1, <2>2 DEF FreedInv
  <2>6. (\A u, v \in Threads : pc[u] = "last" /\ pc[v] = "last" /\ page[u] = page[v] => u = v)'
    BY <1>0, <2>1 DEF FreedInv
  <2>7. (pc[Owner] = "dealloc" =>
           /\ own.page \in Pages /\ atomic[own.page] = Bits /\ own.page \notin freed
           /\ \A u \in Threads : pc[u] = "last" => page[u] # own.page)'
    BY <1>0, <1>1, <2>1, <2>3, <2>4 DEF FreedInv
  <2>8. (\A q \in freed : atomic[q] = Bits)'
    BY <1>0, <1>1, <2>1 DEF FreedInv
  <2>9. (\A q \in Pages : arena = "open" /\ ~Attached(q) =>
                            q \in freed \/ (pc[Owner] = "dealloc" /\ own.page = q))'
    BY <1>0, <2>1, <2>3, <2>4 DEF FreedInv
  <2> QED
    BY <2>5, <2>6, <2>7, <2>8, <2>9 DEF FreedInv
<1>6. ASSUME NEW t \in Threads, DropBlockStep(t), ~Deallocate(t) PROVE FreedInv'
  <2>1. /\ freed' = freed /\ own' = own /\ arena' = arena /\ UNCHANGED atomic
        /\ pc'[t] \notin {"last", "dealloc"} /\ pc[t] # "dealloc"
        /\ \A u \in Threads \ {t} : pc'[u] = pc[u] /\ page'[u] = page[u]
    BY <1>6, DropBlockMoves DEF DropBlockStep, LoadMark, SwapMark, UpgradePending, LinkPending, PushPending,
       TouchFreed, wordVars, DropLabels
  <2> QED
    BY <1>0, <1>1, <2>1 DEF FreedInv, Attached
<1>7. ASSUME OwnerMoves, ~OwnerDeallocates, ~ \E t \in Threads : Deallocate(t), ~ \E p \in Pages : LetGo(p)
      PROVE  FreedInv'
  <2>1. /\ freed' = freed /\ \A p \in Pages : Attached(p)' <=> Attached(p)
        /\ arena' = "open" => arena = "open"
        /\ pc'[Owner] = "dealloc" => pc[Owner] = "dealloc" /\ own'.page = own.page
    BY <1>7, FreedSteps, AttachedSteps, ArenaSteps, DeallocSteps DEF StartDropArena, EndDropArena
  <2>2. /\ page' = page /\ \A t \in Threads : pc'[t] = "last" => pc[t] = "last"
    BY <1>7 DEF OwnerMoves, DropLabels
  <2>3. pc[Owner] = "dealloc" => pc'[Owner] = "dealloc" \/ OwnerDeallocates
    BY <1>0, DeallocStays
  <2> QED
    BY <1>0, <1>1, <1>7, <2>1, <2>2, <2>3 DEF FreedInv
<1>8. CASE InitPanics
  BY <1>0, <1>5, <1>8, ReturnMoves DEF InitPanics, ArenaInv, OwnerInv
<1>9. ASSUME NEW t \in Threads, NEW p \in Pages, NEW b \in Blocks, DropBlock(t, p, b) PROVE FreedInv'
  BY <1>0, <1>5, <1>9, ReturnMoves DEF DropBlock
<1> QED
  BY <1>2, <1>3, <1>4, <1>6, <1>7, <1>8, <1>9, PcSteps

\* What is on the full list changes in these steps.
LEMMA FullSteps ==
  ASSUME ArenaInv, [Next]_vars, pc[Owner] \in {"dropPages", "dealloc"} \/ UNCHANGED <<full, npages, made>>
  PROVE  \/ /\ UNCHANGED <<full, npages, made>>
            /\ pc[Owner] \in {"dropPages", "dealloc"} => pc'[Owner] \in {"dropPages", "dealloc"}
         \/ EndShrink \/ OwnerDeallocates
<1>0. pc \in [Threads -> Labels] /\ Owner \in Threads
  BY ArenaAssumption DEF ArenaInv, Shape, PcType
<1> SUFFICES ASSUME pc[Owner] \in {"dropPages", "dealloc"}, ~EndShrink, ~OwnerDeallocates
             PROVE  UNCHANGED <<full, npages, made>> /\ pc'[Owner] \in {"dropPages", "dealloc"}
  OBVIOUS
<1>1. ASSUME NEW t \in Threads, DropBlockStep(t)
      PROVE  UNCHANGED <<full, npages, made>> /\ pc'[Owner] = pc[Owner]
  <2>1. UNCHANGED <<full, npages, made>>
    BY <1>1 DEF DropBlockStep, Deallocate, LoadMark, SwapMark, UpgradePending, LinkPending,
     PushPending, TouchFreed, listVars
  <2> QED
    BY <1>0, <1>1, <2>1, DropBlockMoves DEF DropLabels
<1>2. ASSUME NEW t \in Threads, NEW p \in Pages, NEW b \in Blocks, DropBlock(t, p, b)
      PROVE  UNCHANGED <<full, npages, made>> /\ pc'[Owner] = pc[Owner]
  BY <1>0, <1>2, ReturnMoves DEF DropBlock, Return, listVars
<1>3. CASE DropPages \/ LetPagesGo
  <2>1. PICK p \in Pages : LetGo(p)
    BY <1>3, DropPageLetsGo
  <2> QED
    BY <1>0, <2>1 DEF LetGo, DropPage, Goto, listVars
<1>4. CASE UNCHANGED vars
  BY <1>4 DEF vars
<1> QED
  BY <1>1, <1>2, <1>3, <1>4 DEF Next, OwnerStep, Start, Acquire, LoadReturned, Refill, PopFull, Unmark, TakePending,
     AllocNewPage, Unlink, KeepUsed, RemoveFromFull, EndDropArena,
     EndInit, InitPanics, alloc, alloc_with, StartAlloc, StartShrink, StartDropArena

\* The full list and the count of pages change in these steps.
LEMMA CountSteps ==
  ASSUME [Next]_vars
  PROVE  UNCHANGED <<full, npages, made>> \/ AllocNewPage \/ RemoveFromFull \/ EndShrink
BY DEF Next, OwnerStep, DropBlockStep, Start, vars, wordVars, listVars, Acquire, LoadReturned, Refill, PopFull,
   Unmark, TakePending, Unlink, KeepUsed, DropPages, DropPage, OwnerDeallocates,
   LetPagesGo, EndDropArena, EndInit, InitPanics, Return, Deallocate, LoadMark, SwapMark,
   UpgradePending, LinkPending, PushPending, TouchFreed, alloc, alloc_with, StartAlloc,
   StartShrink, StartDropArena, DropBlock

\* The full list has the pages of the arena, once, and npages is their number.
LEMMA FullInvNext ==
  ASSUME ArenaInv, [Next]_vars
  PROVE  FullInv'
<1> SUFFICES ASSUME arena' = "open"
             PROVE  /\ IsInjective(full')
                    /\ \A p \in Pages : p \in ToSet(full') <=> p <= made' /\ Attached(p)' /\ p \notin Removed'
                    /\ npages' = Len(full') + (IF pc'[Owner] \in {"dropPages", "dealloc"}
                                               THEN Len(own'.batch) ELSE 0)
  BY Zenon DEF FullInv
<1> DEFINE Goal ==
       /\ IsInjective(full')
       /\ \A p \in Pages : p \in ToSet(full') <=> p <= made' /\ Attached(p)' /\ p \notin Removed'
       /\ npages' = Len(full') + (IF pc'[Owner] \in {"dropPages", "dealloc"}
                                  THEN Len(own'.batch) ELSE 0)
<1>0. /\ pc \in [Threads -> Labels] /\ Owner \in Threads /\ own.batch \in Seq(Pages) /\ own.i \in Nat
      /\ OwnType /\ made \in Nat /\ full \in Seq(Pages) /\ npages \in Int /\ arena = "open"
  BY ArenaAssumption, ArenaSteps
     DEF ArenaInv, Shape, PcType, OwnType, ListType, StartDropArena, EndDropArena
<1>1. /\ IsInjective(full)
      /\ \A p \in Pages : p \in ToSet(full) <=> p <= made /\ Attached(p) /\ p \notin Removed
      /\ npages = Len(full) + (IF pc[Owner] \in {"dropPages", "dealloc"} THEN Len(own.batch) ELSE 0)
  BY <1>0 DEF ArenaInv, FullInv
<1>2. CASE AllocNewPage
  <2> DEFINE n == ToAllocate
  <2>1. /\ n \in Nat \ {0} /\ made' = made + n /\ made + 1 .. made + n \subseteq Pages
        /\ full' \in Seq(Pages) /\ Len(full') = Len(full) + n
        /\ ToSet(full') = ToSet(full) \cup (made + 1 .. made + n)
        /\ IsInjective(full) /\ ToSet(full) \cap (made + 1 .. made + n) = {} => IsInjective(full')
        /\ npages' = npages + n
    BY <1>2, NewPages
  <2>2. pc[Owner] = "head" /\ pc' = pc /\ UNCHANGED wordVars
    BY <1>2 DEF AllocNewPage
  <2> HIDE DEF n
  <2>3. Removed = {} /\ Removed' = {}
    BY <2>2 DEF Removed
  <2>4. \A p \in Pages : Attached(p)' <=> Attached(p)
    BY <2>2 DEF wordVars, Attached
  <2>5. \A p \in made + 1 .. made + n : p \in Pages /\ Attached(p) /\ ~ (p <= made)
    BY <1>0, <2>1 DEF ArenaInv, MadeInv
  <2>6. IsInjective(full')
    BY <1>1, <2>1, <2>5
  <2>7. \A p \in Pages : p \in ToSet(full') <=> p <= made' /\ Attached(p)' /\ p \notin Removed'
    BY <1>0, <1>1, <2>1, <2>3, <2>4, <2>5 DEF Pages
  <2> QED
    BY <1>0, <1>1, <2>1, <2>2, <2>6, <2>7
<1>3. CASE RemoveFromFull
  <2>1. /\ full' = Kept(full, Pages \ ToSet(own.batch)) /\ own' = own /\ made' = made /\ npages' = npages
        /\ UNCHANGED wordVars /\ pc[Owner] = "walk" /\ pc'[Owner] = "dropPages"
    BY <1>0, <1>3 DEF RemoveFromFull, Goto
  <2>2. /\ full' \in Seq(Pages) /\ ToSet(full') = ToSet(full) \cap (Pages \ ToSet(own.batch))
        /\ IsInjective(full')
    BY <1>0, <1>1, <2>1, KeptElements
  <2>3. Removed = {} /\ Removed' = ToSet(own.batch)
    BY <2>1 DEF Removed
  <2>4. \A p \in Pages : Attached(p)' <=> Attached(p)
    BY <2>1 DEF wordVars, Attached
  <2>5. /\ IsInjective(own.batch) /\ ToSet(own.batch) \subseteq 1 .. made
        /\ \A p \in ToSet(own.batch) : p \in Pages /\ p <= made /\ Attached(p)
    <3>1. /\ IsInjective(own.batch) /\ ToSet(own.batch) \subseteq 1 .. made
          /\ \A j \in DOMAIN own.batch : Attached(own.batch[j]) <=> j > 0
      BY <2>1 DEF ArenaInv, BatchInv, Shrinking
    <3>2. \A j \in DOMAIN own.batch : j > 0 /\ own.batch[j] \in Pages
      BY <1>0
    <3> QED
      BY <1>0, <3>1, <3>2 DEF ToSet
  <2>6. ToSet(full) = ToSet(full') \cup ToSet(own.batch) /\ ToSet(full') \cap ToSet(own.batch) = {}
    <3>1. ToSet(full) \subseteq Pages
      BY <1>0 DEF ToSet
    <3>2. ToSet(own.batch) \subseteq ToSet(full)
      BY <1>1, <2>3, <2>5
    <3> QED
      BY <2>2, <3>1, <3>2
  <2>7. Len(full) = Len(full') + Len(own.batch)
    <3>1. /\ IsFiniteSet(ToSet(full')) /\ Cardinality(ToSet(full')) = Len(full')
          /\ IsFiniteSet(ToSet(own.batch)) /\ Cardinality(ToSet(own.batch)) = Len(own.batch)
          /\ Cardinality(ToSet(full)) = Len(full)
      BY <1>0, <1>1, <2>2, <2>5, InjectiveLength
    <3>2. Cardinality(ToSet(full') \cup ToSet(own.batch)) =
            Cardinality(ToSet(full')) + Cardinality(ToSet(own.batch))
              - Cardinality(ToSet(full') \cap ToSet(own.batch))
      BY <3>1, FS_Union
    <3>3. Cardinality(ToSet(full') \cap ToSet(own.batch)) = 0
      BY <2>6, FS_EmptySet
    <3>4. Len(full') \in Nat /\ Len(own.batch) \in Nat
      BY <1>0, <2>2
    <3>5. Cardinality(ToSet(full)) = Cardinality(ToSet(full') \cup ToSet(own.batch))
      BY <2>6, Zenon
    <3> DEFINE c == Cardinality(ToSet(full') \cup ToSet(own.batch))
               d == Cardinality(ToSet(full') \cap ToSet(own.batch))
    <3>6. c = Len(full) /\ d = 0 /\ c = Len(full') + Len(own.batch) - d
      BY <3>1, <3>2, <3>3, <3>5
    <3> HIDE DEF c, d
    <3> QED
      BY <3>4, <3>6
  <2>8. \A p \in Pages : p \in ToSet(full') <=> p <= made' /\ Attached(p)' /\ p \notin Removed'
    BY <1>1, <2>1, <2>2, <2>3, <2>4
  <2>9. npages' = Len(full') + Len(own'.batch)
    BY <1>1, <2>1, <2>7
  <2>10. npages' = Len(full') + (IF pc'[Owner] \in {"dropPages", "dealloc"}
                                 THEN Len(own'.batch) ELSE 0)
    BY <2>1, <2>9
  <2> QED
    BY <2>2, <2>8, <2>10
<1>4. CASE EndShrink
  <2>1. /\ full' = full /\ made' = made /\ npages' = npages - Len(own.batch)
        /\ UNCHANGED wordVars /\ pc[Owner] = "dropPages" /\ pc'[Owner] = "idle" /\ own.i = Len(own.batch)
    BY <1>0, <1>4 DEF EndShrink, Goto
  <2>2. Removed = ToSet(own.batch) /\ Removed' = {}
    BY <2>1 DEF Removed
  <2>3. \A p \in Pages : Attached(p)' <=> Attached(p)
    BY <2>1 DEF wordVars, Attached
  <2>4. \A p \in Removed : ~Attached(p)
    <3>1. \A j \in DOMAIN own.batch : Attached(own.batch[j]) <=> j > own.i
      BY <2>1 DEF ArenaInv, BatchInv, Shrinking
    <3>2. \A j \in DOMAIN own.batch : ~ (j > own.i)
      BY <1>0, <2>1
    <3> QED
      BY <2>2, <3>1, <3>2 DEF ToSet
  <2>5. Len(own.batch) \in Nat /\ Len(full) \in Nat
    BY <1>0
  <2> QED
    BY <1>1, <2>1, <2>2, <2>3, <2>4, <2>5
<1>5. CASE OwnerDeallocates
  <2>1. /\ full' = full /\ made' = made /\ npages' = npages /\ own'.batch = own.batch
        /\ UNCHANGED wordVars /\ pc[Owner] = "dealloc" /\ pc'[Owner] = "dropPages"
    BY <1>0, <1>5 DEF OwnerDeallocates, Goto, listVars, OwnType
  <2>2. Removed' = Removed /\ \A p \in Pages : Attached(p)' <=> Attached(p)
    BY <2>1 DEF Removed, wordVars, Attached
  <2> QED
    BY <1>1, <2>1, <2>2
<1>6. CASE \E p \in Pages : LetGo(p)
  <2>1. PICK p \in Pages : LetGo(p)
    BY <1>6
  <2>2. pc[Owner] = "dropPages" /\ p \in ToSet(own.batch)
    BY <1>0, <2>1, BatchPage DEF LetGo, ArenaInv, OwnerInv, Shrinking
  <2>3. /\ full' = full /\ made' = made /\ npages' = npages /\ own'.batch = own.batch
        /\ pc'[Owner] \in {"dropPages", "dealloc"}
    BY <1>0, <2>1, <2>2 DEF LetGo, DropPage, Goto, listVars, OwnType
  <2>4. Removed = ToSet(own.batch) /\ Removed' = ToSet(own.batch)
    BY <2>2, <2>3 DEF Removed
  <2>5. \A q \in Pages : LetGo(q) => q = p
    BY <2>1 DEF LetGo
  <2>6. \A q \in Pages : Attached(q)' <=> Attached(q) /\ ~LetGo(q)
    BY AttachedSteps
  <2> QED
    BY <1>1, <2>2, <2>3, <2>4, <2>5, <2>6
<1>7. ASSUME ~AllocNewPage, ~RemoveFromFull, ~EndShrink, ~OwnerDeallocates, ~ \E p \in Pages : LetGo(p)
      PROVE  Goal
  <2>1. UNCHANGED <<full, npages, made>> /\ \A p \in Pages : Attached(p)' <=> Attached(p)
    BY <1>7, CountSteps, AttachedSteps
  <2>2. pc[Owner] \in {"dropPages", "dealloc"} => pc'[Owner] \in {"dropPages", "dealloc"}
    BY <1>7, <2>1, FullSteps
  <2>3. ASSUME pc'[Owner] \in {"dropPages", "dealloc"}
        PROVE  pc[Owner] \in {"dropPages", "dealloc"} /\ own'.batch = own.batch
    <3>1. ~StartShrink /\ ~StartDropArena /\ ~Unlink
      BY <1>0, <2>3 DEF StartShrink, StartDropArena, Unlink, Goto
    <3>2. pc[Owner] \in Shrinking \cup {"dropArena"} /\ own'.batch = own.batch /\ pc'[Owner] = pc[Owner]
      BY <1>7, <2>3, <3>1, BatchSteps DEF Shrinking
    <3> QED
      BY <2>3, <3>2
  <2>4. Removed' = Removed
    BY <2>2, <2>3 DEF Removed
  <2> QED
    BY <1>1, <2>1, <2>2, <2>3, <2>4
<1> QED
  BY <1>2, <1>3, <1>4, <1>5, <1>6, <1>7

-----------------------------------------------------------------------------
(* The lists.                                                              *)

\* Who changes the heads of the lists.
LEMMA HeadSteps ==
  ASSUME ArenaInv, [Next]_vars, arena = "open", arena' = "open"
  PROVE  /\ \/ UNCHANGED <<free, pending>>
            \/ PopFull \/ TakePending \/ AllocNewPage \/ StartShrink \/ EndShrink
            \/ \E t \in Threads : PushPending(t) /\ pc'[t] = "idle"
         /\ InHand' = InHand \/ StartShrink \/ Unlink \/ EndShrink
<1>0. pc \in [Threads -> Labels] /\ Owner \in Threads /\ OwnType
  BY ArenaAssumption DEF ArenaInv, Shape, PcType
<1>1. \/ UNCHANGED <<free, pending>>
      \/ PopFull \/ TakePending \/ AllocNewPage \/ StartShrink \/ EndShrink
      \/ \E t \in Threads : PushPending(t) /\ pc'[t] = "idle"
  <2>1. ASSUME NEW t \in Threads, PushPending(t)
        PROVE  UNCHANGED <<free, pending>> \/ (PushPending(t) /\ pc'[t] = "idle")
    BY <1>0, <2>1 DEF PushPending, Move, Goto
  <2> QED
    BY <2>1 DEF Next, OwnerStep, DropBlockStep, Start, vars, wordVars, listVars, Acquire, LoadReturned, Refill,
       Unmark, Unlink, KeepUsed, RemoveFromFull, DropPages, DropPage, OwnerDeallocates,
       LetPagesGo, EndDropArena, EndInit, InitPanics, Return, Deallocate, LoadMark, SwapMark,
       UpgradePending, LinkPending, TouchFreed, alloc, alloc_with, StartAlloc, StartDropArena, DropBlock
<1>2. InHand' = InHand \/ StartShrink \/ Unlink \/ EndShrink
  <2> USE DEF InHand, Goto
  <2>1. CASE Acquire \/ LoadReturned \/ Refill \/ PopFull \/ Unmark \/ TakePending \/ AllocNewPage \/ EndInit
    BY <1>0, <2>1 DEF Acquire, LoadReturned, Refill, PopFull, Unmark, TakePending, AllocNewPage, EndInit
  <2>2. CASE KeepUsed \/ RemoveFromFull
    BY <1>0, <2>2 DEF KeepUsed, RemoveFromFull, OwnType
  <2>3. CASE OwnerDeallocates
    BY <1>0, <2>3 DEF OwnerDeallocates, OwnType
  <2>4. CASE DropPages \/ LetPagesGo
    <3>1. PICK p \in Pages : LetGo(p)
      BY <2>4, DropPageLetsGo
    <3>2. pc[Owner] = "dropPages"
      BY <3>1 DEF LetGo, ArenaInv, OwnerInv
    <3> QED
      BY <1>0, <3>1, <3>2 DEF LetGo, DropPage, OwnType
  <2>5. CASE alloc \/ alloc_with \/ StartDropArena \/ EndDropArena
    BY <1>0, <2>5 DEF alloc, alloc_with, StartAlloc, StartDropArena, EndDropArena
  <2>6. ASSUME NEW t \in Threads, DropBlockStep(t) PROVE InHand' = InHand
    BY <1>0, <2>6, DropBlockMoves DEF DropLabels
  <2>7. ASSUME NEW t \in Threads, NEW p, NEW b, Return(t, p, b),
               pc[Owner] \notin {"walk", "dropPages", "dealloc"} \/ (t # Owner /\ own' = own)
        PROVE  InHand' = InHand
    BY <1>0, <2>7, ReturnMoves
  <2>8. ASSUME NEW t \in Threads, NEW p, NEW b, DropBlock(t, p, b)
        PROVE  InHand' = InHand
    BY <2>7, <2>8 DEF DropBlock
  <2>9. CASE InitPanics
    BY <1>0, <2>7, <2>9 DEF InitPanics
  <2>10. CASE UNCHANGED vars
    BY <2>10 DEF vars
  <2> QED
    BY <2>1, <2>2, <2>3, <2>4, <2>5, <2>6, <2>8, <2>9, <2>10 DEF Next, OwnerStep, Start
<1> QED
  BY <1>1, <1>2

\* Who writes the pointer of a page.
LEMMA PointerSteps ==
  ASSUME ArenaInv, [Next]_vars, NEW p \in Pages
  PROVE  \/ nextFree'[p] = nextFree[p]
         \/ AllocNewPage /\ p \in made + 1 .. made'
         \/ Unlink /\ own.cur # Null /\ p = own.cur
         \/ \E t \in Threads : LinkPending(t) /\ p = page[t]
<1>0. nextFree \in [Pages -> Pointer]
  BY DEF ArenaInv, Shape, ListType
<1>1. CASE AllocNewPage
  BY <1>1, NewPages
<1>2. CASE Unlink
  BY <1>0, <1>2 DEF Unlink
<1>3. ASSUME NEW t \in Threads, LinkPending(t)
      PROVE  nextFree'[p] = nextFree[p] \/ p = page[t]
  BY <1>0, <1>3 DEF LinkPending
<1>4. nextFree' = nextFree \/ AllocNewPage \/ Unlink \/ \E t \in Threads : LinkPending(t)
  BY DEF Next, OwnerStep, DropBlockStep, Start, vars, wordVars, listVars, Acquire, LoadReturned, Refill, PopFull,
     Unmark, TakePending, KeepUsed, RemoveFromFull, DropPages, DropPage, OwnerDeallocates,
     EndShrink, LetPagesGo, EndDropArena, EndInit, InitPanics, Return, Deallocate, LoadMark, SwapMark,
     UpgradePending, PushPending, TouchFreed, alloc, alloc_with, StartAlloc, StartShrink, StartDropArena, DropBlock
<1> QED
  BY <1>1, <1>2, <1>3, <1>4

\* How a thread comes to push a page, and goes on.
LEMMA PushSteps ==
  ASSUME ArenaInv, [Next]_vars, NEW t \in Threads, pc'[t] \in Pushing
  PROVE  /\ page'[t] = page[t]
         /\ \/ SwapMark(t) /\ page[t] \notin marked /\ pc'[t] = "upgrade"
            \/ /\ pc[t] \in Pushing
               /\ pc'[t] = "pushCas" => \/ pc[t] = "pushCas" /\ nxt'[t] = nxt[t] /\ ~LinkPending(t)
                                        \/ LinkPending(t)
<1> DEFINE Goal == /\ page'[t] = page[t]
                   /\ \/ SwapMark(t) /\ page[t] \notin marked /\ pc'[t] = "upgrade"
                      \/ /\ pc[t] \in Pushing
                         /\ pc'[t] = "pushCas" =>
                              \/ pc[t] = "pushCas" /\ nxt'[t] = nxt[t] /\ ~LinkPending(t)
                              \/ LinkPending(t)
<1>0. pc \in [Threads -> Labels] /\ page \in [Threads -> Pointer]
  BY DEF ArenaInv, Shape, PcType
<1> USE DEF Pushing, DropLabels
<1>1. CASE pc'[t] = pc[t] /\ page'[t] = page[t] /\ nxt'[t] = nxt[t]
  <2>1. LinkPending(t) => pc[t] = "push"
    BY DEF LinkPending
  <2> QED
    BY <1>1, <2>1
<1>2. CASE OwnerMoves
  BY <1>1, <1>2 DEF OwnerMoves
<1>3. ASSUME NEW u \in Threads, DropBlockStep(u) PROVE Goal
  <2>1. CASE u # t
    BY <1>1, <1>3, <2>1, DropBlockMoves
  <2>2. CASE u = t
    <3>1. CASE Deallocate(t) \/ LoadMark(t) \/ TouchFreed(t)
      BY <1>0, <3>1 DEF Deallocate, LoadMark, TouchFreed, Move, Goto
    <3>2. CASE SwapMark(t) \/ UpgradePending(t) \/ PushPending(t)
      BY <1>0, <3>2 DEF SwapMark, UpgradePending, PushPending, Move, Goto
    <3>3. CASE LinkPending(t)
      BY <1>0, <3>3 DEF LinkPending, Goto
    <3> QED
      BY <1>3, <2>2, <3>1, <3>2, <3>3 DEF DropBlockStep
  <2> QED
    BY <2>1, <2>2
<1>4. ASSUME NEW u \in Threads, NEW p, NEW b, Return(u, p, b) PROVE Goal
  <2>1. CASE u # t
    BY <1>1, <1>4, <2>1, ReturnMoves
  <2>2. CASE u = t
    BY <1>4, <2>2, ReturnMoves
  <2> QED
    BY <2>1, <2>2
<1> QED
  BY <1>2, <1>3, <1>4, PcSteps, ArenaAssumption DEF DropBlock, InitPanics

\* The pages of v come from s, were just made, or were just pushed.
From(s, v) ==
  \A p \in v :
    \/ p \in s
    \/ AllocNewPage /\ p \in made + 1 .. made'
    \/ \E t \in Threads : PushPending(t) /\ pc'[t] = "idle" /\ p = page[t]

\* What is in no list, or in the hand of a pusher, is let go by nobody; nor is
\* it unmarked.
LEMMA ListedStays ==
  ASSUME ArenaInv, [Next]_vars, arena = "open", NEW s, OwnerApart(s), NEW p \in Pages,
         p \in s \/ \E t \in Threads : pc[t] \in Pushing /\ p = page[t],
         p \in marked, Attached(p), p <= made
  PROVE  p \in marked' /\ Attached(p)' /\ p <= made'
<1>1. p <= made'
  BY MadeGrows DEF Pages
<1>2. ~LetGo(p)
  <2>1. ASSUME LetGo(p) PROVE p \in ToSet(own.batch) /\ pc[Owner] \in Shrinking
    BY <2>1, BatchPage DEF LetGo, ArenaInv, OwnerInv, Shrinking
  <2> QED
    BY <2>1 DEF OwnerApart, Apart
<1>3. p \in marked'
  <2>1. CASE Unmark
    BY <2>1 DEF Unmark, OwnerApart, Apart
  <2>2. CASE AllocNewPage
    BY <2>2, NewPages
  <2> QED
    BY <2>1, <2>2, MarkSteps DEF SwapMark
<1> QED
  BY <1>1, <1>2, <1>3, AttachedSteps

\* The pages of the lists stay in use, and marked.
LEMMA AllListedNext ==
  ASSUME ArenaInv, [Next]_vars, arena = "open", NEW s, s \subseteq Pages, NEW v, v \subseteq Pages,
         AllListed(s), PushersApart(s), OwnerApart(s), From(s, v)
  PROVE  AllListed(v)'
<1> SUFFICES ASSUME NEW p \in v
             PROVE  p \in marked' /\ p <= made' /\ Attached(p)'
  BY DEF AllListed
<1>0. p \in Pages
  OBVIOUS
<1>1. CASE p \in s
  BY <1>0, <1>1, ListedStays DEF AllListed
<1>2. CASE AllocNewPage /\ p \in made + 1 .. made'
  <2>1. p \in marked' /\ p <= made' /\ ~(p <= made)
    BY <1>0, <1>2, NewPages DEF Pages
  <2>2. Attached(p)
    BY <1>0, <2>1 DEF ArenaInv, MadeInv
  <2>3. UNCHANGED wordVars
    BY <1>2 DEF AllocNewPage
  <2> QED
    BY <2>1, <2>2, <2>3 DEF wordVars, Attached
<1>3. ASSUME NEW t \in Threads, PushPending(t), p = page[t]
      PROVE  p \in marked' /\ p <= made' /\ Attached(p)'
  <2>1. pc[t] \in Pushing
    BY <1>3 DEF PushPending, Pushing
  <2>2. p \in marked /\ Attached(p) /\ p <= made
    BY <1>3, <2>1 DEF PushersApart, Apart
  <2> QED
    BY <1>0, <1>3, <2>1, <2>2, ListedStays
<1> QED
  BY <1>1, <1>2, <1>3 DEF From

\* A pusher has its page for itself.
LEMMA PushersApartNext ==
  ASSUME ArenaInv, [Next]_vars, arena = "open", NEW s, s \subseteq Pages, NEW v, v \subseteq Pages,
         AllListed(s), PushersApart(s), OwnerApart(s), From(s, v),
         Unlink /\ own.cur # Null => own.cur \in s
  PROVE  PushersApart(v)'
<1>0. /\ pc \in [Threads -> Labels] /\ page \in [Threads -> Pointer] /\ made \in Nat
      /\ nextFree \in [Pages -> Pointer] /\ nxt \in [Threads -> Pointer]
  BY ArenaAssumption DEF ArenaInv, Shape, PcType, ListType
<1>1. ASSUME NEW t \in Threads, pc'[t] \in Pushing
      PROVE  /\ page'[t] = page[t] /\ page[t] \in Pages /\ page[t] \notin s
             /\ page[t] \in marked' /\ page[t] <= made /\ page[t] <= made' /\ ArenaBit \notin atomic'[page[t]]
             /\ pc[t] \in Pushing \/ (SwapMark(t) /\ page[t] \notin marked /\ pc'[t] = "upgrade")
  <2>1. page'[t] = page[t]
    BY <1>1, PushSteps
  <2>2. page[t] \in Pages /\ page[t] <= made /\ page[t] <= made'
    <3>1. pc[t] \in DropLabels
      BY <1>1, PushSteps DEF SwapMark, Pushing, DropLabels
    <3>2. page[t] \in Pages /\ page[t] <= made
      BY <3>1 DEF ArenaInv, MadeInv
    <3> QED
      BY <3>2, MadeGrows DEF Pages
  <2>3. CASE pc[t] \in Pushing
    <3>1. page[t] \notin s /\ page[t] \in marked /\ Attached(page[t])
      BY <2>3 DEF PushersApart, Apart
    <3>2. PICK p \in Pages : p = page[t]
      BY <2>2
    <3>3. p \in marked' /\ Attached(p)'
      BY <2>2, <2>3, <3>1, <3>2, ListedStays
    <3>4. ArenaBit \notin atomic'[page[t]]
      BY <3>2, <3>3 DEF Attached
    <3> QED
      BY <2>1, <2>2, <2>3, <3>1, <3>2, <3>3, <3>4
  <2>4. CASE SwapMark(t) /\ page[t] \notin marked /\ pc'[t] = "upgrade"
    <3>1. page[t] \in marked' /\ UNCHANGED wordVars
      BY <2>4 DEF SwapMark
    <3>2. page[t] \notin s
      BY <2>4 DEF AllListed
    <3>3. ArenaBit \notin atomic[page[t]]
      BY <2>2, <2>4 DEF ArenaInv, MadeInv, Attached
    <3> QED
      BY <2>1, <2>2, <2>4, <3>1, <3>2, <3>3 DEF wordVars
  <2> QED
    BY <1>1, <2>3, <2>4, PushSteps
<1>2. ASSUME NEW t \in Threads, NEW u \in Threads, pc'[t] \in Pushing, pc'[u] \in Pushing, page'[t] = page'[u]
      PROVE  t = u
  <2>1. CASE pc[t] \in Pushing /\ pc[u] \in Pushing
    BY <1>1, <1>2, <2>1 DEF PushersApart
  <2>2. ASSUME NEW x \in Threads, NEW y \in Threads, SwapMark(x), page[x] \notin marked,
               pc[y] \in Pushing
        PROVE  page[x] # page[y]
    BY <2>2 DEF PushersApart, Apart
  <2>3. ASSUME SwapMark(t), SwapMark(u), pc'[t] = "upgrade", pc'[u] = "upgrade" PROVE t = u
    BY <1>0, <2>3 DEF SwapMark, Move, Goto
  <2> QED
    BY <1>1, <1>2, <2>1, <2>2, <2>3
<1>3. ASSUME NEW t \in Threads, pc'[t] \in Pushing PROVE page[t] \notin v
  <2> SUFFICES ASSUME page[t] \in v PROVE FALSE
    OBVIOUS
  <2>1. ~ (AllocNewPage /\ page[t] \in made + 1 .. made')
    BY <1>0, <1>1, <1>3 DEF Pages
  <2>2. PICK u \in Threads : PushPending(u) /\ pc'[u] = "idle" /\ page[t] = page[u]
    BY <1>1, <1>3, <2>1 DEF From
  <2>3. pc[u] \in Pushing /\ u # t /\ marked' = marked
    BY <1>3, <2>2 DEF PushPending, Pushing
  <2>4. pc[t] \in Pushing \/ page[t] \notin marked
    BY <1>1, <1>3
  <2> QED
    BY <2>2, <2>3, <2>4 DEF PushersApart, Apart
<1>4. ASSUME NEW t \in Threads, pc'[t] = "pushCas" PROVE nextFree'[page[t]] = nxt'[t]
  <2>0. pc'[t] \in Pushing
    BY <1>4 DEF Pushing
  <2>1. CASE LinkPending(t)
    BY <1>0, <1>1, <2>0, <2>1 DEF LinkPending
  <2>2. CASE pc[t] = "pushCas" /\ nxt'[t] = nxt[t] /\ ~LinkPending(t)
    <3>1. nextFree[page[t]] = nxt[t] /\ page[t] \notin s /\ pc[t] \in Pushing
      BY <2>2 DEF PushersApart, Apart, Pushing
    <3>2. ~ (AllocNewPage /\ page[t] \in made + 1 .. made')
      BY <1>0, <1>1, <2>0 DEF Pages
    <3>3. ASSUME NEW u \in Threads, LinkPending(u), page[t] = page[u] PROVE FALSE
      <4>1. pc[u] \in Pushing
        BY <3>3 DEF LinkPending, Pushing
      <4> QED
        BY <2>2, <3>1, <3>3, <4>1 DEF PushersApart
    <3>4. nextFree'[page[t]] = nextFree[page[t]]
      BY <1>1, <2>0, <3>1, <3>2, <3>3, PointerSteps
    <3> QED
      BY <2>2, <3>1, <3>4
  <2>3. pc'[t] # "upgrade"
    BY <1>4
  <2> QED
    BY <1>4, <2>0, <2>1, <2>2, <2>3, PushSteps
<1> QED
  BY <1>1, <1>2, <1>3, <1>4 DEF PushersApart, Apart, Attached

\* Nobody comes to push a page that is marked.
LEMMA NotPushed ==
  ASSUME ArenaInv, [Next]_vars, NEW q \in Pages, q \in marked, q <= made,
         \A t \in Threads : pc[t] \in Pushing => page[t] # q,
         Unmark => q # own.page
  PROVE  /\ q \in marked' /\ q <= made'
         /\ \A t \in Threads : pc'[t] \in Pushing => page'[t] # q
<1>1. q <= made'
  BY MadeGrows DEF Pages
<1>2. q \in marked'
  <2>1. CASE AllocNewPage
    BY <2>1, NewPages
  <2> QED
    BY <2>1, MarkSteps DEF SwapMark, Unmark
<1>3. ASSUME NEW t \in Threads, pc'[t] \in Pushing PROVE page'[t] # q
  BY <1>3, PushSteps
<1> QED
  BY <1>1, <1>2, <1>3

\* What is in no list is in none.
LEMMA NotListed ==
  ASSUME ArenaInv, NEW s, NEW v, From(s, v), NEW q \in Pages, q \notin s, q <= made,
         \A t \in Threads : pc[t] \in Pushing => page[t] # q
  PROVE  q \notin v
<1>1. made \in Nat
  BY ArenaAssumption DEF ArenaInv, Shape, ListType
<1>2. ASSUME NEW t \in Threads, PushPending(t) PROVE page[t] # q
  BY <1>2 DEF PushPending, Pushing
<1>3. ~ (q \in made + 1 .. made')
  BY <1>1 DEF Pages
<1> QED
  BY <1>2, <1>3 DEF From

\* How the owner comes to unmark a page.
LEMMA UnmarkSteps ==
  ASSUME ArenaInv, [Next]_vars, pc'[Owner] = "unmark"
  PROVE  \/ PopFull /\ own'.page = free
         \/ pc[Owner] = "unmark" /\ own'.page = own.page /\ ~Unmark /\ ~PopFull
<1>0. /\ pc \in [Threads -> Labels] /\ Owner \in Threads
      /\ own \in [page : Pointer, block : Blocks, init : BOOLEAN, start : Pointer, cur : Pointer,
                  batch : Seq(Pages), i : Nat]
  BY ArenaAssumption DEF ArenaInv, Shape, PcType, OwnType
<1> DEFINE Goal == \/ PopFull /\ own'.page = free
                   \/ pc[Owner] = "unmark" /\ own'.page = own.page /\ ~Unmark /\ ~PopFull
<1>1. CASE PopFull
  BY <1>0, <1>1 DEF PopFull
<1>2. CASE own' = own /\ pc'[Owner] = pc[Owner]
  <2>1. ~Unmark /\ ~PopFull
    BY <1>0, <1>2 DEF Unmark, PopFull, Goto
  <2> QED
    BY <1>2, <2>1
<1>3. CASE TakePending \/ AllocNewPage \/ UNCHANGED vars
  BY <1>2, <1>3 DEF TakePending, AllocNewPage, vars
<1>4. CASE Acquire \/ LoadReturned \/ Refill \/ Unmark \/ EndInit \/ Unlink \/ KeepUsed
  BY <1>0, <1>4 DEF Acquire, LoadReturned, Refill, Unmark, EndInit, Unlink, KeepUsed, Goto
<1>5. CASE RemoveFromFull \/ OwnerDeallocates \/ EndShrink \/ EndDropArena
  BY <1>0, <1>5 DEF RemoveFromFull, OwnerDeallocates, EndShrink, EndDropArena, Goto
<1>6. CASE alloc \/ alloc_with \/ StartShrink \/ StartDropArena
  BY <1>0, <1>6 DEF alloc, alloc_with, StartAlloc, StartShrink, StartDropArena, Goto
<1>7. CASE DropPages \/ LetPagesGo
  BY <1>0, <1>7, DropPageLetsGo DEF LetGo, DropPage, Goto
<1>8. ASSUME NEW t \in Threads, DropBlockStep(t) PROVE Goal
  BY <1>0, <1>2, <1>8, DropBlockMoves
<1>9. ASSUME NEW t \in Threads, NEW p, NEW b, Return(t, p, b), t # Owner => own' = own PROVE Goal
  BY <1>0, <1>2, <1>9, ReturnMoves
<1> QED
  BY <1>0, <1>1, <1>3, <1>4, <1>5, <1>6, <1>7, <1>8, <1>9
     DEF Next, OwnerStep, Start, DropBlock, InitPanics

\* How the owner comes to have a page in its batch.
LEMMA BatchPages ==
  ASSUME ArenaInv, [Next]_vars, arena = "open", pc'[Owner] \in Shrinking
  PROVE  \/ ToSet(own'.batch) = {}
         \/ /\ pc[Owner] \in Shrinking /\ ~Unmark
            /\ \/ own'.batch = own.batch
               \/ Unlink /\ ToSet(own'.batch) = ToSet(own.batch) \cup {Cell}
<1>0. /\ pc \in [Threads -> Labels] /\ Owner \in Threads
      /\ own \in [page : Pointer, block : Blocks, init : BOOLEAN, start : Pointer, cur : Pointer,
                  batch : Seq(Pages), i : Nat]
  BY ArenaAssumption DEF ArenaInv, Shape, PcType, OwnType
<1>1. pc[Owner] \in Shrinking => ~Unmark
  BY DEF Shrinking, Unmark
<1>2. CASE StartShrink
  <2>1. own'.batch = <<>>
    BY <1>2 DEF StartShrink, NoLocals
  <2> QED
    BY <2>1 DEF ToSet
<1>3. CASE Unlink
  <2>1. pc[Owner] \in Shrinking /\ Cell \in Pages
    BY <1>3, CellInHand DEF Unlink, Shrinking
  <2> DEFINE more == Append(own.batch, Cell)
  <2>2. own'.batch = more
    BY <1>0, <1>3 DEF Unlink
  <2>3. ToSet(more) = ToSet(own.batch) \cup {Cell}
    BY <1>0, <2>1, Appended
  <2> HIDE DEF more
  <2> QED
    BY <1>1, <1>3, <2>1, <2>2, <2>3
<1>4. CASE OwnerDeallocates
  BY <1>0, <1>1, <1>4 DEF OwnerDeallocates, Shrinking
<1>5. ASSUME NEW p \in Pages, LetGo(p)
      PROVE  pc[Owner] \in Shrinking /\ own'.batch = own.batch
  BY <1>0, <1>5 DEF LetGo, DropPage, ArenaInv, OwnerInv, Shrinking
<1>6. ~StartDropArena
  BY <1>0 DEF StartDropArena, Goto, Shrinking
<1>7. CASE pc[Owner] = "dropArena" /\ pc'[Owner] = pc[Owner]
  BY <1>7 DEF Shrinking
<1> QED
  BY <1>1, <1>2, <1>3, <1>4, <1>5, <1>6, <1>7, BatchSteps DEF Shrinking

\* The owner has its pages for itself.
LEMMA OwnerApartNext ==
  ASSUME ArenaInv, [Next]_vars, arena = "open", NEW s, s \subseteq Pages, NEW v, v \subseteq Pages,
         AllListed(s), PushersApart(s), OwnerApart(s), From(s, v),
         PopFull => free \in s /\ free \notin v,
         Unlink => Cell \in s /\ Cell \notin v
  PROVE  OwnerApart(v)'
<1>1. ASSUME NEW q \in Pages, q \in s, q \notin v, ~Unmark
      PROVE  /\ q \in marked' /\ q <= made' /\ q \notin v /\ Attached(q)
             /\ \A t \in Threads : pc'[t] \in Pushing => page'[t] # q
  BY <1>1, NotPushed DEF AllListed, PushersApart, Apart
<1>2. ASSUME NEW q \in Pages, Apart(q, s), \A t \in Threads : pc[t] \in Pushing => page[t] # q, ~Unmark
      PROVE  /\ q \in marked' /\ q <= made' /\ q \notin v
             /\ \A t \in Threads : pc'[t] \in Pushing => page'[t] # q
  BY <1>2, NotPushed, NotListed DEF Apart
<1>3. ASSUME pc'[Owner] = "unmark"
      PROVE  /\ own'.page \in Pages /\ own'.page \in marked' /\ own'.page <= made' /\ own'.page \notin v
             /\ ArenaBit \notin atomic'[own'.page]
             /\ \A t \in Threads : pc'[t] \in Pushing => page'[t] # own'.page
  <2>0. pc[Owner] \in {"pop", "unmark"}
    BY <1>3, UnmarkSteps DEF PopFull
  <2>1. \A q \in Pages : Attached(q) => Attached(q)'
    BY <2>0, AttachedSteps DEF LetGo
  <2>2. CASE PopFull /\ own'.page = free
    <3>1. free \in Pages /\ free \in s /\ free \notin v /\ ~Unmark
      BY <2>2 DEF PopFull, Unmark
    <3> QED
      BY <1>1, <2>1, <2>2, <3>1 DEF Attached
  <2>3. CASE pc[Owner] = "unmark" /\ own'.page = own.page /\ ~Unmark
    <3>1. /\ own.page \in Pages /\ Apart(own.page, s) /\ Attached(own.page)
          /\ \A t \in Threads : pc[t] \in Pushing => page[t] # own.page
      BY <2>3 DEF OwnerApart
    <3> QED
      BY <1>2, <2>1, <2>3, <3>1 DEF Attached
  <2> QED
    BY <1>3, <2>2, <2>3, UnmarkSteps
<1>4. ASSUME pc'[Owner] \in Shrinking, NEW q \in ToSet(own'.batch)
      PROVE  /\ q \in marked' /\ q <= made' /\ q \notin v
             /\ \A t \in Threads : pc'[t] \in Pushing => page'[t] # q
  <2>1. pc[Owner] \in Shrinking /\ ~Unmark /\ (q \in ToSet(own.batch) \/ (Unlink /\ q = Cell))
    BY <1>4, BatchPages
  <2>2. CASE q \in ToSet(own.batch)
    <3>1. q \in Pages
      BY <2>2 DEF ArenaInv, Shape, OwnType, ToSet
    <3>2. Apart(q, s) /\ \A t \in Threads : pc[t] \in Pushing => page[t] # q
      BY <2>1, <2>2 DEF OwnerApart
    <3> QED
      BY <1>2, <2>1, <3>1, <3>2
  <2>3. CASE Unlink /\ q = Cell
    BY <1>1, <2>1, <2>3
  <2> QED
    BY <2>1, <2>2, <2>3
<1> QED
  BY <1>3, <1>4 DEF OwnerApart, Apart, Attached

\* Where the owner's walk is.
LEMMA WalkSteps ==
  ASSUME ArenaInv, [Next]_vars, pc'[Owner] = "walk"
  PROVE  \/ StartShrink /\ own'.cur = Null
         \/ KeepUsed /\ own'.cur = Cell
         \/ pc[Owner] = "walk" /\ own'.cur = own.cur
<1>0. /\ pc \in [Threads -> Labels] /\ Owner \in Threads
      /\ own \in [page : Pointer, block : Blocks, init : BOOLEAN, start : Pointer, cur : Pointer,
                  batch : Seq(Pages), i : Nat]
  BY ArenaAssumption DEF ArenaInv, Shape, PcType, OwnType
<1> DEFINE Goal == \/ StartShrink /\ own'.cur = Null
                   \/ KeepUsed /\ own'.cur = Cell
                   \/ pc[Owner] = "walk" /\ own'.cur = own.cur
<1>1. CASE StartShrink
  BY <1>1 DEF StartShrink, NoLocals
<1>2. CASE KeepUsed
  BY <1>0, <1>2 DEF KeepUsed
<1>3. CASE Unlink
  BY <1>0, <1>3 DEF Unlink
<1>4. CASE own' = own /\ pc'[Owner] = pc[Owner]
  BY <1>4
<1>5. CASE TakePending \/ AllocNewPage \/ UNCHANGED vars
  BY <1>4, <1>5 DEF TakePending, AllocNewPage, vars
<1>6. CASE Acquire \/ LoadReturned \/ Refill \/ PopFull \/ Unmark \/ EndInit
  BY <1>0, <1>6 DEF Acquire, LoadReturned, Refill, PopFull, Unmark, EndInit, Goto
<1>7. CASE RemoveFromFull \/ OwnerDeallocates \/ EndShrink \/ EndDropArena
  BY <1>0, <1>7 DEF RemoveFromFull, OwnerDeallocates, EndShrink, EndDropArena, Goto
<1>8. CASE alloc \/ alloc_with \/ StartDropArena
  BY <1>0, <1>8 DEF alloc, alloc_with, StartAlloc, StartDropArena, Goto
<1>9. CASE DropPages \/ LetPagesGo
  BY <1>0, <1>9, DropPageLetsGo DEF LetGo, DropPage, Goto
<1>10. ASSUME NEW t \in Threads, DropBlockStep(t) PROVE Goal
  BY <1>0, <1>4, <1>10, DropBlockMoves
<1>11. ASSUME NEW t \in Threads, NEW p, NEW b, Return(t, p, b), t # Owner => own' = own PROVE Goal
  BY <1>0, <1>4, <1>11, ReturnMoves
<1> QED
  BY <1>0, <1>1, <1>2, <1>3, <1>5, <1>6, <1>7, <1>8, <1>9, <1>10, <1>11
     DEF Next, OwnerStep, Start, DropBlock, InitPanics

\* What the next state's lists are made of.
Following(L, P, I, L1, P1, I1) ==
  /\ From(L \cup P \cup I, L1 \cup P1 \cup I1)
  /\ PopFull => free \in L \cup P \cup I /\ free \notin L1 \cup P1 \cup I1
  /\ Unlink => Cell \in L \cup P \cup I /\ Cell \notin L1 \cup P1 \cup I1
  /\ pc'[Owner] = "walk" /\ own'.cur # Null => own'.cur \in I1

\* The pointers of the lists change only where the owner unlinks.
LEMMA ListedPointers ==
  ASSUME ArenaInv, [Next]_vars, NEW s, s \subseteq Pages, AllListed(s), PushersApart(s), ~Unlink,
         NEW p \in s
  PROVE  nextFree'[p] = nextFree[p]
<1>1. p \in Pages /\ p <= made /\ made \in Nat
  BY ArenaAssumption DEF AllListed, ArenaInv, Shape, ListType
<1>2. ~ (p \in made + 1 .. made')
  BY <1>1 DEF Pages
<1>3. ASSUME NEW t \in Threads, LinkPending(t) PROVE p # page[t]
  BY <1>3 DEF LinkPending, PushersApart, Pushing, Apart
<1> QED
  BY <1>1, <1>2, <1>3, PointerSteps

\* The owner unlinks a page from the list in hand.
LEMMA UnlinkChains ==
  ASSUME ArenaInv, Unlink, NEW L, NEW P, NEW I, Lists(L, P, I), NEW c \in Pages, c = Cell
  PROVE  /\ c \in I /\ Chains(L, P, I \ {c})'
         /\ own.cur # Null => own.cur \in I \ {c}
<1>0. /\ pc[Owner] = "walk" /\ pc' = pc /\ free' = free /\ pending' = pending /\ c # Null
      /\ nextFree \in [Pages -> Pointer]
      /\ own \in [page : Pointer, block : Blocks, init : BOOLEAN, start : Pointer, cur : Pointer,
                  batch : Seq(Pages), i : Nat]
  BY DEF Unlink, ArenaInv, Shape, ListType, OwnType
<1>1. /\ IsChain(nextFree, L, free) /\ IsChain(nextFree, P, pending) /\ IsChain(nextFree, I, own.start)
      /\ L \cap P = {} /\ L \cap I = {} /\ P \cap I = {}
      /\ own.cur # Null => own.cur \in I
  BY <1>0 DEF Lists, Chains, InHand
<1>2. CASE own.cur = Null
  <2>1. /\ c = own.start /\ own'.start = nextFree[c] /\ nextFree' = nextFree
    BY <1>0, <1>2 DEF Unlink, Cell
  <2>2. c \in I /\ IsChain(nextFree, I, c)
    BY <1>0, <1>1, <2>1 DEF IsChain
  <2>3. IsChain(nextFree, I \ {c}, nextFree[c])
    BY <1>0, <2>2, ChainPopped
  <2>4. InHand' = nextFree[c]
    BY <1>0, <2>1 DEF InHand
  <2>5. Chains(L, P, I \ {c})'
    BY <1>0, <1>1, <2>1, <2>3, <2>4 DEF Chains
  <2> QED
    BY <1>2, <2>2, <2>5
<1>3. CASE own.cur # Null
  <2>1. /\ c = nextFree[own.cur] /\ own'.start = own.start
        /\ nextFree' = [nextFree EXCEPT ![own.cur] = nextFree[c]]
    BY <1>0, <1>3 DEF Unlink, Cell
  <2>2. PICK d \in I : d = own.cur
    BY <1>1, <1>3
  <2>3. /\ c \in I /\ d \in I \ {c}
        /\ IsChain([nextFree EXCEPT ![d] = nextFree[c]], I \ {c}, own.start)
    <3> DEFINE p == c
    <3>1. nextFree[d] = p /\ p # Null /\ d \in I
      BY <1>0, <2>1, <2>2
    <3> HIDE DEF p
    <3>2. p = nextFree[d] /\ p # Null /\ d \in I /\ nextFree \in [Pages -> Pointer]
          /\ IsChain(nextFree, I, own.start)
      BY <1>0, <1>1, <3>1
    <3>3. p \in I /\ d \in I \ {p} /\ IsChain([nextFree EXCEPT ![d] = nextFree[p]], I \ {p}, own.start)
      BY <3>2, ChainUnlinked, Zenon
    <3> QED
      BY <3>3 DEF p
  <2>4. IsChain(nextFree', I \ {c}, own.start)
    BY <2>1, <2>2, <2>3, Zenon
  <2>5. InHand' = own.start
    BY <1>0, <2>1 DEF InHand
  <2>6. \A p \in L \cup P : nextFree'[p] = nextFree[p]
    BY <1>0, <1>1, <2>1, <2>2 DEF IsChain
  <2>7. IsChain(nextFree', L, free) /\ IsChain(nextFree', P, pending)
    BY <1>1, <2>6, ChainFrame
  <2>8. L \cap (I \ {c}) = {} /\ P \cap (I \ {c}) = {}
    BY <1>1
  <2>9. Chains(L, P, I \ {c})'
    BY <1>0, <1>1, <2>4, <2>5, <2>7, <2>8 DEF Chains
  <2> QED
    BY <2>2, <2>3, <2>9
<1> QED
  BY <1>2, <1>3

\* Each step keeps three chains with different pages.
LEMMA ChainsNext ==
  ASSUME ArenaInv, [Next]_vars, arena = "open", arena' = "open",
         NEW L \in SUBSET Pages, NEW P \in SUBSET Pages, NEW I \in SUBSET Pages, Lists(L, P, I)
  PROVE  \E L1 \in SUBSET Pages, P1 \in SUBSET Pages, I1 \in SUBSET Pages :
            Chains(L1, P1, I1)' /\ Following(L, P, I, L1, P1, I1)
<1> DEFINE Goal == \E L1 \in SUBSET Pages, P1 \in SUBSET Pages, I1 \in SUBSET Pages :
                     Chains(L1, P1, I1)' /\ Following(L, P, I, L1, P1, I1)
           s == L \cup P \cup I
<1>0. /\ pc \in [Threads -> Labels] /\ Owner \in Threads /\ made \in Nat
      /\ nextFree \in [Pages -> Pointer]
      /\ own \in [page : Pointer, block : Blocks, init : BOOLEAN, start : Pointer, cur : Pointer,
                  batch : Seq(Pages), i : Nat]
  BY ArenaAssumption DEF ArenaInv, Shape, PcType, OwnType, ListType
<1>1. /\ Chains(L, P, I) /\ AllListed(s) /\ PushersApart(s) /\ OwnerApart(s) /\ s \subseteq Pages
      /\ pc[Owner] = "walk" /\ own.cur # Null => own.cur \in I
  BY DEF Lists
<1>2. CASE Unlink
  <2>1. PICK c \in Pages : c = Cell
    BY <1>2, CellInHand DEF Unlink
  <2>2. /\ c \in I /\ Chains(L, P, I \ {c})'
        /\ own.cur # Null => own.cur \in I \ {c}
    BY <1>2, <2>1, UnlinkChains
  <2>3. own'.cur = own.cur /\ ~PopFull
    BY <1>0, <1>2 DEF Unlink, PopFull
  <2>4. c \notin L /\ c \notin P
    BY <1>1, <2>2 DEF Chains
  <2>5. Following(L, P, I, L, P, I \ {c})
    BY <2>1, <2>2, <2>3, <2>4 DEF Following, From
  <2> QED
    BY <2>2, <2>5
<1>3. ASSUME ~Unlink PROVE \A p \in s : nextFree'[p] = nextFree[p]
  BY <1>1, <1>3, ListedPointers
<1>4. ASSUME ~Unlink, NEW x, NEW h, x \subseteq s, IsChain(nextFree, x, h)
      PROVE  IsChain(nextFree', x, h)
  BY <1>3, <1>4, ChainFrame
<1>5. ASSUME ~Unlink
      PROVE  /\ IsChain(nextFree', L, free) /\ IsChain(nextFree', P, pending) /\ IsChain(nextFree', I, InHand)
             /\ L \cap P = {} /\ L \cap I = {} /\ P \cap I = {}
  BY <1>1, <1>4, <1>5 DEF Chains
<1>6. ASSUME ~Unlink, ~StartShrink, pc'[Owner] = "walk", own'.cur # Null PROVE own'.cur \in I
  <2>1. CASE KeepUsed /\ own'.cur = Cell
    <3>1. pc[Owner] = "walk" /\ Cell # Null
      BY <2>1 DEF KeepUsed
    <3> QED
      BY <1>1, <1>6, <2>1, <3>1 DEF Chains, IsChain, Cell, InHand
  <2> QED
    BY <1>1, <1>6, <2>1, WalkSteps
<1> HIDE DEF s
<1>7. CASE PopFull
  <2>1. /\ free' = nextFree[free] /\ nextFree' = nextFree /\ pending' = pending /\ ~Unlink /\ ~StartShrink
        /\ ~EndShrink /\ free # Null
    BY <1>7 DEF PopFull, Unlink, StartShrink, EndShrink, ArenaInv, OwnerInv
  <2>2. InHand' = InHand
    BY <2>1, HeadSteps
  <2>3. free \in Pages /\ free \in L
    BY <1>5, <2>1 DEF IsChain
  <2>4. PICK f \in L : f = free
    BY <2>3
  <2>5. IsChain(nextFree', L \ {f}, free')
    BY <1>0, <1>5, <2>1, <2>4, ChainPopped
  <2>6. Chains(L \ {f}, P, I)'
    BY <1>5, <2>1, <2>2, <2>5 DEF Chains
  <2>7. f \notin P /\ f \notin I
    BY <1>5, <2>1, <2>4
  <2>8. Following(L, P, I, L \ {f}, P, I)
    BY <1>6, <2>1, <2>4, <2>7 DEF Following, From
  <2> QED
    BY <2>6, <2>8
<1>8. CASE TakePending
  <2>1. /\ free' = pending /\ pending' = Null /\ ~Unlink /\ ~StartShrink /\ ~EndShrink /\ ~PopFull
    BY <1>8 DEF TakePending, Unlink, StartShrink, EndShrink, PopFull
  <2>2. InHand' = InHand
    BY <2>1, HeadSteps
  <2>3. Chains(P, {}, I)'
    BY <1>5, <2>1, <2>2, ChainEmpty DEF Chains
  <2>4. Following(L, P, I, P, {}, I)
    BY <1>6, <2>1 DEF Following, From
  <2> QED
    BY <2>3, <2>4
<1>9. CASE AllocNewPage
  <2>1. ~Unlink /\ ~StartShrink /\ ~EndShrink /\ ~PopFull /\ pending' = pending
    BY <1>9 DEF AllocNewPage, Unlink, StartShrink, EndShrink, PopFull
  <2>2. InHand' = InHand
    BY <2>1, HeadSteps
  <2>3. PICK new \in SUBSET Pages : new = made + 1 .. made' /\ IsChain(nextFree', new, free')
    BY <1>9, NewPages
  <2>4. \A p \in new : p \notin s
    BY <1>0, <1>1, <2>3 DEF AllListed, Pages
  <2>5. Chains(new, P, I)'
    BY <1>5, <2>1, <2>2, <2>3, <2>4 DEF Chains, s
  <2>6. Following(L, P, I, new, P, I)
    BY <1>6, <1>9, <2>1, <2>3 DEF Following, From
  <2> QED
    BY <2>5, <2>6
<1>10. CASE StartShrink
  <2>1. /\ ~Unlink /\ ~PopFull /\ own'.cur = Null /\ own'.start = free /\ free' = Null /\ pending' = pending
        /\ pc'[Owner] = "walk"
    BY <1>0, <1>10 DEF StartShrink, Unlink, PopFull, Goto, NoLocals
  <2>2. InHand' = free
    BY <2>1 DEF InHand
  <2>3. Chains({}, P, L)'
    BY <1>5, <2>1, <2>2, ChainEmpty DEF Chains
  <2>4. Following(L, P, I, {}, P, L)
    BY <2>1 DEF Following, From
  <2> QED
    BY <2>3, <2>4
<1>11. CASE EndShrink
  <2>1. /\ ~Unlink /\ ~PopFull /\ ~StartShrink /\ free' = own.start /\ pending' = pending
        /\ pc'[Owner] = "idle" /\ pc[Owner] = "dropPages"
    BY <1>0, <1>11 DEF EndShrink, StartShrink, Unlink, PopFull, Goto
  <2>2. InHand = own.start /\ InHand' = Null
    BY <2>1 DEF InHand
  <2>3. Chains(I, P, {})'
    BY <1>5, <2>1, <2>2, ChainEmpty DEF Chains
  <2>4. Following(L, P, I, I, P, {})
    BY <2>1 DEF Following, From
  <2> QED
    BY <2>3, <2>4
<1>12. ASSUME NEW t \in Threads, PushPending(t), pc'[t] = "idle" PROVE Goal
  <2>1. /\ ~Unlink /\ ~StartShrink /\ ~EndShrink /\ ~PopFull /\ free' = free /\ pc[t] = "pushCas"
        /\ nextFree' = nextFree /\ pending = nxt[t] /\ pending' = page[t]
    <3>1. pending = nxt[t] /\ pending' = page[t]
      BY <1>0, <1>12 DEF PushPending, Move, Goto
    <3>2. pc'[t] # pc[t] /\ own' = own
      BY <1>0, <1>12 DEF PushPending
    <3>3. ~Unlink /\ ~StartShrink /\ ~EndShrink /\ ~PopFull
      BY <1>0, <1>12, <3>2 DEF PushPending, Unlink, StartShrink, EndShrink, PopFull, Goto
    <3> QED
      BY <1>12, <3>1, <3>3 DEF PushPending
  <2>2. InHand' = InHand
    BY <2>1, HeadSteps
  <2>3. page[t] \notin s /\ nextFree[page[t]] = pending /\ page[t] \in Pages
    BY <1>1, <2>1 DEF PushersApart, Pushing, Apart, ArenaInv, MadeInv, DropLabels
  <2>4. PICK p \in Pages : p = page[t]
    BY <2>3
  <2>5. IsChain(nextFree', P \cup {p}, p)
    BY <1>0, <1>5, <2>1, <2>3, <2>4, ChainPushed DEF s
  <2>6. Chains(L, P \cup {p}, I)'
    BY <1>5, <2>1, <2>2, <2>3, <2>4, <2>5 DEF Chains, s
  <2>7. Following(L, P, I, L, P \cup {p}, I)
    BY <1>6, <1>12, <2>1, <2>4 DEF Following, From
  <2> QED
    BY <2>6, <2>7
<1>13. CASE UNCHANGED <<free, pending>> /\ ~Unlink /\ ~StartShrink /\ ~EndShrink /\ ~PopFull
  <2>1. InHand' = InHand
    BY <1>13, HeadSteps
  <2>2. Chains(L, P, I)'
    BY <1>5, <1>13, <2>1 DEF Chains
  <2>3. Following(L, P, I, L, P, I)
    BY <1>6, <1>13 DEF Following, From
  <2> QED
    BY <2>2, <2>3
<1> QED
  BY <1>2, <1>7, <1>8, <1>9, <1>10, <1>11, <1>12, <1>13, HeadSteps

\* The pages stay in one list, or in one hand.
LEMMA ListInvNext ==
  ASSUME ArenaInv, [Next]_vars
  PROVE  ListInv'
<1> SUFFICES ASSUME arena' = "open"
             PROVE  \E L \in SUBSET Pages, P \in SUBSET Pages, I \in SUBSET Pages : Lists(L, P, I)'
  BY DEF ListInv
<1>1. arena = "open"
  BY ArenaSteps DEF StartDropArena, EndDropArena
<1>2. PICK L \in SUBSET Pages, P \in SUBSET Pages, I \in SUBSET Pages : Lists(L, P, I)
  BY <1>1 DEF ArenaInv, ListInv
<1>3. PICK L1 \in SUBSET Pages, P1 \in SUBSET Pages, I1 \in SUBSET Pages :
        Chains(L1, P1, I1)' /\ Following(L, P, I, L1, P1, I1)
  BY <1>1, <1>2, ChainsNext
<1> DEFINE s == L \cup P \cup I
           v == L1 \cup P1 \cup I1
<1>4. /\ s \subseteq Pages /\ v \subseteq Pages /\ AllListed(s) /\ PushersApart(s) /\ OwnerApart(s) /\ From(s, v)
      /\ PopFull => free \in s /\ free \notin v
      /\ Unlink => Cell \in s /\ Cell \notin v
      /\ pc'[Owner] = "walk" /\ own'.cur # Null => own'.cur \in I1
      /\ Unlink /\ own.cur # Null => own.cur \in s
  BY <1>2, <1>3 DEF Lists, Following, Unlink
<1> HIDE DEF s, v
<1>5. AllListed(v)' /\ PushersApart(v)' /\ OwnerApart(v)'
  BY <1>1, <1>4, AllListedNext, PushersApartNext, OwnerApartNext
<1>6. Lists(L1, P1, I1)'
  BY <1>3, <1>4, <1>5 DEF Lists, v
<1> QED
  BY <1>6

-----------------------------------------------------------------------------
(* The invariant holds.                                                    *)

\* with_capacity puts all its pages in the free list.
LEMMA ArenaInvInit == Init => ArenaInv
<1> SUFFICES ASSUME Init PROVE ArenaInv
  OBVIOUS
<1>0. /\ Capacity \in Nat \ {0} /\ MaxPages \in Nat /\ Capacity <= MaxPages /\ Owner \in Threads
      /\ 1 .. Capacity \subseteq Pages /\ Capacity \in Pages
  BY ArenaAssumption DEF Pages
<1> DEFINE none == [p \in Pages |-> Null]
<1>1. none \in [Pages -> Pointer]
  BY DEF Pointer
<1>2. /\ NewList(0, Capacity) \in Seq(0 + 1 .. 0 + Capacity) /\ Len(NewList(0, Capacity)) = Capacity
      /\ ToSet(NewList(0, Capacity)) = 0 + 1 .. 0 + Capacity /\ IsInjective(NewList(0, Capacity))
  BY <1>0, NewListElements
<1>3. /\ full \in Seq(Pages) /\ Len(full) = Capacity /\ ToSet(full) = 1 .. Capacity /\ IsInjective(full)
  <2>1. 0 + 1 .. 0 + Capacity = 1 .. Capacity
    BY <1>0
  <2>2. NewList(0, Capacity) \in Seq(1 .. Capacity) /\ ToSet(NewList(0, Capacity)) = 1 .. Capacity
    BY <1>2, <2>1
  <2>3. full = NewList(0, Capacity)
    BY DEF Init
  <2>4. \A s \in Seq(1 .. Capacity) : s \in Seq(Pages)
    BY <1>0
  <2> QED
    BY <1>2, <2>2, <2>3, <2>4
<1>4. nextFree \in [Pages -> Pointer] /\ IsChain(nextFree, 1 .. Capacity, Capacity)
  <2>1. nextFree = Linked(none, NewList(0, Capacity))
    BY DEF Init
  <2> HIDE DEF none
  <2>2. nextFree \in [Pages -> Pointer] /\ IsChain(nextFree, 0 + 1 .. 0 + Capacity, 0 + Capacity)
    BY <1>0, <1>1, <2>1, ChainNew
  <2>3. 0 + 1 .. 0 + Capacity = 1 .. Capacity /\ 0 + Capacity = Capacity
    BY <1>0
  <2> QED
    BY <2>2, <2>3
<1>5. Shape
  <2>1. WordType
    BY DEF Init, NewPage, WordType
  <2>2. ListType
    <3>1. full \in Seq(Pages) /\ nextFree \in [Pages -> Pointer] /\ 1 .. Capacity \subseteq Pages
      BY <1>0, <1>3, <1>4
    <3>2. /\ free = Capacity /\ pending = Null /\ npages = Capacity /\ made = Capacity
          /\ marked = 1 .. Capacity
      BY DEF Init
    <3> QED
      BY <1>0, <3>1, <3>2 DEF ListType, Pointer
  <2>3. PcType
    BY DEF Init, PcType, Labels, OwnerLabels, Pointer
  <2>4. OwnType
    BY NoLocalsType DEF Init, OwnType
  <2> QED
    BY <2>1, <2>2, <2>3, <2>4 DEF Init, Shape
<1>6. \A p \in Pages : Attached(p)
  BY DEF Init, NewPage, Attached
<1>7. WordInv
  BY BlocksAndArenaBit DEF Init, NewPage, WordInv
<1>8. MadeInv /\ OwnerInv /\ BatchInv /\ FreedInv
  BY <1>0, <1>6 DEF Init, MadeInv, OwnerInv, BatchInv, FreedInv, DropLabels, Shrinking
<1>9. FullInv
  <2>1. Removed = {} /\ pc[Owner] = "idle" /\ npages = Capacity /\ made = Capacity
    BY <1>0 DEF Removed, Init
  <2> QED
    BY <1>0, <1>3, <1>6, <2>1 DEF FullInv, Pages
<1>10. ListInv
  <2>1. Chains(1 .. Capacity, {}, {})
    BY <1>0, <1>4, ChainEmpty DEF Chains, InHand, Init
  <2>2. Lists(1 .. Capacity, {}, {})
    BY <1>0, <1>6, <2>1 DEF Lists, AllListed, PushersApart, OwnerApart, Pushing, Shrinking, Init
  <2> QED
    BY <1>0, <2>2 DEF ListInv
<1> QED
  BY <1>5, <1>7, <1>8, <1>9, <1>10 DEF ArenaInv

\* It is inductive.
LEMMA ArenaInvNext == ArenaInv /\ [Next]_vars => ArenaInv'
BY ShapeNext, WordInvNext, MadeInvNext, OwnerInvNext, BatchInvNext, FreedInvNext, FullInvNext, ListInvNext
   DEF ArenaInv

\* The invariant of every behaviour.
LEMMA ArenaInvAlways == Spec => []ArenaInv
BY ArenaInvInit, ArenaInvNext, PTL DEF Spec

-----------------------------------------------------------------------------
(* What follows.                                                           *)

\* Nobody's step loses a block or gives it to a second user, whatever the owner
\* and the droppers of handles do with the two words in the meantime.
THEOREM BlocksStayInOnePlace == Spec => []BlocksHaveOnePlace
<1>1. ArenaInv => BlocksHaveOnePlace
  BY DEF ArenaInv, WordInv, BlocksHaveOnePlace, Union
<1> QED
  BY <1>1, ArenaInvAlways, PTL

\* A page is freed once, by the owner or by the dropper of its last handle, and
\* only without handles.
THEOREM PagesWithHandlesSurvive == Spec => []ReferencedPagesSurvive
<1>1. ArenaInv => ReferencedPagesSurvive
  <2> SUFFICES ASSUME ArenaInv PROVE ReferencedPagesSurvive
    OBVIOUS
  <2>1. ASSUME NEW p \in Pages, NEW b \in Blocks, <<p, b>> \in held
        PROVE  atomic[p] # Bits
    BY <2>1, BlocksAndArenaBit DEF ArenaInv, WordInv
  <2>2. \A p \in Pages : p \in freed \/ Freers(p) # {} => atomic[p] = Bits
    BY DEF ArenaInv, FreedInv, Freers
  <2>3. ASSUME NEW h \in held PROVE h[1] \notin freed /\ Freers(h[1]) = {}
    <3>1. PICK p \in Pages, b \in Blocks : h = <<p, b>>
      BY DEF ArenaInv, Shape, WordType
    <3>2. h[1] = p /\ <<p, b>> \in held
      BY <3>1
    <3> QED
      BY <2>1, <2>2, <3>2
  <2>4. ASSUME NEW p \in Pages
        PROVE  Cardinality(Freers(p)) <= IF p \in freed THEN 0 ELSE 1
    <3>1. p \in freed => Freers(p) = {}
      BY DEF ArenaInv, FreedInv, Freers
    <3>2. \A t, u \in Freers(p) : t = u
      <4>1. \A t \in Freers(p) : \/ t \in Threads /\ pc[t] = "last" /\ page[t] = p
                                 \/ t = Owner /\ pc[Owner] = "dealloc" /\ own.page = p
        BY DEF Freers
      <4> QED
        BY <4>1 DEF ArenaInv, FreedInv
    <3>3. CASE Freers(p) = {}
      BY <3>3, FS_EmptySet
    <3>4. CASE Freers(p) # {}
      <4>1. PICK t : Freers(p) = {t}
        BY <3>2, <3>4
      <4>2. Cardinality(Freers(p)) = 1
        BY <4>1, FS_Singleton
      <4> QED
        BY <3>1, <3>4, <4>2
    <3> QED
      BY <3>3, <3>4
  <2> QED
    BY <2>3, <2>4 DEF ReferencedPagesSurvive
<1> QED
  BY <1>1, ArenaInvAlways, PTL

\* The pages of to_drop are unused when shrink_to_fit lets them go.
THEOREM ShrinkAssertHolds == Spec => []AssertHolds
<1>1. ArenaInv => AssertHolds
  BY DEF ArenaInv, OwnerInv, AssertHolds
<1> QED
  BY <1>1, ArenaInvAlways, PTL

\* The lists end and share no page, with each other and with those who are
\* about to push one.
THEOREM PagesAreInOneList == Spec => []ListsAreDisjoint
<1>1. ArenaInv => ListsAreDisjoint
  <2> SUFFICES ASSUME ArenaInv, arena = "open"
               PROVE  /\ Ends(nextFree, free) /\ Ends(nextFree, pending) /\ Ends(nextFree, InHand)
                      /\ Listed(nextFree, free) \cap Listed(nextFree, pending) = {}
                      /\ Listed(nextFree, InHand) \cap Listed(nextFree, pending) = {}
                      /\ ListedPages \subseteq marked \ freed
                      /\ \A p \in Pages : Cardinality(Pushers(p)) <= 1
                      /\ \A p \in ListedPages : Pushers(p) = {}
    BY DEF ListsAreDisjoint
  <2>0. /\ nextFree \in [Pages -> Pointer] /\ free \in Pointer /\ pending \in Pointer
        /\ InHand \in Pointer /\ MaxPages \in Nat
    BY ArenaAssumption DEF ArenaInv, Shape, ListType, OwnType, InHand, Pointer
  <2>1. PICK L \in SUBSET Pages, P \in SUBSET Pages, I \in SUBSET Pages : Lists(L, P, I)
    BY DEF ArenaInv, ListInv
  <2>2. /\ IsChain(nextFree, L, free) /\ IsChain(nextFree, P, pending) /\ IsChain(nextFree, I, InHand)
        /\ L \cap P = {} /\ P \cap I = {}
        /\ AllListed(L \cup P \cup I) /\ PushersApart(L \cup P \cup I)
    BY <2>1 DEF Lists, Chains
  <2>3. Ends(nextFree, free) /\ Ends(nextFree, pending) /\ Ends(nextFree, InHand)
    BY <2>0, <2>2, ChainEnds
  <2>4. /\ Listed(nextFree, free) \subseteq L /\ Listed(nextFree, pending) \subseteq P
        /\ Listed(nextFree, InHand) \subseteq I
    BY <2>0, <2>2, ChainListed
  <2>5. ListedPages \subseteq L \cup P \cup I
    BY <2>4 DEF ListedPages
  <2>6. \A p \in L \cup P \cup I : p \in marked /\ p \notin freed
    BY <2>2, BlocksAndArenaBit DEF AllListed, Attached, ArenaInv, FreedInv
  <2>7. ASSUME NEW p \in Pages PROVE Cardinality(Pushers(p)) <= 1
    <3>1. \A t, u \in Pushers(p) : t = u
      BY <2>2 DEF Pushers, PushersApart, Pushing
    <3>2. CASE Pushers(p) = {}
      BY <3>2, FS_EmptySet
    <3>3. CASE Pushers(p) # {}
      <4>1. PICK t : Pushers(p) = {t}
        BY <3>1, <3>3
      <4>2. Cardinality(Pushers(p)) = 1
        BY <4>1, FS_Singleton
      <4> QED
        BY <4>2
    <3> QED
      BY <3>2, <3>3
  <2>8. ASSUME NEW p \in ListedPages PROVE Pushers(p) = {}
    BY <2>2, <2>5 DEF Pushers, PushersApart, Pushing, Apart
  <2> QED
    BY <2>2, <2>3, <2>4, <2>5, <2>6, <2>7, <2>8
<1> QED
  BY <1>1, ArenaInvAlways, PTL

-----------------------------------------------------------------------------
(* Each page as PageLife describes it.                                     *)

\* A step is at most one of PageLife, for every page.
LEMMA PageLifeStep ==
  ASSUME ArenaInv, [Next]_vars, NEW p \in Pages
  PROVE  [Life(p)!Next]_(Life(p)!vars)
<1> DEFINE sharers == (Blocks \ Union(p)) \cup ({ArenaBit} \ atomic[p])
<1>0. /\ ArenaBit \in Bits /\ ArenaBit \notin Blocks /\ Blocks \subseteq Bits
      /\ plain \in [Pages -> SUBSET Bits] /\ atomic \in [Pages -> SUBSET Bits]
      /\ WordInv
  BY BlocksAndArenaBit DEF ArenaInv, Shape, WordType
<1> USE DEF Union, Attached
<1>1. CASE UNCHANGED wordVars
  <2>1. sharers' = sharers
    BY <1>1 DEF wordVars
  <2>2. CASE freed' = freed
    BY <2>1, <2>2 DEF Life!vars
  <2>3. ASSUME NEW q \in Pages, q \notin freed, atomic[q] = Bits, freed' = freed \cup {q}
        PROVE  [Life(p)!Next]_(Life(p)!vars)
    <3>1. CASE q = p
      <4>1. sharers = {}
        BY <1>0, <2>3, <3>1
      <4> QED
        BY <2>1, <2>3, <3>1, <4>1 DEF Life!Next, Life!Free
    <3>2. CASE q # p
      BY <2>1, <2>3, <3>2 DEF Life!vars
    <3> QED
      BY <3>1, <3>2
  <2>4. ASSUME NEW t \in Threads, Deallocate(t) PROVE [Life(p)!Next]_(Life(p)!vars)
    <3>1. page[t] \in Pages /\ page[t] \notin freed /\ atomic[page[t]] = Bits /\ freed' = freed \cup {page[t]}
      BY <2>4 DEF Deallocate, ArenaInv, FreedInv, MadeInv, DropLabels
    <3> QED
      BY <2>3, <3>1
  <2>5. CASE OwnerDeallocates
    <3>1. own.page \in Pages /\ own.page \notin freed /\ atomic[own.page] = Bits /\ freed' = freed \cup {own.page}
      BY <2>5 DEF OwnerDeallocates, ArenaInv, FreedInv
    <3> QED
      BY <2>3, <3>1
  <2> QED
    BY <2>2, <2>4, <2>5, FreedSteps
<1>2. ASSUME freed' # freed PROVE UNCHANGED wordVars
  BY <1>2, FreedSteps DEF Deallocate, OwnerDeallocates
<1>3. ASSUME NEW q \in Pages, NEW b \in Blocks, Taken(q, b), freed' = freed
      PROVE  [Life(p)!Next]_(Life(p)!vars)
  <2>1. CASE q = p
    <3>1. sharers' = sharers \cup {b} /\ b \notin sharers /\ sharers # {}
      BY <1>0, <1>3, <2>1 DEF Taken
    <3> QED
      BY <1>3, <3>1 DEF Life!Next, Life!Take
  <2>2. CASE q # p
    BY <1>0, <1>3, <2>2 DEF Taken, Life!vars
  <2> QED
    BY <2>1, <2>2
<1>4. ASSUME NEW q \in Pages, NEW b \in Blocks, Returned(q, b), freed' = freed
      PROVE  [Life(p)!Next]_(Life(p)!vars)
  <2>1. CASE q = p
    <3>1. sharers' = sharers \ {b} /\ b \in sharers
      BY <1>0, <1>4, <2>1 DEF Returned
    <3> QED
      BY <1>4, <3>1 DEF Life!Next, Life!Leave
  <2>2. CASE q # p
    BY <1>0, <1>4, <2>2 DEF Returned, Life!vars
  <2> QED
    BY <2>1, <2>2
<1>5. ASSUME NEW q \in Pages, Refilled(q), freed' = freed
      PROVE  [Life(p)!Next]_(Life(p)!vars)
  <2>1. sharers' = sharers
    BY <1>0, <1>5 DEF Refilled
  <2> QED
    BY <1>5, <2>1 DEF Life!vars
<1>6. ASSUME NEW q \in Pages, LetGo(q), freed' = freed
      PROVE  [Life(p)!Next]_(Life(p)!vars)
  <2>0. plain' = plain /\ atomic' = [atomic EXCEPT ![q] = @ \cup plain[q]] /\ ArenaBit \notin atomic[q]
    BY <1>6 DEF LetGo, DropPage
  <2>1. CASE q = p
    <3>1. sharers' = sharers \ {ArenaBit} /\ ArenaBit \in sharers
      BY <1>0, <2>0, <2>1 DEF WordInv
    <3> QED
      BY <1>6, <3>1 DEF Life!Next, Life!Leave
  <2>2. CASE q # p
    BY <1>0, <1>6, <2>0, <2>2 DEF Life!vars
  <2> QED
    BY <2>1, <2>2
<1> QED
  BY <1>1, <1>2, <1>3, <1>4, <1>5, <1>6, WordSteps

\* For every page: who has a handle or the arena shares it, the last one to
\* leave frees it, once, and nobody comes back to a page that all have left.
THEOREM ArenaImplementsPageLife == Spec => ImplementsPageLife
<1>1. Init => \A p \in Pages : Life(p)!Init
  BY BlocksAndArenaBit DEF Init, NewPage, Union, Life!Init
<1>2. ArenaInv /\ [Next]_vars => [\A p \in Pages : [Life(p)!Next]_(Life(p)!vars)]_vars
  BY PageLifeStep
<1> QED
  BY <1>1, <1>2, ArenaInvAlways, PTL DEF Spec, ImplementsPageLife

-----------------------------------------------------------------------------
(* The bounds of the type invariant.                                       *)

\* There are no more pages than the bound, nor has the owner let more go.
Bounds == npages \in 0 .. MaxPages /\ own.i <= MaxPages

\* A list of different pages is no longer than there are pages.
LEMMA PagesBoundLists ==
  ASSUME MaxPages \in Nat, NEW s \in Seq(Pages), IsInjective(s)
  PROVE  Len(s) \in 0 .. MaxPages
<1>1. IsFiniteSet(ToSet(s)) /\ Cardinality(ToSet(s)) = Len(s) /\ ToSet(s) \subseteq Pages
  BY InjectiveLength DEF ToSet
<1>2. IsFiniteSet(Pages) /\ Cardinality(Pages) = MaxPages
  BY FS_Interval DEF Pages
<1>3. Cardinality(ToSet(s)) <= Cardinality(Pages)
  BY <1>1, <1>2, FS_Subset
<1> QED
  BY <1>1, <1>2, <1>3

\* Where the owner counts the pages that it lets go.
LEMMA IndexSteps ==
  ASSUME ArenaInv, [Next]_vars
  PROVE  own'.i \in {0, own.i} \/ \E p \in Pages : LetGo(p)
<1>0. own \in [page : Pointer, block : Blocks, init : BOOLEAN, start : Pointer, cur : Pointer,
               batch : Seq(Pages), i : Nat]
  BY DEF ArenaInv, Shape, OwnType
<1> DEFINE Goal == own'.i \in {0, own.i} \/ \E p \in Pages : LetGo(p)
<1>1. NoLocals.i = 0
  BY DEF NoLocals
<1>2. \A x, y : [NoLocals EXCEPT !.init = x].i = 0 /\ [NoLocals EXCEPT !.start = x].i = 0
                /\ [NoLocals EXCEPT !.batch = x].i = 0
  BY DEF NoLocals
<1>3. CASE Acquire \/ EndInit \/ EndShrink \/ EndDropArena \/ InitPanics
  BY <1>0, <1>1, <1>3 DEF Acquire, EndInit, EndShrink, EndDropArena, InitPanics
<1>4. CASE alloc \/ alloc_with \/ StartShrink \/ StartDropArena
  BY <1>2, <1>4 DEF alloc, alloc_with, StartAlloc, StartShrink, StartDropArena
<1>5. CASE PopFull \/ Unmark \/ Unlink \/ KeepUsed \/ OwnerDeallocates
  BY <1>0, <1>5 DEF PopFull, Unmark, Unlink, KeepUsed, OwnerDeallocates
<1>6. CASE LoadReturned \/ Refill \/ TakePending \/ AllocNewPage \/ RemoveFromFull \/ UNCHANGED vars
  BY <1>6 DEF LoadReturned, Refill, TakePending, AllocNewPage, RemoveFromFull, vars
<1>7. CASE DropPages \/ LetPagesGo
  BY <1>7, DropPageLetsGo
<1>8. ASSUME NEW t \in Threads, DropBlockStep(t) PROVE Goal
  BY <1>8, DropBlockMoves
<1>9. ASSUME NEW t, NEW p, NEW b, DropBlock(t, p, b) PROVE Goal
  BY <1>9 DEF DropBlock
<1> QED
  BY <1>3, <1>4, <1>5, <1>6, <1>7, <1>8, <1>9 DEF Next, OwnerStep, Start

\* No step leaves the bounds.
LEMMA BoundsNext ==
  ASSUME ArenaInv, Bounds, [Next]_vars
  PROVE  Bounds'
<1>0. MaxPages \in Nat /\ pc \in [Threads -> Labels] /\ Owner \in Threads
  BY ArenaAssumption DEF ArenaInv, Shape, PcType
<1>1. npages' \in 0 .. MaxPages
  <2>1. CASE npages' = npages
    BY <2>1 DEF Bounds
  <2>2. CASE AllocNewPage \/ EndShrink
    <3>1. arena = "open" /\ arena' = "open" /\ pc'[Owner] \notin {"dropPages", "dealloc"}
      BY <1>0, <2>2 DEF AllocNewPage, EndShrink, ArenaInv, OwnerInv, Goto
    <3>2. full' \in Seq(Pages) /\ IsInjective(full') /\ npages' = Len(full') + 0
      BY <3>1, ShapeNext, FullInvNext DEF Shape, ListType, FullInv
    <3>3. Len(full') \in 0 .. MaxPages
      BY <1>0, <3>2, PagesBoundLists
    <3> QED
      BY <3>2, <3>3
  <2> QED
    BY <2>1, <2>2, CountSteps DEF RemoveFromFull
<1>2. own'.i <= MaxPages
  <2>1. CASE own'.i \in {0, own.i}
    BY <1>0, <2>1 DEF Bounds
  <2>2. ASSUME NEW p \in Pages, LetGo(p) PROVE own'.i <= MaxPages
    <3>1. own.batch \in Seq(Pages) /\ own.i \in Nat /\ OwnType
      BY DEF ArenaInv, Shape, OwnType
    <3>2. own.i < Len(own.batch) /\ own'.i = own.i + 1
      BY <2>2, <3>1 DEF LetGo, DropPage, OwnType
    <3>3. IsInjective(own.batch)
      BY <2>2 DEF LetGo, ArenaInv, BatchInv, Shrinking
    <3>4. Len(own.batch) \in 0 .. MaxPages
      BY <1>0, <3>1, <3>3, PagesBoundLists
    <3> QED
      BY <1>0, <3>1, <3>2, <3>4
  <2> QED
    BY <2>1, <2>2, IndexSteps
<1> QED
  BY <1>1, <1>2 DEF Bounds

\* The fields have their types. npages, from which retired pages are
\* subtracted, does not become negative.
THEOREM TypeCorrect == Spec => []TypeOK
<1>1. Init => Bounds
  BY ArenaAssumption DEF Init, NoLocals, Bounds
<1>2. ArenaInv /\ Bounds /\ [Next]_vars => Bounds'
  BY BoundsNext
<1>3. ArenaInv /\ Bounds => TypeOK
  <2> SUFFICES ASSUME ArenaInv, Bounds PROVE TypeOK
    OBVIOUS
  <2>1. own \in Locals
    BY ArenaAssumption DEF ArenaInv, Shape, OwnType, Bounds, Locals
  <2> QED
    BY <2>1 DEF ArenaInv, Shape, WordType, ListType, PcType, Labels, Bounds, TypeOK
<1> QED
  BY <1>1, <1>2, <1>3, ArenaInvAlways, PTL DEF Spec

-----------------------------------------------------------------------------
(* What stats and Debug count.                                             *)

\* The blocks of p that have a handle.
HeldOf == [p \in Pages |-> {h \in held : h[1] = p}]

\* The zeros of a page are its blocks in use.
LEMMA UsedBlocks ==
  ASSUME ArenaInv, NEW p \in Pages
  PROVE  /\ IsFiniteSet(HeldOf[p])
         /\ Cardinality(Bits \ Union(p)) = Cardinality(HeldOf[p])
<1> DEFINE zeros == Bits \ Union(p)
<1>1. zeros = {b \in Blocks : <<p, b>> \in held}
  BY BlocksAndArenaBit DEF ArenaInv, WordInv, Union, Blocks, Bits, ArenaBit, BLOCK_PER_PAGE
<1>2. IsFiniteSet(zeros)
  <2>1. IsFiniteSet(Bits)
    BY WidthAssumption, FS_Interval DEF Bits
  <2> QED
    BY <2>1, FS_Subset
<1>3. HeldOf[p] = {h \in held : h[1] = p}
  BY DEF HeldOf
<1> DEFINE f == [b \in zeros |-> <<p, b>>]
<1>4. f \in Bijection(zeros, HeldOf[p])
  <2>1. \A b \in zeros : f[b] = <<p, b>> /\ f[b] \in HeldOf[p]
    BY <1>1, <1>3
  <2>2. \A b, c \in zeros : f[b] = f[c] => b = c
    BY <2>1
  <2>3. \A h \in HeldOf[p] : \E b \in zeros : f[b] = h
    <3>1. ASSUME NEW h \in HeldOf[p] PROVE \E b \in zeros : f[b] = h
      <4>1. h \in held /\ h[1] = p
        BY <1>3
      <4>2. PICK q \in Pages, b \in Blocks : h = <<q, b>>
        BY <4>1 DEF ArenaInv, Shape, WordType
      <4>3. q = p /\ b \in zeros
        BY <1>1, <4>1, <4>2
      <4> QED
        BY <2>1, <4>2, <4>3
    <3> QED
      BY <3>1
  <2>4. f \in [zeros -> HeldOf[p]]
    BY <2>1
  <2> HIDE DEF f, zeros
  <2> QED
    BY <2>2, <2>3, <2>4 DEF Bijection, Injection, Surjection, IsInjective
<1> HIDE DEF f, zeros
<1>5. IsFiniteSet(HeldOf[p]) /\ Cardinality(HeldOf[p]) = Cardinality(zeros)
  BY <1>2, <1>4, FS_Bijection DEF ExistsBijection
<1> QED
  BY <1>5 DEF zeros

\* Debug sums up what stats counts.
LEMMA DebugCounts ==
  ASSUME full \in Seq(Pages), \A p \in Pages : Cardinality(Bits \ Union(p)) \in Nat
  PROVE  stats = <<fmt.blocks_used, fmt.blocks_free>>
<1> DEFINE u == [i \in DOMAIN full |-> Cardinality(Bits \ Union(full[i]))]
           r == [i \in DOMAIN full |-> BLOCK_PER_PAGE - u[i]]
           pages == [i \in DOMAIN full |->
                      [used |-> Cardinality(Bits \ Union(full[i])),
                       free |-> BLOCK_PER_PAGE - Cardinality(Bits \ Union(full[i]))]]
<1>1. DOMAIN full = 1 .. Len(full) /\ \A i \in DOMAIN full : full[i] \in Pages
  OBVIOUS
<1>2. u \in Seq(Int) /\ Len(u) = Len(full)
  <2>1. u \in [1 .. Len(full) -> Int]
    BY <1>1
  <2>2. Len(full) \in Nat
    OBVIOUS
  <2> HIDE DEF u
  <2> QED
    BY <2>1, <2>2
<1>3. BLOCK_PER_PAGE \in Int
  BY WidthAssumption DEF BLOCK_PER_PAGE
<1>4. r = [i \in 1 .. Len(u) |-> BLOCK_PER_PAGE - u[i]]
  <2> HIDE DEF u
  <2> QED
    BY <1>1, <1>2
<1>5. Total(r) = Len(full) * BLOCK_PER_PAGE - Total(u)
  <2> HIDE DEF u, r
  <2>1. Total(r) = Len(u) * BLOCK_PER_PAGE - Total(u)
    BY <1>2, <1>3, <1>4, TotalOfRest
  <2> QED
    BY <1>2, <2>1
<1>6. DOMAIN pages = DOMAIN full /\ \A i \in DOMAIN full : pages[i].used = u[i] /\ pages[i].free = r[i]
  OBVIOUS
<1>7. fmt = [blocks_free |-> Total([i \in DOMAIN pages |-> pages[i].free]),
             blocks_used |-> Total([i \in DOMAIN pages |-> pages[i].used]),
             npages |-> npages, pages |-> pages]
  BY Zenon DEF fmt
<1>8. stats = <<Total(u), Len(full) * BLOCK_PER_PAGE - Total(u)>>
  BY Zenon DEF stats
<1>9. [i \in DOMAIN pages |-> pages[i].free] = r /\ [i \in DOMAIN pages |-> pages[i].used] = u
  <2>1. /\ r = [i \in DOMAIN full |-> r[i]]
        /\ u = [i \in DOMAIN full |-> u[i]]
    OBVIOUS
  <2> HIDE DEF pages, r, u
  <2> QED
    BY <1>6, <2>1
<1> HIDE DEF pages, r, u
<1>10. fmt.blocks_free = Total(r) /\ fmt.blocks_used = Total(u)
  BY <1>7, <1>9
<1> QED
  BY <1>5, <1>8, <1>10

\* Between the owner's calls the full list has the pages that were not freed,
\* npages is their number, and what stats and Debug report are the handles.
THEOREM StatsAreHandles == Spec => []StatsCountHandles
<1>1. ArenaInv => StatsCountHandles
  <2> SUFFICES ASSUME ArenaInv, arena = "open", pc[Owner] \notin OwnerLabels
               PROVE  /\ IsInjective(full) /\ ToSet(full) = (1 .. made) \ freed
                      /\ npages = Len(full)
                      /\ stats = <<Cardinality(held), npages * BLOCK_PER_PAGE - Cardinality(held)>>
                      /\ stats = <<fmt.blocks_used, fmt.blocks_free>>
    BY DEF StatsCountHandles
  <2>0. full \in Seq(Pages) /\ made \in 0 .. MaxPages /\ MaxPages \in Nat /\ 1 .. made \subseteq Pages
    BY ArenaAssumption DEF ArenaInv, Shape, ListType, Pages
  <2>1. Removed = {} /\ pc[Owner] \notin {"dropPages", "dealloc"}
    BY DEF Removed, OwnerLabels
  <2>2. /\ IsInjective(full) /\ npages = Len(full) + 0
        /\ \A p \in Pages : p \in ToSet(full) <=> p <= made /\ Attached(p)
    BY <2>1 DEF ArenaInv, FullInv
  <2>3. npages = Len(full)
    BY <2>0, <2>2
  <2>4. \A p \in Pages : p \in freed <=> ~Attached(p)
    BY <2>1, BlocksAndArenaBit DEF ArenaInv, FreedInv, Attached
  <2>5. ToSet(full) = (1 .. made) \ freed
    <3>1. ToSet(full) \subseteq Pages
      BY <2>0 DEF ToSet
    <3>2. \A p \in Pages : p \in 1 .. made <=> p <= made
      BY <2>0 DEF Pages
    <3> QED
      BY <2>0, <2>2, <2>4, <3>1, <3>2
  <2>6. UNION {HeldOf[p] : p \in ToSet(full)} = held
    <3>1. ASSUME NEW h \in held PROVE h[1] \in ToSet(full) /\ h \in HeldOf[h[1]]
      <4>1. PICK p \in Pages, b \in Blocks : h = <<p, b>>
        BY DEF ArenaInv, Shape, WordType
      <4>2. h[1] = p /\ <<p, b>> \in held
        BY <4>1
      <4>3. p \notin freed /\ p <= made
        BY <4>2, BlocksAndArenaBit DEF ArenaInv, WordInv, MadeInv, FreedInv
      <4> QED
        BY <2>2, <2>4, <4>2, <4>3 DEF HeldOf
    <3>2. \A p \in ToSet(full) : HeldOf[p] \subseteq held
      BY <2>0 DEF HeldOf, ToSet
    <3> QED
      BY <3>1, <3>2
  <2>7. /\ \A p \in Pages : IsFiniteSet(HeldOf[p])
        /\ \A p \in Pages : Cardinality(Bits \ Union(p)) = Cardinality(HeldOf[p])
        /\ \A p, q \in Pages : p # q => HeldOf[p] \cap HeldOf[q] = {}
    BY UsedBlocks DEF HeldOf
  <2>8. \A p \in Pages : Cardinality(Bits \ Union(p)) \in Nat
    BY <2>7, FS_CardinalityType
  <2> DEFINE u == [i \in DOMAIN full |-> Cardinality(Bits \ Union(full[i]))]
  <2>9. u = [i \in 1 .. Len(full) |-> Cardinality(HeldOf[full[i]])]
    BY <2>0, <2>7
  <2>10. Total(u) = Cardinality(held)
    <3> HIDE DEF u
    <3>1. Total(u) = Cardinality(UNION {HeldOf[p] : p \in ToSet(full)})
      BY <2>0, <2>2, <2>7, <2>9, TotalOfParts
    <3> QED
      BY <2>6, <3>1, Zenon
  <2>11. stats = <<Total(u), Len(full) * BLOCK_PER_PAGE - Total(u)>>
    BY Zenon DEF stats
  <2>12. stats = <<Cardinality(held), npages * BLOCK_PER_PAGE - Cardinality(held)>>
    <3> HIDE DEF u
    <3> QED
      BY <2>3, <2>10, <2>11, Zenon
  <2> QED
    BY <2>0, <2>2, <2>3, <2>5, <2>8, <2>12, DebugCounts
<1> QED
  BY <1>1, ArenaInvAlways, PTL
=============================================================================
