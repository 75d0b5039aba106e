------------------------ MODULE SharedArenaListProofs ------------------------
(***************************************************************************)
(* Proofs about the lists of a SharedArena when one thread allocates and   *)
(* shrinks, while any set of threads drops handles, or the arena; and, at  *)
(* the end, when nobody shrinks, while any set of threads allocates too.   *)
(***************************************************************************)
EXTENDS SharedArenaProofs

-----------------------------------------------------------------------------
(* The one thread that moves pages.                                        *)

OneMover == \E t \in Threads : Allocators \cup Shrinkers \subseteq {t}
Mover == CHOOSE t \in Threads : Allocators \cup Shrinkers \subseteq {t}

\* Where it is, and its locals.
at == pc[Mover]
own == loc[Mover]

\* Where a thread is when it is neither in find_place nor in shrink_to_fit.
Quiet == DropBlock \cup {"idle", "dropArena", "panic", "wild"}

\* A call begins with the locals that the last one has left; only where they are
\* read without having been set does it matter that they are empty.
CleanInv ==
  /\ at = "idle" => own = NoLocals
  /\ at \in {"lock", "detach"} => own.batch = <<>> /\ own.cur = Null
  /\ at \in FindPlace \ {"putFull", "putFree", "count", "rest", "zeroDelay", "release"} =>
       own.rest = <<>> /\ ~own.reusing
  /\ at \in {"putFull", "putFree", "count"} => own.reusing \/ own.rest = <<>>

\* One thread drops the arena, and nobody borrows it from then on.
ActorInv ==
  /\ \A t \in Threads \ {Mover} : pc[t] \in Quiet
  /\ arena # "open" => at \in Quiet
  /\ \A t \in Threads : pc[t] = "dropArena" => arena = "dropping"
  /\ \A t, u \in Threads : pc[t] = "dropArena" /\ pc[u] = "dropArena" => t = u
  /\ CleanInv

\* What a thread does that only drops handles, or the arena.
OtherStep(t) ==
  \/ DropBlockStep(t) \/ TouchFreed(t) \/ (\E p \in Pages : GiveBlock(t, p))
  \/ StartDropArena(t) \/ EndDropArena(t) \/ (pc[t] = "dropArena" /\ DropPages(t))

\* What the mover does besides.
MoverStep ==
  /\ \/ StartAlloc(Mover) \/ StartShrink(Mover)
     \/ at \in FindPlace /\ FindPlaceStep(Mover)
     \/ ShrinkStep(Mover)

\* There is one.
LEMMA TheMover ==
  ASSUME OneMover
  PROVE  Mover \in Threads /\ \A t \in Threads : t \in Allocators \cup Shrinkers => t = Mover
BY DEF OneMover, Mover

\* A label says which part of the code a thread is in.
LEMMA QuietLabels ==
  ASSUME NEW l \in Labels
  PROVE  l \in Quiet <=> l \notin FindPlace \cup Shrink
BY DEF Labels, Quiet, FindPlace, Shrink, DropBlock

\* So a step is one of the mover, or one that any thread takes.
LEMMA Steps ==
  ASSUME OneMover, TypeInv, ActorInv, NEW t \in Threads, Continue(t) \/ Start(t)
  PROVE  OtherStep(t) \/ (t = Mover /\ MoverStep)
<1>0. Mover \in Threads /\ (t \in Allocators \cup Shrinkers => t = Mover)
  BY TheMover
<1>1. CASE FindPlaceStep(t)
  <2>1. pc[t] \in FindPlace \/ (pc[t] = "dropArena" /\ DropPages(t))
    BY <1>1 DEF FindPlaceStep, FindPlace, LoadHead, AcquireFreeBlock, LoadNextFree, PopFree, UnmarkPage,
       TryGuard, SeeLocked, RecheckFree, LoadPending, TakePending, InstallPending, LoadToFree, TakeToFree,
       AllocNewPages, PutFull, PutFree, CountPages, PutBackRest, ZeroDelay, Release, LoadDelay, BumpDelay,
       SweepToFree, DropPages, EndOfSweep
  <2>2. CASE pc[t] \in FindPlace
    <3>1. pc[t] \notin Quiet
      BY <2>2, QuietLabels DEF Labels
    <3>2. t = Mover
      BY <3>1 DEF ActorInv
    <3> QED
      BY <1>1, <2>2, <3>2 DEF MoverStep, at
  <2> QED
    BY <2>1, <2>2 DEF OtherStep
<1>2. CASE ShrinkStep(t)
  <2>1. pc[t] \in Shrink
    BY <1>2 DEF ShrinkStep, Shrink, Lock, DetachFree, WalkFree, Unlink, RetainUntouched, RemoveFromFull,
       ResetDelay, GrabToFree, GiveToFree, RestoreFree, UncountPages, EndShrinking, Unlock
  <2>2. pc[t] \notin Quiet
    BY <2>1, QuietLabels DEF Labels
  <2> QED
    BY <1>2, <2>2 DEF ActorInv, MoverStep
<1>3. CASE StartAlloc(t) \/ StartShrink(t)
  BY <1>0, <1>3 DEF StartAlloc, StartShrink, MoverStep
<1> QED
  BY <1>1, <1>2, <1>3 DEF Continue, Start, OtherStep

\* A thread that only drops does not move the mover.
LEMMA OtherMoves ==
  ASSUME OneMover, TypeInv, ActorInv, NEW t \in Threads, OtherStep(t)
  PROVE  /\ Moves(t) /\ pc'[t] \in Quiet
         /\ t # Mover => at' = at /\ own' = own
         /\ pc[t] \in Quiet \/ TouchFreed(t)
         /\ UNCHANGED <<free, full, toFree, npages, made>>
<1>0. Mover \in Threads /\ pc \in [Threads -> Labels] /\ loc \in [Threads -> Locals]
  BY TheMover DEF TypeInv, ThreadType
<1>1. Moves(t)
  <2>1. Continue(t) \/ Start(t)
    BY DEF OtherStep, Continue, Start, FindPlaceStep
  <2> QED
    BY <2>1, ThreadMoves
<1>2. t # Mover => at' = at /\ own' = own
  BY <1>0, <1>1 DEF Moves, at, own
<1>3. /\ pc'[t] \in Quiet /\ (pc[t] \in Quiet \/ TouchFreed(t))
      /\ UNCHANGED <<free, full, toFree, npages, made>>
  <2> USE DEF Goto, Return, Quiet, DropBlock, pageVars, listVars, arenaVars
  <2>1. CASE LoadMark(t) \/ SwapMark(t) \/ UpgradePending(t)
    BY <1>0, <2>1 DEF LoadMark, SwapMark, UpgradePending
  <2>2. CASE LinkPending(t) \/ PushPending(t)
    BY <1>0, <2>2 DEF LinkPending, PushPending
  <2>3. CASE TouchFreed(t)
    BY <1>0, <2>3 DEF TouchFreed
  <2>4. CASE \E p \in Pages : GiveBlock(t, p)
    BY <1>0, <2>4 DEF GiveBlock
  <2>5. CASE StartDropArena(t) \/ EndDropArena(t)
    BY <1>0, <2>5 DEF StartDropArena, EndDropArena
  <2>6. CASE pc[t] = "dropArena" /\ DropPages(t)
    BY <1>0, <2>6 DEF DropPages
  <2> QED
    BY <2>1, <2>2, <2>3, <2>4, <2>5, <2>6 DEF OtherStep, DropBlockStep
<1> QED
  BY <1>1, <1>2, <1>3

\* Nor does the mover move another thread.
LEMMA MoverMoves ==
  ASSUME OneMover, TypeInv, ActorInv, MoverStep
  PROVE  /\ Mover \in Threads /\ Moves(Mover) /\ at' \notin {"dropArena", "wild"} \cup DropBlock
         /\ at \notin {"dropArena", "wild"} \cup DropBlock /\ arena = "open" /\ arena' = "open"
         /\ at # "idle" => at \in FindPlace \cup Shrink
         /\ \A t \in Threads \ {Mover} : pc'[t] = pc[t] /\ loc'[t] = loc[t]
<1>0. Mover \in Threads /\ pc \in [Threads -> Labels] /\ loc \in [Threads -> Locals] /\ at \in Labels
  BY TheMover DEF TypeInv, ThreadType, at
<1>1. Moves(Mover)
  <2>1. Continue(Mover) \/ Start(Mover)
    BY DEF MoverStep, Continue, Start
  <2> QED
    BY <1>0, <2>1, ThreadMoves
<1>2. \A t \in Threads \ {Mover} : pc'[t] = pc[t] /\ loc'[t] = loc[t]
  BY <1>0, <1>1 DEF Moves
<1>3. CASE StartAlloc(Mover) \/ StartShrink(Mover)
  <2>1. at = "idle" /\ at' \in {"head", "lock"} /\ arena = "open" /\ arena' = "open"
    BY <1>0, <1>3 DEF StartAlloc, StartShrink, at, Goto, arenaVars
  <2> QED
    BY <1>0, <1>1, <1>2, <2>1 DEF DropBlock
<1>4. ASSUME at \in FindPlace \cup Shrink, arena' = arena, at' \in FindPlace \cup Shrink \cup {"idle", "panic"}
      PROVE  /\ at' \notin {"dropArena", "wild"} \cup DropBlock
             /\ at \notin {"dropArena", "wild"} \cup DropBlock /\ arena = "open" /\ arena' = "open"
             /\ at # "idle" => at \in FindPlace \cup Shrink
  <2>1. at \notin Quiet
    BY <1>0, <1>4, QuietLabels
  <2>2. arena = "open" /\ at \notin {"dropArena", "wild"} \cup DropBlock
    BY <2>1 DEF ActorInv, Quiet
  <2>3. at' \notin {"dropArena", "wild"} \cup DropBlock
    BY <1>4 DEF FindPlace, Shrink, DropBlock
  <2> QED
    BY <1>4, <2>2, <2>3
<1>5. CASE at \in FindPlace /\ FindPlaceStep(Mover)
  <2> USE DEF Goto, at, arenaVars, AfterMaybeFree, FindPlace
  <2>1. CASE LoadHead(Mover) \/ AcquireFreeBlock(Mover) \/ LoadNextFree(Mover) \/ PopFree(Mover)
             \/ UnmarkPage(Mover) \/ TryGuard(Mover) \/ SeeLocked(Mover) \/ RecheckFree(Mover)
    BY <1>0, <1>1, <1>2, <1>4, <2>1 DEF LoadHead, AcquireFreeBlock, LoadNextFree, PopFree, UnmarkPage,
       TryGuard, SeeLocked, RecheckFree, Return
  <2>2. CASE LoadPending(Mover) \/ TakePending(Mover) \/ InstallPending(Mover) \/ LoadToFree(Mover)
             \/ TakeToFree(Mover) \/ AllocNewPages(Mover) \/ PutFull(Mover) \/ PutFree(Mover)
    BY <1>0, <1>1, <1>2, <1>4, <2>2 DEF LoadPending, TakePending, InstallPending, LoadToFree, TakeToFree,
       AllocNewPages, PutFull, PutFree
  <2>3. CASE CountPages(Mover) \/ PutBackRest(Mover) \/ ZeroDelay(Mover) \/ Release(Mover)
             \/ LoadDelay(Mover) \/ BumpDelay(Mover) \/ SweepToFree(Mover) \/ EndOfSweep(Mover)
    BY <1>0, <1>1, <1>2, <1>4, <2>3 DEF CountPages, PutBackRest, ZeroDelay, Release, LoadDelay, BumpDelay,
       SweepToFree, EndOfSweep
  <2>4. CASE DropPages(Mover)
    BY <1>0, <1>1, <1>2, <1>4, <1>5, <2>4 DEF DropPages
  <2> QED
    BY <1>5, <2>1, <2>2, <2>3, <2>4 DEF FindPlaceStep
<1>6. CASE ShrinkStep(Mover)
  <2> USE DEF Goto, at, arenaVars, Shrink
  <2>1. CASE Lock(Mover) \/ DetachFree(Mover) \/ WalkFree(Mover) \/ Unlink(Mover) \/ RetainUntouched(Mover)
             \/ RemoveFromFull(Mover) \/ ResetDelay(Mover)
    BY <1>0, <1>1, <1>2, <1>4, <2>1 DEF Lock, DetachFree, WalkFree, Unlink, RetainUntouched, RemoveFromFull,
       ResetDelay
  <2>2. CASE GrabToFree(Mover) \/ GiveToFree(Mover) \/ RestoreFree(Mover) \/ UncountPages(Mover)
             \/ EndShrinking(Mover) \/ Unlock(Mover)
    BY <1>0, <1>1, <1>2, <1>4, <2>2 DEF GrabToFree, GiveToFree, RestoreFree, UncountPages, EndShrinking,
       Unlock, Return
  <2> QED
    BY <1>6, <2>1, <2>2 DEF ShrinkStep
<1> QED
  BY <1>3, <1>5, <1>6 DEF MoverStep

-----------------------------------------------------------------------------
(* The mover's steps: where it goes, and what becomes of its locals.       *)

\* The locals of the walk through a detached list; the lists it has taken.
WalkKept == own'.start = own.start /\ own'.cur = own.cur /\ own'.batch = own.batch
ListsKept == own'.batch = own.batch /\ own'.rest = own.rest /\ own'.reusing = own.reusing

\* What one of its steps does to it.
Goes(from, to) == at = from /\ at' \in to

\* find_place, while it looks for a page in the free list.
LEMMA SearchEffects ==
  ASSUME OneMover, TypeInv
  PROVE  /\ StartAlloc(Mover) => Goes("idle", {"head"}) /\ own' = own
         /\ LoadHead(Mover) =>
              /\ at = "head" /\ at' = (IF free = Null THEN "guard" ELSE "acquire")
              /\ own'.page = free /\ ListsKept
         /\ AcquireFreeBlock(Mover) =>
              (Goes("acquire", {"idle"}) /\ own' = NoLocals) \/ (Goes("acquire", {"next"}) /\ own' = own)
         /\ LoadNextFree(Mover) =>
              /\ Goes("next", {"cas"}) /\ own'.page = own.page /\ own'.nxt = nextFree[own.page] /\ ListsKept
         /\ PopFree(Mover) =>
              /\ at = "cas" /\ own' = own
              /\ \/ free = own.page /\ free' = own.nxt /\ at' = "unmark"
                 \/ free # own.page /\ free' = free /\ at' = "head"
         /\ UnmarkPage(Mover) => Goes("unmark", {"head"}) /\ own' = own
         /\ TryGuard(Mover) => Goes("guard", {"recheck", "locked"}) /\ ListsKept
         /\ SeeLocked(Mover) => Goes("locked", {"head", "delay"}) /\ own' = own
<1>0. Mover \in Threads /\ pc \in [Threads -> Labels] /\ loc \in [Threads -> Locals] /\ own \in Locals
  BY TheMover DEF TypeInv, ThreadType, own
<1> USE <1>0 DEF at, own, Goto, Goes, ListsKept, Locals
<1>1. StartAlloc(Mover) => Goes("idle", {"head"}) /\ own' = own
  BY DEF StartAlloc
<1>2. LoadHead(Mover) => /\ at = "head" /\ at' = (IF free = Null THEN "guard" ELSE "acquire")
                         /\ own'.page = free /\ ListsKept
  BY DEF LoadHead
<1>3. AcquireFreeBlock(Mover) =>
        (Goes("acquire", {"idle"}) /\ own' = NoLocals) \/ (Goes("acquire", {"next"}) /\ own' = own)
  BY DEF AcquireFreeBlock, Return
<1>4. LoadNextFree(Mover) =>
        /\ Goes("next", {"cas"}) /\ own'.page = own.page /\ own'.nxt = nextFree[own.page] /\ ListsKept
  BY DEF LoadNextFree
<1>5. PopFree(Mover) =>
        /\ at = "cas" /\ own' = own
        /\ \/ free = own.page /\ free' = own.nxt /\ at' = "unmark"
           \/ free # own.page /\ free' = free /\ at' = "head"
  BY DEF PopFree
<1>6. UnmarkPage(Mover) => Goes("unmark", {"head"}) /\ own' = own
  BY DEF UnmarkPage
<1>7. TryGuard(Mover) => Goes("guard", {"recheck", "locked"}) /\ ListsKept
  BY DEF TryGuard
<1>8. SeeLocked(Mover) => Goes("locked", {"head", "delay"}) /\ own' = own
  BY DEF SeeLocked
<1> QED
  BY <1>1, <1>2, <1>3, <1>4, <1>5, <1>6, <1>7, <1>8

\* find_place, when it was empty.
LEMMA RefillEffects ==
  ASSUME OneMover, TypeInv
  PROVE  /\ RecheckFree(Mover) => Goes("recheck", {"pending", "release"}) /\ own' = own
         /\ LoadPending(Mover) => Goes("pending", {"take", "toFree"}) /\ own' = own
         /\ TakePending(Mover) => Goes("take", {"install"}) /\ own'.page = pending /\ ListsKept
         /\ InstallPending(Mover) =>
              /\ at = "install" /\ at' = (IF free = Null THEN "delay" ELSE "panic") /\ own' = own
         /\ LoadToFree(Mover) => Goes("toFree", {"reuse", "allocate"}) /\ own' = own
         /\ TakeToFree(Mover) /\ toFree = <<>> =>
              Goes("reuse", {"release"}) /\ own' = own /\ UNCHANGED <<nextFree, marked, toFree>>
         /\ PutFull(Mover) => Goes("putFull", {"putFree"}) /\ own' = own
         /\ PutFree(Mover) =>
              /\ at = "putFree" /\ at' = (IF free = Null THEN "count" ELSE "panic") /\ own' = own
         /\ CountPages(Mover) =>
              /\ at = "count" /\ at' = (IF own.reusing THEN "rest" ELSE "release") /\ own' = own
         /\ PutBackRest(Mover) =>
              /\ at = "rest" /\ own' = own
              /\ at' = (IF own.rest = <<>> THEN "release" ELSE IF toFree = <<>> THEN "zeroDelay" ELSE "panic")
         /\ ZeroDelay(Mover) => Goes("zeroDelay", {"release"}) /\ own' = own
         /\ Release(Mover) => Goes("release", {"head"}) /\ own' = NoLocals
<1>0. Mover \in Threads /\ pc \in [Threads -> Labels] /\ loc \in [Threads -> Locals] /\ own \in Locals
  BY TheMover DEF TypeInv, ThreadType, own
<1> USE <1>0 DEF at, own, Goto, Goes, ListsKept, Locals
<1>1. RecheckFree(Mover) => Goes("recheck", {"pending", "release"}) /\ own' = own
  BY DEF RecheckFree
<1>2. LoadPending(Mover) => Goes("pending", {"take", "toFree"}) /\ own' = own
  BY DEF LoadPending
<1>3. TakePending(Mover) => Goes("take", {"install"}) /\ own'.page = pending /\ ListsKept
  BY DEF TakePending
<1>4. InstallPending(Mover) =>
        /\ at = "install" /\ at' = (IF free = Null THEN "delay" ELSE "panic") /\ own' = own
  BY DEF InstallPending
<1>5. LoadToFree(Mover) => Goes("toFree", {"reuse", "allocate"}) /\ own' = own
  BY DEF LoadToFree
<1>6. TakeToFree(Mover) /\ toFree = <<>> =>
        Goes("reuse", {"release"}) /\ own' = own /\ UNCHANGED <<nextFree, marked, toFree>>
  BY DEF TakeToFree
<1>8. PutFull(Mover) => Goes("putFull", {"putFree"}) /\ own' = own
  BY DEF PutFull
<1>9. PutFree(Mover) =>
        /\ at = "putFree" /\ at' = (IF free = Null THEN "count" ELSE "panic") /\ own' = own
  BY DEF PutFree
<1>10. CountPages(Mover) =>
        /\ at = "count" /\ at' = (IF own.reusing THEN "rest" ELSE "release") /\ own' = own
  BY DEF CountPages
<1>11. PutBackRest(Mover) =>
         /\ at = "rest" /\ own' = own
         /\ at' = (IF own.rest = <<>> THEN "release" ELSE IF toFree = <<>> THEN "zeroDelay" ELSE "panic")
  BY DEF PutBackRest
<1>12. ZeroDelay(Mover) => Goes("zeroDelay", {"release"}) /\ own' = own
  BY DEF ZeroDelay
<1>13. Release(Mover) => Goes("release", {"head"}) /\ own' = NoLocals
  BY DEF Release
<1> QED
  BY <1>1, <1>2, <1>3, <1>4, <1>5, <1>6, <1>8, <1>9, <1>10, <1>11, <1>12, <1>13

\* take_pages_to_be_freed: the last pages of to_free are linked.
LEMMA ReuseEffects ==
  ASSUME OneMover, TypeInv, TakeToFree(Mover), toFree # <<>>
  PROVE  /\ Goes("reuse", {"putFull"}) /\ own'.reusing
         /\ own'.batch \in Seq(Pages) /\ own'.rest \in Seq(Pages) /\ own'.batch # <<>>
         /\ ToSet(toFree) = ToSet(own'.rest) \cup ToSet(own'.batch)
         /\ IsInjective(toFree) => /\ IsInjective(own'.rest) /\ IsInjective(own'.batch)
                                  /\ ToSet(own'.rest) \cap ToSet(own'.batch) = {}
         /\ nextFree' = Linked(nextFree, own'.batch) /\ marked' = marked \cup ToSet(own'.batch)
         /\ toFree' = <<>>
<1>0. /\ Mover \in Threads /\ pc \in [Threads -> Labels] /\ loc \in [Threads -> Locals] /\ own \in Locals
      /\ toFree \in Seq(Pages) /\ npages \in Int
  BY TheMover, SharedArenaAssumption DEF TypeInv, ThreadType, ArenaType, own
<1> DEFINE n   == Max({npages, 1})
           cut == Max({Len(toFree) - n, 0})
           a   == SubSeq(toFree, 1, cut)
           b   == SubSeq(toFree, cut + 1, Len(toFree))
<1>1. /\ at = "reuse" /\ pc' = [pc EXCEPT ![Mover] = "putFull"] /\ toFree' = <<>>
      /\ loc' = [loc EXCEPT ![Mover] = [own EXCEPT !.batch = b, !.rest = a, !.reusing = TRUE]]
      /\ nextFree' = Linked(nextFree, b) /\ marked' = marked \cup ToSet(b)
  BY DEF TakeToFree, at, own, Goto
<1>2. /\ a \in Seq(Pages) /\ b \in Seq(Pages) /\ b # <<>>
      /\ ToSet(toFree) = ToSet(a) \cup ToSet(b)
      /\ IsInjective(toFree) => IsInjective(a) /\ IsInjective(b) /\ ToSet(a) \cap ToSet(b) = {}
  <2>1. Halves(toFree, cut, a, b)
    BY DEF Halves
  <2>2. n = Max({npages, 1}) /\ cut = Max({Len(toFree) - n, 0})
    OBVIOUS
  <2> HIDE DEF n, cut, a, b
  <2>3. a \in Seq(Pages) /\ b \in Seq(Pages) /\ b # <<>>
    BY <1>0, <2>1, <2>2, Reinserted
  <2>4. ToSet(toFree) = ToSet(a) \cup ToSet(b)
    BY <1>0, <2>1, <2>2, Reinserted
  <2>5. IsInjective(toFree) => IsInjective(a) /\ IsInjective(b) /\ ToSet(a) \cap ToSet(b) = {}
    BY <1>0, <2>1, <2>2, Reinserted
  <2> QED
    BY <2>3, <2>4, <2>5
<1> HIDE DEF n, cut, a, b
<1>3. at' = "putFull" /\ own'.batch = b /\ own'.rest = a /\ own'.reusing
  BY <1>0, <1>1 DEF at, own, Locals
<1> QED
  BY <1>1, <1>2, <1>3 DEF Goes

\* alloc_new_page: n new pages are linked.
LEMMA AllocEffects ==
  ASSUME OneMover, TypeInv, AllocNewPages(Mover)
  PROVE  /\ Goes("allocate", {"putFull"}) /\ own'.rest = own.rest /\ own'.reusing = own.reusing
         /\ \E n \in Nat \ {0} :
              /\ made + n <= MaxPages /\ made' = made + n
              /\ own'.batch = NewList(made, n)
              /\ nextFree' = Linked(nextFree, own'.batch)
              /\ marked' = marked \cup ToSet(own'.batch)
              /\ arenaBit' = arenaBit \cup ToSet(own'.batch)
<1>0. /\ Mover \in Threads /\ pc \in [Threads -> Labels] /\ loc \in [Threads -> Locals] /\ own \in Locals
      /\ npages \in Int
  BY TheMover, SharedArenaAssumption DEF TypeInv, ThreadType, ArenaType, own
<1> DEFINE n    == Min({Max({npages, 1}), MaxAllocate})
           list == NewList(made, n)
<1>1. n \in Nat \ {0}
  BY <1>0, NewPages
<1>2. /\ at = "allocate" /\ pc' = [pc EXCEPT ![Mover] = "putFull"]
      /\ loc' = [loc EXCEPT ![Mover] = [own EXCEPT !.batch = list]]
      /\ made + n <= MaxPages /\ made' = made + n /\ nextFree' = Linked(nextFree, list)
      /\ marked' = marked \cup ToSet(list) /\ arenaBit' = arenaBit \cup ToSet(list)
  BY DEF AllocNewPages, at, own, Goto
<1> HIDE DEF n
<1>3. list = NewList(made, n)
  OBVIOUS
<1> HIDE DEF list
<1>4. at' = "putFull" /\ own'.batch = list /\ own'.rest = own.rest /\ own'.reusing = own.reusing
  BY <1>0, <1>2 DEF at, own, Locals
<1> QED
  BY <1>1, <1>2, <1>3, <1>4 DEF Goes

\* maybe_free_pages.
LEMMA SweepEffects ==
  ASSUME OneMover, TypeInv
  PROVE  /\ LoadDelay(Mover) => Goes("delay", {"bump", "release", "head"}) /\ own' = own
         /\ BumpDelay(Mover) => Goes("bump", {"sweep", "release", "head"}) /\ own' = own
         /\ SweepToFree(Mover) =>
              /\ Goes("sweep", {"dropPages"}) /\ own'.batch = toFree
              /\ own'.rest = own.rest /\ own'.reusing = own.reusing
         /\ at = "dropPages" /\ DropPages(Mover) =>
              /\ at' = "dropPages" /\ own.batch # <<>> /\ own'.batch = Tail(own.batch)
              /\ own'.rest = own.rest /\ own'.reusing = own.reusing
         /\ EndOfSweep(Mover) => Goes("dropPages", {"release", "head"}) /\ own' = own /\ own.batch = <<>>
<1>0. Mover \in Threads /\ pc \in [Threads -> Labels] /\ loc \in [Threads -> Locals] /\ own \in Locals
  BY TheMover DEF TypeInv, ThreadType, own
<1> USE <1>0 DEF at, own, Goto, Goes, ListsKept, Locals, AfterMaybeFree
<1>1. LoadDelay(Mover) => Goes("delay", {"bump", "release", "head"}) /\ own' = own
  BY DEF LoadDelay
<1>2. BumpDelay(Mover) => Goes("bump", {"sweep", "release", "head"}) /\ own' = own
  BY DEF BumpDelay
<1>3. SweepToFree(Mover) =>
        /\ Goes("sweep", {"dropPages"}) /\ own'.batch = toFree
        /\ own'.rest = own.rest /\ own'.reusing = own.reusing
  BY DEF SweepToFree
<1>4. at = "dropPages" /\ DropPages(Mover) =>
        /\ at' = "dropPages" /\ own.batch # <<>> /\ own'.batch = Tail(own.batch)
        /\ own'.rest = own.rest /\ own'.reusing = own.reusing
  BY DEF DropPages
<1>5. EndOfSweep(Mover) => Goes("dropPages", {"release", "head"}) /\ own' = own /\ own.batch = <<>>
  BY DEF EndOfSweep
<1> QED
  BY <1>1, <1>2, <1>3, <1>4, <1>5

\* shrink_to_fit.
LEMMA ShrinkEffects ==
  ASSUME OneMover, TypeInv
  PROVE  /\ StartShrink(Mover) => Goes("idle", {"lock"}) /\ own' = own
         /\ Lock(Mover) => Goes("lock", {"detach"}) /\ WalkKept
         /\ DetachFree(Mover) =>
              Goes("detach", {"walk"}) /\ own'.start = free /\ own'.cur = own.cur /\ own'.batch = own.batch
         /\ WalkFree(Mover) =>
              /\ at = "walk" /\ own'.start = own.start /\ own'.batch = own.batch
              /\ \/ at' = "retain" /\ own' = own
                 \/ /\ at' = "unlink" /\ own'.cur = own.cur /\ Cell(Mover) # Null
                    /\ own'.page = Cell(Mover) /\ own'.nxt = nextFree[Cell(Mover)]
                 \/ at' = "walk" /\ Cell(Mover) # Null /\ own'.cur = Cell(Mover)
         /\ Unlink(Mover) =>
              /\ Goes("unlink", {"walk"}) /\ own'.cur = own.cur
              /\ \/ /\ Cell(Mover) = own.page /\ own.cur = Null /\ own'.start = own.nxt
                    /\ own'.batch = Append(own.batch, own.page) /\ nextFree' = nextFree
                 \/ /\ Cell(Mover) = own.page /\ own.cur # Null /\ own'.start = own.start
                    /\ own'.batch = Append(own.batch, own.page)
                    /\ nextFree' = [nextFree EXCEPT ![own.cur] = own.nxt]
                 \/ Cell(Mover) # own.page /\ own' = own /\ nextFree' = nextFree
         /\ RetainUntouched(Mover) =>
              /\ Goes("retain", {"unfull"}) /\ own'.start = own.start
              /\ own'.batch = Kept(own.batch, {p \in Pages : Untouched(p)})
         /\ RemoveFromFull(Mover) =>
              /\ at = "unfull" /\ own' = own
              /\ at' = (IF own.batch = <<>> THEN "restore" ELSE "resetDelay")
         /\ ResetDelay(Mover) => Goes("resetDelay", {"grab"}) /\ own' = own
         /\ GrabToFree(Mover) =>
              /\ Goes("grab", {"give"}) /\ own'.start = own.start /\ own'.batch = own.batch /\ own'.rest = toFree
         /\ GiveToFree(Mover) =>
              /\ at = "give" /\ own' = own /\ at' = (IF toFree = <<>> THEN "restore" ELSE "panic")
         /\ RestoreFree(Mover) =>
              /\ at = "restore" /\ own' = own /\ at' = (IF free = Null THEN "uncount" ELSE "panic")
         /\ UncountPages(Mover) => Goes("uncount", {"unshrink"}) /\ own' = own
         /\ EndShrinking(Mover) => Goes("unshrink", {"unlock"}) /\ own' = own
         /\ Unlock(Mover) => Goes("unlock", {"idle"}) /\ own' = NoLocals
<1>0. Mover \in Threads /\ pc \in [Threads -> Labels] /\ loc \in [Threads -> Locals] /\ own \in Locals
  BY TheMover DEF TypeInv, ThreadType, own
<1> USE <1>0 DEF at, own, Goto, Goes, WalkKept, Locals
<1>1. StartShrink(Mover) => Goes("idle", {"lock"}) /\ own' = own
  BY DEF StartShrink
<1>2. Lock(Mover) => Goes("lock", {"detach"}) /\ WalkKept
  BY DEF Lock
<1>3. DetachFree(Mover) =>
        Goes("detach", {"walk"}) /\ own'.start = free /\ own'.cur = own.cur /\ own'.batch = own.batch
  BY DEF DetachFree
<1>4. WalkFree(Mover) =>
        /\ at = "walk" /\ own'.start = own.start /\ own'.batch = own.batch
        /\ \/ at' = "retain" /\ own' = own
           \/ /\ at' = "unlink" /\ own'.cur = own.cur /\ Cell(Mover) # Null
              /\ own'.page = Cell(Mover) /\ own'.nxt = nextFree[Cell(Mover)]
           \/ at' = "walk" /\ Cell(Mover) # Null /\ own'.cur = Cell(Mover)
  <2> DEFINE c == Cell(Mover)
  <2> SUFFICES ASSUME WalkFree(Mover)
               PROVE  /\ at = "walk" /\ own'.start = own.start /\ own'.batch = own.batch
                      /\ \/ at' = "retain" /\ own' = own
                         \/ /\ at' = "unlink" /\ own'.cur = own.cur /\ c # Null
                            /\ own'.page = c /\ own'.nxt = nextFree[c]
                         \/ at' = "walk" /\ c # Null /\ own'.cur = c
    OBVIOUS
  <2>1. /\ at = "walk"
        /\ \/ at' = "retain" /\ own' = own
           \/ c # Null /\ at' = "unlink" /\ own' = [own EXCEPT !.page = c, !.nxt = nextFree[c]]
           \/ c # Null /\ at' = "walk" /\ own' = [own EXCEPT !.cur = c]
    BY DEF WalkFree
  <2> HIDE DEF c
  <2> QED
    BY <2>1
<1>5. Unlink(Mover) =>
        /\ Goes("unlink", {"walk"}) /\ own'.cur = own.cur
        /\ \/ /\ Cell(Mover) = own.page /\ own.cur = Null /\ own'.start = own.nxt
              /\ own'.batch = Append(own.batch, own.page) /\ nextFree' = nextFree
           \/ /\ Cell(Mover) = own.page /\ own.cur # Null /\ own'.start = own.start
              /\ own'.batch = Append(own.batch, own.page)
              /\ nextFree' = [nextFree EXCEPT ![own.cur] = own.nxt]
           \/ Cell(Mover) # own.page /\ own' = own /\ nextFree' = nextFree
  <2> DEFINE c == Cell(Mover) taken == Append(own.batch, own.page)
  <2> SUFFICES ASSUME Unlink(Mover)
               PROVE  /\ at = "unlink" /\ at' = "walk" /\ own'.cur = own.cur
                      /\ \/ /\ c = own.page /\ own.cur = Null /\ own'.start = own.nxt
                            /\ own'.batch = taken /\ nextFree' = nextFree
                         \/ /\ c = own.page /\ own.cur # Null /\ own'.start = own.start
                            /\ own'.batch = taken /\ nextFree' = [nextFree EXCEPT ![own.cur] = own.nxt]
                         \/ c # own.page /\ own' = own /\ nextFree' = nextFree
    OBVIOUS
  <2>1. /\ at = "unlink" /\ at' = "walk"
        /\ \/ /\ c = own.page /\ own.cur = Null /\ nextFree' = nextFree
              /\ own' = [own EXCEPT !.start = own.nxt, !.batch = taken]
           \/ /\ c = own.page /\ own.cur # Null /\ nextFree' = [nextFree EXCEPT ![own.cur] = own.nxt]
              /\ own' = [own EXCEPT !.batch = taken]
           \/ c # own.page /\ own' = own /\ nextFree' = nextFree
    BY DEF Unlink
  <2> HIDE DEF c, taken
  <2> QED
    BY <2>1
<1>6. RetainUntouched(Mover) =>
        /\ Goes("retain", {"unfull"}) /\ own'.start = own.start
        /\ own'.batch = Kept(own.batch, {p \in Pages : Untouched(p)})
  <2> DEFINE k == Kept(own.batch, {p \in Pages : Untouched(p)})
  <2>1. RetainUntouched(Mover) =>
          /\ at = "retain" /\ pc' = [pc EXCEPT ![Mover] = "unfull"]
          /\ loc' = [loc EXCEPT ![Mover] = [own EXCEPT !.batch = k]]
    BY DEF RetainUntouched
  <2> HIDE DEF k
  <2>2. RetainUntouched(Mover) => Goes("retain", {"unfull"}) /\ own'.start = own.start /\ own'.batch = k
    BY <2>1
  <2> QED
    BY <2>2 DEF k
<1>7. RemoveFromFull(Mover) =>
        /\ at = "unfull" /\ own' = own
        /\ at' = (IF own.batch = <<>> THEN "restore" ELSE "resetDelay")
  BY DEF RemoveFromFull
<1>8. ResetDelay(Mover) => Goes("resetDelay", {"grab"}) /\ own' = own
  BY DEF ResetDelay
<1>9. GrabToFree(Mover) =>
        /\ Goes("grab", {"give"}) /\ own'.start = own.start /\ own'.batch = own.batch /\ own'.rest = toFree
  BY DEF GrabToFree
<1>10. GiveToFree(Mover) =>
         /\ at = "give" /\ own' = own /\ at' = (IF toFree = <<>> THEN "restore" ELSE "panic")
  BY DEF GiveToFree
<1>11. RestoreFree(Mover) =>
         /\ at = "restore" /\ own' = own /\ at' = (IF free = Null THEN "uncount" ELSE "panic")
  BY DEF RestoreFree
<1>12. UncountPages(Mover) => Goes("uncount", {"unshrink"}) /\ own' = own
  BY DEF UncountPages
<1>13. EndShrinking(Mover) => Goes("unshrink", {"unlock"}) /\ own' = own
  BY DEF EndShrinking
<1>14. Unlock(Mover) => Goes("unlock", {"idle"}) /\ own' = NoLocals
  BY DEF Unlock, Return
<1> QED
  BY <1>1, <1>2, <1>3, <1>4, <1>5, <1>6, <1>7, <1>8, <1>9, <1>10, <1>11, <1>12, <1>13, <1>14

-----------------------------------------------------------------------------
(* Who is where.                                                           *)

\* with_capacity.
LEMMA ActorInvInit ==
  ASSUME OneMover, Init
  PROVE  ActorInv
<1>1. \A t \in Threads : pc[t] = "idle" /\ loc[t] = NoLocals
  BY DEF Init
<1>2. Mover \in Threads /\ arena = "open"
  BY TheMover DEF Init
<1> QED
  BY <1>1, <1>2 DEF ActorInv, CleanInv, Quiet, FindPlace, NoLocals, at, own

\* The mover's locals are empty where it needs them to be.
LEMMA CleanSteps ==
  ASSUME OneMover, TypeInv, CleanInv, MoverStep, at \in FindPlace => arena = "open"
  PROVE  CleanInv'
<1> USE DEF CleanInv, NoLocals, FindPlace, Goes
<1>1. CASE StartAlloc(Mover) \/ LoadHead(Mover) \/ AcquireFreeBlock(Mover) \/ LoadNextFree(Mover)
           \/ PopFree(Mover) \/ UnmarkPage(Mover) \/ TryGuard(Mover) \/ SeeLocked(Mover)
  BY <1>1, SearchEffects DEF ListsKept
<1>2. CASE RecheckFree(Mover) \/ LoadPending(Mover) \/ TakePending(Mover) \/ InstallPending(Mover)
           \/ LoadToFree(Mover)
  BY <1>2, RefillEffects DEF ListsKept
<1>r. CASE TakeToFree(Mover) /\ toFree # <<>>
  BY <1>r, ReuseEffects
<1>n. CASE TakeToFree(Mover) /\ toFree = <<>>
  BY <1>n, RefillEffects
<1>a. CASE AllocNewPages(Mover)
  BY <1>a, AllocEffects
<1>3. CASE PutFull(Mover) \/ PutFree(Mover) \/ CountPages(Mover) \/ PutBackRest(Mover)
           \/ ZeroDelay(Mover) \/ Release(Mover)
  BY <1>3, RefillEffects
<1>4. CASE LoadDelay(Mover) \/ BumpDelay(Mover) \/ SweepToFree(Mover)
           \/ (at = "dropPages" /\ DropPages(Mover)) \/ EndOfSweep(Mover)
  BY <1>4, SweepEffects
<1>5. CASE StartShrink(Mover) \/ Lock(Mover) \/ DetachFree(Mover) \/ WalkFree(Mover) \/ Unlink(Mover)
           \/ RetainUntouched(Mover) \/ RemoveFromFull(Mover)
  BY <1>5, ShrinkEffects DEF WalkKept
<1>6. CASE ResetDelay(Mover) \/ GrabToFree(Mover) \/ GiveToFree(Mover) \/ RestoreFree(Mover)
           \/ UncountPages(Mover) \/ EndShrinking(Mover) \/ Unlock(Mover)
  BY <1>6, ShrinkEffects
<1>7. at \in FindPlace /\ DropPages(Mover) => at = "dropPages"
  BY DEF DropPages, at
<1> QED
  BY <1>1, <1>2, <1>r, <1>n, <1>a, <1>3, <1>4, <1>5, <1>6, <1>7 DEF MoverStep, FindPlaceStep, ShrinkStep

\* While it drops handles it needs nothing.
LEMMA CleanOthers ==
  ASSUME OneMover, TypeInv, CleanInv, OtherStep(Mover)
  PROVE  CleanInv'
<1>0. Mover \in Threads /\ pc \in [Threads -> Labels] /\ loc \in [Threads -> Locals] /\ own \in Locals
  BY TheMover DEF TypeInv, ThreadType, own
<1>1. at' \in DropBlock \cup {"dropArena", "wild"} \/ (at' = "idle" /\ own' = NoLocals)
      \/ (at' = at /\ own' = own)
  <2> USE <1>0 DEF at, own, Goto, Return, DropBlock
  <2>1. CASE LoadMark(Mover) \/ SwapMark(Mover) \/ UpgradePending(Mover)
    BY <2>1 DEF LoadMark, SwapMark, UpgradePending
  <2>2. CASE LinkPending(Mover) \/ PushPending(Mover)
    BY <2>2 DEF LinkPending, PushPending
  <2>3. CASE TouchFreed(Mover)
    BY <2>3 DEF TouchFreed
  <2>4. CASE \E p \in Pages : GiveBlock(Mover, p)
    BY <2>4 DEF GiveBlock
  <2>5. CASE StartDropArena(Mover) \/ EndDropArena(Mover)
    BY <2>5 DEF StartDropArena, EndDropArena
  <2>6. CASE at = "dropArena" /\ DropPages(Mover)
    BY <2>6 DEF DropPages
  <2> QED
    BY <2>1, <2>2, <2>3, <2>4, <2>5, <2>6 DEF OtherStep, DropBlockStep
<1> QED
  BY <1>1 DEF CleanInv, DropBlock, FindPlace

\* Who drops the arena, and when.
LEMMA ArenaSteps ==
  ASSUME OneMover, TypeInv, ActorInv, NEW t \in Threads, OtherStep(t)
  PROVE  \/ arena' = arena /\ (pc'[t] = "dropArena" => pc[t] = "dropArena")
         \/ arena = "open" /\ arena' = "dropping" /\ at \in Quiet /\ pc'[t] = "dropArena"
         \/ pc[t] = "dropArena" /\ arena' = "dropped" /\ pc'[t] = "idle"
<1>0. Mover \in Threads /\ pc \in [Threads -> Labels] /\ at \in Labels
  BY TheMover DEF TypeInv, ThreadType, at
<1> USE <1>0 DEF Goto, Return, arenaVars
<1>1. CASE LoadMark(t) \/ SwapMark(t) \/ UpgradePending(t)
  BY <1>1 DEF LoadMark, SwapMark, UpgradePending
<1>2. CASE LinkPending(t) \/ PushPending(t)
  BY <1>2 DEF LinkPending, PushPending
<1>3. CASE TouchFreed(t)
  BY <1>3 DEF TouchFreed
<1>4. CASE \E p \in Pages : GiveBlock(t, p)
  BY <1>4 DEF GiveBlock
<1>5. CASE StartDropArena(t)
  <2>1. arena = "open" /\ arena' = "dropping" /\ pc'[t] = "dropArena" /\ at \notin FindPlace \cup Shrink
    BY <1>5 DEF StartDropArena, at
  <2> QED
    BY <2>1, QuietLabels
<1>6. CASE EndDropArena(t)
  BY <1>6 DEF EndDropArena
<1>7. CASE pc[t] = "dropArena" /\ DropPages(t)
  BY <1>7 DEF DropPages
<1> QED
  BY <1>1, <1>2, <1>3, <1>4, <1>5, <1>6, <1>7 DEF OtherStep, DropBlockStep

\* One step of the one or of the others.
LEMMA ActorInvNext ==
  ASSUME OneMover, TypeInv, ActorInv, [Next]_vars
  PROVE  ActorInv'
<1>0. Mover \in Threads /\ pc \in [Threads -> Labels] /\ loc \in [Threads -> Locals]
  BY TheMover DEF TypeInv, ThreadType
<1>1. CASE UNCHANGED vars
  BY <1>1 DEF ActorInv, CleanInv, at, own, vars
<1>2. ASSUME NEW t \in Threads, OtherStep(t) PROVE ActorInv'
  <2>1. /\ Moves(t) /\ pc'[t] \in Quiet
        /\ t # Mover => at' = at /\ own' = own
    BY <1>2, OtherMoves
  <2>2. \A u \in Threads \ {t} : pc'[u] = pc[u]
    BY <1>0, <2>1 DEF Moves
  <2>3. \A u \in Threads \ {Mover} : pc'[u] \in Quiet
    BY <2>1, <2>2 DEF ActorInv
  <2>4. CleanInv'
    <3>1. CASE t = Mover
      BY <1>2, <3>1, CleanOthers DEF ActorInv
    <3>2. CASE t # Mover
      BY <2>1, <3>2 DEF ActorInv, CleanInv
    <3> QED
      BY <3>1, <3>2
  <2>5. /\ arena' # "open" => at' \in Quiet
        /\ \A u \in Threads : pc'[u] = "dropArena" => arena' = "dropping"
        /\ \A u, v \in Threads : pc'[u] = "dropArena" /\ pc'[v] = "dropArena" => u = v
    <3>1. at \in Quiet => at' \in Quiet
      BY <2>1 DEF at
    <3>2. /\ arena # "open" => at \in Quiet
          /\ \A u \in Threads : pc[u] = "dropArena" => arena = "dropping"
          /\ \A u, v \in Threads : pc[u] = "dropArena" /\ pc[v] = "dropArena" => u = v
      BY DEF ActorInv
    <3>3. CASE arena' = arena /\ (pc'[t] = "dropArena" => pc[t] = "dropArena")
      BY <2>2, <3>1, <3>2, <3>3
    <3>4. CASE arena = "open" /\ arena' = "dropping" /\ at \in Quiet /\ pc'[t] = "dropArena"
      BY <2>2, <3>1, <3>2, <3>4
    <3>5. CASE pc[t] = "dropArena" /\ arena' = "dropped" /\ pc'[t] = "idle"
      BY <2>2, <3>1, <3>2, <3>5
    <3> QED
      BY <1>2, <3>3, <3>4, <3>5, ArenaSteps
  <2> QED
    BY <2>3, <2>4, <2>5 DEF ActorInv
<1>3. CASE MoverStep
  <2>1. /\ at' \notin {"dropArena", "wild"} \cup DropBlock
        /\ arena = "open" /\ arena' = "open"
        /\ \A t \in Threads \ {Mover} : pc'[t] = pc[t] /\ loc'[t] = loc[t]
    BY <1>3, MoverMoves
  <2>2. CleanInv'
    BY <1>3, <2>1, CleanSteps DEF ActorInv
  <2>3. \A t \in Threads : pc'[t] # "dropArena"
    BY <2>1 DEF ActorInv, at
  <2> QED
    BY <2>1, <2>2, <2>3 DEF ActorInv
<1> QED
  BY <1>1, <1>2, <1>3, Steps DEF Next

-----------------------------------------------------------------------------
(* Where the pages are.                                                    *)

\* Where the mover has pages that are in full_list no more, or not yet: a
\* batch, and what it took from to_free besides.
GivenAt == {"resetDelay", "grab", "give", "putFull", "dropPages"}
RestAt == {"give", "putFull", "putFree", "count", "rest"}
\* Where it has some that are in full_list, but in no list of free pages.
AsideAt == {"walk", "unlink", "retain", "unfull", "putFree"}

Given == IF at \in GivenAt THEN ToSet(own.batch) ELSE {}
Rest == IF at \in RestAt THEN ToSet(own.rest) ELSE {}
Aside == IF at \in AsideAt THEN ToSet(own.batch) ELSE IF at = "unmark" THEN {own.page} ELSE {}

\* Every page is in one place, once.
PlaceInv ==
  /\ IsInjective(full) /\ IsInjective(toFree)
  /\ at \in GivenAt \cup AsideAt => IsInjective(own.batch)
  /\ at \in RestAt => IsInjective(own.rest)
  /\ ToSet(full) \cup ToSet(toFree) \cup Given \cup Rest \subseteq 1 .. made
  /\ ToSet(full) \cap ToSet(toFree) = {}
  /\ Given \cap (ToSet(full) \cup ToSet(toFree) \cup Rest) = {}
  /\ Rest \cap (ToSet(full) \cup ToSet(toFree)) = {}
  /\ Aside \subseteq ToSet(full)

\* Nothing is known of a page before it is made; after that it is marked while it
\* is not in full_list.
MadeInv ==
  /\ \A p \in Pages : used[p] > 0 => p <= made
  /\ \A p \in 1 .. made : p \in marked \cup ToSet(full)
  /\ \A t \in Threads : pc[t] \in DropBlock => loc[t].page \in 1 .. made

\* No block of a page is used that is not in full_list, or that is about to be
\* taken from there.
UnusedInv ==
  /\ \A p \in ToSet(toFree) \cup Given \cup Rest : used[p] = 0
  /\ at \in {"walk", "unlink", "retain", "unfull"} => \A p \in ToSet(own.batch) : used[p] = 0
  /\ at = "unlink" => used[own.page] = 0

\* The pages of the arena: while it is open, those that have its bit.
Whole == ToSet(full) \cup ToSet(toFree) \cup Given \cup Rest

\* A page is freed when neither the arena nor a block holds it; the arena lets
\* go each page once.
WordInv ==
  /\ arenaBit \subseteq 1 .. made
  /\ \A p \in Pages : p \in freed <=> p <= made /\ used[p] = 0 /\ p \notin arenaBit
  /\ arena = "open" => arenaBit = Whole
  /\ \A t \in Threads : pc[t] = "dropArena" => IsInjective(loc[t].batch) /\ ToSet(loc[t].batch) = arenaBit
  /\ arena = "dropped" => arenaBit = {}

\* Where a thread has set the mark, and is about to push the page.
Pushing == {"upgrade", "push", "pushCas"}

\* l, p and i are the pages of the free list, the pending one and the one in
\* the mover's hand.
Chained(l, p, i) ==
  /\ IsChain(nextFree, l, free) /\ IsChain(nextFree, p, pending) /\ IsChain(nextFree, i, InHand(Mover))
  /\ l \cap p = {} /\ l \cap i = {} /\ p \cap i = {}

\* They and the pages that were taken out of them are in full_list.
InFull(s) ==
  /\ s \cap Aside = {}
  /\ s \cup Aside \subseteq ToSet(full) \cap marked

\* Those that are about to push a page, which is in no list, do so alone.
PushersApart(s) ==
  \A t \in Threads : pc[t] \in Pushing =>
    /\ loc[t].page \in (ToSet(full) \cap marked) \ (s \cup Aside)
    /\ pc[t] = "pushCas" => nextFree[loc[t].page] = loc[t].nxt
    /\ \A u \in Threads : pc[u] \in Pushing /\ loc[u].page = loc[t].page => t = u

\* The pages in full_list that are in no list of free pages: drop_block alone
\* writes their next_free.
Settled(s) == (ToSet(full) \cap marked) \ (s \cup Aside)

\* If they are marked, a thread is about to push them.
Pushed(s) ==
  arena = "open" => \A x \in Settled(s) : \E t \in Threads : pc[t] \in Pushing /\ loc[t].page = x

\* What the mover has read of the lists is so still.
ReadsInv(i) ==
  /\ at \in {"acquire", "next", "cas"} => free # Null /\ own.page = free
  /\ at = "cas" => own.nxt = nextFree[free]
  /\ at \in {"walk", "unlink"} /\ own.cur # Null => own.cur \in i
  /\ at = "unlink" => own.page # Null /\ own.page = Cell(Mover) /\ own.nxt = nextFree[own.page]
  /\ at \in {"putFull", "putFree"} =>
       own.batch # <<>> /\ IsChain(nextFree, ToSet(own.batch), Head(own.batch))
  /\ at \in {"putFull", "putFree"} => ToSet(own.batch) \subseteq marked

Lists(l, p, i) ==
  /\ Chained(l, p, i) /\ InFull(l \cup p \cup i)
  /\ PushersApart(l \cup p \cup i) /\ Pushed(l \cup p \cup i) /\ ReadsInv(i)

ListInv == \E l \in SUBSET Pages, p \in SUBSET Pages, i \in SUBSET Pages : Lists(l, p, i)

\* What the proofs below use of every state.
Known == TypeInv /\ WriterInv /\ ActorInv

MoveInv == PlaceInv /\ MadeInv /\ UnusedInv /\ WordInv /\ ListInv

-----------------------------------------------------------------------------
(* Lemmas.                                                                 *)

\* A list without its first page.
LEMMA FirstAndRest ==
  ASSUME NEW S, NEW s \in Seq(S), s # <<>>
  PROVE  /\ Tail(s) \in Seq(S) /\ Len(s) = Len(Tail(s)) + 1 /\ Head(s) \in S
         /\ ToSet(s) = {Head(s)} \cup ToSet(Tail(s))
         /\ IsInjective(s) => IsInjective(Tail(s)) /\ Head(s) \notin ToSet(Tail(s))
<1> DEFINE r == Tail(s)
           n == Len(s)
<1>1. /\ n \in Nat \ {0} /\ DOMAIN s = 1 .. n /\ r \in Seq(S) /\ Len(r) = n - 1 /\ DOMAIN r = 1 .. n - 1
      /\ Head(s) = s[1] /\ \A i \in 1 .. n : s[i] \in S
      /\ \A i \in 1 .. n - 1 : r[i] = s[i + 1]
  OBVIOUS
<1> HIDE DEF r, n
<1>2. ToSet(s) = {Head(s)} \cup ToSet(r)
  <2>1. ASSUME NEW x \in ToSet(s) PROVE x \in {Head(s)} \cup ToSet(r)
    <3>1. PICK i \in 1 .. n : x = s[i]
      BY <1>1 DEF ToSet
    <3>2. CASE i = 1
      BY <1>1, <3>1, <3>2
    <3>3. CASE i # 1
      <4>1. i - 1 \in 1 .. n - 1 /\ r[i - 1] = s[i]
        BY <1>1, <3>3
      <4> QED
        BY <1>1, <3>1, <4>1 DEF ToSet
    <3> QED
      BY <3>2, <3>3
  <2>2. ASSUME NEW x \in ToSet(r) PROVE x \in ToSet(s)
    <3>1. PICK i \in 1 .. n - 1 : x = r[i]
      BY <1>1 DEF ToSet
    <3>2. i + 1 \in 1 .. n /\ r[i] = s[i + 1]
      BY <1>1
    <3> QED
      BY <1>1, <3>1, <3>2 DEF ToSet
  <2>3. Head(s) \in ToSet(s)
    BY <1>1 DEF ToSet
  <2> QED
    BY <2>1, <2>2, <2>3
<1>3. ASSUME IsInjective(s) PROVE IsInjective(r) /\ Head(s) \notin ToSet(r)
  <2>1. \A i, j \in 1 .. n : s[i] = s[j] => i = j
    BY <1>1, <1>3 DEF IsInjective
  <2>2. \A i, j \in 1 .. n - 1 : r[i] = r[j] => i = j
    <3> SUFFICES ASSUME NEW i \in 1 .. n - 1, NEW j \in 1 .. n - 1, r[i] = r[j] PROVE i = j
      OBVIOUS
    <3>1. i + 1 \in 1 .. n /\ j + 1 \in 1 .. n /\ s[i + 1] = s[j + 1]
      BY <1>1
    <3> QED
      BY <2>1, <3>1
  <2>3. ASSUME NEW i \in 1 .. n - 1, r[i] = s[1] PROVE FALSE
    <3>1. i + 1 \in 1 .. n /\ 1 \in 1 .. n /\ s[i + 1] = s[1] /\ i + 1 # 1
      BY <1>1, <2>3
    <3> QED
      BY <2>1, <3>1
  <2> QED
    BY <1>1, <2>2, <2>3 DEF IsInjective, ToSet
<1>4. /\ r \in Seq(S) /\ n = Len(r) + 1 /\ Head(s) \in S
      /\ ToSet(s) = {Head(s)} \cup ToSet(r)
      /\ IsInjective(s) => IsInjective(r) /\ Head(s) \notin ToSet(r)
  BY <1>1, <1>2, <1>3
<1> QED
  BY <1>4 DEF r, n

\* The empty list.
LEMMA NoPages == ToSet(<<>>) = {} /\ IsInjective(<<>>)
BY DEF ToSet, IsInjective

\* The members of a list of pages are pages.
LEMMA Members ==
  ASSUME NEW s \in Seq(Pages)
  PROVE  ToSet(s) \subseteq Pages
BY DEF ToSet

\* A thread that is in neither operation has no pages.
LEMMA QuietHands ==
  ASSUME at \in Quiet
  PROVE  /\ Given = {} /\ Rest = {} /\ Aside = {} /\ InHand(Mover) = Null
         /\ at \notin GivenAt \cup RestAt \cup AsideAt
BY DEF Quiet, Given, Rest, Aside, InHand, GivenAt, RestAt, AsideAt, DropBlock, Shrink, at

\* What the others do to what the mover has: nothing.
LEMMA OtherHands ==
  ASSUME OneMover, Known, PlaceInv, NEW t \in Threads, OtherStep(t)
  PROVE  /\ t # Mover => /\ Given' = Given /\ Rest' = Rest /\ Aside' = Aside
                         /\ InHand(Mover)' = InHand(Mover) /\ at' = at /\ own' = own
         /\ t = Mover => /\ Given' = {} /\ Rest' = {} /\ Aside' = {} /\ InHand(Mover)' = Null
                         /\ at' \in Quiet
         /\ PlaceInv'
<1>1. /\ t # Mover => at' = at /\ own' = own
      /\ t = Mover => at' \in Quiet
      /\ UNCHANGED <<free, full, toFree, npages, made>>
  BY OtherMoves DEF Known, at
<1>2. t # Mover => /\ Given' = Given /\ Rest' = Rest /\ Aside' = Aside
                   /\ InHand(Mover)' = InHand(Mover)
  BY <1>1 DEF Given, Rest, Aside, InHand, at, own
<1>3. ASSUME at' \in Quiet
      PROVE  /\ Given' = {} /\ Rest' = {} /\ Aside' = {} /\ InHand(Mover)' = Null
             /\ at' \notin GivenAt \cup RestAt \cup AsideAt
  BY <1>3 DEF Quiet, Given, Rest, Aside, InHand, GivenAt, RestAt, AsideAt, DropBlock, Shrink, at
<1>4. PlaceInv'
  BY <1>1, <1>2, <1>3 DEF PlaceInv
<1> QED
  BY <1>1, <1>2, <1>3, <1>4

-----------------------------------------------------------------------------
(* The mover's pages stay in one place.                                    *)

\* What lets it stay so.
LEMMA PlaceKept ==
  ASSUME PlaceInv, UNCHANGED <<full, toFree, made>>,
         Given' \subseteq Given, Rest' \subseteq Rest, Aside' \subseteq ToSet(full),
         at' \in GivenAt \cup AsideAt => IsInjective(own'.batch),
         at' \in RestAt => IsInjective(own'.rest)
  PROVE  PlaceInv'
BY DEF PlaceInv

\* In particular where the mover has none.
LEMMA PlaceIdle ==
  ASSUME PlaceInv, UNCHANGED <<full, toFree, made>>,
         at' \notin GivenAt \cup RestAt \cup AsideAt \cup {"unmark"}
  PROVE  PlaceInv'
<1>1. Given' = {} /\ Rest' = {} /\ Aside' = {}
  BY DEF Given, Rest, Aside
<1> QED
  BY <1>1, PlaceKept

\* find_place, where it changes nothing but its own locals.
LEMMA PlaceSearch ==
  ASSUME OneMover, Known, MoveInv,
         \/ StartAlloc(Mover) \/ LoadHead(Mover) \/ AcquireFreeBlock(Mover) \/ LoadNextFree(Mover)
         \/ PopFree(Mover) \/ UnmarkPage(Mover) \/ TryGuard(Mover) \/ SeeLocked(Mover)
         \/ RecheckFree(Mover) \/ LoadPending(Mover) \/ TakePending(Mover) \/ InstallPending(Mover)
         \/ LoadToFree(Mover) \/ ZeroDelay(Mover) \/ Release(Mover)
         \/ LoadDelay(Mover) \/ BumpDelay(Mover) \/ EndOfSweep(Mover)
  PROVE  PlaceInv'
<1>0. PlaceInv /\ TypeInv
  BY DEF MoveInv, Known
<1> USE DEF Goes, GivenAt, RestAt, AsideAt, arenaVars, listVars
<1>1. CASE PopFree(Mover) /\ at' = "unmark"
  <2>1. /\ UNCHANGED <<full, toFree, made>> /\ own' = own /\ own.page = free /\ free # Null
        /\ at = "cas"
    BY <1>0, <1>1, SearchEffects DEF PopFree, MoveInv, ListInv, Lists, ReadsInv
  <2>2. own.page \in ToSet(full)
    BY <2>1 DEF MoveInv, ListInv, Lists, Chained, InFull, IsChain
  <2>3. Given' = {} /\ Rest' = {} /\ Aside' = {own.page}
    BY <1>1, <2>1 DEF Given, Rest, Aside
  <2> QED
    BY <1>0, <1>1, <2>1, <2>2, <2>3, PlaceKept
<1>2. CASE StartAlloc(Mover) \/ LoadHead(Mover) \/ AcquireFreeBlock(Mover) \/ LoadNextFree(Mover)
           \/ (PopFree(Mover) /\ at' # "unmark") \/ UnmarkPage(Mover) \/ TryGuard(Mover) \/ SeeLocked(Mover)
  <2>1. UNCHANGED <<full, toFree, made>>
    BY <1>2 DEF StartAlloc, LoadHead, AcquireFreeBlock, LoadNextFree, PopFree, UnmarkPage, TryGuard, SeeLocked
  <2>2. at' \notin GivenAt \cup RestAt \cup AsideAt \cup {"unmark"}
    BY <1>0, <1>2, SearchEffects
  <2> QED
    BY <1>0, <2>1, <2>2, PlaceIdle
<1>3. CASE RecheckFree(Mover) \/ LoadPending(Mover) \/ TakePending(Mover) \/ InstallPending(Mover)
           \/ LoadToFree(Mover) \/ ZeroDelay(Mover) \/ Release(Mover)
  <2>1. UNCHANGED <<full, toFree, made>>
    BY <1>3 DEF RecheckFree, LoadPending, TakePending, InstallPending, LoadToFree, ZeroDelay, Release
  <2>2. at' \notin GivenAt \cup RestAt \cup AsideAt \cup {"unmark"}
    BY <1>0, <1>3, RefillEffects
  <2> QED
    BY <1>0, <2>1, <2>2, PlaceIdle
<1>4. CASE LoadDelay(Mover) \/ BumpDelay(Mover) \/ EndOfSweep(Mover)
  <2>1. UNCHANGED <<full, toFree, made>>
    BY <1>4 DEF LoadDelay, BumpDelay, EndOfSweep
  <2>2. at' \notin GivenAt \cup RestAt \cup AsideAt \cup {"unmark"}
    BY <1>0, <1>4, SweepEffects
  <2> QED
    BY <1>0, <2>1, <2>2, PlaceIdle
<1> QED
  BY <1>1, <1>2, <1>3, <1>4

\* find_place, where it moves pages between to_free, its hands and full_list.
LEMMA PlaceRefill ==
  ASSUME OneMover, Known, MoveInv,
         \/ TakeToFree(Mover) \/ AllocNewPages(Mover) \/ PutFull(Mover) \/ PutFree(Mover)
         \/ CountPages(Mover) \/ PutBackRest(Mover)
         \/ SweepToFree(Mover) \/ (at = "dropPages" /\ DropPages(Mover))
  PROVE  PlaceInv'
<1>0. /\ PlaceInv /\ TypeInv /\ CleanInv /\ made \in Nat /\ MaxPages \in Nat
      /\ own.batch \in Seq(Pages) /\ own.rest \in Seq(Pages) /\ full \in Seq(Pages) /\ toFree \in Seq(Pages)
  <2>1. Mover \in Threads /\ loc \in [Threads -> Locals]
    BY TheMover DEF Known, TypeInv, ThreadType
  <2> QED
    BY <2>1, SharedArenaAssumption DEF MoveInv, Known, ActorInv, TypeInv, ArenaType, own, Locals
<1> USE DEF Goes, GivenAt, RestAt, AsideAt, arenaVars, listVars
<1>1. CASE TakeToFree(Mover) /\ toFree # <<>>
  <2>1. /\ at = "reuse" /\ at' = "putFull" /\ toFree' = <<>> /\ UNCHANGED <<full, made>>
        /\ own'.batch \in Seq(Pages) /\ own'.rest \in Seq(Pages)
        /\ ToSet(toFree) = ToSet(own'.rest) \cup ToSet(own'.batch)
        /\ IsInjective(toFree) => /\ IsInjective(own'.rest) /\ IsInjective(own'.batch)
                                  /\ ToSet(own'.rest) \cap ToSet(own'.batch) = {}
    BY <1>0, <1>1, ReuseEffects DEF TakeToFree
  <2>2. Given' = ToSet(own'.batch) /\ Rest' = ToSet(own'.rest) /\ Aside' = {}
    BY <2>1 DEF Given, Rest, Aside
  <2>3. /\ IsInjective(full) /\ IsInjective(toFree) /\ ToSet(full) \cap ToSet(toFree) = {}
        /\ ToSet(full) \cup ToSet(toFree) \subseteq 1 .. made
    BY <1>0 DEF PlaceInv
  <2> QED
    BY <2>1, <2>2, <2>3, NoPages DEF PlaceInv
<1>2. CASE TakeToFree(Mover) /\ toFree = <<>>
  <2>1. UNCHANGED <<full, toFree, made>>
    BY <1>2 DEF TakeToFree
  <2>2. at' \notin GivenAt \cup RestAt \cup AsideAt \cup {"unmark"}
    BY <1>0, <1>2, RefillEffects
  <2> QED
    BY <1>0, <2>1, <2>2, PlaceIdle
<1>3. CASE AllocNewPages(Mover)
  <2>1. /\ at = "allocate" /\ at' = "putFull" /\ own'.rest = own.rest /\ UNCHANGED <<full, toFree>>
    BY <1>0, <1>3, AllocEffects DEF AllocNewPages
  <2>2. PICK n \in Nat \ {0} : made' = made + n /\ own'.batch = NewList(made, n)
    BY <1>0, <1>3, AllocEffects
  <2>3. ToSet(own'.batch) = made + 1 .. made + n /\ IsInjective(own'.batch)
    BY <1>0, <2>2, NewListElements
  <2>4. own.rest = <<>>
    BY <1>0, <2>1 DEF CleanInv, FindPlace
  <2>5. Given' = made + 1 .. made + n /\ Rest' = {} /\ Aside' = {}
    BY <2>1, <2>3, <2>4, NoPages DEF Given, Rest, Aside
  <2>6. /\ IsInjective(full) /\ IsInjective(toFree) /\ ToSet(full) \cap ToSet(toFree) = {}
        /\ ToSet(full) \cup ToSet(toFree) \subseteq 1 .. made
    BY <1>0 DEF PlaceInv
  <2>7. 1 .. made \subseteq 1 .. made' /\ made + 1 .. made + n \subseteq 1 .. made'
        /\ (made + 1 .. made + n) \cap (1 .. made) = {}
    BY <1>0, <2>2
  <2>8. Given' \cap (ToSet(full) \cup ToSet(toFree)) = {}
    BY <2>5, <2>6, <2>7
  <2>9. ToSet(full) \cup ToSet(toFree) \cup Given' \subseteq 1 .. made'
    BY <2>5, <2>6, <2>7
  <2> QED
    BY <2>1, <2>3, <2>4, <2>5, <2>6, <2>8, <2>9, NoPages DEF PlaceInv
<1>4. CASE PutFull(Mover)
  <2>1. /\ at = "putFull" /\ at' = "putFree" /\ own' = own /\ full' = own.batch \o full
        /\ UNCHANGED <<toFree, made>>
    BY <1>0, <1>4, RefillEffects DEF PutFull, own
  <2>2. Given = ToSet(own.batch) /\ Given' = {} /\ Rest' = Rest /\ Aside' = ToSet(own.batch)
    BY <2>1 DEF Given, Rest, Aside
  <2>3. IsInjective(full') /\ ToSet(full') = ToSet(full) \cup ToSet(own.batch)
    BY <1>0, <2>1, <2>2, Joined DEF PlaceInv
  <2> QED
    BY <1>0, <2>1, <2>2, <2>3 DEF PlaceInv
<1>5. CASE PutFree(Mover) \/ CountPages(Mover)
  <2>1. /\ UNCHANGED <<full, toFree, made>> /\ own' = own
        /\ at \in {"putFree", "count"} /\ at' \in {"count", "panic", "rest", "release"}
    BY <1>0, <1>5, RefillEffects DEF PutFree, CountPages
  <2>2. Given' = {} /\ Rest' \subseteq Rest /\ Aside' = {}
    BY <2>1 DEF Given, Rest, Aside
  <2>3. IsInjective(own.rest)
    BY <1>0, <2>1 DEF PlaceInv
  <2> QED
    BY <1>0, <2>1, <2>2, <2>3, PlaceKept
<1>6. CASE PutBackRest(Mover)
  <2>1. /\ at = "rest" /\ own' = own /\ UNCHANGED <<full, made>>
        /\ at' \in {"release", "zeroDelay", "panic"} /\ (toFree' = own.rest \/ toFree' = toFree)
    BY <1>0, <1>6, RefillEffects DEF PutBackRest, own
  <2>2. Rest = ToSet(own.rest) /\ Given' = {} /\ Rest' = {} /\ Aside' = {}
    BY <2>1 DEF Given, Rest, Aside
  <2> QED
    BY <1>0, <2>1, <2>2 DEF PlaceInv
<1>7. CASE SweepToFree(Mover)
  <2>1. /\ at = "sweep" /\ at' = "dropPages" /\ own'.batch = toFree /\ toFree' = <<>>
        /\ UNCHANGED <<full, made>>
    BY <1>0, <1>7, SweepEffects DEF SweepToFree
  <2>2. Given' = ToSet(toFree) /\ Rest' = {} /\ Aside' = {}
    BY <2>1 DEF Given, Rest, Aside
  <2> QED
    BY <1>0, <2>1, <2>2, NoPages DEF PlaceInv
<1>8. CASE at = "dropPages" /\ DropPages(Mover)
  <2>1. /\ at' = "dropPages" /\ own.batch # <<>> /\ own'.batch = Tail(own.batch)
        /\ UNCHANGED <<full, toFree, made>>
    BY <1>0, <1>8, SweepEffects DEF DropPages
  <2>2. Given = ToSet(own.batch) /\ Given' = ToSet(own'.batch) /\ Rest' = {} /\ Aside' = {}
    BY <1>8, <2>1 DEF Given, Rest, Aside
  <2>3. IsInjective(own'.batch) /\ Given' \subseteq Given
    BY <1>0, <1>8, <2>1, <2>2, FirstAndRest DEF PlaceInv
  <2> QED
    BY <1>0, <2>1, <2>2, <2>3, PlaceKept
<1> QED
  BY <1>1, <1>2, <1>3, <1>4, <1>5, <1>6, <1>7, <1>8

\* shrink_to_fit.
LEMMA PlaceShrink ==
  ASSUME OneMover, Known, MoveInv, StartShrink(Mover) \/ ShrinkStep(Mover)
  PROVE  PlaceInv'
<1>0. /\ PlaceInv /\ TypeInv /\ CleanInv
      /\ own.batch \in Seq(Pages) /\ own.rest \in Seq(Pages) /\ full \in Seq(Pages) /\ toFree \in Seq(Pages)
      /\ own.page \in Pointer
  <2>1. Mover \in Threads /\ loc \in [Threads -> Locals]
    BY TheMover DEF Known, TypeInv, ThreadType
  <2> QED
    BY <2>1 DEF MoveInv, Known, ActorInv, TypeInv, ArenaType, own, Locals
<1> USE DEF Goes, GivenAt, RestAt, AsideAt, arenaVars, listVars
<1>1. CASE StartShrink(Mover) \/ Lock(Mover) \/ RestoreFree(Mover) \/ UncountPages(Mover)
           \/ EndShrinking(Mover) \/ Unlock(Mover)
  <2>1. UNCHANGED <<full, toFree, made>>
    BY <1>1 DEF StartShrink, Lock, RestoreFree, UncountPages, EndShrinking, Unlock
  <2>2. at' \notin GivenAt \cup RestAt \cup AsideAt \cup {"unmark"}
    BY <1>0, <1>1, ShrinkEffects
  <2> QED
    BY <1>0, <2>1, <2>2, PlaceIdle
<1>2. CASE DetachFree(Mover)
  <2>1. UNCHANGED <<full, toFree, made>> /\ at' = "walk" /\ own'.batch = <<>>
    BY <1>0, <1>2, ShrinkEffects DEF DetachFree, CleanInv
  <2>2. Given' = {} /\ Rest' = {} /\ Aside' = {}
    BY <2>1, NoPages DEF Given, Rest, Aside
  <2> QED
    BY <1>0, <2>1, <2>2, NoPages, PlaceKept
<1>3. CASE WalkFree(Mover)
  <2>1. /\ UNCHANGED <<full, toFree, made>> /\ at = "walk" /\ at' \in {"retain", "unlink", "walk"}
        /\ own'.batch = own.batch
    BY <1>0, <1>3, ShrinkEffects DEF WalkFree
  <2>2. Given' = {} /\ Rest' = {} /\ Aside' = Aside
    BY <2>1 DEF Given, Rest, Aside
  <2> QED
    BY <1>0, <2>1, <2>2, PlaceKept DEF PlaceInv
<1>4. CASE Unlink(Mover)
  <2>1. /\ UNCHANGED <<full, toFree, made>> /\ at = "unlink" /\ at' = "walk"
        /\ own'.batch = Append(own.batch, own.page) \/ own'.batch = own.batch
    BY <1>0, <1>4, ShrinkEffects DEF Unlink
  <2>2. Given' = {} /\ Rest' = {} /\ Aside = ToSet(own.batch) /\ Aside' = ToSet(own'.batch)
    BY <2>1 DEF Given, Rest, Aside
  <2>3. own.page \in ToSet(full) /\ own.page \in Pages /\ own.page \notin ToSet(own.batch)
    <3>1. PICK l \in SUBSET Pages, p \in SUBSET Pages, i \in SUBSET Pages : Lists(l, p, i)
      BY DEF MoveInv, ListInv
    <3>2. own.page # Null /\ own.page = Cell(Mover) /\ (own.cur # Null => own.cur \in i)
      BY <2>1, <3>1 DEF Lists, ReadsInv
    <3>3. IsChain(nextFree, i, own.start)
      BY <2>1, <3>1 DEF Lists, Chained, InHand, Shrink, at, own
    <3>4. own.page \in i
      BY <3>2, <3>3 DEF Cell, own, IsChain
    <3> QED
      BY <2>2, <3>1, <3>4 DEF Lists, InFull
  <2>4. IsInjective(own'.batch) /\ ToSet(own'.batch) \subseteq ToSet(full)
    <3>1. IsInjective(own.batch) /\ ToSet(own.batch) \subseteq ToSet(full)
      BY <1>0, <2>1, <2>2 DEF PlaceInv
    <3>2. /\ IsInjective(Append(own.batch, own.page))
          /\ ToSet(Append(own.batch, own.page)) = ToSet(own.batch) \cup {own.page}
      BY <1>0, <2>3, <3>1, Appended
    <3>3. ToSet(Append(own.batch, own.page)) \subseteq ToSet(full)
      BY <2>3, <3>1, <3>2
    <3> QED
      BY <2>1, <3>1, <3>2, <3>3
  <2> QED
    BY <1>0, <2>1, <2>2, <2>4, PlaceKept
<1>5. CASE RetainUntouched(Mover)
  <2> DEFINE k == {p \in Pages : Untouched(p)}
  <2>1. /\ UNCHANGED <<full, toFree, made>> /\ at = "retain" /\ at' = "unfull"
        /\ own'.batch = Kept(own.batch, k)
    BY <1>0, <1>5, ShrinkEffects DEF RetainUntouched
  <2>2. Given' = {} /\ Rest' = {} /\ Aside = ToSet(own.batch) /\ Aside' = ToSet(own'.batch)
    BY <2>1 DEF Given, Rest, Aside
  <2> HIDE DEF k
  <2>3. ToSet(own'.batch) \subseteq ToSet(own.batch) /\ (IsInjective(own.batch) => IsInjective(own'.batch))
    BY <1>0, <2>1, KeptElements
  <2> QED
    BY <1>0, <2>1, <2>2, <2>3, PlaceKept DEF PlaceInv
<1>6. CASE RemoveFromFull(Mover)
  <2>1. /\ UNCHANGED <<toFree, made>> /\ at = "unfull" /\ own' = own
        /\ full' = Kept(full, Pages \ ToSet(own.batch))
        /\ at' = (IF own.batch = <<>> THEN "restore" ELSE "resetDelay")
    BY <1>0, <1>6, ShrinkEffects DEF RemoveFromFull, own
  <2>2. Given' = ToSet(own.batch) /\ Rest' = {} /\ Aside' = {} /\ Aside = ToSet(own.batch)
    BY <2>1, NoPages DEF Given, Rest, Aside
  <2>3. ToSet(full') = ToSet(full) \cap (Pages \ ToSet(own.batch)) /\ IsInjective(full')
    BY <1>0, <2>1, KeptElements DEF PlaceInv
  <2>4. IsInjective(own.batch)
    BY <1>0, <2>1 DEF PlaceInv
  <2> QED
    BY <1>0, <2>1, <2>2, <2>3, <2>4 DEF PlaceInv
<1>7. CASE ResetDelay(Mover)
  <2>1. UNCHANGED <<full, toFree, made>> /\ at = "resetDelay" /\ at' = "grab" /\ own' = own
    BY <1>0, <1>7, ShrinkEffects DEF ResetDelay
  <2>2. Given' = Given /\ Rest' = {} /\ Aside' = {}
    BY <2>1 DEF Given, Rest, Aside
  <2> QED
    BY <1>0, <2>1, <2>2, PlaceKept DEF PlaceInv
<1>8. CASE GrabToFree(Mover)
  <2>1. /\ UNCHANGED <<full, made>> /\ at = "grab" /\ at' = "give" /\ own'.batch = own.batch
        /\ own'.rest = toFree /\ toFree' = <<>>
    BY <1>0, <1>8, ShrinkEffects DEF GrabToFree
  <2>2. Given' = Given /\ Rest' = ToSet(toFree) /\ Aside' = {}
    BY <2>1 DEF Given, Rest, Aside
  <2> QED
    BY <1>0, <2>1, <2>2, NoPages DEF PlaceInv
<1>9. CASE GiveToFree(Mover)
  <2>1. /\ UNCHANGED <<full, made>> /\ at = "give" /\ at' \in {"restore", "panic"} /\ own' = own
        /\ toFree' = own.rest \o own.batch
    BY <1>0, <1>9, ShrinkEffects DEF GiveToFree, own
  <2>2. Given = ToSet(own.batch) /\ Rest = ToSet(own.rest) /\ Given' = {} /\ Rest' = {} /\ Aside' = {}
    BY <2>1 DEF Given, Rest, Aside
  <2>3. IsInjective(toFree') /\ ToSet(toFree') = Given \cup Rest
    <3>1. IsInjective(own.rest) /\ IsInjective(own.batch) /\ ToSet(own.batch) \cap ToSet(own.rest) = {}
      BY <1>0, <2>1, <2>2 DEF PlaceInv
    <3> QED
      BY <1>0, <2>1, <2>2, <3>1, Joined
  <2> QED
    BY <1>0, <2>1, <2>2, <2>3 DEF PlaceInv
<1> QED
  BY <1>1, <1>2, <1>3, <1>4, <1>5, <1>6, <1>7, <1>8, <1>9 DEF ShrinkStep

\* One step of the mover.
LEMMA PlaceNext ==
  ASSUME OneMover, Known, MoveInv, MoverStep
  PROVE  PlaceInv'
<1>1. at \in FindPlace /\ DropPages(Mover) => at = "dropPages"
  BY DEF DropPages, at, FindPlace
<1> QED
  BY <1>1, PlaceSearch, PlaceRefill, PlaceShrink DEF MoverStep, FindPlaceStep

-----------------------------------------------------------------------------
(* Who changes what.                                                       *)

\* The list in the mover's hand.
HandAt == {"walk", "unlink", "retain", "unfull", "resetDelay", "grab", "give", "restore"}

\* As it says.
LEMMA HandOf ==
  /\ InHand(Mover) = IF at = "install" THEN own.page ELSE IF at \in HandAt THEN own.start ELSE Null
  /\ InHand(Mover)' = IF at' = "install" THEN own'.page ELSE IF at' \in HandAt THEN own'.start ELSE Null
BY DEF InHand, HandAt, Shrink, at, own

\* What the mover's other steps leave alone.
LEMMA MoverFrame ==
  ASSUME MoverStep
  PROVE  /\ UNCHANGED used \/ AcquireFreeBlock(Mover)
         /\ UNCHANGED made \/ AllocNewPages(Mover)
         /\ UNCHANGED marked \/ UnmarkPage(Mover) \/ TakeToFree(Mover) \/ AllocNewPages(Mover)
         /\ UNCHANGED full \/ PutFull(Mover) \/ RemoveFromFull(Mover)
         /\ UNCHANGED nextFree \/ TakeToFree(Mover) \/ AllocNewPages(Mover) \/ Unlink(Mover)
         /\ \/ UNCHANGED free
            \/ PopFree(Mover) \/ InstallPending(Mover) \/ PutFree(Mover) \/ DetachFree(Mover)
            \/ RestoreFree(Mover)
         /\ UNCHANGED pending \/ TakePending(Mover)
         /\ UNCHANGED arenaBit \/ AllocNewPages(Mover) \/ DropPages(Mover)
         /\ UNCHANGED freed \/ DropPages(Mover)
<1> DEFINE Goal ==
         /\ UNCHANGED used \/ AcquireFreeBlock(Mover)
         /\ UNCHANGED made \/ AllocNewPages(Mover)
         /\ UNCHANGED marked \/ UnmarkPage(Mover) \/ TakeToFree(Mover) \/ AllocNewPages(Mover)
         /\ UNCHANGED full \/ PutFull(Mover) \/ RemoveFromFull(Mover)
         /\ UNCHANGED nextFree \/ TakeToFree(Mover) \/ AllocNewPages(Mover) \/ Unlink(Mover)
         /\ \/ UNCHANGED free
            \/ PopFree(Mover) \/ InstallPending(Mover) \/ PutFree(Mover) \/ DetachFree(Mover)
            \/ RestoreFree(Mover)
         /\ UNCHANGED pending \/ TakePending(Mover)
         /\ UNCHANGED arenaBit \/ AllocNewPages(Mover) \/ DropPages(Mover)
         /\ UNCHANGED freed \/ DropPages(Mover)
<1> SUFFICES Goal
  OBVIOUS
<1> USE DEF pageVars, listVars, arenaVars
<1>1. CASE StartAlloc(Mover) \/ LoadHead(Mover) \/ LoadNextFree(Mover) \/ TryGuard(Mover)
           \/ SeeLocked(Mover) \/ RecheckFree(Mover) \/ LoadPending(Mover) \/ LoadToFree(Mover)
  BY <1>1 DEF StartAlloc, LoadHead, LoadNextFree, TryGuard, SeeLocked, RecheckFree, LoadPending, LoadToFree
<1>2. CASE AcquireFreeBlock(Mover) \/ PopFree(Mover) \/ UnmarkPage(Mover) \/ TakePending(Mover)
           \/ InstallPending(Mover)
  BY <1>2 DEF AcquireFreeBlock, PopFree, UnmarkPage, TakePending, InstallPending
<1>3. CASE TakeToFree(Mover)
  BY <1>3 DEF TakeToFree
<1>4. CASE AllocNewPages(Mover)
  BY <1>4 DEF AllocNewPages
<1>5. CASE PutFull(Mover) \/ PutFree(Mover) \/ CountPages(Mover) \/ PutBackRest(Mover)
           \/ ZeroDelay(Mover) \/ Release(Mover)
  BY <1>5 DEF PutFull, PutFree, CountPages, PutBackRest, ZeroDelay, Release
<1>6. CASE LoadDelay(Mover) \/ BumpDelay(Mover) \/ SweepToFree(Mover) \/ DropPages(Mover) \/ EndOfSweep(Mover)
  BY <1>6 DEF LoadDelay, BumpDelay, SweepToFree, DropPages, EndOfSweep
<1>7. CASE StartShrink(Mover) \/ Lock(Mover) \/ DetachFree(Mover) \/ WalkFree(Mover) \/ ResetDelay(Mover)
           \/ GrabToFree(Mover) \/ GiveToFree(Mover)
  BY <1>7 DEF StartShrink, Lock, DetachFree, WalkFree, ResetDelay, GrabToFree, GiveToFree
<1>8. CASE Unlink(Mover) \/ RetainUntouched(Mover) \/ RemoveFromFull(Mover) \/ RestoreFree(Mover)
           \/ UncountPages(Mover) \/ EndShrinking(Mover) \/ Unlock(Mover)
  BY <1>8 DEF Unlink, RetainUntouched, RemoveFromFull, RestoreFree, UncountPages, EndShrinking, Unlock
<1> HIDE DEF Goal
<1> QED
  BY <1>1, <1>2, <1>3, <1>4, <1>5, <1>6, <1>7, <1>8 DEF MoverStep, FindPlaceStep, ShrinkStep

\* How a thread that drops a handle comes to push the page, and goes on.
LEMMA PushSteps ==
  ASSUME OneMover, TypeInv, ActorInv, NEW t \in Threads, OtherStep(t)
  PROVE  /\ UNCHANGED nextFree \/ LinkPending(t)
         /\ UNCHANGED pending \/ (PushPending(t) /\ pending' = loc[t].page /\ pc'[t] = "idle")
         /\ UNCHANGED marked \/ SwapMark(t)
         /\ pc'[t] \in Pushing =>
              /\ loc'[t].page = loc[t].page
              /\ \/ SwapMark(t) /\ loc[t].page \notin marked /\ pc'[t] = "upgrade"
                 \/ pc[t] \in Pushing /\ (pc'[t] = "pushCas" => LinkPending(t))
<1>0. pc \in [Threads -> Labels] /\ loc \in [Threads -> Locals]
  BY DEF TypeInv, ThreadType
<1> USE <1>0 DEF Goto, Return, Pushing, pageVars, listVars, arenaVars
<1>1. CASE LoadMark(t) \/ UpgradePending(t)
  BY <1>1 DEF LoadMark, UpgradePending
<1>2. CASE SwapMark(t)
  BY <1>2 DEF SwapMark
<1>3. CASE LinkPending(t)
  BY <1>3 DEF LinkPending, Locals
<1>4. CASE PushPending(t)
  BY <1>4 DEF PushPending
<1>5. CASE TouchFreed(t)
  BY <1>5 DEF TouchFreed
<1>6. CASE \E p \in Pages : GiveBlock(t, p)
  BY <1>6 DEF GiveBlock, Labels
<1>7. CASE StartDropArena(t) \/ EndDropArena(t)
  BY <1>7 DEF StartDropArena, EndDropArena
<1>8. CASE pc[t] = "dropArena" /\ DropPages(t)
  BY <1>8 DEF DropPages
<1> QED
  BY <1>1, <1>2, <1>3, <1>4, <1>5, <1>6, <1>7, <1>8 DEF OtherStep, DropBlockStep

-----------------------------------------------------------------------------
(* The pages that were made.                                               *)

\* The page at the head of the free list is in full_list.
LEMMA HeadIsInFull ==
  ASSUME MoveInv, free # Null
  PROVE  free \in ToSet(full) /\ free \in marked /\ free \in 1 .. made
BY DEF MoveInv, PlaceInv, ListInv, Lists, Chained, InFull, IsChain

\* A step of the mover.
LEMMA MadeNext ==
  ASSUME OneMover, Known, MoveInv, MoverStep
  PROVE  MadeInv'
<1>0. /\ MadeInv /\ TypeInv /\ made \in Nat /\ used \in [Pages -> 0 .. BLOCK_PER_PAGE]
      /\ own.batch \in Seq(Pages) /\ full \in Seq(Pages)
  <2>1. Mover \in Threads /\ loc \in [Threads -> Locals]
    BY TheMover DEF Known, TypeInv, ThreadType
  <2> QED
    BY <2>1 DEF MoveInv, Known, TypeInv, ArenaType, own, Locals
<1>1. /\ at' \notin DropBlock /\ \A t \in Threads \ {Mover} : pc'[t] = pc[t] /\ loc'[t] = loc[t]
  BY MoverMoves DEF Known
<1>2. AllocNewPages(Mover) =>
        \E n \in Nat \ {0} : made' = made + n /\ marked' = marked \cup (made + 1 .. made + n)
  <2> SUFFICES ASSUME AllocNewPages(Mover)
               PROVE  \E n \in Nat \ {0} : made' = made + n /\ marked' = marked \cup (made + 1 .. made + n)
    OBVIOUS
  <2>1. PICK n \in Nat \ {0} : /\ made' = made + n /\ own'.batch = NewList(made, n)
                               /\ marked' = marked \cup ToSet(own'.batch)
    BY <1>0, AllocEffects
  <2>2. ToSet(own'.batch) = made + 1 .. made + n
    BY <1>0, <2>1, NewListElements
  <2> QED
    BY <2>1, <2>2
<1>3. made' \in Nat /\ made <= made'
  BY <1>0, <1>2, MoverFrame
<1>4. \A t \in Threads : pc'[t] \in DropBlock => loc'[t].page \in 1 .. made'
  <2>1. \A t \in Threads : pc'[t] \in DropBlock => loc'[t].page \in 1 .. made
    BY <1>0, <1>1 DEF MadeInv, at
  <2> QED
    BY <1>0, <1>3, <2>1
<1>5. \A p \in Pages : used'[p] > 0 => p <= made'
  <2>1. \A p \in Pages : used'[p] > 0 => p <= made
    <3>1. CASE UNCHANGED used
      BY <1>0, <3>1 DEF MadeInv
    <3>2. CASE AcquireFreeBlock(Mover)
      <4>1. own.page = free /\ free # Null
        BY <1>0, <3>2, SearchEffects DEF MoveInv, ListInv, Lists, ReadsInv, Goes
      <4>2. free \in 1 .. made
        BY <4>1, HeadIsInFull
      <4>3. \A p \in Pages : p # own.page => used'[p] = used[p]
        BY <1>0, <3>2 DEF AcquireFreeBlock, own
      <4> QED
        BY <1>0, <4>1, <4>2, <4>3 DEF MadeInv
    <3> QED
      BY <3>1, <3>2, MoverFrame
  <2> QED
    BY <1>0, <1>3, <2>1 DEF Pages
<1>6. \A p \in 1 .. made' : p \in marked' \cup ToSet(full')
  <2>0. \A p \in 1 .. made : p \in marked \cup ToSet(full)
    BY <1>0 DEF MadeInv
  <2>1. CASE UnmarkPage(Mover)
    <3>1. /\ UNCHANGED <<full, made>> /\ marked' = marked \ {own.page} /\ at = "unmark"
      BY <2>1 DEF UnmarkPage, listVars, arenaVars, own, at
    <3>2. Aside = {own.page} /\ Aside \subseteq ToSet(full)
      BY <3>1 DEF Aside, AsideAt, MoveInv, PlaceInv
    <3> QED
      BY <2>0, <3>1, <3>2
  <2>2. CASE RemoveFromFull(Mover)
    <3>1. /\ UNCHANGED <<marked, made>> /\ at = "unfull" /\ full' = Kept(full, Pages \ ToSet(own.batch))
      BY <2>2 DEF RemoveFromFull, pageVars, arenaVars, own, at
    <3>2. ToSet(full') = ToSet(full) \cap (Pages \ ToSet(own.batch))
      BY <1>0, <3>1, KeptElements
    <3>3. ToSet(own.batch) \subseteq marked
      BY <3>1 DEF Aside, AsideAt, MoveInv, ListInv, Lists, InFull
    <3>4. ToSet(full) \subseteq Pages
      BY <1>0, Members
    <3> QED
      BY <2>0, <3>1, <3>2, <3>3, <3>4
  <2>3. CASE AllocNewPages(Mover)
    <3>1. PICK n \in Nat \ {0} : made' = made + n /\ marked' = marked \cup (made + 1 .. made + n)
      BY <1>2, <2>3
    <3>2. UNCHANGED full
      BY <2>3 DEF AllocNewPages, listVars
    <3>3. ASSUME NEW p \in 1 .. made' PROVE p \in 1 .. made \/ p \in made + 1 .. made + n
      BY <1>0, <3>1
    <3> QED
      BY <2>0, <3>1, <3>2, <3>3
  <2>4. CASE PutFull(Mover)
    <3>1. UNCHANGED <<marked, made>> /\ full' = own.batch \o full
      BY <2>4 DEF PutFull, pageVars, arenaVars, own
    <3>2. ToSet(full') = ToSet(full) \cup ToSet(own.batch)
      BY <1>0, <3>1, Joined
    <3> QED
      BY <2>0, <3>1, <3>2
  <2>5. CASE TakeToFree(Mover)
    <3>1. UNCHANGED <<full, made>> /\ marked \subseteq marked'
      BY <1>0, <2>5, ReuseEffects, RefillEffects DEF TakeToFree, listVars
    <3> QED
      BY <2>0, <3>1
  <2> QED
    BY <2>0, <2>1, <2>2, <2>3, <2>4, <2>5, MoverFrame
<1> QED
  BY <1>4, <1>5, <1>6 DEF MadeInv

\* Or of another.
LEMMA MadeOthers ==
  ASSUME OneMover, Known, MoveInv, NEW t \in Threads, OtherStep(t)
  PROVE  MadeInv'
<1>0. /\ MadeInv /\ TypeInv /\ made \in Nat /\ used \in [Pages -> 0 .. BLOCK_PER_PAGE]
      /\ pc \in [Threads -> Labels] /\ loc \in [Threads -> Locals] /\ BLOCK_PER_PAGE \in Nat
  BY SharedArenaAssumption DEF MoveInv, Known, TypeInv, ArenaType, ThreadType
<1>1. UNCHANGED <<full, made>> /\ Moves(t)
  BY OtherMoves DEF Known
<1>2. marked \subseteq marked'
  BY PushSteps DEF Known, SwapMark
<1>3. \A u \in Threads \ {t} : pc'[u] = pc[u] /\ loc'[u] = loc[u]
  BY <1>0, <1>1 DEF Moves
<1>4. /\ \A p \in Pages : used'[p] > 0 => used[p] > 0
      /\ pc'[t] \in DropBlock => loc'[t].page \in 1 .. made
  <2> USE DEF Goto, Return, DropBlock, pageVars, listVars, arenaVars
  <2>1. CASE LoadMark(t) \/ SwapMark(t) \/ UpgradePending(t)
    BY <1>0, <2>1 DEF LoadMark, SwapMark, UpgradePending, MadeInv
  <2>2. CASE LinkPending(t) \/ PushPending(t)
    <3>1. CASE LinkPending(t)
      BY <1>0, <3>1 DEF LinkPending, MadeInv, Locals
    <3>2. CASE PushPending(t)
      BY <1>0, <3>2 DEF PushPending, MadeInv, Locals
    <3> QED
      BY <2>2, <3>1, <3>2
  <2>3. CASE TouchFreed(t)
    BY <1>0, <2>3 DEF TouchFreed
  <2>4. ASSUME NEW p \in Pages, GiveBlock(t, p)
        PROVE  /\ \A q \in Pages : used'[q] > 0 => used[q] > 0
               /\ pc'[t] \in DropBlock => loc'[t].page \in 1 .. made
    <3>1. used[p] > 0 /\ used' = [used EXCEPT ![p] = @ - 1] /\ pc[t] = "idle"
      BY <2>4 DEF GiveBlock
    <3>2. \A q \in Pages : used'[q] > 0 => used[q] > 0
      BY <1>0, <3>1
    <3>3. p \in 1 .. made
      BY <1>0, <3>1 DEF MadeInv, Pages
    <3>4. pc'[t] \in DropBlock => loc'[t].page = p
      BY <1>0, <2>4, <3>1 DEF GiveBlock, Locals
    <3> QED
      BY <3>2, <3>3, <3>4
  <2>5. CASE StartDropArena(t) \/ EndDropArena(t)
    BY <1>0, <2>5 DEF StartDropArena, EndDropArena
  <2>6. CASE pc[t] = "dropArena" /\ DropPages(t)
    BY <1>0, <2>6 DEF DropPages
  <2> QED
    BY <2>1, <2>2, <2>3, <2>4, <2>5, <2>6 DEF OtherStep, DropBlockStep
<1> QED
  BY <1>0, <1>1, <1>2, <1>3, <1>4 DEF MadeInv

\* shrink_to_fit's `current' leads to a page of the list in hand.
LEMMA CellInHand ==
  ASSUME NEW l, NEW p, NEW i, Lists(l, p, i), at \in {"walk", "unlink"}, Cell(Mover) # Null
  PROVE  Cell(Mover) \in i
<1>1. IsChain(nextFree, i, own.start) /\ (own.cur # Null => own.cur \in i)
  BY HandOf DEF Lists, Chained, ReadsInv, HandAt
<1> QED
  BY <1>1 DEF Cell, own, IsChain

\* What the mover touches while it is in an operation is the arena's.
LEMMA MoverIsSafe ==
  ASSUME OneMover, Known, MoveInv, at \notin Quiet
  PROVE  Safe(Mover)
<1>0. /\ Mover \in Threads /\ at \in Labels /\ own.batch \in Seq(Pages) /\ full \in Seq(Pages) /\ freed \subseteq Pages
      /\ own = loc[Mover] /\ at = pc[Mover] /\ PlaceInv
  <2>1. Mover \in Threads /\ loc \in [Threads -> Locals] /\ pc \in [Threads -> Labels]
    BY TheMover DEF Known, TypeInv, ThreadType
  <2> QED
    BY <2>1 DEF Known, MoveInv, TypeInv, ArenaType, own, at, Locals
<1>1. PICK l \in SUBSET Pages, p \in SUBSET Pages, i \in SUBSET Pages : Lists(l, p, i)
  BY DEF MoveInv, ListInv
<1>2. l \cup p \cup i \cup Aside \subseteq ToSet(full) /\ ReadsInv(i)
  BY <1>1 DEF Lists, InFull
<1>3. arena = "open"
  BY DEF Known, ActorInv
<1>4. Whole \cap freed = {} /\ Null \notin freed
  <2>1. arenaBit = Whole
    BY <1>3 DEF MoveInv, WordInv
  <2>2. \A x \in Pages : x \in freed => x \notin arenaBit
    BY DEF MoveInv, WordInv
  <2>3. Null \notin Pages
    BY DEF Null, Pages
  <2> QED
    BY <1>0, <2>1, <2>2, <2>3
<1>5. free # Null => free \in ToSet(full)
  BY HeadIsInFull
<1>6. at \in {"walk", "unlink"} =>
        own.cur \in ToSet(full) \cup {Null} /\ (Cell(Mover) # Null => Cell(Mover) \in ToSet(full))
  BY <1>1, <1>2, CellInHand DEF ReadsInv
<1>7. Touched(Mover) \subseteq ToSet(full) \cup ToSet(toFree) \cup Given \cup {Null}
  <2>1. CASE at \in {"acquire", "next", "unmark"}
    BY <1>0, <1>2, <1>5, <2>1 DEF Touched, ReadsInv, Aside, AsideAt
  <2>2. CASE at \in {"walk", "unlink"}
    BY <1>0, <1>6, <2>2 DEF Touched
  <2>3. CASE at \in {"retain", "putFull"}
    BY <1>0, <1>2, <2>3 DEF Touched, Aside, AsideAt, Given, GivenAt
  <2>4. CASE at \in {"reuse", "unfull"}
    BY <1>0, <2>4 DEF Touched
  <2>5. CASE at = "dropPages" /\ own.batch # <<>>
    <3>1. Head(own.batch) \in ToSet(own.batch)
      BY <1>0, <2>5, FirstAndRest
    <3>2. Touched(Mover) = {Head(own.batch)}
      BY <1>0, <2>5 DEF Touched
    <3> QED
      BY <2>5, <3>1, <3>2 DEF Given, GivenAt
  <2>6. CASE at \notin {"acquire", "next", "unmark", "walk", "unlink", "retain", "putFull", "reuse", "unfull",
                        "dropPages"} \/ (at = "dropPages" /\ own.batch = <<>>)
    BY <1>0, <2>6 DEF Touched, Quiet, DropBlock
  <2> QED
    BY <2>1, <2>2, <2>3, <2>4, <2>5, <2>6
<1> QED
  BY <1>4, <1>7 DEF Safe, Whole

-----------------------------------------------------------------------------
(* The lists, while threads drop handles.                                  *)

\* A page that a thread is about to push is written by nobody else.
LEMMA OthersWrite ==
  ASSUME OneMover, Known, NEW s, PushersApart(s), NEW t \in Threads, OtherStep(t)
  PROVE  /\ \A x \in s \cup Aside : nextFree'[x] = nextFree[x]
         /\ \A x : x \notin ToSet(full) => nextFree'[x] = nextFree[x]
         /\ \A u \in Threads \ {t} :
              pc[u] \in Pushing => nextFree'[loc[u].page] = nextFree[loc[u].page]
<1>1. UNCHANGED nextFree \/ LinkPending(t)
  BY PushSteps DEF Known
<1>2. ASSUME LinkPending(t)
      PROVE  /\ pc[t] \in Pushing /\ loc[t].page \in ToSet(full) \ (s \cup Aside)
             /\ \A x : x # loc[t].page => nextFree'[x] = nextFree[x]
             /\ \A u \in Threads \ {t} : pc[u] \in Pushing => loc[u].page # loc[t].page
  <2>1. pc[t] \in Pushing
    BY <1>2 DEF LinkPending, Pushing
  <2>2. \A x : x # loc[t].page => nextFree'[x] = nextFree[x]
    BY <1>2 DEF LinkPending, Known, TypeInv, ArenaType
  <2> QED
    BY <2>1, <2>2 DEF PushersApart
<1> QED
  BY <1>1, <1>2

\* What a thread does that drops a handle keeps the lists apart.
LEMMA OtherLists ==
  ASSUME OneMover, Known, MoveInv, NEW t \in Threads, OtherStep(t)
  PROVE  ListInv'
<1>0. /\ TypeInv /\ ActorInv /\ PlaceInv /\ MadeInv /\ pc \in [Threads -> Labels] /\ loc \in [Threads -> Locals]
      /\ nextFree \in [Pages -> Pointer] /\ full \in Seq(Pages)
  BY DEF Known, MoveInv, TypeInv, ArenaType, ThreadType
<1>1. PICK l \in SUBSET Pages, p \in SUBSET Pages, i \in SUBSET Pages : Lists(l, p, i)
  BY DEF MoveInv, ListInv
<1> DEFINE s == l \cup p \cup i
<1>2. Chained(l, p, i) /\ InFull(s) /\ PushersApart(s) /\ Pushed(s) /\ ReadsInv(i)
  BY <1>1 DEF Lists
<1>3. /\ UNCHANGED nextFree \/ LinkPending(t)
      /\ UNCHANGED pending \/ (PushPending(t) /\ pending' = loc[t].page /\ pc'[t] = "idle")
      /\ UNCHANGED marked \/ SwapMark(t)
      /\ pc'[t] \in Pushing =>
           /\ loc'[t].page = loc[t].page
           /\ \/ SwapMark(t) /\ loc[t].page \notin marked /\ pc'[t] = "upgrade"
              \/ pc[t] \in Pushing /\ (pc'[t] = "pushCas" => LinkPending(t))
  BY <1>0, PushSteps
<1>4. /\ UNCHANGED <<free, full>> /\ marked \subseteq marked'
      /\ \A u \in Threads \ {t} : pc'[u] = pc[u] /\ loc'[u] = loc[u]
  BY <1>0, <1>3, OtherMoves DEF SwapMark, Moves
<1>5. /\ t # Mover => Aside' = Aside /\ InHand(Mover)' = InHand(Mover) /\ at' = at /\ own' = own
      /\ t = Mover => Aside' = {} /\ InHand(Mover)' = Null /\ at' \in Quiet
  BY <1>0, OtherHands
<1>6. /\ \A x \in s \cup Aside : nextFree'[x] = nextFree[x]
      /\ \A x : x \notin ToSet(full) => nextFree'[x] = nextFree[x]
      /\ \A u \in Threads \ {t} : pc[u] \in Pushing => nextFree'[loc[u].page] = nextFree[loc[u].page]
  BY <1>2, OthersWrite
<1>7. ASSUME PushPending(t), pending' = loc[t].page
      PROVE  /\ loc[t].page \in (ToSet(full) \cap marked) \ (s \cup Aside) /\ pc[t] \in Pushing
             /\ nextFree' = nextFree /\ marked' = marked
             /\ pending' # pending => nextFree[loc[t].page] = pending
  <2>1. pc[t] = "pushCas" /\ nextFree' = nextFree /\ marked' = marked
    BY <1>7 DEF PushPending, pageVars
  <2>2. pending' # pending => pending = loc[t].nxt
    BY <1>7 DEF PushPending
  <2> QED
    BY <1>2, <2>1, <2>2 DEF PushersApart, Pushing
<1>8. \E q \in SUBSET Pages, j \in SUBSET Pages :
        /\ j = IF t = Mover THEN {} ELSE i
        /\ q = IF pending' = pending THEN p ELSE p \cup {loc[t].page}
  <2>1. pending' # pending => loc[t].page \in Pages
    BY <1>0, <1>3, <1>7, Members
  <2> QED
    BY <2>1
<1>9. PICK q \in SUBSET Pages, j \in SUBSET Pages :
        /\ j = IF t = Mover THEN {} ELSE i
        /\ q = IF pending' = pending THEN p ELSE p \cup {loc[t].page}
  BY <1>8
<1> DEFINE v == l \cup q \cup j
<1> HIDE DEF s, v
<1>10. /\ v \subseteq s \cup {loc[t].page} /\ (pending' = pending => v \subseteq s)
       /\ Aside' \subseteq Aside /\ s \cap Aside = {} /\ s \cup Aside \subseteq ToSet(full) \cap marked
       /\ l \subseteq s /\ p \subseteq s /\ i \subseteq s
  BY <1>2, <1>5, <1>9 DEF s, v, InFull
<1>11. Chained(l, q, j)'
  <2>1. IsChain(nextFree', l, free')
    BY <1>2, <1>4, <1>6, <1>10, ChainFrame DEF Chained
  <2>2. IsChain(nextFree', q, pending')
    <3>1. CASE pending' = pending
      BY <1>2, <1>6, <1>9, <1>10, <3>1, ChainFrame DEF Chained
    <3>2. CASE pending' # pending
      <4>1. /\ loc[t].page \in Pages /\ loc[t].page \notin p /\ nextFree[loc[t].page] = pending
            /\ nextFree' = nextFree /\ pending' = loc[t].page
        BY <1>0, <1>3, <1>7, <1>10, <3>2, Members
      <4> QED
        BY <1>0, <1>2, <1>9, <3>2, <4>1, ChainPushed DEF Chained
    <3> QED
      BY <3>1, <3>2
  <2>3. IsChain(nextFree', j, InHand(Mover)')
    BY <1>2, <1>5, <1>6, <1>9, <1>10, ChainFrame, ChainEmpty DEF Chained
  <2>4. l \cap q = {} /\ l \cap j = {} /\ q \cap j = {}
    <3>1. l \cap p = {} /\ l \cap i = {} /\ p \cap i = {}
      BY <1>2 DEF Chained
    <3>2. pending' # pending => loc[t].page \notin s
      BY <1>3, <1>7
    <3> QED
      BY <1>9, <1>10, <3>1, <3>2
  <2> QED
    BY <2>1, <2>2, <2>3, <2>4 DEF Chained
<1>12. InFull(v)'
  <2>1. pending' # pending => loc[t].page \in (ToSet(full) \cap marked) \ Aside
    BY <1>3, <1>7
  <2>2. v \cap Aside' = {} /\ v \cup Aside' \subseteq ToSet(full) \cap marked
    BY <1>10, <2>1
  <2> QED
    BY <1>4, <2>2 DEF InFull
<1>13. PushersApart(v)'
  <2>1. ASSUME NEW u \in Threads, pc'[u] \in Pushing
        PROVE  /\ loc'[u].page = loc[u].page
               /\ loc[u].page \in (ToSet(full') \cap marked') \ (v \cup Aside')
               /\ pc'[u] = "pushCas" => nextFree'[loc[u].page] = loc'[u].nxt
               /\ \/ pc[u] \in Pushing
                  \/ u = t /\ loc[u].page \notin marked
    <3>1. CASE u = t
      <4>1. pending' = pending /\ loc'[u].page = loc[u].page
        BY <1>3, <2>1, <3>1 DEF Pushing
      <4>2. CASE SwapMark(t) /\ loc[t].page \notin marked /\ pc'[t] = "upgrade"
        <5>1. loc[t].page \in 1 .. made /\ loc[t].page \in marked'
          BY <1>0, <4>2 DEF SwapMark, MadeInv, DropBlock
        <5>2. loc[t].page \in ToSet(full')
          BY <1>0, <1>4, <4>2, <5>1 DEF MadeInv
        <5> QED
          BY <1>10, <3>1, <4>1, <4>2, <5>1, <5>2
      <4>3. CASE pc[t] \in Pushing /\ (pc'[t] = "pushCas" => LinkPending(t))
        <5>1. loc[t].page \in (ToSet(full) \cap marked) \ (s \cup Aside)
          BY <1>2, <4>3 DEF PushersApart
        <5>2. LinkPending(t) => nextFree'[loc[t].page] = loc'[t].nxt
          <6> SUFFICES ASSUME LinkPending(t) PROVE nextFree'[loc[t].page] = loc'[t].nxt
            OBVIOUS
          <6>1. loc[t].page \in Pages
            BY <1>0, <5>1, Members
          <6>2. nextFree'[loc[t].page] = pending
            BY <1>0, <6>1 DEF LinkPending
          <6>3. loc'[t].nxt = pending
            BY <1>0 DEF LinkPending, Locals
          <6> QED
            BY <6>2, <6>3
        <5> QED
          BY <1>4, <1>10, <3>1, <4>1, <4>3, <5>1, <5>2
      <4> QED
        BY <1>3, <2>1, <3>1, <4>2, <4>3
    <3>2. CASE u # t
      <4>1. pc[u] \in Pushing /\ pc'[u] = pc[u] /\ loc'[u] = loc[u]
        BY <1>4, <2>1, <3>2
      <4>2. /\ loc[u].page \in (ToSet(full) \cap marked) \ (s \cup Aside)
            /\ pc[u] = "pushCas" => nextFree[loc[u].page] = loc[u].nxt
            /\ pc[t] \in Pushing => loc[u].page # loc[t].page
        BY <1>2, <3>2, <4>1 DEF PushersApart
      <4>3. loc[u].page \notin v
        <5>1. pending' # pending => pc[t] \in Pushing
          BY <1>3, <1>7
        <5> QED
          BY <1>10, <4>2, <5>1
      <4> QED
        BY <1>4, <1>6, <1>10, <3>2, <4>1, <4>2, <4>3
    <3> QED
      BY <3>1, <3>2
  <2>2. ASSUME NEW u \in Threads, NEW w \in Threads, pc'[u] \in Pushing, pc'[w] \in Pushing,
               loc'[u].page = loc'[w].page
        PROVE  u = w
    <3>1. CASE pc[u] \in Pushing /\ pc[w] \in Pushing
      BY <1>2, <2>1, <2>2, <3>1 DEF PushersApart
    <3>2. ASSUME NEW x \in Threads, pc[x] \in Pushing PROVE loc[x].page \in marked
      BY <1>2, <3>2 DEF PushersApart
    <3> QED
      BY <2>1, <2>2, <3>1, <3>2
  <2> QED
    BY <2>1, <2>2 DEF PushersApart
<1>14. ReadsInv(j)'
  <2>1. CASE t = Mover
    BY <1>5, <2>1 DEF ReadsInv, Quiet, DropBlock
  <2>2. CASE t # Mover
    <3>1. at' = at /\ own' = own /\ free' = free /\ j = i
      BY <1>4, <1>5, <1>9, <2>2
    <3>2. free # Null => nextFree'[free] = nextFree[free]
      BY <1>2, <1>6, <1>10 DEF Chained, IsChain
    <3>3. at \in {"walk", "unlink"} => Cell(Mover)' = Cell(Mover)
      BY <1>2, <1>6, <1>10, <3>1 DEF Cell, ReadsInv, own
    <3>4. at = "unlink" => nextFree'[own.page] = nextFree[own.page]
      <4> SUFFICES ASSUME at = "unlink" PROVE nextFree'[own.page] = nextFree[own.page]
        OBVIOUS
      <4>1. own.page \in i
        BY <1>1, <1>2, CellInHand DEF ReadsInv
      <4> QED
        BY <1>6, <1>10, <4>1
    <3>5. ASSUME at \in {"putFull", "putFree"}
          PROVE  IsChain(nextFree', ToSet(own.batch), Head(own.batch)) /\ ToSet(own.batch) \subseteq marked'
      <4>1. \A x \in ToSet(own.batch) : nextFree'[x] = nextFree[x]
        <5>1. CASE at = "putFull"
          BY <1>0, <1>6, <5>1 DEF PlaceInv, Given, GivenAt
        <5>2. CASE at = "putFree"
          BY <1>6, <5>2 DEF Aside, AsideAt
        <5> QED
          BY <3>5, <5>1, <5>2
      <4> QED
        BY <1>2, <1>4, <3>5, <4>1, ChainFrame DEF ReadsInv
    <3> QED
      BY <1>2, <3>1, <3>2, <3>3, <3>4, <3>5 DEF ReadsInv
  <2> QED
    BY <2>1, <2>2
<1>15. ASSUME NEW x \in ToSet(full') \cap marked', x \notin v \cup Aside', arena' = "open"
       PROVE  \E u \in Threads : pc'[u] \in Pushing /\ loc'[u].page = x
  <2>0. arena = "open" /\ x \in ToSet(full) /\ x \notin freed
    <3>1. arena = "open"
      BY <1>0, <1>15, ArenaSteps
    <3>2. x \in ToSet(full) /\ x \in Pages
      BY <1>0, <1>4, <1>15, Members
    <3>3. x \in arenaBit
      BY <3>1, <3>2 DEF MoveInv, WordInv, Whole
    <3>4. \A y \in Pages : y \in freed => y \notin arenaBit
      BY DEF MoveInv, WordInv
    <3> QED
      BY <3>1, <3>2, <3>3, <3>4
  <2>1. CASE x \notin marked
    <3>1. SwapMark(t) /\ loc[t].page \notin marked /\ loc[t].page = x
      BY <1>3, <1>15, <2>1 DEF SwapMark
    <3>2. pc'[t] = "upgrade" /\ loc'[t].page = x
      BY <1>0, <3>1 DEF SwapMark, Goto
    <3> QED
      BY <3>2 DEF Pushing
  <2>2. CASE x \in marked /\ x \notin s \cup Aside
    <3>1. PICK u \in Threads : pc[u] \in Pushing /\ loc[u].page = x
      BY <1>2, <2>0, <2>2 DEF Pushed, Settled
    <3>2. CASE u # t
      BY <1>4, <3>1, <3>2
    <3>3. CASE u = t /\ pending' = pending
      <4>1. Safe(t) /\ x # pending
        <5>1. Touched(t) \cap freed = {}
          BY <2>0, <3>1, <3>3 DEF Touched, Pushing
        <5>2. pending # Null => pending \in s
          BY <1>2, <1>10 DEF Chained, IsChain
        <5>3. x # Null
          BY <1>0, <2>0, Members DEF Null, Pages
        <5> QED
          BY <2>2, <5>1, <5>2, <5>3 DEF Safe
      <4>2. pc'[t] \in Pushing /\ loc'[t].page = x
        BY <1>0, <2>0, <3>1, <3>3, <4>1 DEF OtherStep, DropBlockStep, LoadMark, SwapMark, UpgradePending,
           LinkPending, PushPending, TouchFreed, GiveBlock, StartDropArena, EndDropArena, Pushing, Goto, Locals
      <4> QED
        BY <4>2
    <3>4. CASE u = t /\ pending' # pending
      <4>1. x \in q
        BY <1>9, <3>1, <3>4
      <4> QED
        BY <1>15, <4>1 DEF v
    <3> QED
      BY <3>2, <3>3, <3>4
  <2>3. CASE x \in s \cup Aside
    <3>1. t # Mover => s \cup Aside \subseteq v \cup Aside'
      BY <1>5, <1>9 DEF s, v
    <3>2. t = Mover => i = {} /\ Aside = {}
      <4>1. t = Mover => pc[t] \in Quiet
        BY <1>0, MoverIsSafe, OtherMoves DEF TouchFreed, at
      <4>2. t = Mover => InHand(Mover) = Null /\ Aside = {}
        BY <4>1, QuietHands DEF at
      <4> QED
        BY <1>0, <1>2, <4>2, SharedArenaAssumption, ChainOfNull DEF Chained
    <3>3. s \cup Aside \subseteq v \cup Aside'
      BY <1>9, <3>1, <3>2 DEF s, v
    <3> QED
      BY <1>15, <2>3, <3>3
  <2> QED
    BY <2>1, <2>2, <2>3
<1>16. Pushed(v)'
  BY <1>15 DEF Pushed, Settled
<1>17. Lists(l, q, j)'
  BY <1>11, <1>12, <1>13, <1>14, <1>16 DEF Lists, v
<1> QED
  BY <1>17 DEF ListInv

-----------------------------------------------------------------------------
(* The pages that no block is taken from, and those that are let go.       *)

\* The pages of the arena that are not in full_list.
Out == ToSet(toFree) \cup Given \cup Rest

\* The mover moves the arena's pages about; it makes some, or lets one go.
KeepsAll == Whole' = Whole /\ UNCHANGED <<made, arenaBit, freed>>
Makes ==
  \E n \in Nat \ {0} :
    /\ made + n <= MaxPages /\ made' = made + n /\ Whole' = Whole \cup (made + 1 .. made + n)
    /\ arenaBit' = arenaBit \cup (made + 1 .. made + n) /\ UNCHANGED freed
LetsGo ==
  \E p \in Given : Whole' = Whole \ {p} /\ DropPage(p) /\ UNCHANGED made

\* find_place.
LEMMA WholeSearch ==
  ASSUME OneMover, Known, MoveInv, MoverStep,
         \/ StartAlloc(Mover) \/ LoadHead(Mover) \/ AcquireFreeBlock(Mover) \/ LoadNextFree(Mover)
         \/ PopFree(Mover) \/ UnmarkPage(Mover) \/ TryGuard(Mover) \/ SeeLocked(Mover)
         \/ RecheckFree(Mover) \/ LoadPending(Mover) \/ TakePending(Mover) \/ InstallPending(Mover)
         \/ LoadToFree(Mover) \/ (TakeToFree(Mover) /\ toFree = <<>>) \/ ZeroDelay(Mover) \/ Release(Mover)
         \/ LoadDelay(Mover) \/ BumpDelay(Mover) \/ EndOfSweep(Mover)
  PROVE  KeepsAll /\ Out' \subseteq Out
<1>0. TypeInv
  BY DEF Known
<1> USE DEF Goes, GivenAt, RestAt, listVars, pageVars, arenaVars
<1>1. at \notin GivenAt \cup RestAt \cup {"dropPages"} \/ (at = "dropPages" /\ own.batch = <<>>)
  BY <1>0, SearchEffects, RefillEffects, SweepEffects
<1>2. at' \notin GivenAt \cup RestAt
  BY <1>0, SearchEffects, RefillEffects, SweepEffects
<1>3. UNCHANGED <<full, toFree, made, arenaBit, freed>>
  <2>1. CASE StartAlloc(Mover) \/ LoadHead(Mover) \/ AcquireFreeBlock(Mover) \/ LoadNextFree(Mover)
             \/ PopFree(Mover) \/ UnmarkPage(Mover) \/ TryGuard(Mover) \/ SeeLocked(Mover)
             \/ RecheckFree(Mover) \/ LoadPending(Mover)
    BY <2>1 DEF StartAlloc, LoadHead, AcquireFreeBlock, LoadNextFree, PopFree, UnmarkPage, TryGuard,
       SeeLocked, RecheckFree, LoadPending
  <2>2. CASE TakePending(Mover) \/ InstallPending(Mover)
             \/ LoadToFree(Mover) \/ (TakeToFree(Mover) /\ toFree = <<>>) \/ ZeroDelay(Mover) \/ Release(Mover)
             \/ LoadDelay(Mover) \/ BumpDelay(Mover) \/ EndOfSweep(Mover)
    BY <2>2 DEF TakePending, InstallPending, LoadToFree, TakeToFree, ZeroDelay, Release,
       LoadDelay, BumpDelay, EndOfSweep
  <2> QED
    BY <2>1, <2>2
<1>4. Given = {} /\ Rest = {} /\ Given' = {} /\ Rest' = {}
  BY <1>1, <1>2, NoPages DEF Given, Rest
<1> QED
  BY <1>3, <1>4 DEF KeepsAll, Whole, Out

\* find_place, where it has pages in its hand that are in no list.
LEMMA WholeRefill ==
  ASSUME OneMover, Known, MoveInv, MoverStep,
         \/ TakeToFree(Mover) /\ toFree # <<>>
         \/ PutFull(Mover) \/ PutFree(Mover) \/ CountPages(Mover) \/ PutBackRest(Mover) \/ SweepToFree(Mover)
  PROVE  KeepsAll /\ Out' \subseteq Out
<1>0. /\ TypeInv /\ CleanInv /\ ThreadInv(Mover)
      /\ own.batch \in Seq(Pages) /\ own.rest \in Seq(Pages) /\ full \in Seq(Pages) /\ toFree \in Seq(Pages)
  <2>1. Mover \in Threads /\ loc \in [Threads -> Locals]
    BY TheMover DEF Known, TypeInv, ThreadType
  <2> QED
    BY <2>1 DEF Known, ActorInv, WriterInv, TypeInv, ArenaType, own, Locals
<1> USE DEF Goes, GivenAt, RestAt, listVars, pageVars, arenaVars
<1>1. UNCHANGED <<made, arenaBit, freed>>
  BY DEF TakeToFree, PutFull, PutFree, CountPages, PutBackRest, SweepToFree
<1>2. Whole' = Whole /\ Out' \subseteq Out
  <2>1. CASE TakeToFree(Mover) /\ toFree # <<>>
    <3>1. /\ at = "reuse" /\ at' = "putFull" /\ toFree' = <<>>
          /\ ToSet(toFree) = ToSet(own'.rest) \cup ToSet(own'.batch)
      BY <1>0, <2>1, ReuseEffects
    <3>2. full' = full
      BY <2>1 DEF TakeToFree
    <3> QED
      BY <3>1, <3>2, NoPages DEF Whole, Out, Given, Rest
  <2>2. CASE PutFull(Mover)
    <3>1. /\ at = "putFull" /\ at' = "putFree" /\ own' = own /\ full' = own.batch \o full /\ toFree' = toFree
      BY <1>0, <2>2, RefillEffects DEF PutFull, own
    <3>2. ToSet(full') = ToSet(full) \cup ToSet(own.batch)
      BY <1>0, <3>1, Joined
    <3> QED
      BY <3>1, <3>2 DEF Whole, Out, Given, Rest
  <2>3. CASE PutFree(Mover)
    <3>1. /\ at = "putFree" /\ at' = "count" /\ own' = own /\ full' = full /\ toFree' = toFree
      BY <1>0, <2>3, RefillEffects DEF PutFree, ThreadInv, FreeIsEmpty, at
    <3> QED
      BY <3>1 DEF Whole, Out, Given, Rest
  <2>4. CASE CountPages(Mover)
    <3>1. /\ at = "count" /\ at' \in {"rest", "release"} /\ own' = own /\ full' = full /\ toFree' = toFree
          /\ at' = "release" => own.rest = <<>>
      BY <1>0, <2>4, RefillEffects DEF CountPages, CleanInv
    <3> QED
      BY <3>1, NoPages DEF Whole, Out, Given, Rest
  <2>5. CASE PutBackRest(Mover)
    <3>1. /\ at = "rest" /\ at' \in {"zeroDelay", "release"} /\ own' = own /\ full' = full /\ toFree = <<>>
          /\ toFree' = own.rest
      <4>1. toFree = <<>>
        BY <1>0, <2>5 DEF PutBackRest, ThreadInv, ToFreeIsEmpty, at
      <4> QED
        BY <1>0, <2>5, <4>1, RefillEffects DEF PutBackRest, own
    <3> QED
      BY <3>1, NoPages DEF Whole, Out, Given, Rest
  <2>6. CASE SweepToFree(Mover)
    <3>1. /\ at = "sweep" /\ at' = "dropPages" /\ own'.batch = toFree /\ toFree' = <<>> /\ full' = full
      BY <1>0, <2>6, SweepEffects DEF SweepToFree
    <3> QED
      BY <3>1, NoPages DEF Whole, Out, Given, Rest
  <2> QED
    BY <2>1, <2>2, <2>3, <2>4, <2>5, <2>6
<1> QED
  BY <1>1, <1>2 DEF KeepsAll

\* alloc_new_page.
LEMMA WholeMade ==
  ASSUME OneMover, Known, MoveInv, AllocNewPages(Mover)
  PROVE  Makes /\ \A x \in Out' : x \in Out \/ used[x] = 0
<1>0. /\ TypeInv /\ CleanInv /\ made \in Nat /\ MaxPages \in Nat
      /\ used \in [Pages -> 0 .. BLOCK_PER_PAGE] /\ BLOCK_PER_PAGE \in Nat
  BY SharedArenaAssumption DEF Known, ActorInv, TypeInv, ArenaType
<1>1. at = "allocate" /\ at' = "putFull" /\ own'.rest = own.rest
  BY <1>0, AllocEffects DEF Goes
<1>2. PICK n \in Nat \ {0} :
        /\ made + n <= MaxPages /\ made' = made + n /\ own'.batch = NewList(made, n)
        /\ arenaBit' = arenaBit \cup ToSet(own'.batch)
  BY <1>0, AllocEffects
<1>3. UNCHANGED <<full, toFree, freed, used>>
  BY DEF AllocNewPages, listVars
<1>4. ToSet(own'.batch) = made + 1 .. made + n
  <2>1. ToSet(NewList(made, n)) = made + 1 .. made + n
    BY <1>0, NewListElements
  <2> QED
    BY <1>2, <2>1
<1>5. Given' = made + 1 .. made + n /\ Given = {} /\ Rest = {} /\ Rest' = {}
  <2>1. own.rest = <<>>
    BY <1>0, <1>1 DEF CleanInv, FindPlace
  <2>2. Given' = ToSet(own'.batch) /\ Given = {} /\ Rest = {} /\ Rest' = ToSet(own'.rest)
    BY <1>1 DEF Given, Rest, GivenAt, RestAt
  <2> QED
    BY <1>1, <1>4, <2>1, <2>2, NoPages
<1>6. Makes
  <2>1. Whole' = Whole \cup (made + 1 .. made + n)
    BY <1>3, <1>5 DEF Whole
  <2> QED
    BY <1>2, <1>3, <1>4, <2>1 DEF Makes
<1>7. ASSUME NEW x \in made + 1 .. made + n PROVE used[x] = 0
  <2>1. x \in Pages /\ ~(x <= made)
    BY <1>0, <1>2 DEF Pages
  <2>2. ~(used[x] > 0)
    BY <2>1 DEF MoveInv, MadeInv
  <2> QED
    BY <1>0, <2>1, <2>2
<1> QED
  BY <1>3, <1>5, <1>6, <1>7 DEF Out

\* maybe_free_pages lets go one page.
LEMMA WholeDropped ==
  ASSUME OneMover, Known, MoveInv, at = "dropPages", DropPages(Mover)
  PROVE  LetsGo /\ Out' \subseteq Out
<1>0. TypeInv /\ PlaceInv /\ own.batch \in Seq(Pages)
  <2>1. Mover \in Threads /\ loc \in [Threads -> Locals]
    BY TheMover DEF Known, TypeInv, ThreadType
  <2> QED
    BY <2>1 DEF Known, MoveInv, own, Locals
<1>1. /\ at' = "dropPages" /\ own.batch # <<>> /\ own'.batch = Tail(own.batch)
      /\ UNCHANGED <<full, toFree, made>> /\ DropPage(Head(own.batch))
  BY <1>0, SweepEffects DEF DropPages, listVars, arenaVars, own
<1>2. PICK p \in Pages : p = Head(own.batch)
  BY <1>0, <1>1, FirstAndRest
<1>3. Given = {p} \cup ToSet(Tail(own.batch)) /\ p \notin ToSet(Tail(own.batch))
  <2>1. ToSet(own.batch) = {Head(own.batch)} \cup ToSet(Tail(own.batch))
    BY <1>0, <1>1, FirstAndRest
  <2>2. IsInjective(own.batch) => Head(own.batch) \notin ToSet(Tail(own.batch))
    BY <1>0, <1>1, FirstAndRest
  <2> QED
    BY <1>0, <1>2, <2>1, <2>2 DEF PlaceInv, Given, GivenAt
<1>4. Given' = Given \ {p} /\ Rest = {} /\ Rest' = {} /\ p \in Given
  BY <1>1, <1>3 DEF Given, Rest, GivenAt, RestAt
<1>5. p \notin ToSet(full) \cup ToSet(toFree)
  BY <1>0, <1>4 DEF PlaceInv
<1>6. Whole' = Whole \ {p} /\ Out' \subseteq Out
  BY <1>1, <1>4, <1>5 DEF Whole, Out
<1> QED
  BY <1>1, <1>2, <1>4, <1>6 DEF LetsGo

\* shrink_to_fit.
LEMMA WholeShrink ==
  ASSUME OneMover, Known, MoveInv, MoverStep, StartShrink(Mover) \/ ShrinkStep(Mover)
  PROVE  KeepsAll /\ \A x \in Out' : x \in Out \/ used[x] = 0
<1>0. /\ TypeInv /\ PlaceInv /\ ThreadInv(Mover)
      /\ own.batch \in Seq(Pages) /\ own.rest \in Seq(Pages) /\ full \in Seq(Pages) /\ toFree \in Seq(Pages)
  <2>1. Mover \in Threads /\ loc \in [Threads -> Locals]
    BY TheMover DEF Known, TypeInv, ThreadType
  <2> QED
    BY <2>1 DEF Known, MoveInv, WriterInv, TypeInv, ArenaType, own, Locals
<1> USE DEF Goes, GivenAt, RestAt, listVars, pageVars, arenaVars
<1>1. UNCHANGED <<made, arenaBit, freed>>
  BY DEF StartShrink, ShrinkStep, Lock, DetachFree, WalkFree, Unlink, RetainUntouched, RemoveFromFull,
     ResetDelay, GrabToFree, GiveToFree, RestoreFree, UncountPages, EndShrinking, Unlock
<1>2. Whole' = Whole /\ \A x \in Out' : x \in Out \/ used[x] = 0
  <2>1. CASE StartShrink(Mover) \/ Lock(Mover) \/ DetachFree(Mover) \/ WalkFree(Mover) \/ Unlink(Mover)
             \/ RetainUntouched(Mover) \/ RestoreFree(Mover) \/ UncountPages(Mover) \/ EndShrinking(Mover)
             \/ Unlock(Mover)
    <3>1. UNCHANGED <<full, toFree>>
      BY <2>1 DEF StartShrink, Lock, DetachFree, WalkFree, Unlink, RetainUntouched, RestoreFree, UncountPages,
         EndShrinking, Unlock
    <3>2. at \notin GivenAt \cup RestAt /\ at' \notin GivenAt \cup RestAt
      BY <1>0, <2>1, ShrinkEffects
    <3> QED
      BY <3>1, <3>2 DEF Whole, Out, Given, Rest
  <2>2. CASE RemoveFromFull(Mover)
    <3>1. /\ toFree' = toFree /\ at = "unfull" /\ own' = own
          /\ full' = Kept(full, Pages \ ToSet(own.batch))
          /\ at' = (IF own.batch = <<>> THEN "restore" ELSE "resetDelay")
      BY <1>0, <2>2, ShrinkEffects DEF RemoveFromFull, own
    <3>2. Given = {} /\ Rest = {} /\ Given' = ToSet(own.batch) /\ Rest' = {} /\ ToSet(own.batch) \subseteq ToSet(full)
      BY <1>0, <3>1, NoPages DEF Given, Rest, PlaceInv, Aside, AsideAt
    <3>3. ToSet(full') = ToSet(full) \cap (Pages \ ToSet(own.batch))
      BY <1>0, <3>1, KeptElements
    <3>4. \A x \in ToSet(own.batch) : used[x] = 0
      BY <3>1 DEF MoveInv, UnusedInv
    <3>5. ToSet(full) \subseteq Pages
      BY <1>0, Members
    <3> QED
      BY <3>1, <3>2, <3>3, <3>4, <3>5 DEF Whole, Out
  <2>3. CASE ResetDelay(Mover)
    <3>1. UNCHANGED <<full, toFree>> /\ at = "resetDelay" /\ at' = "grab" /\ own' = own
      BY <1>0, <2>3, ShrinkEffects DEF ResetDelay
    <3> QED
      BY <3>1 DEF Whole, Out, Given, Rest
  <2>4. CASE GrabToFree(Mover)
    <3>1. /\ full' = full /\ at = "grab" /\ at' = "give" /\ own'.batch = own.batch
          /\ own'.rest = toFree /\ toFree' = <<>>
      BY <1>0, <2>4, ShrinkEffects DEF GrabToFree
    <3> QED
      BY <3>1, NoPages DEF Whole, Out, Given, Rest
  <2>5. CASE GiveToFree(Mover)
    <3>1. /\ full' = full /\ at = "give" /\ at' = "restore" /\ own' = own /\ toFree = <<>>
          /\ toFree' = own.rest \o own.batch
      BY <1>0, <2>5, ShrinkEffects DEF GiveToFree, own, ThreadInv, ToFreeIsEmpty, at
    <3>2. ToSet(toFree') = ToSet(own.rest) \cup ToSet(own.batch)
      BY <1>0, <3>1, Joined
    <3> QED
      BY <3>1, <3>2, NoPages DEF Whole, Out, Given, Rest
  <2> QED
    BY <2>1, <2>2, <2>3, <2>4, <2>5 DEF ShrinkStep
<1> QED
  BY <1>1, <1>2 DEF KeepsAll

\* So each step of the mover does one of these, and the pages outside full_list
\* stay unused.
LEMMA WholeNext ==
  ASSUME OneMover, Known, MoveInv, MoverStep
  PROVE  /\ KeepsAll \/ Makes \/ LetsGo
         /\ \A x \in Out' : x \in Out \/ used[x] = 0
<1>1. CASE StartAlloc(Mover) \/ StartShrink(Mover)
  BY <1>1, WholeSearch, WholeShrink
<1>2. CASE ShrinkStep(Mover)
  BY <1>2, WholeShrink
<1>3. CASE at \in FindPlace /\ FindPlaceStep(Mover)
  <2>1. DropPages(Mover) => at = "dropPages"
    BY <1>3 DEF DropPages, at, FindPlace
  <2> QED
    BY <1>3, <2>1, WholeSearch, WholeRefill, WholeMade, WholeDropped DEF FindPlaceStep
<1> QED
  BY <1>1, <1>2, <1>3 DEF MoverStep

\* find_place takes a block of the page at the head of the free list only.
LEMMA UsedNext ==
  ASSUME OneMover, Known, MoveInv, MoverStep
  PROVE  \/ UNCHANGED used
         \/ /\ AcquireFreeBlock(Mover) /\ at' \in {"idle", "next"}
            /\ free \in ToSet(full) /\ free \in Pages /\ used' = [used EXCEPT ![free] = @ + 1]
<1>0. TypeInv /\ full \in Seq(Pages)
  BY DEF Known, TypeInv, ArenaType
<1>1. ASSUME AcquireFreeBlock(Mover), used' # used
      PROVE  /\ at' \in {"idle", "next"}
             /\ free \in ToSet(full) /\ free \in Pages /\ used' = [used EXCEPT ![free] = @ + 1]
  <2>1. at = "acquire" /\ at' \in {"idle", "next"}
    BY <1>0, <1>1, SearchEffects DEF Goes
  <2>2. PICK l \in SUBSET Pages, p \in SUBSET Pages, i \in SUBSET Pages : Lists(l, p, i)
    BY DEF MoveInv, ListInv
  <2>3. free # Null /\ own.page = free
    BY <2>1, <2>2 DEF Lists, ReadsInv
  <2>4. used' = [used EXCEPT ![own.page] = @ + 1]
    BY <1>1 DEF AcquireFreeBlock, own
  <2> QED
    BY <1>0, <2>1, <2>3, <2>4, HeadIsInFull, Members
<1> QED
  BY <1>1, MoverFrame

\* A step of the mover keeps the pages outside full_list unused.
LEMMA UnusedNext ==
  ASSUME OneMover, Known, MoveInv, MoverStep
  PROVE  UnusedInv'
<1>0. /\ TypeInv /\ PlaceInv /\ UnusedInv /\ own.batch \in Seq(Pages) /\ own.page \in Pointer
      /\ used \in [Pages -> 0 .. BLOCK_PER_PAGE] /\ BLOCK_PER_PAGE \in Nat
      /\ Out' \subseteq Pages
  <2>1. Mover \in Threads /\ loc \in [Threads -> Locals] /\ loc' \in [Threads -> Locals]
    BY TheMover, MoverMoves DEF Known, TypeInv, ThreadType, Moves
  <2>2. own.batch \in Seq(Pages) /\ own.page \in Pointer /\ own'.batch \in Seq(Pages) /\ own'.rest \in Seq(Pages)
    BY <2>1 DEF own, Locals
  <2>3. toFree' \in Seq(Pages)
    BY ArenaTypeNext, TheMover DEF MoverStep, Known, Continue, Start, ArenaType
  <2> QED
    BY <2>2, <2>3, Members, SharedArenaAssumption DEF Known, MoveInv, TypeInv, ArenaType, Out, Given, Rest
<1>1. \A x \in Out' : used'[x] = 0
  <2>1. \A x \in Out' : used[x] = 0
    BY <1>0, WholeNext DEF UnusedInv, Out
  <2>2. CASE UNCHANGED used
    BY <2>1, <2>2
  <2>3. CASE AcquireFreeBlock(Mover) /\ free \in ToSet(full) /\ used' = [used EXCEPT ![free] = @ + 1]
    <3>1. Out' \subseteq Out
      BY <2>3, WholeSearch
    <3>2. free \notin Out
      BY <1>0, <2>3 DEF PlaceInv, Out
    <3> QED
      BY <1>0, <2>1, <2>3, <3>1, <3>2
  <2> QED
    BY <2>2, <2>3, UsedNext
<1> USE DEF Goes
<1>2. ASSUME at' \in {"walk", "unlink", "retain", "unfull"}
      PROVE  /\ UNCHANGED used
             /\ \A x \in ToSet(own'.batch) : used[x] = 0
             /\ at' = "unlink" => used[own'.page] = 0
  <2>1. UNCHANGED used
    BY <1>2, UsedNext
  <2>2. DetachFree(Mover) \/ WalkFree(Mover) \/ Unlink(Mover) \/ RetainUntouched(Mover)
    <3>1. CASE StartAlloc(Mover) \/ StartShrink(Mover)
      BY <1>0, <1>2, <3>1, SearchEffects, ShrinkEffects
    <3>2. CASE ShrinkStep(Mover)
      BY <1>0, <1>2, <3>2, ShrinkEffects DEF ShrinkStep
    <3>3. CASE at \in FindPlace /\ FindPlaceStep(Mover)
      <4>1. CASE LoadHead(Mover) \/ AcquireFreeBlock(Mover) \/ LoadNextFree(Mover) \/ PopFree(Mover)
                 \/ UnmarkPage(Mover) \/ TryGuard(Mover) \/ SeeLocked(Mover)
        BY <1>0, <1>2, <4>1, SearchEffects
      <4>2. CASE RecheckFree(Mover) \/ LoadPending(Mover) \/ TakePending(Mover) \/ InstallPending(Mover)
                 \/ LoadToFree(Mover) \/ TakeToFree(Mover) \/ AllocNewPages(Mover) \/ PutFull(Mover)
        BY <1>0, <1>2, <4>2, RefillEffects, ReuseEffects, AllocEffects
      <4>3. CASE PutFree(Mover) \/ CountPages(Mover) \/ PutBackRest(Mover) \/ ZeroDelay(Mover) \/ Release(Mover)
        BY <1>0, <1>2, <4>3, RefillEffects
      <4>4. CASE LoadDelay(Mover) \/ BumpDelay(Mover) \/ SweepToFree(Mover) \/ EndOfSweep(Mover)
        BY <1>0, <1>2, <4>4, SweepEffects
      <4>5. CASE DropPages(Mover)
        <5>1. at = "dropPages"
          BY <3>3, <4>5 DEF DropPages, at, FindPlace
        <5> QED
          BY <1>0, <1>2, <4>5, <5>1, SweepEffects
      <4> QED
        BY <3>3, <4>1, <4>2, <4>3, <4>4, <4>5 DEF FindPlaceStep
    <3> QED
      BY <3>1, <3>2, <3>3 DEF MoverStep
  <2>3. CASE DetachFree(Mover)
    <3>1. at' = "walk" /\ own'.batch = <<>>
      BY <1>0, <2>3, ShrinkEffects DEF Known, ActorInv, CleanInv
    <3> QED
      BY <2>1, <3>1, NoPages
  <2>4. CASE WalkFree(Mover)
    <3>1. at = "walk" /\ own'.batch = own.batch /\ (at' = "unlink" => own'.page = Cell(Mover))
      BY <1>0, <2>4, ShrinkEffects
    <3>2. at' = "unlink" => used[Cell(Mover)] = 0
      <4>1. Mover \in Threads /\ pc \in [Threads -> Labels]
        BY TheMover DEF Known, TypeInv, ThreadType
      <4> QED
        BY <4>1, <2>4 DEF WalkFree, Untouched, Goto, at
    <3> QED
      BY <1>0, <2>1, <3>1, <3>2 DEF UnusedInv
  <2>5. CASE Unlink(Mover)
    <3>1. at = "unlink" /\ at' = "walk"
          /\ (own'.batch = Append(own.batch, own.page) \/ own'.batch = own.batch)
      BY <1>0, <2>5, ShrinkEffects
    <3>2. \A x \in ToSet(own.batch) \cup {own.page} : used[x] = 0
      BY <1>0, <3>1 DEF UnusedInv
    <3>3. own.page \in Pages
      <4>1. PICK l \in SUBSET Pages, p \in SUBSET Pages, i \in SUBSET Pages : Lists(l, p, i)
        BY DEF MoveInv, ListInv
      <4> QED
        BY <1>0, <3>1, <4>1 DEF Lists, ReadsInv, Pointer
    <3>4. ToSet(Append(own.batch, own.page)) = ToSet(own.batch) \cup {own.page}
      BY <1>0, <3>3, Appended
    <3> QED
      BY <2>1, <3>1, <3>2, <3>4
  <2>6. CASE RetainUntouched(Mover)
    <3> DEFINE k == {x \in Pages : Untouched(x)}
    <3>1. at = "retain" /\ at' = "unfull" /\ own'.batch = Kept(own.batch, k)
      BY <1>0, <2>6, ShrinkEffects
    <3> HIDE DEF k
    <3>2. ToSet(own'.batch) \subseteq ToSet(own.batch)
      BY <1>0, <3>1, KeptElements
    <3> QED
      BY <1>0, <2>1, <3>1, <3>2 DEF UnusedInv
  <2> QED
    BY <2>2, <2>3, <2>4, <2>5, <2>6
<1> QED
  BY <1>1, <1>2 DEF UnusedInv, Out

\* A step of the mover keeps the words right.
LEMMA WordNext ==
  ASSUME OneMover, Known, MoveInv, MoverStep
  PROVE  WordInv'
<1>0. /\ TypeInv /\ PlaceInv /\ MadeInv /\ WordInv /\ UnusedInv /\ made \in Nat
      /\ used \in [Pages -> 0 .. BLOCK_PER_PAGE] /\ BLOCK_PER_PAGE \in Nat
  BY SharedArenaAssumption DEF Known, MoveInv, TypeInv, ArenaType
<1>1. arena = "open" /\ arena' = "open" /\ arenaBit = Whole
  BY <1>0, MoverMoves DEF Known, WordInv
<1>2. \A t \in Threads : pc'[t] # "dropArena"
  <2>1. \A t \in Threads : pc[t] # "dropArena"
    BY <1>1 DEF Known, ActorInv
  <2> QED
    BY <2>1, MoverMoves DEF Known, at
<1>3. arenaBit' = Whole'
  <2>1. CASE KeepsAll
    BY <1>1, <2>1 DEF KeepsAll
  <2>2. CASE Makes
    BY <1>1, <2>2 DEF Makes
  <2>3. CASE LetsGo
    BY <1>1, <2>3 DEF LetsGo, DropPage, Whole
  <2> QED
    BY <2>1, <2>2, <2>3, WholeNext
<1>4. ASSUME NEW x \in Pages
      PROVE  x \in freed' <=> x <= made' /\ used'[x] = 0 /\ x \notin arenaBit'
  <2>1. x \in freed <=> x <= made /\ used[x] = 0 /\ x \notin arenaBit
    BY <1>0 DEF WordInv
  <2>2. (used'[x] = 0 <=> used[x] = 0) \/ (AcquireFreeBlock(Mover) /\ x \in ToSet(full))
    BY <1>0, UsedNext
  <2>3. CASE KeepsAll
    <3>1. x \in ToSet(full) => x \in arenaBit
      BY <1>1 DEF Whole
    <3> QED
      BY <2>1, <2>2, <2>3, <3>1 DEF KeepsAll
  <2>4. CASE Makes
    <3>1. PICK n \in Nat \ {0} :
            made' = made + n /\ arenaBit' = arenaBit \cup (made + 1 .. made + n) /\ UNCHANGED freed
      BY <2>4 DEF Makes
    <3>2. x \in ToSet(full) => x \in arenaBit
      BY <1>1 DEF Whole
    <3>3. x <= made' /\ x \notin arenaBit' <=> x <= made /\ x \notin arenaBit
      BY <1>0, <3>1 DEF Pages
    <3> QED
      BY <2>1, <2>2, <3>1, <3>2, <3>3
  <2>5. CASE LetsGo
    <3>1. PICK p \in Given : DropPage(p) /\ made' = made
      BY <2>5 DEF LetsGo
    <3>2. p \in arenaBit /\ used[p] = 0 /\ p \notin ToSet(full) /\ p <= made
      BY <1>0, <1>1, <3>1 DEF Whole, UnusedInv, PlaceInv
    <3>3. arenaBit' = arenaBit \ {p} /\ freed' = freed \cup {p}
      BY <3>1, <3>2 DEF DropPage, Untouched
    <3>4. used'[p] = 0 \/ x # p
      BY <2>2, <3>2
    <3>5. x \in ToSet(full) => x \in arenaBit
      BY <1>1 DEF Whole
    <3> QED
      BY <2>1, <2>2, <3>1, <3>2, <3>3, <3>4, <3>5
  <2> QED
    BY <2>3, <2>4, <2>5, WholeNext
<1>5. arenaBit' \subseteq 1 .. made'
  <2>1. PlaceInv'
    BY PlaceNext
  <2> QED
    BY <1>3, <2>1 DEF PlaceInv, Whole
<1> QED
  BY <1>1, <1>2, <1>3, <1>4, <1>5 DEF WordInv

\* Nor does a thread that drops a handle, or the arena, give the arena a page.
LEMMA WholeOthers ==
  ASSUME OneMover, Known, MoveInv, NEW t \in Threads, OtherStep(t)
  PROVE  /\ Given' = Given /\ Rest' = Rest /\ Whole' = Whole /\ UNCHANGED <<full, toFree, made>>
         /\ t # Mover => at' = at /\ own' = own
         /\ t = Mover => at \in Quiet /\ at' \in Quiet
<1>1. /\ UNCHANGED <<full, toFree, made>> /\ (pc[t] \in Quiet \/ TouchFreed(t))
      /\ t # Mover => at' = at /\ own' = own
  BY OtherMoves DEF Known
<1>2. t # Mover => Given' = Given /\ Rest' = Rest
  BY OtherHands DEF MoveInv
<1>3. t = Mover => Given' = {} /\ Rest' = {} /\ at' \in Quiet
  BY OtherHands DEF MoveInv
<1>4. t = Mover => at \in Quiet
  BY <1>1, MoverIsSafe DEF TouchFreed, at
<1>5. t = Mover => Given = {} /\ Rest = {}
  BY <1>4, QuietHands
<1>6. Given' = Given /\ Rest' = Rest
  BY <1>2, <1>3, <1>5
<1> QED
  BY <1>1, <1>3, <1>4, <1>6 DEF Whole

\* What it does to the words of the pages.
LEMMA OtherWords ==
  ASSUME OneMover, Known, NEW t \in Threads, OtherStep(t)
  PROVE  \/ /\ UNCHANGED <<used, arenaBit, freed>>
            /\ pc'[t] = "dropArena" => StartDropArena(t)
            /\ arena' = "dropped" => arena = "dropped" \/ EndDropArena(t)
         \/ /\ UNCHANGED <<arenaBit, arena>> /\ pc'[t] # "dropArena"
            /\ \E p \in Pages : GiveBlock(t, p)
         \/ /\ pc[t] = "dropArena" /\ DropPages(t)
            /\ UNCHANGED <<used, arena>>
<1>0. pc \in [Threads -> Labels]
  BY DEF Known, TypeInv, ThreadType
<1> USE <1>0 DEF Goto, Return, pageVars, arenaVars
<1>1. CASE LoadMark(t) \/ SwapMark(t) \/ UpgradePending(t)
  BY <1>1 DEF LoadMark, SwapMark, UpgradePending
<1>2. CASE LinkPending(t) \/ PushPending(t)
  BY <1>2 DEF LinkPending, PushPending
<1>3. CASE TouchFreed(t)
  BY <1>3 DEF TouchFreed
<1>4. ASSUME NEW p \in Pages, GiveBlock(t, p)
      PROVE  UNCHANGED <<arenaBit, arena>> /\ pc'[t] # "dropArena"
  BY <1>4 DEF GiveBlock
<1>5. CASE StartDropArena(t) \/ EndDropArena(t)
  BY <1>5 DEF StartDropArena, EndDropArena
<1>6. CASE pc[t] = "dropArena" /\ DropPages(t)
  BY <1>6 DEF DropPages
<1> QED
  BY <1>1, <1>2, <1>3, <1>4, <1>5, <1>6 DEF OtherStep, DropBlockStep

\* It takes no block.
LEMMA UnusedOthers ==
  ASSUME OneMover, Known, MoveInv, NEW t \in Threads, OtherStep(t)
  PROVE  UnusedInv'
<1>0. /\ used \in [Pages -> 0 .. BLOCK_PER_PAGE] /\ BLOCK_PER_PAGE \in Nat /\ toFree \in Seq(Pages)
      /\ own.batch \in Seq(Pages) /\ own.rest \in Seq(Pages) /\ own.page \in Pointer /\ UnusedInv
  <2>1. Mover \in Threads /\ loc \in [Threads -> Locals]
    BY TheMover DEF Known, TypeInv, ThreadType
  <2> QED
    BY <2>1, SharedArenaAssumption DEF Known, MoveInv, TypeInv, ArenaType, own, Locals
<1>1. \A x \in Pages : used[x] = 0 => used'[x] = 0
  <2>1. ASSUME NEW p \in Pages, GiveBlock(t, p)
        PROVE  \A x \in Pages : used[x] = 0 => used'[x] = 0
    <3>1. used[p] > 0 /\ used' = [used EXCEPT ![p] = @ - 1]
      BY <2>1 DEF GiveBlock
    <3> QED
      BY <1>0, <3>1
  <2> QED
    BY <2>1, OtherWords
<1>2. /\ Given' = Given /\ Rest' = Rest /\ toFree' = toFree
      /\ t # Mover => at' = at /\ own' = own
      /\ t = Mover => at' \in Quiet
  BY WholeOthers
<1>3. \A x \in ToSet(toFree) \cup Given \cup Rest : x \in Pages
  BY <1>0, Members DEF Given, Rest
<1>4. \A x \in ToSet(own.batch) : x \in Pages
  BY <1>0, Members
<1>5. \A x \in ToSet(toFree') \cup Given' \cup Rest' : used'[x] = 0
  BY <1>0, <1>1, <1>2, <1>3 DEF UnusedInv
<1>6. CASE t = Mover
  <2>1. at' \notin {"walk", "unlink", "retain", "unfull"}
    BY <1>2, <1>6 DEF Quiet, DropBlock
  <2> QED
    BY <1>5, <2>1 DEF UnusedInv
<1>7. CASE t # Mover
  <2>1. at = "unlink" => own.page \in Pages
    <3>1. PICK l \in SUBSET Pages, p \in SUBSET Pages, i \in SUBSET Pages : Lists(l, p, i)
      BY DEF MoveInv, ListInv
    <3> QED
      BY <1>0, <3>1 DEF Lists, ReadsInv, Pointer
  <2> QED
    BY <1>0, <1>1, <1>2, <1>4, <1>5, <1>7, <2>1 DEF UnusedInv
<1> QED
  BY <1>6, <1>7

\* The arena lets its pages go one by one as it is dropped, and the last block of
\* a page that it let go frees it.
LEMMA WordOthers ==
  ASSUME OneMover, Known, MoveInv, NEW t \in Threads, OtherStep(t)
  PROVE  WordInv'
<1>0. /\ TypeInv /\ ActorInv /\ PlaceInv /\ MadeInv /\ WordInv /\ made \in Nat
      /\ used \in [Pages -> 0 .. BLOCK_PER_PAGE] /\ BLOCK_PER_PAGE \in Nat
      /\ pc \in [Threads -> Labels] /\ loc \in [Threads -> Locals]
      /\ full \in Seq(Pages) /\ toFree \in Seq(Pages) /\ loc[t].batch \in Seq(Pages)
  <2>1. TypeInv /\ ActorInv /\ PlaceInv /\ MadeInv /\ WordInv
    BY DEF Known, MoveInv
  <2>2. pc \in [Threads -> Labels] /\ loc \in [Threads -> Locals]
    BY <2>1 DEF TypeInv, ThreadType
  <2>3. loc[t].batch \in Seq(Pages)
    BY <2>2 DEF Locals
  <2> QED
    BY <2>1, <2>2, <2>3, SharedArenaAssumption DEF TypeInv, ArenaType
<1>1. /\ UNCHANGED <<full, toFree, made>> /\ Whole' = Whole
      /\ \A u \in Threads \ {t} : pc'[u] = pc[u] /\ loc'[u] = loc[u]
  BY <1>0, WholeOthers, OtherMoves DEF Moves
<1>2. /\ arenaBit \subseteq 1 .. made
      /\ \A x \in Pages : x \in freed <=> x <= made /\ used[x] = 0 /\ x \notin arenaBit
      /\ arena = "open" => arenaBit = Whole
      /\ \A u \in Threads : pc[u] = "dropArena" => IsInjective(loc[u].batch) /\ ToSet(loc[u].batch) = arenaBit
      /\ arena = "dropped" => arenaBit = {}
  BY <1>0 DEF WordInv
<1>3. arena' = "open" => arena = "open"
  BY <1>0, ArenaSteps
<1>4. CASE /\ UNCHANGED <<used, arenaBit, freed>>
           /\ pc'[t] = "dropArena" => StartDropArena(t)
           /\ arena' = "dropped" => arena = "dropped" \/ EndDropArena(t)
  <2>1. ASSUME StartDropArena(t)
        PROVE  IsInjective(loc'[t].batch) /\ ToSet(loc'[t].batch) = arenaBit
    <3>1. arena = "open" /\ loc'[t].batch = toFree \o full /\ at \in Quiet
      <4>1. arena = "open" /\ arena' = "dropping"
        BY <2>1 DEF StartDropArena
      <4>2. at \in Quiet
        BY <1>0, <4>1, ArenaSteps
      <4> QED
        BY <1>0, <2>1, <4>1, <4>2 DEF StartDropArena, Locals
    <3>2. arenaBit = ToSet(full) \cup ToSet(toFree)
      BY <1>2, <3>1, QuietHands DEF Whole
    <3>3. IsInjective(toFree \o full) /\ ToSet(toFree \o full) = ToSet(full) \cup ToSet(toFree)
      BY <1>0, Joined DEF PlaceInv
    <3> QED
      BY <3>1, <3>2, <3>3
  <2>2. EndDropArena(t) => arenaBit = {}
    BY <1>2, NoPages DEF EndDropArena
  <2>3. \A u \in Threads : pc'[u] = "dropArena" => IsInjective(loc'[u].batch) /\ ToSet(loc'[u].batch) = arenaBit
    BY <1>1, <1>2, <1>4, <2>1
  <2> QED
    BY <1>1, <1>2, <1>3, <1>4, <2>2, <2>3 DEF WordInv
<1>5. ASSUME UNCHANGED <<arenaBit, arena>>, pc'[t] # "dropArena", NEW p \in Pages, GiveBlock(t, p)
      PROVE  WordInv'
  <2>1. /\ p \notin freed /\ used[p] > 0 /\ used' = [used EXCEPT ![p] = @ - 1]
        /\ \/ used[p] = 1 /\ p \notin arenaBit /\ freed' = freed \cup {p}
           \/ (used[p] > 1 \/ p \in arenaBit) /\ freed' = freed
    BY <1>5 DEF GiveBlock
  <2>2. p <= made
    BY <1>0, <2>1 DEF MadeInv
  <2>3. used'[p] = used[p] - 1 /\ \A x \in Pages \ {p} : used'[x] = used[x]
    BY <1>0, <2>1
  <2>4. used[p] \in Nat
    BY <1>0
  <2>5. \A x \in Pages : x \in freed' <=> x <= made /\ used'[x] = 0 /\ x \notin arenaBit
    BY <1>2, <2>1, <2>2, <2>3, <2>4
  <2>6. \A u \in Threads : pc'[u] = "dropArena" => IsInjective(loc'[u].batch) /\ ToSet(loc'[u].batch) = arenaBit
    BY <1>1, <1>2, <1>5
  <2> QED
    BY <1>1, <1>2, <1>5, <2>5, <2>6 DEF WordInv
<1>6. CASE pc[t] = "dropArena" /\ DropPages(t) /\ UNCHANGED <<used, arena>>
  <2>1. /\ loc[t].batch # <<>> /\ DropPage(Head(loc[t].batch)) /\ loc'[t].batch = Tail(loc[t].batch)
        /\ arena = "dropping"
    BY <1>0, <1>6 DEF DropPages, ActorInv, Locals
  <2>2. PICK p \in Pages : p = Head(loc[t].batch)
    BY <1>0, <2>1, FirstAndRest
  <2>3. arenaBit = {p} \cup ToSet(Tail(loc[t].batch))
    BY <1>0, <1>2, <1>6, <2>1, <2>2, FirstAndRest
  <2>4. IsInjective(Tail(loc[t].batch)) /\ p \notin ToSet(Tail(loc[t].batch))
    BY <1>0, <1>2, <1>6, <2>1, <2>2, FirstAndRest
  <2>5. /\ p \in arenaBit /\ arenaBit' = arenaBit \ {p}
        /\ freed' = IF used[p] = 0 THEN freed \cup {p} ELSE freed
    BY <2>1, <2>2, <2>3 DEF DropPage, Untouched
  <2>6. \A x \in Pages : x \in freed' <=> x <= made /\ used[x] = 0 /\ x \notin arenaBit'
    <3>1. p <= made
      BY <1>0, <1>2, <2>5
    <3> QED
      BY <1>2, <2>5, <3>1
  <2>7. \A u \in Threads : pc'[u] = "dropArena" => u = t
    BY <1>0, <1>1, <1>6 DEF ActorInv
  <2>8. IsInjective(loc'[t].batch) /\ ToSet(loc'[t].batch) = arenaBit'
    BY <2>1, <2>3, <2>4, <2>5
  <2> QED
    BY <1>1, <1>2, <1>6, <2>1, <2>5, <2>6, <2>7, <2>8 DEF WordInv
<1> QED
  BY <1>4, <1>5, <1>6, OtherWords

-----------------------------------------------------------------------------
(* The lists, while the mover moves pages.                                 *)

\* Where the mover has read something of the lists.
ReadAt == {"acquire", "next", "cas", "walk", "unlink", "putFull", "putFree"}

\* It is enough to give the new lists: the threads that push stay apart from them
\* as long as the settled pages stay.
LEMMA ListStep ==
  ASSUME OneMover, Known, MoverStep,
         NEW l \in SUBSET Pages, NEW p \in SUBSET Pages, NEW i \in SUBSET Pages,
         NEW s, PushersApart(s), Pushed(s),
         Chained(l, p, i)', InFull(l \cup p \cup i)', ReadsInv(i)',
         \A x \in Settled(s) :
           x \in ToSet(full') \cap marked' /\ x \notin l \cup p \cup i \cup Aside'
           /\ nextFree'[x] = nextFree[x],
         \A x \in ToSet(full') \cap marked' : x \in Settled(s) \cup l \cup p \cup i \cup Aside'
  PROVE  ListInv'
<1> DEFINE v == l \cup p \cup i
<1>1. /\ Mover \in Threads /\ at' \notin DropBlock
      /\ \A t \in Threads \ {Mover} : pc'[t] = pc[t] /\ loc'[t] = loc[t]
  BY MoverMoves DEF Known
<1>2. \A t \in Threads : pc'[t] \in Pushing => pc'[t] = pc[t] /\ loc'[t] = loc[t]
  BY <1>1 DEF Pushing, DropBlock, at
<1> HIDE DEF v
<1>3. ASSUME NEW t \in Threads, pc'[t] \in Pushing
      PROVE  /\ loc'[t].page \in (ToSet(full') \cap marked') \ (v \cup Aside')
             /\ pc'[t] = "pushCas" => nextFree'[loc'[t].page] = loc'[t].nxt
             /\ \A u \in Threads : pc'[u] \in Pushing /\ loc'[u].page = loc'[t].page => t = u
  <2>1. /\ loc[t].page \in Settled(s)
        /\ pc[t] = "pushCas" => nextFree[loc[t].page] = loc[t].nxt
        /\ \A u \in Threads : pc[u] \in Pushing /\ loc[u].page = loc[t].page => t = u
    BY <1>2, <1>3 DEF PushersApart, Settled
  <2> QED
    BY <1>2, <1>3, <2>1 DEF v
<1>4. PushersApart(v)'
  BY <1>3 DEF PushersApart
<1>5. ASSUME NEW x \in ToSet(full') \cap marked', x \notin v \cup Aside'
      PROVE  \E t \in Threads : pc'[t] \in Pushing /\ loc'[t].page = x
  <2>1. x \in Settled(s)
    BY <1>5 DEF v
  <2>2. arena = "open" /\ at \notin DropBlock
    BY MoverMoves DEF Known
  <2>3. PICK t \in Threads : pc[t] \in Pushing /\ loc[t].page = x
    BY <2>1, <2>2 DEF Pushed
  <2>4. t # Mover
    BY <2>2, <2>3 DEF Pushing, DropBlock, at
  <2> QED
    BY <1>1, <2>3, <2>4
<1>6. Pushed(v)'
  BY <1>5 DEF Pushed, Settled
<1> QED
  BY <1>4, <1>6 DEF ListInv, Lists, v

\* Most steps change no list.
LEMMA SameLists ==
  ASSUME OneMover, Known, MoveInv, MoverStep, UNCHANGED <<nextFree, marked, free, pending, full>>,
         Aside' = Aside, InHand(Mover)' = InHand(Mover),
         \A i \in SUBSET Pages :
           ReadsInv(i) /\ (at \in {"walk", "unlink"} /\ Cell(Mover) # Null => Cell(Mover) \in i) => ReadsInv(i)'
  PROVE  ListInv'
<1>1. PICK l \in SUBSET Pages, p \in SUBSET Pages, i \in SUBSET Pages : Lists(l, p, i)
  BY DEF MoveInv, ListInv
<1> DEFINE s == l \cup p \cup i
<1>2. Chained(l, p, i) /\ InFull(s) /\ PushersApart(s) /\ Pushed(s) /\ ReadsInv(i)
  BY <1>1 DEF Lists
<1>3. ReadsInv(i)'
  BY <1>1, <1>2, CellInHand
<1>4. Chained(l, p, i)'
  BY <1>2 DEF Chained
<1>5. InFull(s)'
  BY <1>2 DEF InFull
<1> QED
  BY <1>2, <1>3, <1>4, <1>5, ListStep DEF Settled

\* In particular where the mover has none.
LEMMA NoReads ==
  ASSUME at' \notin ReadAt, NEW i
  PROVE  ReadsInv(i)'
BY DEF ReadsInv, ReadAt

\* Steps of find_place and shrink_to_fit while there is no list in hand.
LEMMA IdleLists ==
  ASSUME OneMover, Known, MoveInv, MoverStep, UNCHANGED <<nextFree, marked, free, pending, full>>,
         at \notin {"install", "unmark"} \cup HandAt \cup AsideAt,
         at' \notin {"install", "unmark"} \cup HandAt \cup AsideAt \cup ReadAt
  PROVE  ListInv'
<1>1. Aside' = Aside
  BY DEF Aside
<1>2. InHand(Mover)' = InHand(Mover)
  BY HandOf
<1> QED
  BY <1>1, <1>2, NoReads, SameLists

\* find_place, where it changes no list.
LEMMA ListsSearch ==
  ASSUME OneMover, Known, MoveInv, MoverStep,
         \/ StartAlloc(Mover) \/ LoadHead(Mover) \/ AcquireFreeBlock(Mover) \/ LoadNextFree(Mover)
         \/ TryGuard(Mover) \/ SeeLocked(Mover) \/ RecheckFree(Mover) \/ LoadPending(Mover)
         \/ LoadToFree(Mover) \/ (TakeToFree(Mover) /\ toFree = <<>>)
         \/ CountPages(Mover) \/ PutBackRest(Mover) \/ ZeroDelay(Mover) \/ Release(Mover)
         \/ LoadDelay(Mover) \/ BumpDelay(Mover) \/ SweepToFree(Mover)
         \/ (at = "dropPages" /\ DropPages(Mover)) \/ EndOfSweep(Mover)
  PROVE  ListInv'
<1>0. TypeInv /\ PlaceInv /\ WriterInv
  BY DEF Known, MoveInv
<1> USE DEF Goes, HandAt, AsideAt, ReadAt, listVars, pageVars
<1>1. CASE LoadHead(Mover)
  <2>1. at = "head" /\ at' \in {"guard", "acquire"} /\ own'.page = free /\ (at' = "acquire" => free # Null)
    BY <1>0, <1>1, SearchEffects
  <2>2. UNCHANGED <<nextFree, marked, free, pending, full>>
    BY <1>1 DEF LoadHead
  <2>3. Aside' = Aside /\ InHand(Mover)' = InHand(Mover)
    BY <2>1, HandOf DEF Aside
  <2>4. \A i \in SUBSET Pages : ReadsInv(i)'
    BY <2>1, <2>2 DEF ReadsInv
  <2> QED
    BY <2>2, <2>3, <2>4, SameLists
<1>2. CASE AcquireFreeBlock(Mover)
  <2>1. at = "acquire" /\ (at' = "idle" \/ (at' = "next" /\ own' = own))
    BY <1>0, <1>2, SearchEffects
  <2>2. UNCHANGED <<nextFree, marked, free, pending, full>>
    BY <1>2 DEF AcquireFreeBlock
  <2>3. Aside' = Aside /\ InHand(Mover)' = InHand(Mover)
    BY <2>1, HandOf DEF Aside
  <2>4. \A i \in SUBSET Pages : ReadsInv(i) => ReadsInv(i)'
    BY <2>1, <2>2 DEF ReadsInv
  <2> QED
    BY <2>2, <2>3, <2>4, SameLists
<1>3. CASE LoadNextFree(Mover)
  <2>1. at = "next" /\ at' = "cas" /\ own'.page = own.page /\ own'.nxt = nextFree[own.page]
    BY <1>0, <1>3, SearchEffects
  <2>2. UNCHANGED <<nextFree, marked, free, pending, full>>
    BY <1>3 DEF LoadNextFree
  <2>3. Aside' = Aside /\ InHand(Mover)' = InHand(Mover)
    BY <2>1, HandOf DEF Aside
  <2>4. \A i \in SUBSET Pages : ReadsInv(i) => ReadsInv(i)'
    BY <2>1, <2>2 DEF ReadsInv
  <2> QED
    BY <2>2, <2>3, <2>4, SameLists
<1>4. CASE StartAlloc(Mover) \/ TryGuard(Mover) \/ SeeLocked(Mover) \/ RecheckFree(Mover) \/ LoadPending(Mover)
           \/ LoadToFree(Mover) \/ (TakeToFree(Mover) /\ toFree = <<>>)
  <2>1. UNCHANGED <<nextFree, marked, free, pending, full>>
    BY <1>0, <1>4, RefillEffects DEF StartAlloc, TryGuard, SeeLocked, RecheckFree, LoadPending, LoadToFree, TakeToFree
  <2>2. /\ at \notin {"install", "unmark"} \cup HandAt \cup AsideAt
        /\ at' \notin {"install", "unmark"} \cup HandAt \cup AsideAt \cup ReadAt
    BY <1>0, <1>4, SearchEffects, RefillEffects
  <2> QED
    BY <2>1, <2>2, IdleLists
<1>5. CASE CountPages(Mover) \/ PutBackRest(Mover) \/ ZeroDelay(Mover) \/ Release(Mover)
  <2>1. UNCHANGED <<nextFree, marked, free, pending, full>>
    BY <1>5 DEF CountPages, PutBackRest, ZeroDelay, Release
  <2>2. /\ at \notin {"install", "unmark"} \cup HandAt \cup AsideAt
        /\ at' \notin {"install", "unmark"} \cup HandAt \cup AsideAt \cup ReadAt
    BY <1>0, <1>5, RefillEffects
  <2> QED
    BY <2>1, <2>2, IdleLists
<1>6. CASE LoadDelay(Mover) \/ BumpDelay(Mover) \/ SweepToFree(Mover)
           \/ (at = "dropPages" /\ DropPages(Mover)) \/ EndOfSweep(Mover)
  <2>1. UNCHANGED <<nextFree, marked, free, pending, full>>
    BY <1>6 DEF LoadDelay, BumpDelay, SweepToFree, DropPages, EndOfSweep
  <2>2. /\ at \notin {"install", "unmark"} \cup HandAt \cup AsideAt
        /\ at' \notin {"install", "unmark"} \cup HandAt \cup AsideAt \cup ReadAt
    BY <1>0, <1>6, SweepEffects
  <2> QED
    BY <2>1, <2>2, IdleLists
<1> QED
  BY <1>1, <1>2, <1>3, <1>4, <1>5, <1>6

\* The pages a thread that pushes may have stay settled.
LEMMA SettledPages ==
  ASSUME NEW s, NEW x \in Settled(s)
  PROVE  x \in ToSet(full) /\ x \in marked /\ x \notin s /\ x \notin Aside
BY DEF Settled

\* find_place takes the head of the free list out, and later its mark.
LEMMA ListsPop ==
  ASSUME OneMover, Known, MoveInv, MoverStep, PopFree(Mover) \/ UnmarkPage(Mover)
  PROVE  ListInv'
<1>0. TypeInv /\ nextFree \in [Pages -> Pointer]
  BY DEF Known, TypeInv, ArenaType
<1>1. PICK l \in SUBSET Pages, p \in SUBSET Pages, i \in SUBSET Pages : Lists(l, p, i)
  BY DEF MoveInv, ListInv
<1> DEFINE s == l \cup p \cup i
<1>2. Chained(l, p, i) /\ InFull(s) /\ PushersApart(s) /\ Pushed(s) /\ ReadsInv(i)
  BY <1>1 DEF Lists
<1> USE DEF Goes, HandAt, AsideAt, ReadAt, listVars, pageVars
<1>3. CASE PopFree(Mover) /\ free # own.page
  <2>1. /\ at = "cas" /\ at' = "head"
        /\ UNCHANGED <<nextFree, marked, free, pending, full>>
    BY <1>0, <1>3, SearchEffects DEF PopFree
  <2> QED
    BY <2>1, IdleLists
<1>4. CASE PopFree(Mover) /\ free = own.page
  <2>1. /\ at = "cas" /\ at' = "unmark" /\ own' = own /\ free' = own.nxt
        /\ UNCHANGED <<nextFree, marked, pending, full>>
    BY <1>0, <1>4, SearchEffects DEF PopFree
  <2>2. free # Null /\ own.page = free /\ own.nxt = nextFree[free]
    BY <1>2, <2>1 DEF ReadsInv
  <2>3. Aside = {} /\ Aside' = {free} /\ InHand(Mover)' = InHand(Mover)
    BY <2>1, <2>2, HandOf DEF Aside
  <2>4. free \in l /\ free \notin p /\ free \notin i
    BY <1>2, <2>2 DEF Chained, IsChain
  <2>5. PICK k \in SUBSET Pages : k = l \ {free}
    <3>1. l \ {free} \in SUBSET Pages
      OBVIOUS
    <3> QED
      BY <3>1
  <2>6. IsChain(nextFree, k, free')
    BY <1>0, <1>2, <2>1, <2>2, <2>5, ChainPopped DEF Chained
  <2>7. Chained(k, p, i)'
    BY <1>2, <2>1, <2>3, <2>4, <2>5, <2>6 DEF Chained
  <2>8. InFull(k \cup p \cup i)'
    BY <1>2, <2>1, <2>3, <2>4, <2>5 DEF InFull
  <2>9. ReadsInv(i)'
    BY <2>1, NoReads
  <2>10. \A x \in Settled(s) : x \in ToSet(full') \cap marked' /\ x \notin k \cup p \cup i \cup Aside'
                               /\ nextFree'[x] = nextFree[x]
    BY <2>1, <2>3, <2>4, <2>5, SettledPages
  <2>11. \A x \in ToSet(full') \cap marked' : x \in Settled(s) \cup k \cup p \cup i \cup Aside'
    BY <2>1, <2>3, <2>5 DEF Settled
  <2> HIDE DEF s
  <2> QED
    BY <1>2, <2>7, <2>8, <2>9, <2>10, <2>11, ListStep
<1>5. CASE UnmarkPage(Mover)
  <2>1. /\ at = "unmark" /\ at' = "head" /\ marked' = marked \ {own.page}
        /\ UNCHANGED <<nextFree, free, pending, full>>
    BY <1>0, <1>5, SearchEffects DEF UnmarkPage, own
  <2>2. Aside = {own.page} /\ Aside' = {} /\ InHand(Mover)' = InHand(Mover)
    BY <2>1, HandOf DEF Aside
  <2>3. Chained(l, p, i)'
    BY <1>2, <2>1, <2>2 DEF Chained
  <2>4. InFull(l \cup p \cup i)'
    BY <1>2, <2>1, <2>2 DEF InFull
  <2>5. ReadsInv(i)'
    BY <2>1, NoReads
  <2>6. \A x \in Settled(s) : x \in ToSet(full') \cap marked' /\ x \notin l \cup p \cup i \cup Aside'
                              /\ nextFree'[x] = nextFree[x]
    BY <2>1, <2>2, SettledPages
  <2>7. \A x \in ToSet(full') \cap marked' : x \in Settled(s) \cup l \cup p \cup i \cup Aside'
    BY <2>1, <2>2 DEF Settled
  <2> HIDE DEF s
  <2> QED
    BY <1>2, <2>3, <2>4, <2>5, <2>6, <2>7, ListStep
<1> QED
  BY <1>3, <1>4, <1>5

\* A list goes as a whole from one place to another: from the pending list to the
\* hand and to the free list, from there to the hand and back.
LEMMA ListsSwap ==
  ASSUME OneMover, Known, MoveInv, MoverStep,
         TakePending(Mover) \/ InstallPending(Mover) \/ DetachFree(Mover) \/ RestoreFree(Mover)
  PROVE  ListInv'
<1>0. /\ TypeInv /\ nextFree \in [Pages -> Pointer] /\ Mover \in Threads /\ ThreadInv(Mover) /\ CleanInv
      /\ MaxPages \in Nat
  BY TheMover, SharedArenaAssumption DEF Known, TypeInv, ArenaType, WriterInv, ActorInv
<1>1. PICK l \in SUBSET Pages, p \in SUBSET Pages, i \in SUBSET Pages : Lists(l, p, i)
  BY DEF MoveInv, ListInv
<1> DEFINE s == l \cup p \cup i
<1>2. Chained(l, p, i) /\ InFull(s) /\ PushersApart(s) /\ Pushed(s) /\ ReadsInv(i)
  BY <1>1 DEF Lists
<1>3. UNCHANGED <<nextFree, marked, full>>
  BY DEF TakePending, InstallPending, DetachFree, RestoreFree, pageVars
<1>4. ASSUME NEW k \in SUBSET Pages, NEW q \in SUBSET Pages, NEW j \in SUBSET Pages,
             IsChain(nextFree, k, free'), IsChain(nextFree, q, pending'), IsChain(nextFree, j, InHand(Mover)'),
             k \cap q = {}, k \cap j = {}, q \cap j = {}, k \cup q \cup j = s, Aside = {}, Aside' = {},
             ReadsInv(j)'
      PROVE  ListInv'
  <2>1. Chained(k, q, j)'
    BY <1>3, <1>4 DEF Chained
  <2>2. InFull(k \cup q \cup j)'
    BY <1>2, <1>3, <1>4 DEF InFull
  <2>3. \A x \in Settled(s) : x \in ToSet(full') \cap marked' /\ x \notin k \cup q \cup j \cup Aside'
                              /\ nextFree'[x] = nextFree[x]
    BY <1>3, <1>4, SettledPages
  <2>4. \A x \in ToSet(full') \cap marked' : x \in Settled(s) \cup k \cup q \cup j \cup Aside'
    BY <1>3, <1>4 DEF Settled
  <2> HIDE DEF s
  <2> QED
    BY <1>2, <1>4, <2>1, <2>2, <2>3, <2>4, ListStep
<1>5. /\ IsChain(nextFree, l, free) /\ IsChain(nextFree, p, pending) /\ IsChain(nextFree, i, InHand(Mover))
      /\ l \cap p = {} /\ l \cap i = {} /\ p \cap i = {}
      /\ s = l \cup p \cup i
  BY <1>2 DEF Chained
<1>6. /\ IsChain(nextFree, {}, Null)
      /\ free = Null => l = {}
      /\ InHand(Mover) = Null => i = {}
  BY <1>0, <1>5, ChainEmpty, ChainOfNull
<1> HIDE DEF s
<1> USE DEF Goes, HandAt, AsideAt, ReadAt, listVars
<1>7. CASE TakePending(Mover)
  <2>1. /\ at = "take" /\ at' = "install" /\ own'.page = pending /\ pending' = Null /\ free' = free
    BY <1>0, <1>7, RefillEffects DEF TakePending
  <2>2. InHand(Mover) = Null /\ InHand(Mover)' = pending /\ Aside = {} /\ Aside' = {}
    BY <2>1, HandOf DEF Aside
  <2>3. ReadsInv(p)'
    BY <2>1, NoReads
  <2> QED
    BY <1>4, <1>5, <1>6, <2>1, <2>2, <2>3
<1>8. CASE InstallPending(Mover)
  <2>1. /\ at = "install" /\ free' = own.page /\ pending' = pending
    BY <1>0, <1>8, RefillEffects DEF InstallPending, own
  <2>2. free = Null /\ at' = "delay"
    BY <1>0, <1>8, <2>1, RefillEffects DEF ThreadInv, FreeIsEmpty, at
  <2>3. InHand(Mover) = own.page /\ InHand(Mover)' = Null /\ Aside = {} /\ Aside' = {}
    BY <2>1, <2>2, HandOf DEF Aside
  <2>4. ReadsInv({})'
    BY <2>2, NoReads
  <2> QED
    BY <1>4, <1>5, <1>6, <2>1, <2>2, <2>3, <2>4
<1>9. CASE DetachFree(Mover)
  <2>1. /\ at = "detach" /\ at' = "walk" /\ own'.start = free /\ own'.cur = Null /\ own'.batch = <<>>
        /\ free' = Null /\ pending' = pending
    BY <1>0, <1>9, ShrinkEffects DEF DetachFree, CleanInv
  <2>2. InHand(Mover) = Null /\ InHand(Mover)' = free /\ Aside = {} /\ Aside' = {}
    BY <2>1, HandOf, NoPages DEF Aside
  <2>3. ReadsInv(l)'
    BY <2>1 DEF ReadsInv
  <2> QED
    BY <1>4, <1>5, <1>6, <2>1, <2>2, <2>3
<1>10. CASE RestoreFree(Mover)
  <2>1. /\ at = "restore" /\ free' = own.start /\ pending' = pending
    BY <1>0, <1>10, ShrinkEffects DEF RestoreFree, own
  <2>2. free = Null /\ at' = "uncount"
    BY <1>0, <1>10, <2>1, ShrinkEffects DEF ThreadInv, FreeIsEmpty, at
  <2>3. InHand(Mover) = own.start /\ InHand(Mover)' = Null /\ Aside = {} /\ Aside' = {}
    BY <2>1, <2>2, HandOf DEF Aside
  <2>4. ReadsInv({})'
    BY <2>2, NoReads
  <2> QED
    BY <1>4, <1>5, <1>6, <2>1, <2>2, <2>3, <2>4
<1> QED
  BY <1>7, <1>8, <1>9, <1>10

\* Pages are put in the lists: those of to_free, or new ones.
LEMMA ListsRefill ==
  ASSUME OneMover, Known, MoveInv, MoverStep,
         \/ TakeToFree(Mover) /\ toFree # <<>>
         \/ AllocNewPages(Mover) \/ PutFull(Mover) \/ PutFree(Mover)
  PROVE  ListInv'
<1>0. /\ TypeInv /\ PlaceInv /\ nextFree \in [Pages -> Pointer] /\ Mover \in Threads /\ ThreadInv(Mover)
      /\ own.batch \in Seq(Pages) /\ full \in Seq(Pages) /\ toFree \in Seq(Pages)
      /\ MaxPages \in Nat /\ made \in Nat
  <2>1. Mover \in Threads /\ loc \in [Threads -> Locals]
    BY TheMover DEF Known, TypeInv, ThreadType
  <2> QED
    BY <2>1, SharedArenaAssumption DEF Known, MoveInv, TypeInv, ArenaType, WriterInv, own, Locals
<1>1. PICK l \in SUBSET Pages, p \in SUBSET Pages, i \in SUBSET Pages : Lists(l, p, i)
  BY DEF MoveInv, ListInv
<1> DEFINE s == l \cup p \cup i
<1>2. Chained(l, p, i) /\ InFull(s) /\ PushersApart(s) /\ Pushed(s) /\ ReadsInv(i)
  BY <1>1 DEF Lists
<1>3. s \cap Aside = {} /\ s \cup Aside \subseteq ToSet(full) \cap marked
  BY <1>2 DEF InFull
<1> HIDE DEF s
<1> USE DEF Goes, HandAt, AsideAt, ReadAt, GivenAt, listVars, pageVars
\* Pages that are in no list are linked to each other.
<1>4. ASSUME NEW new \in SUBSET Pages, new = ToSet(own'.batch), new \cap ToSet(full) = {},
             own'.batch # <<>>, IsChain(nextFree', new, Head(own'.batch)),
             \A x \in Pages \ new : nextFree'[x] = nextFree[x],
             marked' = marked \cup new, UNCHANGED <<free, pending, full>>,
             at \in {"reuse", "allocate"}, at' = "putFull"
      PROVE  ListInv'
  <2>1. Aside = {} /\ Aside' = {} /\ InHand(Mover)' = InHand(Mover)
    BY <1>4, HandOf DEF Aside
  <2>2. ToSet(full) \subseteq Pages
    BY <1>0, Members
  <2>3. \A x \in ToSet(full) : nextFree'[x] = nextFree[x]
    BY <1>4, <2>2
  <2>4. Chained(l, p, i)'
    <3>1. \A x \in l \cup p \cup i : nextFree'[x] = nextFree[x]
      BY <1>3, <2>3 DEF s
    <3>2. IsChain(nextFree', l, free) /\ IsChain(nextFree', p, pending) /\ IsChain(nextFree', i, InHand(Mover))
      BY <1>2, <3>1, ChainFrame DEF Chained
    <3> QED
      BY <1>2, <1>4, <2>1, <3>2 DEF Chained
  <2>5. InFull(l \cup p \cup i)'
    BY <1>3, <1>4, <2>1 DEF InFull, s
  <2>6. ReadsInv(i)'
    BY <1>4 DEF ReadsInv
  <2>7. \A x \in Settled(s) : x \in ToSet(full') \cap marked' /\ x \notin l \cup p \cup i \cup Aside'
                              /\ nextFree'[x] = nextFree[x]
    BY <1>4, <2>1, <2>3, SettledPages DEF s
  <2>8. \A x \in ToSet(full') \cap marked' : x \in Settled(s) \cup l \cup p \cup i \cup Aside'
    BY <1>4, <2>1 DEF Settled, s
  <2> QED
    BY <1>2, <2>4, <2>5, <2>6, <2>7, <2>8, ListStep
<1>5. CASE TakeToFree(Mover) /\ toFree # <<>>
  <2>1. /\ at = "reuse" /\ at' = "putFull" /\ own'.batch \in Seq(Pages) /\ own'.batch # <<>>
        /\ ToSet(own'.batch) \subseteq ToSet(toFree) /\ IsInjective(own'.batch)
        /\ nextFree' = Linked(nextFree, own'.batch) /\ marked' = marked \cup ToSet(own'.batch)
    BY <1>0, <1>5, ReuseEffects DEF PlaceInv
  <2>2. UNCHANGED <<free, pending, full>>
    BY <1>5 DEF TakeToFree
  <2>3. PICK b \in Seq(Pages), f \in [Pages -> Pointer] :
          b = own'.batch /\ f = nextFree'
    <3>1. nextFree' \in [Pages -> Pointer]
      BY <1>0, <2>1, LinkedType
    <3> QED
      BY <2>1, <3>1
  <2>4. (\A x \in Pages \ ToSet(b) : f[x] = nextFree[x]) /\ IsChain(f, ToSet(b), Head(b))
    BY <1>0, <2>1, <2>3, ChainLinked
  <2>5. ToSet(b) \in SUBSET Pages /\ ToSet(b) \cap ToSet(full) = {}
    BY <1>0, <2>1, <2>3, Members DEF PlaceInv
  <2> QED
    BY <1>4, <2>1, <2>2, <2>3, <2>4, <2>5
<1>6. CASE AllocNewPages(Mover)
  <2>1. at = "allocate" /\ at' = "putFull"
    BY <1>0, <1>6, AllocEffects
  <2>2. PICK n \in Nat \ {0} :
          /\ made + n <= MaxPages /\ own'.batch = NewList(made, n)
          /\ nextFree' = Linked(nextFree, own'.batch) /\ marked' = marked \cup ToSet(own'.batch)
    BY <1>0, <1>6, AllocEffects
  <2>3. UNCHANGED <<free, pending, full>>
    BY <1>6 DEF AllocNewPages
  <2>4. ToSet(own'.batch) = made + 1 .. made + n /\ Head(own'.batch) = made + n
    <3>1. ToSet(NewList(made, n)) = made + 1 .. made + n
      BY <1>0, NewListElements
    <3>2. Head(NewList(made, n)) = made + n
      BY <1>0, NewListElements
    <3> QED
      BY <2>2, <3>1, <3>2
  <2>5. own'.batch # <<>>
    <3>1. Len(NewList(made, n)) = n
      BY <1>0, NewListElements
    <3>2. Len(own'.batch) = n
      BY <2>2, <3>1
    <3> QED
      BY <3>2
  <2>6. /\ \A x \in Pages \ (made + 1 .. made + n) : nextFree'[x] = nextFree[x]
        /\ IsChain(nextFree', made + 1 .. made + n, made + n)
    <3>1. nextFree' = Linked(nextFree, NewList(made, n)) /\ made + n <= MaxPages
      BY <2>2
    <3>2. \A x \in Pages \ (made + 1 .. made + n) : nextFree'[x] = nextFree[x]
      BY <1>0, <3>1, ChainNew
    <3>3. IsChain(nextFree', made + 1 .. made + n, made + n)
      BY <1>0, <3>1, ChainNew
    <3> QED
      BY <3>2, <3>3
  <2>7. made + 1 .. made + n \in SUBSET Pages /\ (made + 1 .. made + n) \cap ToSet(full) = {}
    <3>1. ToSet(full) \subseteq 1 .. made
      BY <1>0 DEF PlaceInv
    <3>2. (made + 1 .. made + n) \cap (1 .. made) = {}
      BY <1>0
    <3> QED
      BY <1>0, <2>2, <3>1, <3>2 DEF Pages
  <2> QED
    BY <1>4, <2>1, <2>2, <2>3, <2>4, <2>5, <2>6, <2>7
<1>7. CASE PutFull(Mover)
  <2>1. /\ at = "putFull" /\ at' = "putFree" /\ own' = own /\ full' = own.batch \o full
        /\ UNCHANGED <<nextFree, marked, free, pending>>
    BY <1>0, <1>7, RefillEffects DEF PutFull, own
  <2>2. Aside = {} /\ Aside' = ToSet(own.batch) /\ InHand(Mover)' = InHand(Mover)
    BY <2>1, HandOf DEF Aside
  <2>3. ToSet(full') = ToSet(full) \cup ToSet(own.batch)
    BY <1>0, <2>1, Joined
  <2>4. ToSet(own.batch) \cap ToSet(full) = {}
    BY <1>0, <2>1 DEF PlaceInv, Given
  <2>5. ToSet(own.batch) \subseteq marked /\ ReadsInv(i)'
    BY <1>2, <2>1 DEF ReadsInv
  <2>6. Chained(l, p, i)'
    BY <1>2, <2>1, <2>2 DEF Chained
  <2>7. InFull(l \cup p \cup i)'
    BY <1>3, <2>1, <2>2, <2>3, <2>4, <2>5 DEF InFull, s
  <2>8. \A x \in Settled(s) : x \in ToSet(full') \cap marked' /\ x \notin l \cup p \cup i \cup Aside'
                              /\ nextFree'[x] = nextFree[x]
    BY <2>1, <2>2, <2>3, <2>4, SettledPages DEF s
  <2>9. \A x \in ToSet(full') \cap marked' : x \in Settled(s) \cup l \cup p \cup i \cup Aside'
    BY <2>1, <2>2, <2>3 DEF Settled, s
  <2> QED
    BY <1>2, <2>5, <2>6, <2>7, <2>8, <2>9, ListStep
<1>8. CASE PutFree(Mover)
  <2>1. /\ at = "putFree" /\ own' = own /\ free' = Head(own.batch)
        /\ UNCHANGED <<nextFree, marked, pending, full>>
    BY <1>0, <1>8, RefillEffects DEF PutFree, own
  <2>2. free = Null /\ at' = "count"
    BY <1>0, <1>8, <2>1, RefillEffects DEF ThreadInv, FreeIsEmpty, at
  <2>3. Aside = ToSet(own.batch) /\ Aside' = {} /\ InHand(Mover)' = InHand(Mover)
    BY <2>1, <2>2, HandOf DEF Aside
  <2>4. PICK k \in SUBSET Pages : k = ToSet(own.batch)
    BY <1>0, Members
  <2>5. IsChain(nextFree, k, free')
    BY <1>2, <2>1, <2>4 DEF ReadsInv
  <2>6. Chained(k, p, i)'
    BY <1>2, <1>3, <2>1, <2>3, <2>4, <2>5 DEF Chained, s
  <2>7. InFull(k \cup p \cup i)'
    BY <1>3, <2>1, <2>3, <2>4 DEF InFull, s
  <2>8. ReadsInv(i)'
    BY <2>2, NoReads
  <2>9. \A x \in Settled(s) : x \in ToSet(full') \cap marked' /\ x \notin k \cup p \cup i \cup Aside'
                              /\ nextFree'[x] = nextFree[x]
    BY <2>1, <2>3, <2>4, SettledPages DEF s
  <2>10. l = {}
    BY <1>0, <1>2, <2>2, ChainOfNull DEF Chained
  <2>11. \A x \in ToSet(full') \cap marked' : x \in Settled(s) \cup k \cup p \cup i \cup Aside'
    BY <2>1, <2>3, <2>4, <2>10 DEF Settled, s
  <2> QED
    BY <1>2, <2>6, <2>7, <2>8, <2>9, <2>11, ListStep
<1> QED
  BY <1>5, <1>6, <1>7, <1>8

\* shrink_to_fit takes unused pages out of the list in hand and out of full_list.
LEMMA ListsShrink ==
  ASSUME OneMover, Known, MoveInv, MoverStep,
         StartShrink(Mover) \/ (ShrinkStep(Mover) /\ ~DetachFree(Mover) /\ ~RestoreFree(Mover))
  PROVE  ListInv'
<1>0. /\ TypeInv /\ PlaceInv /\ nextFree \in [Pages -> Pointer] /\ Mover \in Threads /\ ThreadInv(Mover)
      /\ own.batch \in Seq(Pages) /\ full \in Seq(Pages) /\ own.page \in Pointer
      /\ own.cur \in Pointer /\ own.start \in Pointer
  <2>1. Mover \in Threads /\ loc \in [Threads -> Locals]
    BY TheMover DEF Known, TypeInv, ThreadType
  <2> QED
    BY <2>1 DEF Known, MoveInv, TypeInv, ArenaType, WriterInv, own, Locals
<1>1. PICK l \in SUBSET Pages, p \in SUBSET Pages, i \in SUBSET Pages : Lists(l, p, i)
  BY DEF MoveInv, ListInv
<1> DEFINE s == l \cup p \cup i
<1>2. Chained(l, p, i) /\ InFull(s) /\ PushersApart(s) /\ Pushed(s) /\ ReadsInv(i)
  BY <1>1 DEF Lists
<1>3. s \cap Aside = {} /\ s \cup Aside \subseteq ToSet(full) \cap marked
  BY <1>2 DEF InFull
<1> HIDE DEF s
<1> USE DEF Goes, HandAt, AsideAt, ReadAt, listVars, pageVars
<1>4. CASE StartShrink(Mover) \/ Lock(Mover) \/ UncountPages(Mover) \/ EndShrinking(Mover) \/ Unlock(Mover)
  <2>1. UNCHANGED <<nextFree, marked, free, pending, full>>
    BY <1>4 DEF StartShrink, Lock, UncountPages, EndShrinking, Unlock
  <2>2. /\ at \notin {"install", "unmark"} \cup HandAt \cup AsideAt
        /\ at' \notin {"install", "unmark"} \cup HandAt \cup AsideAt \cup ReadAt
    BY <1>0, <1>4, ShrinkEffects
  <2> QED
    BY <2>1, <2>2, IdleLists
<1>5. CASE ResetDelay(Mover) \/ GrabToFree(Mover) \/ GiveToFree(Mover)
  <2>1. UNCHANGED <<nextFree, marked, free, pending, full>>
    BY <1>5 DEF ResetDelay, GrabToFree, GiveToFree
  <2>2. at = "give" => toFree = <<>>
    BY <1>0 DEF ThreadInv, ToFreeIsEmpty, at
  <2>3. at \in {"resetDelay", "grab", "give"} /\ at' \in {"grab", "give", "restore"} /\ own'.start = own.start
    BY <1>0, <1>5, <2>2, ShrinkEffects
  <2>4. Aside' = Aside /\ InHand(Mover)' = InHand(Mover)
    BY <2>3, HandOf DEF Aside
  <2> QED
    BY <2>1, <2>3, <2>4, NoReads, SameLists
<1>6. CASE WalkFree(Mover)
  <2>1. UNCHANGED <<nextFree, marked, free, pending, full>>
    BY <1>6 DEF WalkFree
  <2>2. /\ at = "walk" /\ own'.start = own.start /\ own'.batch = own.batch
        /\ \/ at' = "retain" /\ own' = own
           \/ /\ at' = "unlink" /\ own'.cur = own.cur /\ Cell(Mover) # Null
              /\ own'.page = Cell(Mover) /\ own'.nxt = nextFree[Cell(Mover)]
           \/ at' = "walk" /\ Cell(Mover) # Null /\ own'.cur = Cell(Mover)
    BY <1>0, <1>6, ShrinkEffects
  <2>3. Aside' = Aside /\ InHand(Mover)' = InHand(Mover)
    BY <2>2, HandOf DEF Aside
  <2>4. at' = "unlink" => Cell(Mover)' = Cell(Mover)
    BY <2>1, <2>2 DEF Cell, own
  <2>5. ASSUME NEW j \in SUBSET Pages, ReadsInv(j), Cell(Mover) # Null => Cell(Mover) \in j
        PROVE  ReadsInv(j)'
    BY <2>1, <2>2, <2>4, <2>5 DEF ReadsInv
  <2> QED
    BY <2>1, <2>2, <2>3, <2>5, SameLists
<1>7. CASE RetainUntouched(Mover)
  <2> DEFINE k == {x \in Pages : Untouched(x)}
  <2>1. UNCHANGED <<nextFree, marked, free, pending, full>>
    BY <1>7 DEF RetainUntouched
  <2>2. at = "retain" /\ at' = "unfull" /\ own'.start = own.start /\ own'.batch = Kept(own.batch, k)
    BY <1>0, <1>7, ShrinkEffects
  <2> HIDE DEF k
  <2>3. own'.batch = own.batch
    <3>1. arena = "open"
      BY MoverMoves DEF Known
    <3>2. ToSet(own.batch) \subseteq arenaBit
      BY <1>0, <2>2, <3>1 DEF PlaceInv, Aside, MoveInv, WordInv, Whole
    <3>3. ToSet(own.batch) \subseteq k
      BY <1>0, <2>2, <3>2, Members DEF k, Untouched, MoveInv, UnusedInv
    <3> QED
      BY <1>0, <2>2, <3>3, KeptAll
  <2>4. Aside' = Aside /\ InHand(Mover)' = InHand(Mover)
    BY <2>2, <2>3, HandOf DEF Aside
  <2> QED
    BY <2>1, <2>2, <2>4, NoReads, SameLists
<1>8. CASE Unlink(Mover)
  <2>1. /\ at = "unlink" /\ at' = "walk" /\ own'.cur = own.cur
        /\ \/ /\ Cell(Mover) = own.page /\ own.cur = Null /\ own'.start = own.nxt
              /\ own'.batch = Append(own.batch, own.page) /\ nextFree' = nextFree
           \/ /\ Cell(Mover) = own.page /\ own.cur # Null /\ own'.start = own.start
              /\ own'.batch = Append(own.batch, own.page)
              /\ nextFree' = [nextFree EXCEPT ![own.cur] = own.nxt]
           \/ Cell(Mover) # own.page /\ own' = own /\ nextFree' = nextFree
    BY <1>0, <1>8, ShrinkEffects
  <2>2. UNCHANGED <<marked, free, pending, full>>
    BY <1>8 DEF Unlink
  <2>3. /\ own.page # Null /\ own.page = Cell(Mover) /\ own.nxt = nextFree[own.page] /\ own.page \in Pages
        /\ own.cur # Null => own.cur \in i
    BY <1>0, <1>2, <2>1 DEF ReadsInv, Pointer
  <2>4. IsChain(nextFree, i, own.start) /\ InHand(Mover)' = own'.start
    BY <1>2, <2>1, HandOf DEF Chained
  <2>5. own.page \in i
    BY <1>1, <2>1, <2>3, CellInHand
  <2>6. Aside = ToSet(own.batch) /\ Aside' = Aside \cup {own.page}
    <3>1. ToSet(Append(own.batch, own.page)) = ToSet(own.batch) \cup {own.page}
      BY <1>0, <2>3, Appended
    <3> QED
      BY <2>1, <2>3, <3>1 DEF Aside
  <2>7. PICK j \in SUBSET Pages : j = i \ {own.page}
    <3>1. i \ {own.page} \in SUBSET Pages
      OBVIOUS
    <3> QED
      BY <3>1
  <2>8. /\ IsChain(nextFree', j, own'.start) /\ (own.cur # Null => own.cur \in j)
        /\ \A x \in Pages \ i : nextFree'[x] = nextFree[x]
    <3>1. CASE own.cur = Null
      <4>1. own.page = own.start /\ own'.start = nextFree[own.start] /\ nextFree' = nextFree
        BY <2>1, <2>3, <3>1 DEF Cell, own
      <4>2. IsChain(nextFree, i \ {own.start}, nextFree[own.start])
        BY <1>0, <2>3, <2>4, <4>1, ChainPopped
      <4> QED
        BY <2>7, <3>1, <4>1, <4>2
    <3>2. CASE own.cur # Null
      <4>1. /\ own.page = nextFree[own.cur] /\ own'.start = own.start /\ own.cur \in i
            /\ nextFree' = [nextFree EXCEPT ![own.cur] = nextFree[own.page]]
        BY <2>1, <2>3, <3>2 DEF Cell, own
      <4>2. /\ own.cur \in i \ {own.page}
            /\ IsChain([nextFree EXCEPT ![own.cur] = nextFree[own.page]], i \ {own.page}, own.start)
        BY <1>0, <2>3, <2>4, <4>1, ChainUnlinked
      <4>3. \A x \in Pages \ i : nextFree'[x] = nextFree[x]
        BY <1>0, <4>1
      <4> QED
        BY <2>7, <4>1, <4>2, <4>3
    <3> QED
      BY <3>1, <3>2
  <2>9. l \cap i = {} /\ p \cap i = {} /\ l \cap p = {} /\ l \subseteq Pages /\ p \subseteq Pages
    BY <1>2 DEF Chained
  <2>10. Chained(l, p, j)'
    <3>1. \A x \in l \cup p : nextFree'[x] = nextFree[x]
      BY <2>8, <2>9
    <3>2. IsChain(nextFree', l, free) /\ IsChain(nextFree', p, pending)
      BY <1>2, <3>1, ChainFrame DEF Chained
    <3> QED
      BY <2>2, <2>4, <2>7, <2>8, <2>9, <3>2 DEF Chained
  <2>11. InFull(l \cup p \cup j)'
    BY <1>3, <2>2, <2>5, <2>6, <2>7, <2>9 DEF InFull, s
  <2>12. ReadsInv(j)'
    BY <2>1, <2>8 DEF ReadsInv
  <2>13. \A x \in Settled(s) : x \in ToSet(full') \cap marked' /\ x \notin l \cup p \cup j \cup Aside'
                               /\ nextFree'[x] = nextFree[x]
    <3>1. ToSet(full) \subseteq Pages
      BY <1>0, Members
    <3> QED
      BY <2>2, <2>5, <2>6, <2>7, <2>8, <3>1, SettledPages DEF s
  <2>14. \A x \in ToSet(full') \cap marked' : x \in Settled(s) \cup l \cup p \cup j \cup Aside'
    BY <2>2, <2>6, <2>7 DEF Settled, s
  <2> QED
    BY <1>2, <2>10, <2>11, <2>12, <2>13, <2>14, ListStep
<1>9. CASE RemoveFromFull(Mover)
  <2>1. /\ at = "unfull" /\ at' \in {"restore", "resetDelay"} /\ own' = own
        /\ full' = Kept(full, Pages \ ToSet(own.batch))
        /\ UNCHANGED <<nextFree, marked, free, pending>>
    BY <1>0, <1>9, ShrinkEffects DEF RemoveFromFull, own
  <2>2. Aside = ToSet(own.batch) /\ Aside' = {} /\ InHand(Mover)' = InHand(Mover)
    BY <2>1, HandOf DEF Aside
  <2>3. ToSet(full') = ToSet(full) \ Aside
    <3>1. ToSet(full') = ToSet(full) \cap (Pages \ ToSet(own.batch))
      BY <1>0, <2>1, KeptElements
    <3> QED
      BY <1>0, <2>2, <3>1, Members
  <2>4. Chained(l, p, i)'
    BY <1>2, <2>1, <2>2 DEF Chained
  <2>5. InFull(l \cup p \cup i)'
    BY <1>3, <2>1, <2>2, <2>3 DEF InFull, s
  <2>6. ReadsInv(i)'
    BY <2>1, NoReads
  <2>7. \A x \in Settled(s) : x \in ToSet(full') \cap marked' /\ x \notin l \cup p \cup i \cup Aside'
                              /\ nextFree'[x] = nextFree[x]
    BY <2>1, <2>2, <2>3, SettledPages DEF s
  <2>8. \A x \in ToSet(full') \cap marked' : x \in Settled(s) \cup l \cup p \cup i \cup Aside'
    BY <2>1, <2>2, <2>3 DEF Settled, s
  <2> QED
    BY <1>2, <2>4, <2>5, <2>6, <2>7, <2>8, ListStep
<1> QED
  BY <1>4, <1>5, <1>6, <1>7, <1>8, <1>9 DEF ShrinkStep

\* One step of the mover.
LEMMA ListsNext ==
  ASSUME OneMover, Known, MoveInv, MoverStep
  PROVE  ListInv'
<1>1. CASE StartAlloc(Mover) \/ StartShrink(Mover)
  BY <1>1, ListsSearch, ListsShrink
<1>2. CASE ShrinkStep(Mover)
  BY <1>2, ListsShrink, ListsSwap
<1>3. CASE at \in FindPlace /\ FindPlaceStep(Mover)
  <2>1. DropPages(Mover) => at = "dropPages"
    BY <1>3 DEF DropPages, at, FindPlace
  <2> QED
    BY <1>3, <2>1, ListsSearch, ListsPop, ListsSwap, ListsRefill DEF FindPlaceStep
<1> QED
  BY <1>1, <1>2, <1>3 DEF MoverStep

-----------------------------------------------------------------------------
(* The lists, in every behaviour with one mover.                           *)

\* with_capacity puts all its pages in the free list.
LEMMA MoveInvInit ==
  ASSUME OneMover, Init
  PROVE  MoveInv
<1>0. /\ Capacity \in Nat \ {0} /\ MaxPages \in Nat /\ Capacity <= MaxPages
      /\ 1 .. Capacity \subseteq Pages /\ Capacity \in Pages
  BY SharedArenaAssumption DEF Pages
<1>1. Mover \in Threads /\ at = "idle" /\ own = NoLocals /\ \A t \in Threads : pc[t] = "idle"
  BY TheMover DEF Init, at, own
<1>2. Given = {} /\ Rest = {} /\ Aside = {} /\ InHand(Mover) = Null /\ at \notin GivenAt \cup RestAt \cup AsideAt
  BY <1>1, QuietHands DEF Quiet
<1>3. ToSet(full) = 1 .. Capacity /\ IsInjective(full)
  <2>1. ToSet(NewList(0, Capacity)) = 0 + 1 .. 0 + Capacity
    BY <1>0, NewListElements
  <2>2. IsInjective(NewList(0, Capacity))
    BY <1>0, NewListElements
  <2>3. 0 + 1 .. 0 + Capacity = 1 .. Capacity
    BY <1>0
  <2> QED
    BY <2>1, <2>2, <2>3 DEF Init
<1>4. PlaceInv
  <2>1. toFree = <<>> /\ made = Capacity
    BY DEF Init
  <2> QED
    BY <1>2, <1>3, <2>1, NoPages DEF PlaceInv
<1>5. MadeInv
  BY <1>1, <1>3 DEF Init, MadeInv, DropBlock
<1>6. IsChain(nextFree, 1 .. Capacity, free)
  <2>1. free = Capacity /\ \A p \in 1 .. Capacity : nextFree[p] = p - 1
    BY <1>0 DEF Init, Null
  <2>2. \E rank \in [Pages -> Nat] : \A p \in 1 .. Capacity : nextFree[p] # Null => rank[nextFree[p]] < rank[p]
    <3> DEFINE rank == [p \in Pages |-> p]
    <3>1. rank \in [Pages -> Nat]
      BY DEF Pages
    <3>2. \A p \in Pages : rank[p] = p
      OBVIOUS
    <3> HIDE DEF rank
    <3>3. ASSUME NEW p \in 1 .. Capacity, nextFree[p] # Null PROVE rank[nextFree[p]] < rank[p]
      <4>1. nextFree[p] = p - 1 /\ p - 1 \in 1 .. Capacity
        BY <1>0, <2>1, <3>3 DEF Null
      <4>2. p \in Pages /\ p - 1 \in Pages
        BY <1>0, <4>1
      <4> QED
        BY <1>0, <3>2, <4>1, <4>2
    <3> QED
      BY <3>1, <3>3
  <2>3. \A p \in (1 .. Capacity) \ {Capacity} : \E q \in 1 .. Capacity : nextFree[q] = p
    <3>1. ASSUME NEW p \in (1 .. Capacity) \ {Capacity} PROVE \E q \in 1 .. Capacity : nextFree[q] = p
      <4>1. p + 1 \in 1 .. Capacity /\ nextFree[p + 1] = p
        BY <1>0, <2>1
      <4> QED
        BY <4>1
    <3> QED
      BY <3>1
  <2>4. \A p \in 1 .. Capacity : nextFree[p] # Null => nextFree[p] \in 1 .. Capacity /\ nextFree[p] # Capacity
    BY <1>0, <2>1 DEF Null
  <2>5. \A p, q \in 1 .. Capacity : nextFree[p] = nextFree[q] => p = q
    BY <1>0, <2>1
  <2>6. Capacity \in 1 .. Capacity
    BY <1>0
  <2> QED
    BY <1>0, <2>1, <2>2, <2>3, <2>4, <2>5, <2>6 DEF IsChain
<1>7. ListInv
  <2>1. Chained(1 .. Capacity, {}, {})
    BY <1>2, <1>6, ChainEmpty DEF Chained, Init
  <2>2. InFull((1 .. Capacity) \cup {} \cup {})
    BY <1>2, <1>3 DEF InFull, Init
  <2>3. PushersApart((1 .. Capacity) \cup {} \cup {}) /\ ReadsInv({})
    BY <1>1 DEF PushersApart, Pushing, ReadsInv
  <2>4. Pushed((1 .. Capacity) \cup {} \cup {})
    BY <1>3 DEF Pushed, Settled
  <2>5. Lists(1 .. Capacity, {}, {})
    BY <2>1, <2>2, <2>3, <2>4 DEF Lists
  <2> QED
    BY <1>0, <2>5 DEF ListInv
<1>8. UnusedInv
  <2>1. toFree = <<>>
    BY DEF Init
  <2> QED
    BY <1>1, <1>2, <2>1, NoPages DEF UnusedInv
<1>9. WordInv
  <2>1. /\ arenaBit = 1 .. Capacity /\ made = Capacity /\ freed = {} /\ toFree = <<>>
        /\ arena = "open"
    BY DEF Init
  <2>2. Whole = 1 .. Capacity
    BY <1>2, <1>3, <2>1, NoPages DEF Whole
  <2>3. \A x \in Pages : x <= made => x \in arenaBit
    BY <1>0, <2>1 DEF Pages
  <2> QED
    BY <1>1, <2>1, <2>2, <2>3 DEF WordInv
<1> QED
  BY <1>4, <1>5, <1>7, <1>8, <1>9 DEF MoveInv

\* Every step keeps them.
LEMMA MoveInvNext ==
  ASSUME OneMover, Known, MoveInv, [Next]_vars
  PROVE  MoveInv'
<1>1. CASE UNCHANGED vars
  <2> USE <1>1 DEF vars
  <2>1. UNCHANGED <<Given, Rest, Aside, at, own, InHand(Mover), Cell(Mover)>>
    BY DEF Given, Rest, Aside, at, own, InHand, Cell
  <2>2. PlaceInv' /\ MadeInv' /\ UnusedInv' /\ WordInv'
    BY <2>1 DEF MoveInv, PlaceInv, MadeInv, UnusedInv, WordInv, Whole
  <2>3. PICK l \in SUBSET Pages, p \in SUBSET Pages, i \in SUBSET Pages : Lists(l, p, i)
    BY DEF MoveInv, ListInv
  <2>4. Lists(l, p, i)'
    BY <2>1, <2>3 DEF Lists, Chained, InFull, PushersApart, Pushed, Settled, ReadsInv
  <2> QED
    BY <2>2, <2>4 DEF MoveInv, ListInv
<1>2. ASSUME NEW t \in Threads, OtherStep(t) PROVE MoveInv'
  BY <1>2, OtherHands, MadeOthers, UnusedOthers, WordOthers, OtherLists DEF MoveInv
<1>3. CASE MoverStep
  BY <1>3, PlaceNext, MadeNext, UnusedNext, WordNext, ListsNext DEF MoveInv
<1> QED
  BY <1>1, <1>2, <1>3, Steps DEF Next, Known

\* In every behaviour.
LEMMA MoveInvAlways ==
  ASSUME OneMover
  PROVE  Spec => [](Known /\ MoveInv)
<1>1. Init => ActorInv /\ MoveInv
  BY ActorInvInit, MoveInvInit
<1>2. TypeInv /\ WriterInv /\ ActorInv /\ MoveInv /\ [Next]_vars => ActorInv' /\ MoveInv'
  BY ActorInvNext, MoveInvNext DEF Known
<1>3. Known <=> TypeInv /\ WriterInv /\ ActorInv
  BY DEF Known
<1> QED
  BY <1>1, <1>2, <1>3, TypeInvAlways, WriterInvAlways, PTL DEF Spec

\* What the lists are.
LEMMA ListsOfPages ==
  ASSUME OneMover, Known, NEW l \in SUBSET Pages, NEW p \in SUBSET Pages, NEW i \in SUBSET Pages,
         Chained(l, p, i)
  PROVE  /\ Chain(free) = l /\ Chain(pending) = p /\ Ends(nextFree, free) /\ Ends(nextFree, pending)
         /\ \A t \in Threads :
              /\ Ends(nextFree, InHand(t))
              /\ Chain(InHand(t)) = IF t = Mover THEN i ELSE {}
<1>0. /\ nextFree \in [Pages -> Pointer] /\ free \in Pointer /\ pending \in Pointer /\ MaxPages \in Nat
      /\ loc \in [Threads -> Locals]
  BY SharedArenaAssumption DEF Known, TypeInv, ArenaType, ThreadType
<1>1. IsChain(nextFree, l, free) /\ IsChain(nextFree, p, pending) /\ IsChain(nextFree, i, InHand(Mover))
  BY DEF Chained
<1>2. Chain(free) = l /\ Ends(nextFree, free)
  BY <1>0, <1>1, ChainListed, ChainEnds DEF Chain
<1>3. Chain(pending) = p /\ Ends(nextFree, pending)
  BY <1>0, <1>1, ChainListed, ChainEnds DEF Chain
<1>4. ASSUME NEW t \in Threads
      PROVE  Ends(nextFree, InHand(t)) /\ Chain(InHand(t)) = IF t = Mover THEN i ELSE {}
  <2>1. InHand(t) \in Pointer
    <3>1. loc[t].page \in Pointer /\ loc[t].start \in Pointer
      BY <1>0 DEF Locals
    <3> QED
      BY <3>1 DEF InHand, Pointer
  <2>2. CASE t = Mover
    BY <1>0, <1>1, <2>1, <2>2, ChainListed, ChainEnds DEF Chain
  <2>3. CASE t # Mover
    <3>1. InHand(t) = Null
      BY <2>3 DEF Known, ActorInv, Quiet, InHand, DropBlock, Shrink
    <3>2. IsChain(nextFree, {}, InHand(t))
      BY <3>1, ChainEmpty
    <3>3. Chain(InHand(t)) = {} /\ Ends(nextFree, InHand(t))
      BY <1>0, <2>1, <3>2, ChainListed, ChainEnds DEF Chain
    <3> QED
      BY <2>3, <3>3
  <2> QED
    BY <2>2, <2>3
<1> QED
  BY <1>2, <1>3, <1>4

\* With one thread that allocates and shrinks, however many drop handles: the
\* chains end, and a page is at most once in at most one of free_list,
\* pending_free_list and the list in hand.
THEOREM DisjointLists ==
  ASSUME OneMover
  PROVE  Spec => []ListsAreDisjoint
<1>1. ASSUME Known, MoveInv PROVE ListsAreDisjoint
  <2>1. PICK l \in SUBSET Pages, p \in SUBSET Pages, i \in SUBSET Pages : Lists(l, p, i)
    BY <1>1 DEF MoveInv, ListInv
  <2>2. Chained(l, p, i)
    BY <2>1 DEF Lists
  <2> QED
    BY <1>1, <2>2, ListsOfPages DEF ListsAreDisjoint, Chained
<1> QED
  BY <1>1, MoveInvAlways, PTL

\* With one thread that allocates and shrinks: a page of which find_place may take
\* a block is in full_list, where shrink_to_fit finds it, and does not wait to be
\* freed; the pages that do have no block in use.
THEOREM ListedPagesInFull ==
  ASSUME OneMover
  PROVE  Spec => []ListedPagesAreInFull
<1>1. ASSUME Known, MoveInv PROVE ListedPagesAreInFull
  <2>1. PICK l \in SUBSET Pages, p \in SUBSET Pages, i \in SUBSET Pages : Lists(l, p, i)
    BY <1>1 DEF MoveInv, ListInv
  <2>2. Chained(l, p, i) /\ InFull(l \cup p \cup i)
    BY <2>1 DEF Lists
  <2>3. ListedPages \subseteq l \cup p \cup i
    BY <1>1, <2>2, ListsOfPages DEF ListedPages
  <2>4. ToSet(full) \cap ToSet(toFree) = {}
    BY <1>1 DEF MoveInv, PlaceInv
  <2>5. ToFreeIsUnused
    BY <1>1 DEF MoveInv, UnusedInv, ToFreeIsUnused
  <2> QED
    BY <2>2, <2>3, <2>4, <2>5 DEF InFull, ListedPagesAreInFull
<1> QED
  BY <1>1, MoveInvAlways, PTL

\* With one thread that allocates and shrinks: what shrink_to_fit has found unused
\* stays so, and the pages that wait in to_free may be freed.
THEOREM ToFreePagesAreUnused ==
  ASSUME OneMover
  PROVE  Spec => []ToFreeIsUnused
<1>1. ASSUME Known, MoveInv PROVE ToFreeIsUnused
  BY <1>1 DEF MoveInv, UnusedInv, ToFreeIsUnused
<1> QED
  BY <1>1, MoveInvAlways, PTL

\* With one thread that allocates and shrinks: the arena lets go a page once, in
\* maybe_free_pages or as it is dropped.
THEOREM PagesDroppedOnce ==
  ASSUME OneMover
  PROVE  Spec => DropPageOnce
<1>1. ASSUME Known, MoveInv, [Next]_vars
      PROVE  [\A p \in 1 .. made : p \in arenaBit' => p \in arenaBit]_vars
  <2>1. ASSUME MoverStep PROVE \A p \in 1 .. made : p \in arenaBit' => p \in arenaBit
    <3>1. CASE KeepsAll
      BY <3>1 DEF KeepsAll
    <3>2. CASE Makes
      <4>1. PICK n \in Nat \ {0} : arenaBit' = arenaBit \cup (made + 1 .. made + n)
        BY <3>2 DEF Makes
      <4>2. made \in Nat
        BY <1>1, SharedArenaAssumption DEF Known, TypeInv, ArenaType
      <4> QED
        BY <4>1, <4>2
    <3>3. CASE LetsGo
      <4>1. arena = "open"
        BY <1>1, <2>1, MoverMoves DEF Known
      <4>2. Given \subseteq arenaBit
        BY <1>1, <4>1 DEF MoveInv, WordInv, Whole
      <4> QED
        BY <3>3, <4>2 DEF LetsGo, DropPage
    <3> QED
      BY <1>1, <2>1, <3>1, <3>2, <3>3, WholeNext
  <2>2. ASSUME NEW t \in Threads, OtherStep(t)
        PROVE  \A p \in 1 .. made : p \in arenaBit' => p \in arenaBit
    <3>1. CASE UNCHANGED arenaBit
      BY <3>1
    <3>2. CASE pc[t] = "dropArena" /\ DropPages(t)
      <4>1. loc[t].batch # <<>> /\ DropPage(Head(loc[t].batch)) /\ loc[t].batch \in Seq(Pages)
        <5>1. loc \in [Threads -> Locals]
          BY <1>1 DEF Known, TypeInv, ThreadType
        <5> QED
          BY <3>2, <5>1 DEF DropPages, Locals
      <4>2. Head(loc[t].batch) \in ToSet(loc[t].batch)
        BY <4>1, FirstAndRest
      <4>3. Head(loc[t].batch) \in arenaBit
        BY <1>1, <3>2, <4>2 DEF MoveInv, WordInv
      <4> QED
        BY <4>1, <4>3 DEF DropPage
    <3> QED
      BY <1>1, <2>2, <3>1, <3>2, OtherWords
  <2>3. Next => MoverStep \/ \E t \in Threads : OtherStep(t)
    BY <1>1, Steps DEF Next, Known
  <2> QED
    BY <1>1, <2>1, <2>2, <2>3
<1> QED
  BY <1>1, MoveInvAlways, PTL DEF Spec, DropPageOnce

\* With one thread that allocates and shrinks: the drop of the arena frees every
\* page without a block in use, and the others are freed with their last block.
THEOREM ArenaDropFreesPages ==
  ASSUME OneMover
  PROVE  Spec => []DroppedArenaFreesPages
<1>1. ASSUME Known, MoveInv PROVE DroppedArenaFreesPages
  <2>1. ASSUME arena = "dropped", NEW p \in 1 .. made PROVE p \in freed <=> used[p] = 0
    <3>1. p \in Pages /\ p <= made
      BY <1>1, SharedArenaAssumption DEF Known, TypeInv, ArenaType, Pages
    <3> QED
      BY <1>1, <2>1, <3>1 DEF MoveInv, WordInv
  <2> QED
    BY <2>1 DEF DroppedArenaFreesPages
<1> QED
  BY <1>1, MoveInvAlways, PTL

\* With one thread that allocates and shrinks: a page that a drop_block leaves
\* alone, since it is marked, is where a later call finds it.
\* (Of the pages that are not marked it says nothing.)
THEOREM MarkedPagesReachable ==
  ASSUME OneMover
  PROVE  Spec => []MarkedPagesAreReachable
<1>1. ASSUME Known, MoveInv, Resting, arena = "open", NEW x \in marked \cap arenaBit
      PROVE  x \in ListedPages \cup ToSet(toFree) \cup
                     {loc[t].page : t \in {u \in Threads : pc[u] \in {"upgrade", "push", "pushCas"}}}
  <2>1. at \in Quiet
    <3>1. Mover \in Threads /\ at \in Labels /\ at \notin FindPlace \cup Shrink
      BY <1>1, TheMover DEF Known, TypeInv, ThreadType, Resting, at
    <3> QED
      BY <3>1, QuietLabels
  <2>2. arenaBit = ToSet(full) \cup ToSet(toFree)
    BY <1>1, <2>1, QuietHands DEF MoveInv, WordInv, Whole
  <2>3. PICK l \in SUBSET Pages, p \in SUBSET Pages, i \in SUBSET Pages : Lists(l, p, i)
    BY <1>1 DEF MoveInv, ListInv
  <2>4. Chained(l, p, i) /\ Pushed(l \cup p \cup i)
    BY <2>3 DEF Lists
  <2>5. Mover \in Threads /\ Chain(free) = l /\ Chain(pending) = p /\ Chain(InHand(Mover)) = i
    BY <1>1, <2>4, TheMover, ListsOfPages
  <2>6. l \cup p \cup i \subseteq ListedPages
    BY <2>5 DEF ListedPages
  <2>7. CASE x \in Settled(l \cup p \cup i)
    BY <1>1, <2>4, <2>7 DEF Pushed, Pushing
  <2>8. CASE x \notin Settled(l \cup p \cup i)
    BY <1>1, <2>1, <2>2, <2>6, <2>8, QuietHands DEF Settled
  <2> QED
    BY <2>7, <2>8
<1>2. ASSUME Known, MoveInv PROVE MarkedPagesAreReachable
  BY <1>1, <1>2 DEF MarkedPagesAreReachable
<1> QED
  BY <1>2, MoveInvAlways, PTL

\* With one thread that allocates and shrinks: what find_place, shrink_to_fit and the
\* drop of the arena access has not been freed by a thread that dropped a handle.
THEOREM PagesMovedExist ==
  ASSUME OneMover
  PROVE  Spec => []MovedPagesExist
<1>1. ASSUME Known, MoveInv, NEW t \in Threads, pc[t] \in FindPlace \cup Shrink
      PROVE  Safe(t)
  <2>1. pc[t] \in Labels
    BY <1>1 DEF Known, TypeInv, ThreadType
  <2>2. pc[t] \notin Quiet
    BY <1>1, <2>1, QuietLabels
  <2>3. t = Mover /\ at \notin Quiet
    BY <1>1, <2>2 DEF Known, ActorInv, at
  <2> QED
    BY <1>1, <2>3, MoverIsSafe
<1>2. ASSUME Known, MoveInv, NEW t \in Threads, pc[t] = "dropArena"
      PROVE  Safe(t)
  <2>1. loc[t].batch \in Seq(Pages)
    <3>1. loc \in [Threads -> Locals]
      BY <1>2 DEF Known, TypeInv, ThreadType
    <3> QED
      BY <3>1 DEF Locals
  <2>2. ASSUME loc[t].batch # <<>> PROVE Head(loc[t].batch) \notin freed
    <3>1. Head(loc[t].batch) \in ToSet(loc[t].batch) /\ Head(loc[t].batch) \in Pages
      BY <2>1, <2>2, FirstAndRest
    <3> QED
      BY <1>2, <3>1 DEF MoveInv, WordInv
  <2>3. Touched(t) = IF loc[t].batch # <<>> THEN {Head(loc[t].batch)} ELSE {}
    BY <1>2 DEF Touched
  <2> QED
    BY <2>2, <2>3 DEF Safe
<1>3. ASSUME Known, MoveInv PROVE MovedPagesExist
  BY <1>1, <1>2, <1>3 DEF MovedPagesExist
<1> QED
  BY <1>3, MoveInvAlways, PTL

-----------------------------------------------------------------------------
(* Each page as PageLife describes it.                                     *)

\* Who shares a page: its used blocks and, until it lets go of it, the arena.
Sharers(p) == (1 .. used[p]) \cup {x \in {Null} : p \in arenaBit \/ p > made}

\* What a step of PageLife is, in the variables of the arena.
LEMMA PageLifeSteps ==
  ASSUME NEW p \in Pages, Sharers(p)' = Sharers(p), (p \in freed') <=> (p \in freed)
  PROVE  [Life(p)!Next]_(Life(p)!vars)
BY DEF Sharers, Life!vars

LEMMA PageLifeTakes ==
  ASSUME NEW p \in Pages, NEW b \in 1 .. BLOCK_PER_PAGE, Sharers(p) # {}, b \notin Sharers(p),
         Sharers(p)' = Sharers(p) \cup {b}, (p \in freed') <=> (p \in freed)
  PROVE  Life(p)!Next
BY DEF Sharers, Life!Next, Life!Take

LEMMA PageLifeLeaves ==
  ASSUME NEW p \in Pages, NEW s \in (1 .. BLOCK_PER_PAGE) \cup {Null}, s \in Sharers(p),
         Sharers(p)' = Sharers(p) \ {s},
         \/ (p \in freed') <=> (p \in freed)
         \/ Sharers(p)' = {} /\ p \notin freed /\ p \in freed'
  PROVE  Life(p)!Next
<1>1. CASE (p \in freed') <=> (p \in freed)
  BY <1>1 DEF Sharers, Life!Next, Life!Leave
<1>2. CASE Sharers(p)' = {} /\ p \notin freed /\ p \in freed'
  <2>1. Sharers(p) = {s}
    BY <1>2
  <2> QED
    BY <1>2, <2>1 DEF Sharers, Life!Next, Life!LeaveAndFree
<1> QED
  BY <1>1, <1>2

\* As the arena is made it has its pages, and those not made yet are to be its own.
LEMMA PagesBegin ==
  ASSUME Init, NEW p \in Pages
  PROVE  Life(p)!Init
<1>1. made = Capacity /\ arenaBit = 1 .. Capacity /\ used[p] = 0 /\ freed = {} /\ Capacity \in Nat
  BY SharedArenaAssumption DEF Init
<1>2. p \in arenaBit \/ p > made
  BY <1>1, SharedArenaAssumption DEF Pages
<1> QED
  BY <1>1, <1>2 DEF Life!Init

\* The mover takes a block, or lets one page go that no block holds.
LEMMA PageLifeMover ==
  ASSUME OneMover, Known, MoveInv, MoverStep, TypeInv', NEW p \in Pages
  PROVE  [Life(p)!Next]_(Life(p)!vars)
<1>0. /\ used \in [Pages -> 0 .. BLOCK_PER_PAGE] /\ used' \in [Pages -> 0 .. BLOCK_PER_PAGE]
      /\ BLOCK_PER_PAGE \in Nat /\ made \in Nat /\ Null = 0 /\ WordInv /\ UnusedInv
  BY SharedArenaAssumption DEF Known, MoveInv, TypeInv, ArenaType, Null
<1>1. arena = "open" /\ arenaBit = Whole
  BY <1>0, MoverMoves DEF Known, WordInv
<1>2. ASSUME AcquireFreeBlock(Mover), free \in ToSet(full), free \in Pages, used' = [used EXCEPT ![free] = @ + 1]
      PROVE  [Life(p)!Next]_(Life(p)!vars)
  <2>1. UNCHANGED <<arenaBit, freed, made>>
    BY <1>2 DEF AcquireFreeBlock, arenaVars
  <2>2. CASE p = free
    <3>1. used'[p] = used[p] + 1 /\ used[p] \in Nat /\ used[p] + 1 \in 1 .. BLOCK_PER_PAGE
      BY <1>0, <1>2, <2>2
    <3>2. p \in arenaBit
      BY <1>1, <1>2, <2>2 DEF Whole
    <3>3. Sharers(p) = (1 .. used[p]) \cup {0} /\ Sharers(p)' = (1 .. used[p] + 1) \cup {0}
      BY <1>0, <2>1, <3>1, <3>2 DEF Sharers
    <3>4. Sharers(p)' = Sharers(p) \cup {used[p] + 1} /\ used[p] + 1 \notin Sharers(p) /\ Sharers(p) # {}
      BY <3>1, <3>3
    <3> QED
      BY <2>1, <3>1, <3>4, PageLifeTakes
  <2>3. CASE p # free
    <3>1. Sharers(p)' = Sharers(p)
      BY <1>0, <1>2, <2>1, <2>3 DEF Sharers
    <3> QED
      BY <2>1, <3>1, PageLifeSteps
  <2> QED
    BY <2>2, <2>3
<1>3. ASSUME UNCHANGED used PROVE [Life(p)!Next]_(Life(p)!vars)
  <2>1. CASE KeepsAll
    <3>1. Sharers(p)' = Sharers(p) /\ freed' = freed
      BY <1>3, <2>1 DEF KeepsAll, Sharers
    <3> QED
      BY <3>1, PageLifeSteps
  <2>2. CASE Makes
    <3>1. PICK n \in Nat \ {0} : /\ made' = made + n /\ arenaBit' = arenaBit \cup (made + 1 .. made + n)
                                 /\ UNCHANGED freed
      BY <2>2 DEF Makes
    <3>2. p \in arenaBit' \/ p > made' <=> p \in arenaBit \/ p > made
      BY <1>0, <3>1 DEF Pages
    <3>3. Sharers(p)' = Sharers(p)
      BY <1>3, <3>2 DEF Sharers
    <3> QED
      BY <3>1, <3>3, PageLifeSteps
  <2>3. CASE LetsGo
    <3>1. PICK q \in Given : DropPage(q) /\ made' = made
      BY <2>3 DEF LetsGo
    <3>2. q \in arenaBit /\ used[q] = 0
      BY <1>0, <1>1, <3>1 DEF Whole, UnusedInv
    <3>3. arenaBit' = arenaBit \ {q} /\ freed' = freed \cup {q}
      BY <3>1, <3>2 DEF DropPage, Untouched
    <3>4. CASE q = p
      <4>1. p \notin freed /\ p <= made
        BY <1>0, <3>2, <3>4 DEF WordInv
      <4>2. Sharers(p) = {0} /\ Sharers(p)' = {}
        BY <1>0, <1>3, <3>1, <3>2, <3>3, <3>4, <4>1 DEF Sharers, Pages
      <4> QED
        BY <1>0, <3>3, <3>4, <4>1, <4>2, PageLifeLeaves
    <3>5. CASE q # p
      <4>1. Sharers(p)' = Sharers(p) /\ (p \in freed' <=> p \in freed)
        BY <1>3, <3>1, <3>3, <3>5 DEF Sharers
      <4> QED
        BY <4>1, PageLifeSteps
    <3> QED
      BY <3>4, <3>5
  <2> QED
    BY <2>1, <2>2, <2>3, WholeNext
<1> QED
  BY <1>2, <1>3, UsedNext

\* A thread that drops a handle gives a block back, or lets the page go as it drops
\* the arena.
LEMMA PageLifeOthers ==
  ASSUME OneMover, Known, MoveInv, NEW t \in Threads, OtherStep(t), NEW p \in Pages
  PROVE  [Life(p)!Next]_(Life(p)!vars)
<1>0. /\ used \in [Pages -> 0 .. BLOCK_PER_PAGE] /\ loc[t].batch \in Seq(Pages) /\ BLOCK_PER_PAGE \in Nat
      /\ made \in Nat /\ made' = made /\ Null = 0 /\ WordInv /\ MadeInv
  <2>1. loc \in [Threads -> Locals]
    BY DEF Known, TypeInv, ThreadType
  <2>2. made' = made
    BY OtherMoves DEF Known
  <2> QED
    BY <2>1, <2>2, SharedArenaAssumption DEF Known, MoveInv, TypeInv, ArenaType, Locals, Null
<1>1. CASE UNCHANGED <<used, arenaBit, freed>>
  <2>1. Sharers(p)' = Sharers(p)
    BY <1>0, <1>1 DEF Sharers
  <2> QED
    BY <1>1, <2>1, PageLifeSteps
<1>2. ASSUME NEW q \in Pages, GiveBlock(t, q), UNCHANGED arenaBit
      PROVE  [Life(p)!Next]_(Life(p)!vars)
  <2>1. /\ q \notin freed /\ used[q] > 0 /\ used' = [used EXCEPT ![q] = @ - 1]
        /\ \/ used[q] = 1 /\ q \notin arenaBit /\ freed' = freed \cup {q}
           \/ freed' = freed
    BY <1>2 DEF GiveBlock
  <2>2. q <= made
    BY <1>0, <2>1 DEF MadeInv
  <2>3. CASE q = p
    <3>1. used[p] \in 1 .. BLOCK_PER_PAGE /\ used'[p] = used[p] - 1
      BY <1>0, <2>1, <2>3
    <3>2. used[p] \in Sharers(p) /\ Sharers(p)' = Sharers(p) \ {used[p]}
      BY <1>0, <1>2, <3>1 DEF Sharers
    <3>3. ASSUME used[p] = 1, p \notin arenaBit PROVE Sharers(p)' = {}
      <4>1. used'[p] = 0 /\ ~(p \in arenaBit' \/ p > made')
        BY <1>0, <1>2, <2>2, <2>3, <3>1, <3>3 DEF Pages
      <4> QED
        BY <4>1 DEF Sharers
    <3> QED
      BY <2>1, <2>3, <3>1, <3>2, <3>3, PageLifeLeaves
  <2>4. CASE q # p
    <3>1. Sharers(p)' = Sharers(p) /\ (p \in freed' <=> p \in freed)
      BY <1>0, <1>2, <2>1, <2>4 DEF Sharers
    <3> QED
      BY <3>1, PageLifeSteps
  <2> QED
    BY <2>3, <2>4
<1>3. ASSUME pc[t] = "dropArena", DropPages(t), UNCHANGED used
      PROVE  [Life(p)!Next]_(Life(p)!vars)
  <2>1. loc[t].batch # <<>> /\ DropPage(Head(loc[t].batch))
    BY <1>3 DEF DropPages
  <2>2. PICK q \in Pages : q = Head(loc[t].batch)
    BY <1>0, <2>1, FirstAndRest
  <2>3. q \in arenaBit
    BY <1>0, <1>3, <2>1, <2>2, FirstAndRest DEF WordInv
  <2>4. arenaBit' = arenaBit \ {q} /\ freed' = IF used[q] = 0 THEN freed \cup {q} ELSE freed
    BY <2>1, <2>2, <2>3 DEF DropPage, Untouched
  <2>5. CASE q = p
    <3>1. p \notin freed /\ p <= made
      BY <1>0, <2>3, <2>5 DEF WordInv
    <3>2. Sharers(p) = (1 .. used[p]) \cup {0} /\ Sharers(p)' = 1 .. used[p]
      BY <1>0, <1>3, <2>3, <2>4, <2>5, <3>1 DEF Sharers, Pages
    <3>3. 0 \in Sharers(p) /\ Sharers(p)' = Sharers(p) \ {0} /\ (used[p] = 0 => Sharers(p)' = {})
      BY <1>0, <3>2
    <3> QED
      BY <1>0, <2>4, <2>5, <3>1, <3>3, PageLifeLeaves
  <2>6. CASE q # p
    <3>1. Sharers(p)' = Sharers(p) /\ (p \in freed' <=> p \in freed)
      BY <1>0, <1>3, <2>4, <2>6 DEF Sharers
    <3> QED
      BY <3>1, PageLifeSteps
  <2> QED
    BY <2>5, <2>6
<1> QED
  BY <1>1, <1>2, <1>3, OtherWords

\* With one thread that allocates and shrinks, however many drop handles: no page
\* that the arena has let go is taken a block of, and of the threads that let go a
\* page or drop its blocks the last one frees it, once.
THEOREM SharedArenaImplementsPageLife ==
  ASSUME OneMover
  PROVE  Spec => ImplementsPageLife
<1>1. ASSUME Known, MoveInv, TypeInv', [Next]_vars, NEW p \in Pages
      PROVE  [Life(p)!Next]_(Life(p)!vars)
  <2>1. CASE UNCHANGED vars
    BY <2>1 DEF vars, Life!vars
  <2>2. CASE Next
    <3>1. MoverStep \/ \E t \in Threads : OtherStep(t)
      BY <1>1, <2>2, Steps DEF Next, Known
    <3> QED
      BY <1>1, <3>1, PageLifeMover, PageLifeOthers
  <2> QED
    BY <1>1, <2>1, <2>2
<1>2. Known /\ MoveInv /\ TypeInv' /\ [Next]_vars => [\A p \in Pages : [Life(p)!Next]_(Life(p)!vars)]_vars
  BY <1>1
<1>3. Init => \A p \in Pages : Life(p)!Init
  BY PagesBegin
<1> QED
  BY <1>2, <1>3, MoveInvAlways, TypeInvAlways, PTL DEF Spec, ImplementsPageLife

-----------------------------------------------------------------------------
(* The number of pages.                                                    *)

\* The pages that are in full_list and not in npages yet, and those that are in
\* npages and not in full_list any more.
Uncounted == IF at \in {"putFree", "count"} THEN Len(own.batch) ELSE 0
Overcounted ==
  IF at \in {"resetDelay", "grab", "give", "restore", "uncount"} THEN Len(own.batch) ELSE 0

\* npages follows full_list.
CountInv == at # "panic" => npages + Uncounted = Len(full) + Overcounted

\* The pages of a list are no more than those that were made, which a usize counts.
LEMMA FewPages ==
  ASSUME Known, PlaceInv
  PROVE  Len(full) \in Nat /\ Len(full) <= MaxPages /\ Len(full) < USIZE
<1>1. /\ full \in Seq(Pages) /\ made \in 0 .. MaxPages /\ MaxPages \in Nat /\ USIZE \in Nat /\ MaxPages < USIZE
      /\ IsInjective(full) /\ ToSet(full) \subseteq 1 .. made
  BY SharedArenaAssumption DEF Known, TypeInv, ArenaType, PlaceInv
<1>2. Cardinality(ToSet(full)) = Len(full) /\ Len(full) \in Nat
  BY <1>1, InjectiveLength
<1>3. IsFiniteSet(1 .. made) /\ Cardinality(1 .. made) = made
  BY <1>1, FS_Interval
<1>4. Cardinality(ToSet(full)) <= Cardinality(1 .. made)
  BY <1>1, <1>3, FS_Subset
<1> QED
  BY <1>1, <1>2, <1>3, <1>4

\* Where the mover has nothing that is counted otherwise.
LEMMA CountKept ==
  ASSUME CountInv, UNCHANGED <<full, npages>>, at # "panic",
         Uncounted' = Uncounted /\ Overcounted' = Overcounted
  PROVE  CountInv'
BY DEF CountInv

\* Most steps of the mover.
LEMMA CountElsewhere ==
  ASSUME OneMover, Known, MoveInv, CountInv, MoverStep,
         \/ StartAlloc(Mover) \/ LoadHead(Mover) \/ AcquireFreeBlock(Mover) \/ LoadNextFree(Mover)
         \/ PopFree(Mover) \/ UnmarkPage(Mover) \/ TryGuard(Mover) \/ SeeLocked(Mover)
         \/ RecheckFree(Mover) \/ LoadPending(Mover) \/ TakePending(Mover) \/ InstallPending(Mover)
         \/ LoadToFree(Mover) \/ TakeToFree(Mover) \/ AllocNewPages(Mover) \/ PutBackRest(Mover)
         \/ ZeroDelay(Mover) \/ Release(Mover) \/ LoadDelay(Mover) \/ BumpDelay(Mover)
         \/ SweepToFree(Mover) \/ (at = "dropPages" /\ DropPages(Mover)) \/ EndOfSweep(Mover)
         \/ StartShrink(Mover) \/ Lock(Mover) \/ DetachFree(Mover) \/ WalkFree(Mover) \/ Unlink(Mover)
         \/ RetainUntouched(Mover) \/ EndShrinking(Mover) \/ Unlock(Mover)
  PROVE  CountInv'
<1>0. TypeInv
  BY DEF Known
<1> DEFINE counted == {"putFree", "count", "resetDelay", "grab", "give", "restore", "uncount"}
<1> USE DEF Goes, arenaVars, listVars
<1>1. CASE StartAlloc(Mover) \/ LoadHead(Mover) \/ AcquireFreeBlock(Mover) \/ LoadNextFree(Mover)
           \/ PopFree(Mover) \/ UnmarkPage(Mover) \/ TryGuard(Mover) \/ SeeLocked(Mover)
  <2>1. UNCHANGED <<full, npages>>
    BY <1>1 DEF StartAlloc, LoadHead, AcquireFreeBlock, LoadNextFree, PopFree, UnmarkPage, TryGuard, SeeLocked
  <2>2. at \notin counted \cup {"panic"} /\ at' \notin counted
    BY <1>0, <1>1, SearchEffects
  <2> QED
    BY <2>1, <2>2, CountKept DEF Uncounted, Overcounted
<1>2. CASE RecheckFree(Mover) \/ LoadPending(Mover) \/ TakePending(Mover) \/ InstallPending(Mover)
           \/ LoadToFree(Mover) \/ PutBackRest(Mover) \/ ZeroDelay(Mover) \/ Release(Mover)
  <2>1. UNCHANGED <<full, npages>>
    BY <1>2 DEF RecheckFree, LoadPending, TakePending, InstallPending, LoadToFree, PutBackRest, ZeroDelay, Release
  <2>2. at \notin counted \cup {"panic"} /\ at' \notin counted
    BY <1>0, <1>2, RefillEffects
  <2> QED
    BY <2>1, <2>2, CountKept DEF Uncounted, Overcounted
<1>3. CASE TakeToFree(Mover) \/ AllocNewPages(Mover)
  <2>1. UNCHANGED <<full, npages>>
    BY <1>3 DEF TakeToFree, AllocNewPages
  <2>2. at \notin counted \cup {"panic"} /\ at' \notin counted
    BY <1>0, <1>3, RefillEffects, ReuseEffects, AllocEffects
  <2> QED
    BY <2>1, <2>2, CountKept DEF Uncounted, Overcounted
<1>4. CASE LoadDelay(Mover) \/ BumpDelay(Mover) \/ SweepToFree(Mover) \/ (at = "dropPages" /\ DropPages(Mover))
           \/ EndOfSweep(Mover)
  <2>1. UNCHANGED <<full, npages>>
    BY <1>4 DEF LoadDelay, BumpDelay, SweepToFree, DropPages, EndOfSweep
  <2>2. at \notin counted \cup {"panic"} /\ at' \notin counted
    BY <1>0, <1>4, SweepEffects
  <2> QED
    BY <2>1, <2>2, CountKept DEF Uncounted, Overcounted
<1>5. CASE StartShrink(Mover) \/ Lock(Mover) \/ DetachFree(Mover) \/ WalkFree(Mover) \/ Unlink(Mover)
           \/ RetainUntouched(Mover) \/ EndShrinking(Mover) \/ Unlock(Mover)
  <2>1. UNCHANGED <<full, npages>>
    BY <1>5 DEF StartShrink, Lock, DetachFree, WalkFree, Unlink, RetainUntouched, EndShrinking, Unlock
  <2>2. at \notin counted \cup {"panic"} /\ at' \notin counted
    BY <1>0, <1>5, ShrinkEffects
  <2> QED
    BY <2>1, <2>2, CountKept DEF Uncounted, Overcounted
<1> QED
  BY <1>1, <1>2, <1>3, <1>4, <1>5

\* Those that put pages in full_list, or take some from there.
LEMMA CountWithBatch ==
  ASSUME OneMover, Known, MoveInv, CountInv,
         \/ PutFull(Mover) \/ PutFree(Mover) \/ CountPages(Mover) \/ RemoveFromFull(Mover)
         \/ ResetDelay(Mover) \/ GrabToFree(Mover) \/ GiveToFree(Mover) \/ RestoreFree(Mover)
         \/ UncountPages(Mover)
  PROVE  CountInv'
<1>0. /\ TypeInv /\ PlaceInv /\ at # "panic" /\ npages \in Nat
      /\ own.batch \in Seq(Pages) /\ Len(own.batch) \in Nat /\ full \in Seq(Pages) /\ Len(full) \in Nat
  <2>1. Mover \in Threads /\ loc \in [Threads -> Locals]
    BY TheMover DEF Known, TypeInv, ThreadType
  <2>2. own.batch \in Seq(Pages)
    BY <2>1 DEF own, Locals
  <2>3. full \in Seq(Pages) /\ npages \in Nat
    BY SharedArenaAssumption DEF Known, TypeInv, ArenaType
  <2>4. at # "panic"
    BY <2>1 DEF Known, WriterInv, ThreadInv, at
  <2> QED
    BY <2>2, <2>3, <2>4 DEF Known, MoveInv
<1>1. npages + Uncounted = Len(full) + Overcounted
  BY <1>0 DEF CountInv
<1>2. /\ USIZE \in Nat /\ Len(full) < USIZE
      /\ \A x \in 0 .. USIZE - 1 : x % USIZE = x
  BY FewPages, SharedArenaAssumption DEF Known, MoveInv
<1> USE DEF Goes, arenaVars, listVars
<1>3. CASE PutFull(Mover)
  <2>1. /\ at = "putFull" /\ at' = "putFree" /\ own' = own /\ npages' = npages
        /\ full' = own.batch \o full
    BY <1>0, <1>3, RefillEffects DEF PutFull, own
  <2>2. Len(full') = Len(full) + Len(own.batch)
    BY <1>0, <2>1, Joined
  <2>3. Uncounted = 0 /\ Overcounted = 0 /\ Uncounted' = Len(own.batch) /\ Overcounted' = 0
    BY <2>1 DEF Uncounted, Overcounted
  <2>4. npages' + Len(own.batch) = Len(full') + 0
    <3>1. npages' = npages /\ npages = Len(full)
      BY <1>0, <1>1, <2>1, <2>3
    <3> QED
      BY <1>0, <2>2, <3>1
  <2> QED
    BY <2>3, <2>4 DEF CountInv
<1>4. CASE PutFree(Mover)
  <2>1. at = "putFree" /\ at' \in {"count", "panic"} /\ own' = own /\ npages' = npages /\ full' = full
    BY <1>0, <1>4, RefillEffects DEF PutFree
  <2> QED
    BY <1>1, <2>1 DEF CountInv, Uncounted, Overcounted
<1>5. CASE CountPages(Mover)
  <2>1. /\ at = "count" /\ at' \in {"rest", "release"} /\ full' = full
        /\ npages' = (npages + Len(own.batch)) % USIZE
    BY <1>0, <1>5, RefillEffects DEF CountPages, own
  <2>2. npages + Len(own.batch) = Len(full)
    BY <1>0, <1>1, <2>1 DEF Uncounted, Overcounted
  <2>3. Len(full) \in 0 .. USIZE - 1
    BY <1>0, <1>2
  <2>4. npages' = Len(full) % USIZE /\ Len(full) % USIZE = Len(full)
    BY <1>2, <2>1, <2>2, <2>3
  <2> QED
    BY <1>0, <2>1, <2>4 DEF CountInv, Uncounted, Overcounted
<1>6. CASE RemoveFromFull(Mover)
  <2>1. /\ at = "unfull" /\ at' \in {"restore", "resetDelay"} /\ own' = own /\ npages' = npages
        /\ full' = Kept(full, Pages \ ToSet(own.batch))
    BY <1>0, <1>6, ShrinkEffects DEF RemoveFromFull, own
  <2>2. full' \in Seq(Pages) /\ ToSet(full') = ToSet(full) \cap (Pages \ ToSet(own.batch)) /\ IsInjective(full')
    BY <1>0, <2>1, KeptElements DEF PlaceInv
  <2>3. IsInjective(own.batch) /\ IsInjective(full) /\ ToSet(own.batch) \subseteq ToSet(full)
    BY <1>0, <2>1 DEF PlaceInv, AsideAt, Aside
  <2> DEFINE a == ToSet(full')
             b == ToSet(own.batch)
  <2>4. a \cup b = ToSet(full) /\ a \cap b = {}
    BY <1>0, <2>2, <2>3, Members
  <2>5. /\ IsFiniteSet(a) /\ Cardinality(a) = Len(full') /\ IsFiniteSet(b) /\ Cardinality(b) = Len(own.batch)
        /\ Cardinality(ToSet(full)) = Len(full) /\ Len(full') \in Nat
    <3>1. IsFiniteSet(a) /\ Cardinality(a) = Len(full') /\ Len(full') \in Nat
      <4>1. full' \in Seq(Pages) /\ IsInjective(full')
        BY <2>2
      <4> QED
        BY <4>1, InjectiveLength
    <3>2. IsFiniteSet(b) /\ Cardinality(b) = Len(own.batch)
      BY <1>0, <2>3, InjectiveLength
    <3>3. Cardinality(ToSet(full)) = Len(full)
      BY <1>0, <2>3, InjectiveLength
    <3> QED
      BY <3>1, <3>2, <3>3
  <2> HIDE DEF a, b
  <2>6. Cardinality(a \cup b) = Cardinality(a) + Cardinality(b) - Cardinality(a \cap b)
    BY <2>5, FS_Union
  <2>7. Cardinality(a \cap b) = 0
    BY <2>4, FS_EmptySet
  <2>8. Len(full) = Len(full') + Len(own.batch)
    <3>1. Cardinality(a \cup b) = Len(full)
      BY <2>4, <2>5, Zenon
    <3>2. /\ Cardinality(a) = Len(full') /\ Cardinality(b) = Len(own.batch)
          /\ Len(full) \in Nat /\ Len(full') \in Nat /\ Len(own.batch) \in Nat
      BY <1>0, <2>5
    <3> QED
      BY <2>6, <2>7, <3>1, <3>2
  <2>9. /\ Uncounted = 0 /\ Overcounted = 0 /\ Uncounted' = 0
        /\ Overcounted' = Len(own.batch)
    <3>1. own.batch = <<>> => Len(own.batch) = 0
      OBVIOUS
    <3>2. at' = IF own.batch = <<>> THEN "restore" ELSE "resetDelay"
      BY <1>0, <1>6, ShrinkEffects
    <3> QED
      BY <2>1, <3>1, <3>2 DEF Uncounted, Overcounted
  <2> QED
    BY <1>0, <1>1, <2>1, <2>5, <2>8, <2>9 DEF CountInv
<1>7. CASE ResetDelay(Mover) \/ GrabToFree(Mover) \/ GiveToFree(Mover) \/ RestoreFree(Mover)
  <2>1. /\ at \in {"resetDelay", "grab", "give", "restore"}
        /\ at' \in {"grab", "give", "restore", "uncount", "panic"} /\ own'.batch = own.batch
    <3>1. CASE ResetDelay(Mover) \/ GrabToFree(Mover)
      BY <1>0, <3>1, ShrinkEffects
    <3>2. CASE GiveToFree(Mover) \/ RestoreFree(Mover)
      BY <1>0, <3>2, ShrinkEffects
    <3> QED
      BY <1>7, <3>1, <3>2
  <2>2. UNCHANGED <<full, npages>>
    BY <1>7 DEF ResetDelay, GrabToFree, GiveToFree, RestoreFree
  <2> QED
    BY <1>1, <2>1, <2>2 DEF CountInv, Uncounted, Overcounted
<1>8. CASE UncountPages(Mover)
  <2>1. /\ at = "uncount" /\ at' = "unshrink" /\ full' = full
        /\ npages' = (npages - Len(own.batch)) % USIZE
    BY <1>0, <1>8, ShrinkEffects DEF UncountPages, own
  <2>2. npages - Len(own.batch) = Len(full)
    BY <1>0, <1>1, <2>1 DEF Uncounted, Overcounted
  <2>3. Len(full) \in 0 .. USIZE - 1
    BY <1>0, <1>2
  <2>4. npages' = Len(full) % USIZE /\ Len(full) % USIZE = Len(full)
    BY <1>2, <2>1, <2>2, <2>3
  <2> QED
    BY <1>0, <2>1, <2>4 DEF CountInv, Uncounted, Overcounted
<1> QED
  BY <1>3, <1>4, <1>5, <1>6, <1>7, <1>8

\* Every step keeps it.
LEMMA CountInvNext ==
  ASSUME OneMover, Known, MoveInv, CountInv, [Next]_vars
  PROVE  CountInv'
<1>0. at # "panic" /\ TypeInv /\ ActorInv
  BY TheMover DEF Known, WriterInv, ThreadInv, at
<1>1. CASE UNCHANGED vars
  BY <1>1 DEF vars, CountInv, Uncounted, Overcounted, at, own
<1>2. ASSUME NEW t \in Threads, OtherStep(t) PROVE CountInv'
  <2>1. UNCHANGED <<full, npages>>
    BY <1>0, <1>2, OtherMoves
  <2>2. CASE t # Mover
    <3>1. at' = at /\ own' = own
      BY <1>0, <1>2, <2>2, OtherMoves
    <3> QED
      BY <1>0, <2>1, <3>1, CountKept DEF Uncounted, Overcounted
  <2>3. CASE t = Mover
    <3>1. at' \in Quiet /\ (at \in Quiet \/ TouchFreed(Mover))
      BY <1>0, <1>2, <2>3, OtherMoves DEF at
    <3>2. TouchFreed(Mover) => at \in Quiet
      BY MoverIsSafe DEF TouchFreed
    <3> QED
      BY <1>0, <2>1, <3>1, <3>2, CountKept DEF Uncounted, Overcounted, Quiet, DropBlock
  <2> QED
    BY <2>2, <2>3
<1>3. CASE MoverStep
  <2>1. at \in FindPlace /\ DropPages(Mover) => at = "dropPages"
    BY DEF DropPages, at, FindPlace
  <2> QED
    BY <1>3, <2>1, CountElsewhere, CountWithBatch DEF MoverStep, FindPlaceStep, ShrinkStep
<1> QED
  BY <1>0, <1>1, <1>2, <1>3, Steps DEF Next

\* In every behaviour.
LEMMA CountInvAlways ==
  ASSUME OneMover
  PROVE  Spec => [](Known /\ MoveInv /\ CountInv)
<1>1. Init => CountInv
  <2>1. ASSUME Init PROVE CountInv
    <3>1. npages = Capacity /\ full = NewList(0, Capacity) /\ at = "idle"
      BY <2>1, TheMover DEF Init, at
    <3>2. Len(full) = Capacity /\ Capacity \in Nat
      BY <3>1, SharedArenaAssumption DEF NewList
    <3> QED
      BY <3>1, <3>2 DEF CountInv, Uncounted, Overcounted
  <2> QED
    BY <2>1
<1>2. Known /\ MoveInv /\ CountInv /\ [Next]_vars => CountInv'
  BY CountInvNext
<1> QED
  BY <1>1, <1>2, MoveInvAlways, PTL DEF Spec

-----------------------------------------------------------------------------
(* What stats and Debug count.                                             *)

\* The free and the used blocks of a page, by the order in which they are counted.
FreeOf == [p \in Pages |-> {p} \X (1 .. BLOCK_PER_PAGE - used[p])]
UsedOf == [p \in Pages |-> {p} \X (BLOCK_PER_PAGE - used[p] + 1 .. BLOCK_PER_PAGE)]

\* They are all the blocks of the page, and no others.
LEMMA BlocksOfPage ==
  ASSUME \A x \in Pages : used[x] \in 0 .. BLOCK_PER_PAGE, NEW p \in Pages
  PROVE  /\ IsFiniteSet(FreeOf[p]) /\ Cardinality(FreeOf[p]) = BLOCK_PER_PAGE - used[p]
         /\ IsFiniteSet(UsedOf[p]) /\ Cardinality(UsedOf[p]) = used[p]
         /\ FreeOf[p] \cap UsedOf[p] = {}
         /\ FreeOf[p] \subseteq {p} \X (1 .. BLOCK_PER_PAGE)
         /\ UsedOf[p] \subseteq {p} \X (1 .. BLOCK_PER_PAGE)
<1> DEFINE c == BLOCK_PER_PAGE - used[p]
           a == 1 .. c
           b == c + 1 .. BLOCK_PER_PAGE
<1>1. BLOCK_PER_PAGE \in Nat /\ used[p] \in 0 .. BLOCK_PER_PAGE /\ c \in Nat /\ c <= BLOCK_PER_PAGE
  BY SharedArenaAssumption
<1>2. FreeOf[p] = {p} \X a /\ UsedOf[p] = {p} \X b
  BY DEF FreeOf, UsedOf
<1>3. IsFiniteSet(a) /\ Cardinality(a) = c
  <2> HIDE DEF c
  <2>1. IsFiniteSet(a) /\ Cardinality(a) = IF 1 > c THEN 0 ELSE c - 1 + 1
    <3>1. 1 \in Int /\ c \in Int
      BY <1>1
    <3> QED
      BY <3>1, FS_Interval
  <2> QED
    BY <1>1, <2>1
<1>4. IsFiniteSet(b) /\ Cardinality(b) = BLOCK_PER_PAGE - c
  <2> HIDE DEF c
  <2>1. c + 1 \in Int /\ BLOCK_PER_PAGE \in Int
    BY <1>1
  <2>2. IsFiniteSet(b) /\ Cardinality(b) = IF c + 1 > BLOCK_PER_PAGE THEN 0 ELSE BLOCK_PER_PAGE - (c + 1) + 1
    BY <2>1, FS_Interval
  <2> QED
    BY <1>1, <2>2
<1>5. a \cap b = {} /\ a \subseteq 1 .. BLOCK_PER_PAGE /\ b \subseteq 1 .. BLOCK_PER_PAGE
  <2> HIDE DEF c
  <2> QED
    BY <1>1
<1>6. BLOCK_PER_PAGE - c = used[p]
  BY <1>1
<1> HIDE DEF a, b, c
<1>7. IsFiniteSet({p}) /\ Cardinality({p}) = 1
  BY FS_Singleton
<1>8. IsFiniteSet({p} \X a) /\ Cardinality({p} \X a) = 1 * Cardinality(a)
  BY <1>3, <1>7, FS_Product
<1>9. IsFiniteSet({p} \X b) /\ Cardinality({p} \X b) = 1 * Cardinality(b)
  BY <1>4, <1>7, FS_Product
<1>10. IsFiniteSet(FreeOf[p]) /\ Cardinality(FreeOf[p]) = BLOCK_PER_PAGE - used[p]
  BY <1>1, <1>2, <1>3, <1>8 DEF c
<1>11. IsFiniteSet(UsedOf[p]) /\ Cardinality(UsedOf[p]) = used[p]
  BY <1>1, <1>2, <1>4, <1>6, <1>9
<1>12. /\ FreeOf[p] \cap UsedOf[p] = {}
       /\ FreeOf[p] \subseteq {p} \X (1 .. BLOCK_PER_PAGE) /\ UsedOf[p] \subseteq {p} \X (1 .. BLOCK_PER_PAGE)
  BY <1>2, <1>5
<1> QED
  BY <1>10, <1>11, <1>12

\* Two pages have no block in common.
LEMMA BlocksOfPages ==
  ASSUME \A x \in Pages : used[x] \in 0 .. BLOCK_PER_PAGE, NEW p \in Pages, NEW q \in Pages
  PROVE  /\ p # q => FreeOf[p] \cap FreeOf[q] = {} /\ UsedOf[p] \cap UsedOf[q] = {}
         /\ FreeOf[p] \cap UsedOf[q] = {}
<1>1. /\ FreeOf[p] \subseteq {p} \X (1 .. BLOCK_PER_PAGE) /\ UsedOf[p] \subseteq {p} \X (1 .. BLOCK_PER_PAGE)
      /\ FreeOf[q] \subseteq {q} \X (1 .. BLOCK_PER_PAGE) /\ UsedOf[q] \subseteq {q} \X (1 .. BLOCK_PER_PAGE)
      /\ FreeOf[p] \cap UsedOf[p] = {}
  BY BlocksOfPage
<1>2. p # q => ({p} \X (1 .. BLOCK_PER_PAGE)) \cap ({q} \X (1 .. BLOCK_PER_PAGE)) = {}
  OBVIOUS
<1> QED
  BY <1>1, <1>2

\* What stats adds up for the pages of a list.
LEMMA FreeCount ==
  ASSUME \A x \in Pages : used[x] \in 0 .. BLOCK_PER_PAGE, NEW s \in SUBSET (Pages \cap arenaBit)
  PROVE  Total([p \in Pages |-> IF p \in s THEN Ones(p) - 1 ELSE 0])
           = Cardinality(UNION {FreeOf[p] : p \in s})
<1> DEFINE t == [p \in Pages |-> IF p \in s THEN Ones(p) - 1 ELSE 0]
<1>1. \A p \in s : Ones(p) - 1 = Cardinality(FreeOf[p])
  <2>1. ASSUME NEW p \in s PROVE Ones(p) - 1 = Cardinality(FreeOf[p])
    <3>1. BLOCK_PER_PAGE \in Nat /\ used[p] \in 0 .. BLOCK_PER_PAGE /\ p \in arenaBit /\ p \in Pages
      BY SharedArenaAssumption
    <3>2. Cardinality(FreeOf[p]) = BLOCK_PER_PAGE - used[p]
      BY <3>1, BlocksOfPage
    <3> QED
      BY <3>1, <3>2 DEF Ones
  <2> QED
    BY <2>1
<1>2. t = [p \in Pages |-> IF p \in s THEN Cardinality(FreeOf[p]) ELSE 0]
  BY <1>1
<1>3. \A p \in Pages : IsFiniteSet(FreeOf[p])
  BY BlocksOfPage
<1>4. \A p, q \in Pages : p # q => FreeOf[p] \cap FreeOf[q] = {}
  BY BlocksOfPages
<1>5. s \in SUBSET Pages /\ MaxPages \in Nat
  BY SharedArenaAssumption
<1> HIDE DEF t
<1>6. Total(t) = Cardinality(UNION {FreeOf[p] : p \in s})
  BY <1>2, <1>3, <1>4, <1>5, TotalOfSet
<1> QED
  BY <1>6 DEF t

\* What Debug adds up for the pages of full_list.
LEMMA UsedCount ==
  ASSUME \A x \in Pages : used[x] \in 0 .. BLOCK_PER_PAGE, full \in Seq(Pages), IsInjective(full),
         ToSet(full) \subseteq arenaBit
  PROVE  fmt.blocks_used = Cardinality(UNION {UsedOf[p] : p \in ToSet(full)})
<1> DEFINE pages == [i \in DOMAIN full |->
                      [used |-> Zeros(full[i]), free |-> BLOCK_PER_PAGE - Zeros(full[i])]]
           t == [i \in DOMAIN pages |-> pages[i].used]
<1>1. DOMAIN full = 1 .. Len(full) /\ \A i \in DOMAIN full : full[i] \in Pages /\ full[i] \in arenaBit
  BY DEF ToSet
<1>2. \A i \in DOMAIN full : Zeros(full[i]) = Cardinality(UsedOf[full[i]])
  <2>1. ASSUME NEW i \in DOMAIN full PROVE Zeros(full[i]) = Cardinality(UsedOf[full[i]])
    <3>1. /\ BLOCK_PER_PAGE \in Nat /\ used[full[i]] \in 0 .. BLOCK_PER_PAGE
          /\ full[i] \in arenaBit /\ full[i] \in Pages
      BY <1>1, SharedArenaAssumption
    <3>2. Cardinality(UsedOf[full[i]]) = used[full[i]]
      BY <3>1, BlocksOfPage
    <3> QED
      BY <3>1, <3>2 DEF Ones, Zeros
  <2> QED
    BY <2>1
<1>3. t = [i \in 1 .. Len(full) |-> Cardinality(UsedOf[full[i]])]
  BY <1>1, <1>2
<1>4. \A p \in Pages : IsFiniteSet(UsedOf[p])
  BY BlocksOfPage
<1>5. \A p, q \in Pages : p # q => UsedOf[p] \cap UsedOf[q] = {}
  BY BlocksOfPages
<1>6. fmt.blocks_used = Total(t)
  <2>1. fmt = [blocks_free |-> Total([i \in DOMAIN pages |-> pages[i].free]),
               blocks_used |-> Total([i \in DOMAIN pages |-> pages[i].used]),
               npages |-> npages, pages |-> pages]
    BY Zenon DEF fmt
  <2> HIDE DEF pages
  <2> QED
    BY <2>1
<1> HIDE DEF pages, t
<1>7. Total(t) = Cardinality(UNION {UsedOf[p] : p \in ToSet(full)})
  <2>1. \A u : u = [i \in 1 .. Len(full) |-> Cardinality(UsedOf[full[i]])] =>
               Total(u) = Cardinality(UNION {UsedOf[p] : p \in ToSet(full)})
    BY <1>4, <1>5, TotalOfParts
  <2> QED
    BY <1>3, <2>1, Zenon
<1> QED
  BY <1>6, <1>7

\* Three sets of blocks of the pages of s, apart from each other.
LEMMA ThreeParts ==
  ASSUME NEW s, IsFiniteSet(s), NEW n \in Nat, NEW a, NEW b, NEW c,
         a \cup b \cup c \subseteq s \X (1 .. n),
         a \cap b = {}, a \cap c = {}, b \cap c = {}
  PROVE  /\ Cardinality(a) \in Nat /\ Cardinality(b) \in Nat /\ Cardinality(c) \in Nat
         /\ Cardinality(s) \in Nat
         /\ Cardinality(a) + Cardinality(b) + Cardinality(c) <= Cardinality(s) * n
<1>1. IsFiniteSet(1 .. n) /\ Cardinality(1 .. n) = n
  BY FS_Interval
<1>2. IsFiniteSet(s \X (1 .. n)) /\ Cardinality(s \X (1 .. n)) = Cardinality(s) * n
  <2> DEFINE r == 1 .. n
  <2>1. IsFiniteSet(r) /\ Cardinality(r) = n
    BY <1>1
  <2> HIDE DEF r
  <2>2. IsFiniteSet(s \X r) /\ Cardinality(s \X r) = Cardinality(s) * Cardinality(r)
    BY <2>1, FS_Product
  <2> QED
    BY <2>1, <2>2 DEF r
<1> DEFINE every == s \X (1 .. n)
           u == a \cup b
           v == u \cup c
<1>3. a \in SUBSET every /\ b \in SUBSET every /\ c \in SUBSET every /\ v \in SUBSET every
  OBVIOUS
<1>4. IsFiniteSet(every) /\ Cardinality(every) = Cardinality(s) * n
  BY <1>2
<1>5. u \cap c = {} /\ u = a \cup b
  OBVIOUS
<1> HIDE DEF every
<1>6. IsFiniteSet(a) /\ IsFiniteSet(b) /\ IsFiniteSet(c) /\ IsFiniteSet(v) /\ Cardinality(v) <= Cardinality(every)
  BY <1>3, <1>4, FS_Subset
<1>7. Cardinality({}) = 0
  BY FS_EmptySet
<1>8. IsFiniteSet(u) /\ Cardinality(u) = Cardinality(a) + Cardinality(b) - Cardinality(a \cap b)
  BY <1>6, FS_Union
<1> HIDE DEF u
<1>9. Cardinality(v) = Cardinality(u) + Cardinality(c) - Cardinality(u \cap c)
  BY <1>6, <1>8, FS_Union
<1>10. /\ Cardinality(a) \in Nat /\ Cardinality(b) \in Nat /\ Cardinality(c) \in Nat
       /\ Cardinality(u) \in Nat /\ Cardinality(s) \in Nat
  BY <1>6, <1>8, FS_CardinalityType
<1>11. Cardinality(a \cap b) = 0 /\ Cardinality(u \cap c) = 0
  BY <1>5, <1>7
<1>12. Cardinality(v) = Cardinality(a) + Cardinality(b) + Cardinality(c)
  BY <1>8, <1>9, <1>10, <1>11
<1> QED
  BY <1>4, <1>6, <1>10, <1>12

\* With one thread that allocates and shrinks: between two calls full_list and
\* to_free have every page that was not let go, once, npages counts those of
\* full_list, and stats takes no block for free that Debug shows as used.
THEOREM PagesAccounted ==
  ASSUME OneMover
  PROVE  Spec => []PagesAreAccountedFor
<1>1. ASSUME Known, MoveInv, CountInv, Resting, arena = "open"
      PROVE  /\ IsInjective(full \o toFree)
             /\ ToSet(full \o toFree) = arenaBit
             /\ npages = Len(full)
             /\ stats[1] + stats[2] = npages * BLOCK_PER_PAGE
             /\ stats[1] >= fmt.blocks_used
  <2>0. /\ full \in Seq(Pages) /\ toFree \in Seq(Pages) /\ \A x \in Pages : used[x] \in 0 .. BLOCK_PER_PAGE
        /\ npages \in Nat /\ BLOCK_PER_PAGE \in Nat /\ USIZE \in Nat /\ MaxPages \in Nat
        /\ PlaceInv /\ WordInv /\ ListInv
    BY <1>1, SharedArenaAssumption DEF Known, MoveInv, TypeInv, ArenaType
  <2>1. /\ at \notin {"putFree", "count", "resetDelay", "grab", "give", "restore", "uncount", "panic"}
        /\ Given = {} /\ Rest = {} /\ Aside = {} /\ InHand(Mover) = Null
    <3>1. Mover \in Threads /\ at \in Labels /\ at # "panic"
      BY <1>1, TheMover DEF Known, TypeInv, ThreadType, WriterInv, ThreadInv, at
    <3>2. at \in Quiet
      BY <1>1, <3>1, QuietLabels DEF Resting, at
    <3> QED
      BY <3>1, <3>2, QuietHands DEF Quiet, DropBlock
  <2>2. npages = Len(full) /\ Len(full) \in Nat /\ Len(full) <= MaxPages
    BY <1>1, <2>0, <2>1, FewPages DEF CountInv, Uncounted, Overcounted
  <2>3. IsInjective(full) /\ ToSet(full) \subseteq arenaBit /\ ToSet(full) \subseteq Pages
    BY <1>1, <2>0, <2>1, Members DEF PlaceInv, WordInv, Whole
  <2>4. IsInjective(full \o toFree) /\ ToSet(full \o toFree) = arenaBit
    <3>1. /\ ToSet(full \o toFree) = ToSet(toFree) \cup ToSet(full)
          /\ IsInjective(full) /\ IsInjective(toFree) /\ ToSet(toFree) \cap ToSet(full) = {}
               => IsInjective(full \o toFree)
      BY <2>0, Joined
    <3>2. arenaBit = ToSet(full) \cup ToSet(toFree)
      BY <1>1, <2>0, <2>1 DEF WordInv, Whole
    <3> QED
      BY <2>0, <3>1, <3>2 DEF PlaceInv
  <2>5. PICK l \in SUBSET Pages, p \in SUBSET Pages, i \in SUBSET Pages : Lists(l, p, i)
    BY <2>0 DEF ListInv
  <2>6. Chain(free) = l /\ Chain(pending) = p
    BY <1>1, <2>5, ListsOfPages DEF Lists
  <2>7. l \cap p = {} /\ l \cup p \subseteq ToSet(full)
    BY <2>5 DEF Lists, Chained, InFull
  <2> DEFINE a == UNION {FreeOf[x] : x \in l}
             b == UNION {FreeOf[x] : x \in p}
             c == UNION {UsedOf[x] : x \in ToSet(full)}
             n == Len(full) * BLOCK_PER_PAGE
  <2>8. \A x \in ToSet(full) : /\ FreeOf[x] \subseteq {x} \X (1 .. BLOCK_PER_PAGE)
                               /\ UsedOf[x] \subseteq {x} \X (1 .. BLOCK_PER_PAGE)
    BY <2>0, <2>3, BlocksOfPage
  <2>9. \A x, y \in Pages : /\ x # y => FreeOf[x] \cap FreeOf[y] = {}
                            /\ FreeOf[x] \cap UsedOf[y] = {}
    BY <2>0, BlocksOfPages
  <2>10. a \cap b = {} /\ a \cap c = {} /\ b \cap c = {}
    <3>1. a \cap b = {}
      BY <2>7, <2>9
    <3>2. a \cap c = {} /\ b \cap c = {}
      BY <2>3, <2>9
    <3> QED
      BY <3>1, <3>2
  <2>11. a \cup b \cup c \subseteq ToSet(full) \X (1 .. BLOCK_PER_PAGE)
    BY <2>7, <2>8
  <2>12. IsFiniteSet(ToSet(full)) /\ Cardinality(ToSet(full)) = Len(full)
    BY <2>0, <2>3, InjectiveLength
  <2>13. fmt.blocks_used = Cardinality(c)
    BY <2>0, <2>3, UsedCount
  <2>14. stats = <<(npages * BLOCK_PER_PAGE - (Cardinality(a) + Cardinality(b))) % USIZE,
                   Cardinality(a) + Cardinality(b)>>
    <3>1. /\ Total([x \in Pages |-> IF x \in l THEN Ones(x) - 1 ELSE 0]) = Cardinality(a)
          /\ Total([x \in Pages |-> IF x \in p THEN Ones(x) - 1 ELSE 0]) = Cardinality(b)
      <4>1. l \in SUBSET (Pages \cap arenaBit) /\ p \in SUBSET (Pages \cap arenaBit)
        BY <2>3, <2>7
      <4> QED
        BY <2>0, <4>1, FreeCount
    <3> HIDE DEF a, b
    <3> QED
      BY <2>6, <3>1, Zenon DEF stats
  <2>15. n \in Nat /\ n < USIZE
    <3>1. Len(full) * BLOCK_PER_PAGE <= MaxPages * BLOCK_PER_PAGE
      <4>1. \A x, y, z \in Nat : x <= y => x * z <= y * z
        OBVIOUS
      <4> QED
        BY <2>0, <2>2, <4>1
    <3> QED
      BY <2>0, <2>2, <3>1, BlocksHaveAddresses
  <2> HIDE DEF a, b, c
  <2>16. /\ Cardinality(a) \in Nat /\ Cardinality(b) \in Nat /\ Cardinality(c) \in Nat
         /\ Cardinality(a) + Cardinality(b) + Cardinality(c) <= n
    BY <2>0, <2>10, <2>11, <2>12, ThreeParts
  <2> HIDE DEF n
  <2> DEFINE f == Cardinality(a) + Cardinality(b)
  <2>17. n - f \in 0 .. USIZE - 1 /\ f \in Nat /\ n - f >= Cardinality(c)
    BY <2>0, <2>15, <2>16
  <2>18. stats = <<(n - f) % USIZE, f>>
    BY <2>2, <2>14, Zenon DEF n
  <2> HIDE DEF f
  <2>19. (n - f) % USIZE = n - f
    <3>1. \A x \in 0 .. USIZE - 1 : x % USIZE = x
      <4>1. USIZE \in Nat /\ USIZE > 0
        BY <2>0, <2>15
      <4> QED
        BY <4>1
    <3> QED
      BY <2>17, <3>1
  <2>20. stats[1] = n - f /\ stats[2] = f
    BY <2>18, <2>19
  <2>21. stats[1] + stats[2] = n /\ stats[1] >= fmt.blocks_used
    BY <2>13, <2>15, <2>17, <2>20
  <2> QED
    BY <2>2, <2>4, <2>21 DEF n
<1>2. ASSUME Known, MoveInv, CountInv PROVE PagesAreAccountedFor
  BY <1>1, <1>2 DEF PagesAreAccountedFor
<1> QED
  BY <1>2, CountInvAlways, PTL

-----------------------------------------------------------------------------
(* When nobody shrinks, while any threads allocate and drop handles. The   *)
(* lists may tangle then, but only among the pages of full_list, and none  *)
(* of these is freed before the arena is dropped.                          *)

NoShrinker == Shrinkers = {}

\* There is nothing in to_free, and nobody is where pages are taken from it.
NothingShrunk ==
  /\ toFree = <<>>
  /\ \A t \in Threads :
       /\ pc[t] \notin Shrink \cup {"reuse", "rest", "zeroDelay"}
       /\ ~loc[t].reusing
       /\ pc[t] = "dropPages" => loc[t].batch = <<>>

\* The pages of full_list, and those that the writer has made and is about to
\* put there, are all that were made.
AllInFull ==
  /\ IsInjective(full)
  /\ (\A t \in Threads : pc[t] # "putFull") => ToSet(full) = 1 .. made
  /\ \A t \in Threads : pc[t] = "putFull" =>
       /\ IsInjective(loc[t].batch)
       /\ ToSet(loc[t].batch) \cap ToSet(full) = {}
       /\ ToSet(loc[t].batch) \cup ToSet(full) = 1 .. made
  /\ \A t \in Threads : pc[t] = "putFree" => ToSet(loc[t].batch) \subseteq ToSet(full)

\* All that a thread finds in a list, or has read before, is in full_list.
Found == ToSet(full) \cup {Null}

PointersInFull ==
  /\ free \in Found /\ pending \in Found
  /\ \A t \in Threads : loc[t].page \in Found /\ loc[t].nxt \in Found
  /\ \A p \in ToSet(full) : nextFree[p] \in Found
  /\ \A t \in Threads : pc[t] = "putFull" =>
       \A p \in ToSet(loc[t].batch) : nextFree[p] \in ToSet(loc[t].batch) \cup {Null}

\* The arena lets no page go before it is dropped, and then each once.
PagesLetGo ==
  /\ \A t \in Threads : pc[t] \in FindPlace => arena = "open"
  /\ arena = "open" => arenaBit = 1 .. made
  /\ arena = "dropped" => arenaBit = {}
  /\ \A t \in Threads : pc[t] = "dropArena" =>
       /\ arena = "dropping"
       /\ IsInjective(loc[t].batch) /\ ToSet(loc[t].batch) = arenaBit
  /\ \A t, u \in Threads : pc[t] = "dropArena" /\ pc[u] = "dropArena" => t = u
  /\ arenaBit \subseteq 1 .. made
  /\ freed = {p \in 1 .. made : used[p] = 0 /\ p \notin arenaBit}
  /\ \A p \in Pages : used[p] > 0 => p \in ToSet(full)

TangleInv == NothingShrunk /\ AllInFull /\ PointersInFull /\ PagesLetGo

\* What a step makes of the pointers: they go to pages that one of them had, to
\* a page in use or to the first of those just put in full_list.
Reachable(t, x) ==
  \/ x \in {Null, free, pending, loc[t].page, loc[t].nxt}
  \/ loc[t].page # Null /\ x = nextFree[loc[t].page]
  \/ x \in Pages /\ used[x] > 0
  \/ pc[t] = "putFree" /\ x = Head(loc[t].batch)

PointersMove(t) ==
  /\ UNCHANGED <<full, made>>
  /\ pc'[t] \notin {"putFull", "putFree"} /\ (pc[t] = "putFull" => ~Safe(t))
  /\ Reachable(t, free') /\ Reachable(t, pending') /\ Reachable(t, loc'[t].page) /\ Reachable(t, loc'[t].nxt)
  /\ \/ UNCHANGED nextFree
     \/ loc[t].page # Null /\ nextFree' = [nextFree EXCEPT ![loc[t].page] = pending]

\* A step that is nothing to the pages.
PagesRemain(t) ==
  /\ UNCHANGED <<used, arenaBit, freed, made, arena>>
  /\ pc'[t] # "dropArena"
  /\ pc'[t] \in FindPlace => pc[t] \in FindPlace \/ arena = "open"

\* What a step is to the pages.
PagesMove(t) ==
  \/ PagesRemain(t) \/ AcquireFreeBlock(t) \/ AllocNewPages(t)
  \/ \E p \in Pages : GiveBlock(t, p)
  \/ StartDropArena(t) \/ EndDropArena(t)
  \/ pc[t] = "dropArena" /\ DropPages(t)

\* A step of a thread, when there is nothing to shrink.
ShrunkNothing(t) ==
  /\ toFree' = <<>>
  /\ pc'[t] \notin Shrink \cup {"reuse", "rest", "zeroDelay"}
  /\ ~loc'[t].reusing
  /\ pc'[t] = "dropPages" => loc'[t].batch = <<>>

\* Every step but those of shrink_to_fit, which nobody takes, is one of these to
\* to_free, to the pointers and to the pages.
LEMMA StepsWithoutShrink ==
  ASSUME NoShrinker, TypeInv, NothingShrunk, NEW t \in Threads, Continue(t) \/ Start(t)
  PROVE  /\ ShrunkNothing(t)
         /\ PointersMove(t) \/ AllocNewPages(t) \/ PutFull(t)
         /\ PagesMove(t)
<1> DEFINE Goal ==
             /\ ShrunkNothing(t)
             /\ PointersMove(t) \/ AllocNewPages(t) \/ PutFull(t)
             /\ PagesMove(t)
<1>0. /\ pc \in [Threads -> Labels] /\ loc \in [Threads -> Locals] /\ toFree = <<>>
      /\ pc[t] \notin Shrink \cup {"reuse", "rest", "zeroDelay"} /\ ~loc[t].reusing
      /\ pc[t] = "dropPages" => loc[t].batch = <<>>
      /\ free \in Pointer /\ pending \in Pointer /\ nextFree \in [Pages -> Pointer]
      /\ loc[t].page \in Pointer /\ loc[t].nxt \in Pointer
      /\ pc[t] \in {"acquire", "next", "cas", "unmark"} \cup DropBlock => loc[t].page \in Pages /\ loc[t].page # Null
      /\ pc[t] = "putFree" => Head(loc[t].batch) \in Pages
  <2>1. HasPage(t) /\ loc[t].page \in Pointer /\ loc[t].nxt \in Pointer /\ loc[t].batch \in Seq(Pages)
    BY DEF TypeInv, ThreadType, Locals
  <2>2. pc[t] = "putFree" => Head(loc[t].batch) \in Pages
    BY <2>1, FirstAndRest DEF HasPage
  <2> QED
    BY <2>1, <2>2 DEF TypeInv, ArenaType, ThreadType, NothingShrunk, HasPage, Pointer
<1> USE DEF Goto, Return, NoLocals, Shrink, Locals, listVars, arenaVars, pageVars, DropBlock, FindPlace,
        ShrunkNothing, PointersMove, PagesMove, PagesRemain, Reachable, Pointer, Null
<1>1. CASE Start(t)
  <2>1. ~StartShrink(t)
    BY DEF StartShrink, NoShrinker
  <2>2. ASSUME NEW p \in Pages, GiveBlock(t, p) PROVE Goal
    <3>1. /\ pc[t] = "idle" /\ pc'[t] \in {"idle", "marked"} /\ loc'[t].page \in {loc[t].page, p}
          /\ loc'[t].nxt = loc[t].nxt /\ ~loc'[t].reusing
      <4>1. CASE UNCHANGED <<pc, loc>>
        BY <1>0, <2>2, <4>1 DEF GiveBlock
      <4>2. CASE Goto(t, "marked") /\ loc' = [loc EXCEPT ![t].page = p]
        BY <1>0, <2>2, <4>2 DEF GiveBlock
      <4> QED
        BY <2>2, <4>1, <4>2 DEF GiveBlock
    <3>2. used[p] > 0 /\ UNCHANGED <<nextFree, listVars, arenaVars>>
      BY <2>2 DEF GiveBlock
    <3>3. PointersMove(t)
      BY <1>0, <3>1, <3>2
    <3>4. ShrunkNothing(t)
      <4>1. toFree' = <<>>
        BY <1>0, <3>2
      <4>2. pc'[t] \notin Shrink \cup {"reuse", "rest", "zeroDelay"}
        BY <1>0, <3>1
      <4> QED
        BY <4>1, <4>2, <3>1
    <3> QED
      BY <2>2, <3>3, <3>4
  <2>3. CASE StartAlloc(t)
    BY <1>0, <2>3 DEF StartAlloc
  <2>4. CASE StartDropArena(t)
    <3>1. /\ pc[t] = "idle" /\ pc' = [pc EXCEPT ![t] = "dropArena"]
          /\ loc' = [loc EXCEPT ![t].batch = toFree \o full]
          /\ UNCHANGED <<pageVars, listVars, npages, writer, shrinking, toFree, delay, made>>
      BY <2>4 DEF StartDropArena
    <3>2. ShrunkNothing(t) /\ PointersMove(t)
      BY <1>0, <3>1
    <3> QED
      BY <2>4, <3>2
  <2> QED
    BY <1>1, <2>1, <2>2, <2>3, <2>4 DEF Start
<1>2. CASE FindPlaceStep(t)
  <2>1. CASE LoadHead(t)
    BY <1>0, <2>1 DEF LoadHead
  <2>2. CASE AcquireFreeBlock(t)
    BY <1>0, <2>2 DEF AcquireFreeBlock
  <2>3. CASE LoadNextFree(t)
    <3>1. /\ pc'[t] = "cas" /\ loc'[t].page = loc[t].page /\ loc'[t].nxt = nextFree[loc[t].page]
          /\ nextFree[loc[t].page] \in Pointer /\ pc[t] = "next"
          /\ ~loc'[t].reusing /\ UNCHANGED <<pageVars, listVars, arenaVars>>
      BY <1>0, <2>3 DEF LoadNextFree
    <3> QED
      BY <1>0, <3>1
  <2>4. CASE PopFree(t)
    BY <1>0, <2>4 DEF PopFree
  <2>5. CASE UnmarkPage(t)
    BY <1>0, <2>5 DEF UnmarkPage
  <2>6. CASE TryGuard(t)
    <3>1. CASE ~writer
      <4>1. pc' = [pc EXCEPT ![t] = "recheck"] /\ loc' = [loc EXCEPT ![t].guarded = TRUE] /\ pc[t] = "guard"
        BY <2>6, <3>1 DEF TryGuard
      <4>2. UNCHANGED <<pageVars, listVars, npages, shrinking, toFree, delay, arena, made>>
        BY <2>6, <3>1 DEF TryGuard
      <4>3. ShrunkNothing(t)
        BY <1>0, <4>1, <4>2
      <4>4. PointersMove(t)
        BY <1>0, <4>1, <4>2
      <4>5. PagesRemain(t)
        BY <1>0, <4>1, <4>2
      <4> QED
        BY <4>3, <4>4, <4>5
    <3>2. CASE writer
      BY <1>0, <2>6, <3>2 DEF TryGuard
    <3> QED
      BY <2>6, <3>1, <3>2 DEF TryGuard
  <2>7. CASE SeeLocked(t)
    BY <1>0, <2>7 DEF SeeLocked
  <2>8. CASE RecheckFree(t)
    BY <1>0, <2>8 DEF RecheckFree
  <2>9. CASE LoadPending(t)
    BY <1>0, <2>9 DEF LoadPending
  <2>10. CASE TakePending(t)
    BY <1>0, <2>10 DEF TakePending
  <2>11. CASE InstallPending(t)
    BY <1>0, <2>11 DEF InstallPending
  <2>12. CASE LoadToFree(t)
    BY <1>0, <2>12 DEF LoadToFree
  <2>13. CASE AllocNewPages(t)
    BY <1>0, <2>13 DEF AllocNewPages
  <2>14. CASE PutFull(t)
    BY <1>0, <2>14 DEF PutFull
  <2>15. CASE PutFree(t)
    BY <1>0, <2>15 DEF PutFree
  <2>16. CASE CountPages(t)
    BY <1>0, <2>16 DEF CountPages
  <2>17. CASE Release(t)
    BY <1>0, <2>17 DEF Release
  <2>18. CASE LoadDelay(t)
    BY <1>0, <2>18 DEF LoadDelay, AfterMaybeFree
  <2>19. CASE BumpDelay(t)
    BY <1>0, <2>19 DEF BumpDelay, AfterMaybeFree
  <2>20. CASE SweepToFree(t)
    BY <1>0, <2>20 DEF SweepToFree
  <2>21. CASE DropPages(t)
    BY <1>0, <2>21 DEF DropPages
  <2>22. CASE EndOfSweep(t)
    BY <1>0, <2>22 DEF EndOfSweep, AfterMaybeFree
  <2>23. ~TakeToFree(t) /\ ~PutBackRest(t) /\ ~ZeroDelay(t)
    BY <1>0 DEF TakeToFree, PutBackRest, ZeroDelay
  <2> QED
    BY <1>2, <2>1, <2>2, <2>3, <2>4, <2>5, <2>6, <2>7, <2>8, <2>9, <2>10, <2>11, <2>12, <2>13, <2>14,
       <2>15, <2>16, <2>17, <2>18, <2>19, <2>20, <2>21, <2>22, <2>23 DEF FindPlaceStep
<1>3. ~ShrinkStep(t)
  BY <1>0 DEF ShrinkStep, Lock, DetachFree, WalkFree, Unlink, RetainUntouched, RemoveFromFull,
     ResetDelay, GrabToFree, GiveToFree, RestoreFree, UncountPages, EndShrinking, Unlock
<1>4. CASE DropBlockStep(t)
  <2>1. CASE LoadMark(t)
    BY <1>0, <2>1 DEF LoadMark
  <2>2. CASE SwapMark(t)
    BY <1>0, <2>2 DEF SwapMark
  <2>3. CASE UpgradePending(t)
    BY <1>0, <2>3 DEF UpgradePending
  <2>4. CASE LinkPending(t)
    <3>1. /\ pc'[t] = "pushCas" /\ loc'[t].page = loc[t].page /\ loc'[t].nxt = pending
          /\ pc[t] = "push" /\ ~loc'[t].reusing
          /\ nextFree' = [nextFree EXCEPT ![loc[t].page] = pending]
          /\ UNCHANGED <<used, arenaBit, freed, listVars, arenaVars>>
      BY <1>0, <2>4 DEF LinkPending
    <3>2. PointersMove(t)
      BY <1>0, <3>1
    <3>3. PagesRemain(t) /\ ShrunkNothing(t)
      BY <1>0, <3>1
    <3> QED
      BY <3>2, <3>3
  <2>5. CASE PushPending(t)
    BY <1>0, <2>5 DEF PushPending
  <2> QED
    BY <1>4, <2>1, <2>2, <2>3, <2>4, <2>5 DEF DropBlockStep
<1>5. CASE EndDropArena(t) \/ TouchFreed(t)
  BY <1>0, <1>5 DEF EndDropArena, TouchFreed
<1> QED
  BY <1>1, <1>2, <1>3, <1>4, <1>5 DEF Continue

\* The writer makes pages.
LEMMA PagesMade ==
  ASSUME TypeInv, NEW t \in Threads, AllocNewPages(t)
  PROVE  /\ pc[t] = "allocate" /\ pc'[t] = "putFull"
         /\ loc'[t].page = loc[t].page /\ loc'[t].nxt = loc[t].nxt
         /\ UNCHANGED <<used, freed, full, free, pending, arena>>
         /\ \E n \in Nat \ {0} :
              /\ made + n <= MaxPages /\ made' = made + n
              /\ loc'[t].batch = NewList(made, n)
              /\ nextFree' = Linked(nextFree, NewList(made, n))
              /\ arenaBit' = arenaBit \cup ToSet(NewList(made, n))
<1>0. pc \in [Threads -> Labels] /\ loc \in [Threads -> Locals] /\ npages \in Int
  BY SharedArenaAssumption DEF TypeInv, ThreadType, ArenaType
<1> DEFINE n    == Min({Max({npages, 1}), MaxAllocate})
           list == NewList(made, n)
<1>1. n \in Nat \ {0}
  BY <1>0, NewPages
<1>2. /\ pc[t] = "allocate" /\ pc' = [pc EXCEPT ![t] = "putFull"]
      /\ loc' = [loc EXCEPT ![t] = [loc[t] EXCEPT !.batch = list]]
      /\ made + n <= MaxPages /\ made' = made + n /\ nextFree' = Linked(nextFree, list)
      /\ arenaBit' = arenaBit \cup ToSet(list)
      /\ UNCHANGED <<used, freed, full, free, pending, arena>>
  BY DEF AllocNewPages, Goto, listVars
<1> HIDE DEF n
<1>3. list = NewList(made, n)
  OBVIOUS
<1> HIDE DEF list
<1>4. pc'[t] = "putFull" /\ loc'[t].batch = list /\ loc'[t].page = loc[t].page /\ loc'[t].nxt = loc[t].nxt
  BY <1>0, <1>2 DEF Locals
<1> QED
  BY <1>1, <1>2, <1>3, <1>4

\* And puts them in full_list.
LEMMA PagesPut ==
  ASSUME TypeInv, NEW t \in Threads, PutFull(t)
  PROVE  /\ pc[t] = "putFull" /\ pc'[t] = "putFree" /\ UNCHANGED loc
         /\ loc[t].batch \in Seq(Pages) /\ full' = loc[t].batch \o full
         /\ UNCHANGED <<used, freed, arenaBit, made, nextFree, free, pending, arena>>
<1>0. pc \in [Threads -> Labels] /\ loc \in [Threads -> Locals]
  BY DEF TypeInv, ThreadType
<1> QED
  BY <1>0 DEF PutFull, Goto, Locals, pageVars, arenaVars

\* One thread at a time has new pages.
LEMMA OneMaker ==
  ASSUME WriterInv, NEW t \in Threads, NEW u \in Threads,
         {pc[t], pc[u]} \subseteq {"allocate", "putFull", "putFree"}
  PROVE  t = u
BY DEF WriterInv, WriterIsExclusive, ThreadInv, Guarded

\* What is in full_list.
LEMMA AllInFullNext ==
  ASSUME TypeInv, WriterInv, AllInFull, NEW t \in Threads, Moves(t),
         pc[t] = "putFull" => Safe(t),
         PointersMove(t) \/ AllocNewPages(t) \/ PutFull(t)
  PROVE  AllInFull'
<1>0. /\ pc \in [Threads -> Labels] /\ loc \in [Threads -> Locals]
      /\ pc' = [pc EXCEPT ![t] = pc'[t]] /\ loc' = [loc EXCEPT ![t] = loc'[t]]
      /\ full \in Seq(Pages) /\ made \in Nat
  BY SharedArenaAssumption DEF TypeInv, ThreadType, ArenaType, Moves
<1>1. CASE PointersMove(t)
  BY <1>0, <1>1 DEF PointersMove, AllInFull
<1>2. CASE AllocNewPages(t)
  <2>1. PICK n \in Nat \ {0} : made' = made + n /\ loc'[t].batch = NewList(made, n)
    BY <1>2, PagesMade
  <2>2. pc[t] = "allocate" /\ pc'[t] = "putFull" /\ full' = full
    BY <1>2, PagesMade
  <2>3. \A u \in Threads \ {t} : pc[u] \notin {"putFull", "putFree"} /\ pc'[u] = pc[u]
    BY <1>0, <2>2, OneMaker
  <2>4. ToSet(full) = 1 .. made
    BY <2>2, <2>3 DEF AllInFull
  <2>5. IsInjective(loc'[t].batch) /\ ToSet(loc'[t].batch) = made + 1 .. made + n
    <3>1. IsInjective(NewList(made, n)) /\ ToSet(NewList(made, n)) = made + 1 .. made + n
      BY <1>0, NewListElements
    <3> QED
      BY <2>1, <3>1
  <2>6. /\ ToSet(loc'[t].batch) \cap ToSet(full) = {}
        /\ ToSet(loc'[t].batch) \cup ToSet(full) = 1 .. made'
    BY <1>0, <2>1, <2>4, <2>5
  <2> QED
    BY <2>2, <2>3, <2>5, <2>6 DEF AllInFull
<1>3. CASE PutFull(t)
  <2>1. /\ pc[t] = "putFull" /\ pc'[t] = "putFree" /\ UNCHANGED <<loc, made>>
        /\ loc[t].batch \in Seq(Pages) /\ full' = loc[t].batch \o full
    BY <1>3, PagesPut
  <2>2. \A u \in Threads \ {t} : pc[u] \notin {"putFull", "putFree"} /\ pc'[u] = pc[u]
    BY <1>0, <2>1, OneMaker
  <2>3. /\ IsInjective(loc[t].batch) /\ IsInjective(full)
        /\ ToSet(loc[t].batch) \cap ToSet(full) = {} /\ ToSet(loc[t].batch) \cup ToSet(full) = 1 .. made
    BY <2>1 DEF AllInFull
  <2>4. IsInjective(full') /\ ToSet(full') = ToSet(full) \cup ToSet(loc[t].batch)
    BY <1>0, <2>1, <2>3, Joined
  <2>5. \A u \in Threads : pc'[u] # "putFull"
    BY <2>1, <2>2
  <2>6. \A u \in Threads : pc'[u] = "putFree" => u = t
    BY <2>2
  <2> QED
    BY <2>1, <2>3, <2>4, <2>5, <2>6 DEF AllInFull
<1> QED
  BY <1>1, <1>2, <1>3

\* What the threads find, and have read.
LEMMA PointersNext ==
  ASSUME TypeInv, TypeInv', WriterInv, AllInFull, PointersInFull,
         \A p \in Pages : used[p] > 0 => p \in ToSet(full),
         NEW t \in Threads, Moves(t),
         PointersMove(t) \/ AllocNewPages(t) \/ PutFull(t)
  PROVE  PointersInFull'
<1>0. /\ pc \in [Threads -> Labels] /\ loc \in [Threads -> Locals]
      /\ pc' = [pc EXCEPT ![t] = pc'[t]] /\ loc' = [loc EXCEPT ![t] = loc'[t]]
      /\ full \in Seq(Pages) /\ made \in Nat /\ nextFree \in [Pages -> Pointer] /\ ToSet(full) \subseteq Pages
  <2>1. full \in Seq(Pages) /\ made \in Nat
    BY SharedArenaAssumption DEF TypeInv, ArenaType
  <2> QED
    BY <2>1, Members DEF TypeInv, ThreadType, ArenaType, Moves
<1>1. CASE PointersMove(t)
  <2>1. Found' = Found /\ ToSet(full') = ToSet(full) /\ free \in Found /\ pending \in Found
        /\ loc[t].page \in Found /\ loc[t].nxt \in Found /\ Null \in Found
    BY <1>1 DEF PointersMove, Found, PointersInFull
  <2>2. ASSUME NEW x, Reachable(t, x) PROVE x \in Found
    <3>1. CASE x \in {Null, free, pending, loc[t].page, loc[t].nxt}
      BY <2>1, <3>1
    <3>2. CASE loc[t].page # Null /\ x = nextFree[loc[t].page]
      BY <2>1, <3>2 DEF PointersInFull, Found
    <3>3. CASE x \in Pages /\ used[x] > 0
      BY <3>3 DEF Found
    <3>4. CASE pc[t] = "putFree" /\ x = Head(loc[t].batch)
      <4>1. loc[t].batch \in Seq(Pages) /\ loc[t].batch # <<>>
        BY <1>0, <3>4 DEF TypeInv, ThreadType, HasPage, Locals
      <4>2. Head(loc[t].batch) \in ToSet(loc[t].batch)
        BY <4>1, FirstAndRest
      <4> QED
        BY <3>4, <4>2 DEF AllInFull, Found
    <3> QED
      BY <2>2, <3>1, <3>2, <3>3, <3>4 DEF Reachable
  <2>3. free' \in Found /\ pending' \in Found /\ loc'[t].page \in Found /\ loc'[t].nxt \in Found
    BY <1>1, <2>2 DEF PointersMove
  <2>4. \A u \in Threads : loc'[u].page \in Found /\ loc'[u].nxt \in Found
    BY <1>0, <2>3 DEF PointersInFull
  <2>5. \A u \in Threads : pc'[u] = "putFull" => pc[u] = "putFull" /\ loc'[u] = loc[u]
    BY <1>0, <1>1 DEF PointersMove
  <2>6. CASE UNCHANGED nextFree
    BY <2>1, <2>3, <2>4, <2>5, <2>6 DEF PointersInFull
  <2>7. CASE loc[t].page # Null /\ nextFree' = [nextFree EXCEPT ![loc[t].page] = pending]
    <3>1. loc[t].page \in ToSet(full) /\ loc[t].page \in Pages
      BY <1>0, <2>1, <2>7 DEF Found
    <3>2. \A p \in ToSet(full) : nextFree'[p] \in Found
      BY <1>0, <2>1, <2>7, <3>1 DEF PointersInFull
    <3>3. ASSUME NEW u \in Threads, pc'[u] = "putFull", NEW p \in ToSet(loc'[u].batch)
          PROVE  nextFree'[p] \in ToSet(loc'[u].batch) \cup {Null}
      <4>1. pc[u] = "putFull" /\ p \in ToSet(loc[u].batch) /\ loc'[u] = loc[u]
        BY <2>5, <3>3
      <4>2. p # loc[t].page
        BY <3>1, <4>1 DEF AllInFull
      <4>3. nextFree'[p] = nextFree[p]
        BY <1>0, <2>7, <4>2
      <4> QED
        BY <4>1, <4>3 DEF PointersInFull
    <3> QED
      BY <2>1, <2>3, <2>4, <3>2, <3>3 DEF PointersInFull
  <2> QED
    BY <1>1, <2>6, <2>7 DEF PointersMove
<1>2. CASE AllocNewPages(t)
  <2>1. PICK n \in Nat \ {0} : /\ made + n <= MaxPages /\ made' = made + n
                               /\ loc'[t].batch = NewList(made, n)
                               /\ nextFree' = Linked(nextFree, NewList(made, n))
    BY <1>2, PagesMade
  <2>2. /\ pc[t] = "allocate" /\ pc'[t] = "putFull" /\ UNCHANGED <<full, free, pending>>
        /\ loc'[t].page = loc[t].page /\ loc'[t].nxt = loc[t].nxt
    BY <1>2, PagesMade
  <2>3. \A u \in Threads \ {t} : pc[u] # "putFull" /\ pc'[u] = pc[u] /\ loc'[u] = loc[u]
    BY <1>0, <2>2, OneMaker
  <2>4. ToSet(full) = 1 .. made /\ Found' = Found
    BY <2>2, <2>3 DEF AllInFull, Found
  <2>5. MaxPages \in Nat
    BY SharedArenaAssumption
  <2>6. /\ \A p \in Pages \ (made + 1 .. made + n) : nextFree'[p] = nextFree[p]
        /\ IsChain(nextFree', made + 1 .. made + n, made + n)
    <3>1. nextFree' = Linked(nextFree, NewList(made, n)) /\ made + n <= MaxPages
      BY <2>1
    <3>2. \A p \in Pages \ (made + 1 .. made + n) : nextFree'[p] = nextFree[p]
      BY <1>0, <2>5, <3>1, ChainNew
    <3>3. IsChain(nextFree', made + 1 .. made + n, made + n)
      BY <1>0, <2>5, <3>1, ChainNew
    <3> QED
      BY <3>2, <3>3
  <2>7. ToSet(loc'[t].batch) = made + 1 .. made + n
    <3>1. ToSet(NewList(made, n)) = made + 1 .. made + n
      BY <1>0, NewListElements
    <3> QED
      BY <2>1, <3>1
  <2>8. \A p \in ToSet(full) : nextFree'[p] = nextFree[p]
    BY <1>0, <2>4, <2>6
  <2>9. \A p \in ToSet(loc'[t].batch) : nextFree'[p] \in ToSet(loc'[t].batch) \cup {Null}
    BY <2>6, <2>7 DEF IsChain
  <2>10. \A u \in Threads : loc'[u].page = loc[u].page /\ loc'[u].nxt = loc[u].nxt
    BY <2>2, <2>3
  <2> QED
    BY <2>2, <2>3, <2>4, <2>8, <2>9, <2>10 DEF PointersInFull
<1>3. CASE PutFull(t)
  <2>1. /\ pc[t] = "putFull" /\ pc'[t] = "putFree" /\ UNCHANGED <<loc, nextFree, free, pending>>
        /\ loc[t].batch \in Seq(Pages) /\ full' = loc[t].batch \o full
    BY <1>3, PagesPut
  <2>2. \A u \in Threads \ {t} : pc[u] # "putFull" /\ pc'[u] = pc[u]
    BY <1>0, <2>1, OneMaker
  <2>3. ToSet(full') = ToSet(full) \cup ToSet(loc[t].batch)
    BY <1>0, <2>1, Joined
  <2>4. Found' = Found \cup ToSet(loc[t].batch)
    BY <2>3 DEF Found
  <2>5. \A p \in ToSet(full') : nextFree'[p] \in Found'
    BY <2>1, <2>3, <2>4 DEF PointersInFull, Found
  <2>6. \A u \in Threads : pc'[u] # "putFull"
    BY <2>1, <2>2
  <2> QED
    BY <2>1, <2>4, <2>5, <2>6 DEF PointersInFull
<1> QED
  BY <1>1, <1>2, <1>3

\* Which pages the arena has, and which were freed.
LEMMA PagesLetGoNext ==
  ASSUME TypeInv, TypeInv', NothingShrunk, AllInFull, PointersInFull, PagesLetGo,
         NEW t \in Threads, Moves(t), ToSet(full) \subseteq ToSet(full'), made' >= made,
         PagesMove(t)
  PROVE  PagesLetGo'
<1>0. /\ pc \in [Threads -> Labels] /\ loc \in [Threads -> Locals]
      /\ pc' = [pc EXCEPT ![t] = pc'[t]] /\ loc' = [loc EXCEPT ![t] = loc'[t]]
      /\ used \in [Pages -> 0 .. BLOCK_PER_PAGE] /\ BLOCK_PER_PAGE \in Nat
      /\ full \in Seq(Pages) /\ made \in 0 .. MaxPages /\ made \in Nat /\ MaxPages \in Nat
      /\ loc[t].batch \in Seq(Pages)
  <2>1. MaxPages \in Nat /\ BLOCK_PER_PAGE \in Nat
    BY SharedArenaAssumption
  <2>2. pc \in [Threads -> Labels] /\ loc \in [Threads -> Locals]
    BY DEF TypeInv, ThreadType
  <2>3. loc[t].batch \in Seq(Pages)
    BY <2>2 DEF Locals
  <2>4. used \in [Pages -> 0 .. BLOCK_PER_PAGE] /\ full \in Seq(Pages) /\ made \in 0 .. MaxPages
    BY DEF TypeInv, ArenaType
  <2> QED
    BY <2>1, <2>2, <2>3, <2>4 DEF Moves
<1>f. ToSet(full) \subseteq 1 .. made
  <2>1. CASE \A u \in Threads : pc[u] # "putFull"
    BY <2>1 DEF AllInFull
  <2>2. ASSUME NEW u \in Threads, pc[u] = "putFull" PROVE ToSet(full) \subseteq 1 .. made
    BY <2>2 DEF AllInFull
  <2> QED
    BY <2>1, <2>2
<1>1. CASE PagesRemain(t)
  <2>1. UNCHANGED <<used, arenaBit, freed, made, arena>> /\ pc'[t] # "dropArena"
        /\ (pc'[t] \in FindPlace => pc[t] \in FindPlace \/ arena = "open")
    BY <1>1 DEF PagesRemain
  <2>2. \A u \in Threads : pc'[u] = "dropArena" => u # t /\ pc[u] = "dropArena" /\ loc'[u] = loc[u]
    BY <1>0, <2>1
  <2>3. \A u \in Threads : pc'[u] \in FindPlace => arena' = "open"
    <3>1. \A u \in Threads \ {t} : pc'[u] = pc[u]
      BY <1>0
    <3>2. \A u \in Threads : pc[u] \in FindPlace => arena = "open"
      BY DEF PagesLetGo
    <3> QED
      BY <2>1, <3>1, <3>2
  <2> QED
    BY <2>1, <2>2, <2>3 DEF PagesLetGo
<1>2. CASE AcquireFreeBlock(t)
  <2>0. /\ UNCHANGED <<arenaBit, freed, made, arena>> /\ pc[t] = "acquire" /\ pc'[t] \in {"idle", "next"}
        /\ (UNCHANGED used \/ used' = [used EXCEPT ![loc[t].page] = @ + 1])
    BY <1>0, <1>2 DEF AcquireFreeBlock, Return, Goto, arenaVars
  <2>1. arena = "open" /\ arenaBit = 1 .. made /\ freed = {}
    <3>1. arena = "open" /\ arenaBit = 1 .. made
      BY <2>0 DEF PagesLetGo, FindPlace
    <3> QED
      BY <3>1 DEF PagesLetGo
  <2>2. loc[t].page \in ToSet(full)
    BY <2>0 DEF PointersInFull, Found, TypeInv, ThreadType, HasPage
  <2>3. \A p \in Pages : used'[p] > 0 => p \in ToSet(full')
    BY <1>0, <2>0, <2>2 DEF PagesLetGo
  <2>4. freed' = {p \in 1 .. made' : used'[p] = 0 /\ p \notin arenaBit'}
    BY <2>0, <2>1
  <2>5. \A u \in Threads : pc'[u] # "dropArena"
    BY <1>0, <2>0, <2>1 DEF PagesLetGo
  <2> QED
    BY <2>0, <2>1, <2>3, <2>4, <2>5 DEF PagesLetGo
<1>3. CASE AllocNewPages(t)
  <2>1. PICK n \in Nat \ {0} : made' = made + n /\ arenaBit' = arenaBit \cup ToSet(NewList(made, n))
    BY <1>3, PagesMade
  <2>2. /\ pc[t] = "allocate" /\ pc'[t] = "putFull" /\ UNCHANGED <<used, freed, full, arena>>
    BY <1>3, PagesMade
  <2>3. arena = "open" /\ arenaBit = 1 .. made
    BY <2>2 DEF PagesLetGo, FindPlace
  <2>4. arenaBit' = 1 .. made'
    <3>1. ToSet(NewList(made, n)) = made + 1 .. made + n
      BY <1>0, NewListElements
    <3> QED
      BY <1>0, <2>1, <2>3, <3>1
  <2>5. freed = {} /\ freed' = {p \in 1 .. made' : used'[p] = 0 /\ p \notin arenaBit'}
    <3>1. freed = {}
      BY <2>3 DEF PagesLetGo
    <3> QED
      BY <2>2, <2>4, <3>1
  <2>6. \A u \in Threads : pc'[u] # "dropArena"
    BY <1>0, <2>2, <2>3 DEF PagesLetGo
  <2>7. \A p \in Pages : used'[p] > 0 => p \in ToSet(full')
    BY <2>2 DEF PagesLetGo
  <2> QED
    BY <2>2, <2>3, <2>4, <2>5, <2>6, <2>7 DEF PagesLetGo
<1>4. ASSUME NEW p \in Pages, GiveBlock(t, p) PROVE PagesLetGo'
  <2>0. /\ UNCHANGED <<arenaBit, made, arena, full>> /\ pc[t] = "idle" /\ pc'[t] \in {"idle", "marked"}
        /\ used[p] > 0 /\ used' = [used EXCEPT ![p] = @ - 1] /\ p \notin freed
        /\ \/ used[p] = 1 /\ p \notin arenaBit /\ freed' = freed \cup {p}
           \/ (used[p] > 1 \/ p \in arenaBit) /\ freed' = freed
    BY <1>0, <1>4 DEF GiveBlock, Goto, arenaVars, listVars
  <2>1. p \in 1 .. made
    BY <1>f, <2>0 DEF PagesLetGo
  <2>2. freed' = {q \in 1 .. made' : used'[q] = 0 /\ q \notin arenaBit'}
    <3>1. freed = {q \in 1 .. made : used[q] = 0 /\ q \notin arenaBit}
      BY DEF PagesLetGo
    <3>2. used[p] \in Nat /\ used'[p] = used[p] - 1 /\ \A q \in 1 .. made : q # p => used'[q] = used[q]
      BY <1>0, <2>0 DEF Pages
    <3> QED
      BY <2>0, <2>1, <3>1, <3>2
  <2>3. \A q \in Pages : used'[q] > 0 => used[q] > 0
    BY <1>0, <2>0
  <2>4. \A u \in Threads : /\ (pc'[u] = "dropArena" => pc[u] = "dropArena" /\ loc'[u] = loc[u])
                            /\ (pc'[u] \in FindPlace => pc[u] \in FindPlace)
    BY <1>0, <2>0 DEF FindPlace
  <2> QED
    BY <2>0, <2>2, <2>3, <2>4 DEF PagesLetGo
<1>5. CASE StartDropArena(t)
  <2>0. /\ UNCHANGED <<used, arenaBit, freed, made, full>> /\ arena = "open" /\ arena' = "dropping"
        /\ pc[t] = "idle" /\ pc'[t] = "dropArena" /\ loc'[t].batch = toFree \o full
        /\ \A u \in Threads : pc[u] \notin FindPlace
    BY <1>0, <1>5 DEF StartDropArena, Goto, pageVars, listVars, Locals
  <2>1. loc'[t].batch = full
    BY <1>0, <2>0 DEF NothingShrunk
  <2>2. IsInjective(full) /\ ToSet(full) = 1 .. made
    BY <2>0 DEF AllInFull, FindPlace
  <2>3. arenaBit = 1 .. made
    BY <2>0 DEF PagesLetGo
  <2>4. \A u \in Threads : pc[u] # "dropArena"
    BY <2>0 DEF PagesLetGo
  <2>5. \A u \in Threads : (pc'[u] = "dropArena" => u = t) /\ pc'[u] \notin FindPlace
    BY <1>0, <2>0, <2>4 DEF FindPlace
  <2> QED
    BY <2>0, <2>1, <2>2, <2>3, <2>5 DEF PagesLetGo
<1>6. CASE pc[t] = "dropArena" /\ DropPages(t)
  <2>0. /\ UNCHANGED <<used, made, full, arena, pc>> /\ loc[t].batch # <<>> /\ loc'[t].batch = Tail(loc[t].batch)
        /\ DropPage(Head(loc[t].batch))
    BY <1>0, <1>6 DEF DropPages, arenaVars, listVars, Locals
  <2>1. PICK q \in Pages : q = Head(loc[t].batch)
    BY <1>0, <2>0, FirstAndRest
  <2>2. arena = "dropping" /\ IsInjective(loc[t].batch) /\ ToSet(loc[t].batch) = arenaBit
    BY <1>6 DEF PagesLetGo
  <2>3. /\ arenaBit = {q} \cup ToSet(loc'[t].batch) /\ IsInjective(loc'[t].batch)
        /\ q \notin ToSet(loc'[t].batch)
    BY <1>0, <2>0, <2>1, <2>2, FirstAndRest
  <2>4. arenaBit' = arenaBit \ {q} /\ freed' = IF used[q] = 0 THEN freed \cup {q} ELSE freed
    BY <2>0, <2>1, <2>3 DEF DropPage, Untouched
  <2>5. arenaBit' = ToSet(loc'[t].batch)
    BY <2>3, <2>4
  <2>6. freed' = {p \in 1 .. made' : used'[p] = 0 /\ p \notin arenaBit'}
    <3>1. freed = {p \in 1 .. made : used[p] = 0 /\ p \notin arenaBit} /\ q \in 1 .. made
      BY <2>3 DEF PagesLetGo
    <3> QED
      BY <2>0, <2>3, <2>4, <3>1
  <2>7. \A u \in Threads : pc'[u] = "dropArena" => u = t
    BY <1>6, <2>0 DEF PagesLetGo
  <2> QED
    BY <2>0, <2>2, <2>3, <2>4, <2>5, <2>6, <2>7 DEF PagesLetGo
<1>7. CASE EndDropArena(t)
  <2>0. /\ UNCHANGED <<used, arenaBit, freed, made, full>> /\ loc[t].batch = <<>> /\ arena' = "dropped"
        /\ pc[t] = "dropArena" /\ pc'[t] = "idle"
    BY <1>0, <1>7 DEF EndDropArena, Return, Goto, pageVars, listVars
  <2>1. arena = "dropping" /\ arenaBit = {}
    BY <2>0, NoPages DEF PagesLetGo
  <2>2. \A u \in Threads : pc'[u] # "dropArena" /\ pc'[u] \notin FindPlace
    BY <1>0, <2>0, <2>1 DEF PagesLetGo, FindPlace
  <2> QED
    BY <2>0, <2>1, <2>2 DEF PagesLetGo
<1> QED
  BY <1>1, <1>2, <1>3, <1>4, <1>5, <1>6, <1>7 DEF PagesMove

\* The invariant holds as the arena is made.
LEMMA TangleInvInit == Init => TangleInv
<1> SUFFICES ASSUME Init PROVE TangleInv
  OBVIOUS
<1>0. Capacity \in Nat \ {0} /\ MaxPages \in Nat /\ Capacity <= MaxPages
  BY SharedArenaAssumption
<1>1. /\ made = Capacity /\ used = [p \in Pages |-> 0] /\ arenaBit = 1 .. Capacity /\ freed = {}
      /\ free = Capacity /\ pending = Null /\ full = NewList(0, Capacity) /\ toFree = <<>> /\ arena = "open"
      /\ \A t \in Threads : pc[t] = "idle" /\ loc[t] = NoLocals
      /\ nextFree = [p \in Pages |-> IF p \in 2 .. Capacity THEN p - 1 ELSE Null]
  BY DEF Init
<1>2. IsInjective(full) /\ ToSet(full) = 1 .. made
  <2>1. IsInjective(NewList(0, Capacity)) /\ ToSet(NewList(0, Capacity)) = 0 + 1 .. 0 + Capacity
    <3>1. 0 \in Nat
      OBVIOUS
    <3> QED
      BY <1>0, <3>1, NewListElements
  <2> QED
    BY <1>0, <1>1, <2>1
<1>3. NothingShrunk
  BY <1>1 DEF NothingShrunk, Shrink, NoLocals
<1>4. AllInFull
  BY <1>1, <1>2 DEF AllInFull
<1>5. PointersInFull
  <2>1. free \in Found /\ pending \in Found /\ Null \in Found
    BY <1>0, <1>1, <1>2 DEF Found
  <2>2. \A p \in ToSet(full) : nextFree[p] \in Found
    BY <1>0, <1>1, <1>2 DEF Found, Pages
  <2> QED
    BY <1>1, <2>1, <2>2 DEF PointersInFull, NoLocals
<1>6. PagesLetGo
  BY <1>0, <1>1, <1>2 DEF PagesLetGo, FindPlace
<1> QED
  BY <1>3, <1>4, <1>5, <1>6 DEF TangleInv

\* Every step keeps it.
LEMMA TangleInvNext ==
  ASSUME NoShrinker, TypeInv, TypeInv', WriterInv, TangleInv, [Next]_vars
  PROVE  TangleInv'
<1>1. ASSUME NEW t \in Threads, Continue(t) \/ Start(t) PROVE TangleInv'
  <2>1. Moves(t)
    BY <1>1, ThreadMoves
  <2>2. /\ ShrunkNothing(t)
        /\ PointersMove(t) \/ AllocNewPages(t) \/ PutFull(t)
        /\ PagesMove(t)
    BY <1>1, StepsWithoutShrink DEF TangleInv
  <2>3. NothingShrunk'
    BY <2>1, <2>2 DEF TangleInv, NothingShrunk, ShrunkNothing, Moves, TypeInv, ThreadType
  <2>4. pc[t] = "putFull" => Safe(t)
    BY DEF TangleInv, PagesLetGo, FindPlace, Safe
  <2>5. AllInFull'
    BY <2>1, <2>2, <2>4, AllInFullNext DEF TangleInv
  <2>6. PointersInFull'
    BY <2>1, <2>2, PointersNext DEF TangleInv, PagesLetGo
  <2>7. ToSet(full) \subseteq ToSet(full') /\ made' >= made
    <3>0. made \in Nat /\ full \in Seq(Pages)
      BY SharedArenaAssumption DEF TypeInv, ArenaType
    <3>1. CASE PointersMove(t)
      BY <3>0, <3>1 DEF PointersMove
    <3>2. CASE AllocNewPages(t)
      <4>1. full' = full /\ \E n \in Nat \ {0} : made' = made + n
        BY <3>2, PagesMade
      <4> QED
        BY <3>0, <4>1
    <3>3. CASE PutFull(t)
      <4>1. full' = loc[t].batch \o full /\ loc[t].batch \in Seq(Pages) /\ made' = made
        BY <3>3, PagesPut
      <4> QED
        BY <3>0, <4>1, Joined
    <3> QED
      BY <2>2, <3>1, <3>2, <3>3
  <2>8. PagesLetGo'
    BY <2>1, <2>2, <2>7, PagesLetGoNext DEF TangleInv
  <2> QED
    BY <2>3, <2>5, <2>6, <2>8 DEF TangleInv
<1>2. CASE UNCHANGED vars
  BY <1>2 DEF vars, TangleInv, NothingShrunk, AllInFull, PointersInFull, PagesLetGo, Found
<1> QED
  BY <1>1, <1>2 DEF Next

\* So it holds throughout.
LEMMA TangleInvAlways ==
  ASSUME NoShrinker
  PROVE  Spec => [](TypeInv /\ TangleInv)
<1>1. TypeInv /\ WriterInv /\ TangleInv /\ TypeInv' /\ [Next]_vars => TangleInv'
  BY TangleInvNext
<1> QED
  BY <1>1, TangleInvInit, TypeInvAlways, WriterInvAlways, PTL DEF Spec

\* When nobody shrinks, however many threads allocate: whatever page find_place
\* comes to from the head of the free list is in full_list.
THEOREM FreePagesInFull ==
  ASSUME NoShrinker
  PROVE  Spec => []FreePagesAreInFull
<1>1. ASSUME TypeInv, TangleInv PROVE FreePagesAreInFull
  <2>0. nextFree \in [Pages -> Pointer] /\ free \in Pointer /\ MaxPages \in Nat
    BY <1>1, SharedArenaAssumption DEF TypeInv, ArenaType
  <2>1. PICK f : Reached(f, nextFree, free, MaxPages) /\ Chain(free) = f[MaxPages]
    BY <2>0, ListedEquation DEF Chain
  <2> DEFINE inside == {n \in 0 .. MaxPages : f[n] \subseteq ToSet(full)}
  <2>2. 0 \in inside
    BY <1>1, <2>0, <2>1 DEF Reached, TangleInv, PointersInFull, Found
  <2>3. ASSUME NEW n \in 1 .. MaxPages, n - 1 \in inside PROVE n \in inside
    <3>1. f[n] = f[n - 1] \cup ({nextFree[p] : p \in f[n - 1]} \ {Null}) /\ f[n - 1] \subseteq ToSet(full)
      BY <2>1, <2>3 DEF Reached
    <3>2. \A p \in f[n - 1] : nextFree[p] \in ToSet(full) \cup {Null}
      BY <1>1, <3>1 DEF TangleInv, PointersInFull, Found
    <3>3. f[n] \subseteq ToSet(full)
      BY <3>1, <3>2
    <3> QED
      BY <2>0, <3>3
  <2>4. \A n \in 0 .. MaxPages : n \in inside
    <3> HIDE DEF inside
    <3> QED
      BY <2>0, <2>2, <2>3, UpTo
  <2>5. MaxPages \in inside
    BY <2>0, <2>4
  <2> QED
    BY <2>1, <2>5 DEF FreePagesAreInFull
<1> QED
  BY <1>1, TangleInvAlways, PTL

\* When nobody shrinks, however many threads allocate and drop handles: find_place
\* and the drop of the arena access no page that was freed, however stale the
\* pointer that led to it.
THEOREM PagesFoundExist ==
  ASSUME NoShrinker
  PROVE  Spec => []MovedPagesExist
<1>1. ASSUME TypeInv, TangleInv, NEW t \in Threads, pc[t] \in FindPlace PROVE Safe(t)
  BY <1>1 DEF TangleInv, PagesLetGo, Safe
<1>2. ASSUME TypeInv, TangleInv, NEW t \in Threads, pc[t] = "dropArena" PROVE Safe(t)
  <2>1. loc[t].batch \in Seq(Pages)
    <3>1. loc \in [Threads -> Locals]
      BY <1>2 DEF TypeInv, ThreadType
    <3> QED
      BY <3>1 DEF Locals
  <2>2. ASSUME loc[t].batch # <<>> PROVE Head(loc[t].batch) \notin freed
    <3>1. Head(loc[t].batch) \in ToSet(loc[t].batch)
      BY <2>1, <2>2, FirstAndRest
    <3> QED
      BY <1>2, <3>1 DEF TangleInv, PagesLetGo
  <2>3. Touched(t) = IF loc[t].batch # <<>> THEN {Head(loc[t].batch)} ELSE {}
    BY <1>2 DEF Touched
  <2> QED
    BY <2>2, <2>3 DEF Safe
<1>3. ASSUME TangleInv, NEW t \in Threads PROVE pc[t] \notin Shrink
  BY <1>3 DEF TangleInv, NothingShrunk
<1>4. ASSUME TypeInv, TangleInv PROVE MovedPagesExist
  BY <1>1, <1>2, <1>3, <1>4 DEF MovedPagesExist
<1> QED
  BY <1>4, TangleInvAlways, PTL

\* When nobody shrinks, however many threads allocate: the drop of the arena frees
\* every page without a block in use, and the others are freed with their last block.
THEOREM ArenaDropFreesAllPages ==
  ASSUME NoShrinker
  PROVE  Spec => []DroppedArenaFreesPages
<1>1. TangleInv => DroppedArenaFreesPages
  BY DEF TangleInv, PagesLetGo, DroppedArenaFreesPages
<1> QED
  BY <1>1, TangleInvAlways, PTL

\* A step, as PageLife has it.
LEMMA PageLifeWithoutShrink ==
  ASSUME NoShrinker, TypeInv, TangleInv, TangleInv', NEW t \in Threads, Continue(t) \/ Start(t), NEW p \in Pages
  PROVE  [Life(p)!Next]_(Life(p)!vars)
<1>0. /\ pc \in [Threads -> Labels] /\ loc \in [Threads -> Locals] /\ loc[t].batch \in Seq(Pages)
      /\ used \in [Pages -> 0 .. BLOCK_PER_PAGE] /\ BLOCK_PER_PAGE \in Nat
      /\ made \in Nat /\ Null = 0 /\ PagesLetGo
  <2>1. made \in Nat /\ BLOCK_PER_PAGE \in Nat
    BY SharedArenaAssumption DEF TypeInv, ArenaType
  <2>2. pc \in [Threads -> Labels] /\ loc \in [Threads -> Locals]
    BY DEF TypeInv, ThreadType
  <2>3. loc[t].batch \in Seq(Pages)
    BY <2>2 DEF Locals
  <2> QED
    BY <2>1, <2>2, <2>3 DEF TypeInv, ArenaType, TangleInv, Null
<1>1. CASE UNCHANGED <<used, arenaBit, freed, made>>
  <2>1. Sharers(p)' = Sharers(p)
    BY <1>1 DEF Sharers
  <2> QED
    BY <1>1, <2>1, PageLifeSteps
<1>2. CASE AcquireFreeBlock(t)
  <2>0. /\ UNCHANGED <<arenaBit, freed, made>> /\ pc[t] = "acquire"
        /\ \/ UNCHANGED used
           \/ used[loc[t].page] < BLOCK_PER_PAGE /\ used' = [used EXCEPT ![loc[t].page] = @ + 1]
    BY <1>2 DEF AcquireFreeBlock, arenaVars
  <2>1. CASE p = loc[t].page /\ ~UNCHANGED used
    <3>1. used'[p] = used[p] + 1 /\ used[p] \in Nat /\ used[p] + 1 \in 1 .. BLOCK_PER_PAGE
      BY <1>0, <2>0, <2>1
    <3>2. p \in arenaBit \/ p > made
      BY <1>0, <2>0 DEF PagesLetGo, FindPlace, Pages
    <3>3. Sharers(p) = (1 .. used[p]) \cup {0} /\ Sharers(p)' = (1 .. used[p] + 1) \cup {0}
      BY <1>0, <2>0, <3>1, <3>2 DEF Sharers
    <3>4. Sharers(p)' = Sharers(p) \cup {used[p] + 1} /\ used[p] + 1 \notin Sharers(p) /\ Sharers(p) # {}
      BY <3>1, <3>3
    <3> QED
      BY <2>0, <3>1, <3>4, PageLifeTakes
  <2>2. CASE p # loc[t].page \/ UNCHANGED used
    <3>1. Sharers(p)' = Sharers(p)
      BY <1>0, <2>0, <2>2 DEF Sharers
    <3> QED
      BY <2>0, <3>1, PageLifeSteps
  <2> QED
    BY <2>1, <2>2
<1>3. CASE AllocNewPages(t)
  <2>1. /\ UNCHANGED <<used, freed>>
        /\ \E n \in Nat \ {0} : made' = made + n /\ arenaBit' = arenaBit \cup ToSet(NewList(made, n))
    BY <1>3, PagesMade
  <2>2. PICK n \in Nat \ {0} : made' = made + n /\ arenaBit' = arenaBit \cup (made + 1 .. made + n)
    <3>1. \A n \in Nat \ {0} : ToSet(NewList(made, n)) = made + 1 .. made + n
      BY <1>0, NewListElements
    <3> QED
      BY <2>1, <3>1
  <2>3. p \in arenaBit' \/ p > made' <=> p \in arenaBit \/ p > made
    BY <1>0, <2>2 DEF Pages
  <2>4. Sharers(p)' = Sharers(p)
    BY <2>1, <2>3 DEF Sharers
  <2> QED
    BY <2>1, <2>4, PageLifeSteps
<1>4. ASSUME NEW q \in Pages, GiveBlock(t, q) PROVE [Life(p)!Next]_(Life(p)!vars)
  <2>1. /\ q \notin freed /\ used[q] > 0 /\ used' = [used EXCEPT ![q] = @ - 1]
        /\ UNCHANGED <<arenaBit, made>>
        /\ \/ used[q] = 1 /\ q \notin arenaBit /\ freed' = freed \cup {q}
           \/ freed' = freed
    BY <1>4 DEF GiveBlock, arenaVars
  <2>2. q <= made
    <3>1. q \in ToSet(full)
      BY <1>0, <2>1 DEF PagesLetGo
    <3> QED
      BY <1>0, <3>1 DEF TangleInv, AllInFull
  <2>3. CASE q = p
    <3>1. used[p] \in 1 .. BLOCK_PER_PAGE /\ used'[p] = used[p] - 1
      BY <1>0, <2>1, <2>3
    <3>2. used[p] \in Sharers(p) /\ Sharers(p)' = Sharers(p) \ {used[p]}
      BY <1>0, <2>1, <3>1 DEF Sharers
    <3>3. ASSUME used[p] = 1, p \notin arenaBit PROVE Sharers(p)' = {}
      <4>1. used'[p] = 0 /\ ~(p \in arenaBit' \/ p > made')
        BY <1>0, <2>1, <2>2, <2>3, <3>1, <3>3 DEF Pages
      <4> QED
        BY <4>1 DEF Sharers
    <3> QED
      BY <2>1, <2>3, <3>1, <3>2, <3>3, PageLifeLeaves
  <2>4. CASE q # p
    <3>1. Sharers(p)' = Sharers(p) /\ (p \in freed' <=> p \in freed)
      BY <1>0, <2>1, <2>4 DEF Sharers
    <3> QED
      BY <3>1, PageLifeSteps
  <2> QED
    BY <2>3, <2>4
<1>5. CASE pc[t] = "dropArena" /\ DropPages(t)
  <2>0. UNCHANGED <<used, made>> /\ loc[t].batch # <<>> /\ DropPage(Head(loc[t].batch))
    BY <1>5 DEF DropPages, arenaVars
  <2>1. PICK q \in Pages : q = Head(loc[t].batch)
    BY <1>0, <2>0, FirstAndRest
  <2>2. q \in arenaBit
    <3>1. q \in ToSet(loc[t].batch)
      BY <1>0, <2>0, <2>1, FirstAndRest
    <3> QED
      BY <1>0, <1>5, <3>1 DEF PagesLetGo
  <2>3. arenaBit' = arenaBit \ {q} /\ freed' = IF used[q] = 0 THEN freed \cup {q} ELSE freed
    BY <2>0, <2>1, <2>2 DEF DropPage, Untouched
  <2>4. CASE q = p
    <3>1. p \notin freed /\ p <= made
      BY <1>0, <2>2, <2>4 DEF PagesLetGo
    <3>2. Sharers(p) = (1 .. used[p]) \cup {0} /\ Sharers(p)' = 1 .. used[p]
      BY <1>0, <2>0, <2>2, <2>3, <2>4, <3>1 DEF Sharers, Pages
    <3>3. 0 \in Sharers(p) /\ Sharers(p)' = Sharers(p) \ {0} /\ (used[p] = 0 => Sharers(p)' = {})
      BY <1>0, <3>2
    <3> QED
      BY <1>0, <2>3, <2>4, <3>1, <3>3, PageLifeLeaves
  <2>5. CASE q # p
    <3>1. Sharers(p)' = Sharers(p) /\ (p \in freed' <=> p \in freed)
      BY <2>0, <2>3, <2>5 DEF Sharers
    <3> QED
      BY <3>1, PageLifeSteps
  <2> QED
    BY <2>4, <2>5
<1>6. PagesRemain(t) \/ StartDropArena(t) \/ EndDropArena(t) => UNCHANGED <<used, arenaBit, freed, made>>
  BY DEF PagesRemain, StartDropArena, EndDropArena, pageVars
<1> QED
  BY <1>1, <1>2, <1>3, <1>4, <1>5, <1>6, StepsWithoutShrink DEF TangleInv, PagesMove

\* When nobody shrinks, however many threads allocate and drop handles: no block is
\* taken of a page that the arena has let go, and the last of the arena and the
\* blocks to leave a page frees it, once.
THEOREM ArenaWithoutShrinkImplementsPageLife ==
  ASSUME NoShrinker
  PROVE  Spec => ImplementsPageLife
<1>1. TypeInv /\ TangleInv /\ TangleInv' /\ [Next]_vars => [\A p \in Pages : [Life(p)!Next]_(Life(p)!vars)]_vars
  <2> SUFFICES ASSUME TypeInv, TangleInv, TangleInv', [Next]_vars, NEW p \in Pages
               PROVE  [Life(p)!Next]_(Life(p)!vars)
    OBVIOUS
  <2>1. CASE UNCHANGED vars
    BY <2>1 DEF vars, Life!vars
  <2>2. CASE Next
    BY <2>2, PageLifeWithoutShrink DEF Next
  <2> QED
    BY <2>1, <2>2
<1>2. Init => \A p \in Pages : Life(p)!Init
  BY PagesBegin
<1> QED
  BY <1>1, <1>2, TangleInvAlways, PTL DEF Spec, ImplementsPageLife
=============================================================================
