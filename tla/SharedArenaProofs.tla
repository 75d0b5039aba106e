-------------------------- MODULE SharedArenaProofs --------------------------
(***************************************************************************)
(* Proofs about SharedArena, for any set of threads, whoever of them       *)
(* allocates, shrinks and drops, any number of pages and any delay: there  *)
(* is one writer, the asserts on the lists hold, and so do the types.      *)
(***************************************************************************)
EXTENDS SharedArena, PageListProofs

-----------------------------------------------------------------------------
(* The invariant.                                                          *)

\* Where a thread holds the WriterGuard, and where it does not. In
\* maybe_free_pages and after a panic either may be the case.
Guarded ==
  {"recheck", "pending", "take", "install", "toFree", "reuse", "allocate",
   "putFull", "putFree", "count", "rest", "zeroDelay", "release",
   "detach", "walk", "unlink", "retain", "unfull", "resetDelay",
   "grab", "give", "restore", "uncount", "unshrink", "unlock"}
Unguarded ==
  {"idle", "head", "acquire", "next", "cas", "unmark", "guard", "locked", "lock",
   "dropArena"} \cup DropBlock

\* From the moment the writer finds the free list empty, or empties it, until
\* it puts a list there, the free list stays empty; in the same way to_free.
FreeIsEmpty ==
  {"pending", "take", "install", "toFree", "reuse", "allocate", "putFull", "putFree",
   "walk", "unlink", "retain", "unfull", "resetDelay", "grab", "give", "restore"}
ToFreeIsEmpty == {"allocate", "putFull", "putFree", "count", "rest", "give"}

\* What the proof needs of the types.
Shape ==
  /\ DOMAIN pc = Threads /\ DOMAIN loc = Threads
  /\ \A t \in Threads :
       /\ {"page", "guarded"} \subseteq DOMAIN loc[t]
       /\ loc[t].guarded \in BOOLEAN
  /\ writer \in BOOLEAN

ThreadInv(t) ==
  /\ pc[t] \in Guarded => loc[t].guarded
  /\ pc[t] \in Unguarded => ~loc[t].guarded
  /\ pc[t] \in {"acquire", "next", "cas"} => loc[t].page # Null
  /\ pc[t] \in FreeIsEmpty => free = Null
  /\ pc[t] \in ToFreeIsEmpty => toFree = <<>>
  /\ pc[t] # "panic"

WriterInv ==
  /\ Shape
  /\ WriterIsExclusive
  /\ \A t \in Threads : ThreadInv(t)

-----------------------------------------------------------------------------

\* with_capacity: nobody is inside an operation.
LEMMA WriterInvInit == Init => WriterInv
<1> SUFFICES ASSUME Init PROVE WriterInv
  OBVIOUS
<1>1. Shape
  BY DEF Init, Shape, NoLocals
<1>2. \A t \in Threads : ~loc[t].guarded
  BY DEF Init, NoLocals
<1>3. WriterIsExclusive
  BY <1>2 DEF Init, WriterIsExclusive
<1>4. \A t \in Threads : ThreadInv(t)
  BY <1>2 DEF Init, ThreadInv, Guarded, Unguarded, FreeIsEmpty, ToFreeIsEmpty, DropBlock
<1> QED
  BY <1>1, <1>3, <1>4 DEF WriterInv

\* A thread that does not hold the guard returns.
LEMMA ReturnUnguarded ==
  ASSUME WriterInv, NEW t \in Threads, pc[t] \in Unguarded, Return(t),
         UNCHANGED <<writer, free, toFree>>
  PROVE  WriterInv'
BY DEF WriterInv, Shape, WriterIsExclusive, ThreadInv, Guarded, Unguarded, FreeIsEmpty, ToFreeIsEmpty,
     DropBlock, NoLocals, Goto, Return, AfterMaybeFree, pageVars, listVars, arenaVars

\* One step for each action.
LEMMA WriterInvNext == WriterInv /\ [Next]_vars => WriterInv'
<1> SUFFICES ASSUME WriterInv, [Next]_vars
             PROVE  WriterInv'
  OBVIOUS
<1> USE DEF WriterInv, Shape, WriterIsExclusive, ThreadInv, Guarded, Unguarded, FreeIsEmpty, ToFreeIsEmpty,
     DropBlock, NoLocals, Goto, Return, AfterMaybeFree, pageVars, listVars, arenaVars
<1>1. ASSUME NEW t \in Threads, LoadHead(t) PROVE WriterInv'
  BY <1>1 DEF LoadHead
<1>2. ASSUME NEW t \in Threads, AcquireFreeBlock(t) PROVE WriterInv'
  <2>1. CASE used[loc[t].page] < BLOCK_PER_PAGE /\ Return(t)
    <3>1. pc[t] \in Unguarded /\ Return(t) /\ UNCHANGED <<writer, free, toFree>>
      BY <1>2, <2>1 DEF AcquireFreeBlock
    <3> QED
      BY <3>1, ReturnUnguarded
  <2>2. CASE Goto(t, "next") /\ UNCHANGED <<used, loc>>
    BY <1>2, <2>2 DEF AcquireFreeBlock
  <2> QED BY <1>2, <2>1, <2>2 DEF AcquireFreeBlock
<1>3. ASSUME NEW t \in Threads, LoadNextFree(t) PROVE WriterInv'
  BY <1>3 DEF LoadNextFree
<1>4. ASSUME NEW t \in Threads, PopFree(t) PROVE WriterInv'
  BY <1>4 DEF PopFree
<1>5. ASSUME NEW t \in Threads, UnmarkPage(t) PROVE WriterInv'
  BY <1>5 DEF UnmarkPage
<1>6. ASSUME NEW t \in Threads, TryGuard(t) PROVE WriterInv'
  <2>1. CASE ~writer
    <3>1. /\ pc' = [pc EXCEPT ![t] = "recheck"] /\ loc' = [loc EXCEPT ![t].guarded = TRUE]
          /\ writer' = TRUE /\ UNCHANGED <<free, toFree>>
      BY <1>6, <2>1 DEF TryGuard
    <3>2. \A u \in Threads : loc'[u].guarded <=> u = t
      BY <2>1, <3>1
    <3> QED
      BY <3>1, <3>2
  <2>2. CASE writer
    BY <1>6, <2>2 DEF TryGuard
  <2> QED BY <1>6, <2>1, <2>2 DEF TryGuard
<1>7. ASSUME NEW t \in Threads, SeeLocked(t) PROVE WriterInv'
  BY <1>7 DEF SeeLocked
<1>8. ASSUME NEW t \in Threads, RecheckFree(t) PROVE WriterInv'
  BY <1>8 DEF RecheckFree
<1>9. ASSUME NEW t \in Threads, LoadPending(t) PROVE WriterInv'
  BY <1>9 DEF LoadPending
<1>10. ASSUME NEW t \in Threads, TakePending(t) PROVE WriterInv'
  BY <1>10 DEF TakePending
<1>11. ASSUME NEW t \in Threads, InstallPending(t) PROVE WriterInv'
  BY <1>11 DEF InstallPending
<1>12. ASSUME NEW t \in Threads, LoadToFree(t) PROVE WriterInv'
  BY <1>12 DEF LoadToFree
<1>13. ASSUME NEW t \in Threads, TakeToFree(t) PROVE WriterInv'
  BY <1>13 DEF TakeToFree
<1>14. ASSUME NEW t \in Threads, AllocNewPages(t) PROVE WriterInv'
  BY <1>14 DEF AllocNewPages
<1>15. ASSUME NEW t \in Threads, PutFull(t) PROVE WriterInv'
  BY <1>15 DEF PutFull
<1>16. ASSUME NEW t \in Threads, PutFree(t) PROVE WriterInv'
  BY <1>16 DEF PutFree
<1>17. ASSUME NEW t \in Threads, CountPages(t) PROVE WriterInv'
  BY <1>17 DEF CountPages
<1>18. ASSUME NEW t \in Threads, PutBackRest(t) PROVE WriterInv'
  BY <1>18 DEF PutBackRest
<1>19. ASSUME NEW t \in Threads, ZeroDelay(t) PROVE WriterInv'
  BY <1>19 DEF ZeroDelay
<1>20. ASSUME NEW t \in Threads, Release(t) PROVE WriterInv'
  BY <1>20 DEF Release
<1>21. ASSUME NEW t \in Threads, LoadDelay(t) PROVE WriterInv'
  BY <1>21 DEF LoadDelay
<1>22. ASSUME NEW t \in Threads, BumpDelay(t) PROVE WriterInv'
  BY <1>22 DEF BumpDelay
<1>23. ASSUME NEW t \in Threads, SweepToFree(t) PROVE WriterInv'
  BY <1>23 DEF SweepToFree
<1>24. ASSUME NEW t \in Threads, DropPages(t) PROVE WriterInv'
  BY <1>24 DEF DropPages
<1>25. ASSUME NEW t \in Threads, EndOfSweep(t) PROVE WriterInv'
  BY <1>25 DEF EndOfSweep
<1>26. ASSUME NEW t \in Threads, Lock(t) PROVE WriterInv'
  BY <1>26 DEF Lock
<1>27. ASSUME NEW t \in Threads, DetachFree(t) PROVE WriterInv'
  BY <1>27 DEF DetachFree
<1>28. ASSUME NEW t \in Threads, WalkFree(t) PROVE WriterInv'
  BY <1>28 DEF WalkFree
<1>29. ASSUME NEW t \in Threads, Unlink(t) PROVE WriterInv'
  BY <1>29 DEF Unlink
<1>30. ASSUME NEW t \in Threads, RetainUntouched(t) PROVE WriterInv'
  BY <1>30 DEF RetainUntouched
<1>31. ASSUME NEW t \in Threads, RemoveFromFull(t) PROVE WriterInv'
  BY <1>31 DEF RemoveFromFull
<1>32. ASSUME NEW t \in Threads, ResetDelay(t) PROVE WriterInv'
  BY <1>32 DEF ResetDelay
<1>33. ASSUME NEW t \in Threads, GrabToFree(t) PROVE WriterInv'
  BY <1>33 DEF GrabToFree
<1>34. ASSUME NEW t \in Threads, GiveToFree(t) PROVE WriterInv'
  BY <1>34 DEF GiveToFree
<1>35. ASSUME NEW t \in Threads, RestoreFree(t) PROVE WriterInv'
  BY <1>35 DEF RestoreFree
<1>36. ASSUME NEW t \in Threads, UncountPages(t) PROVE WriterInv'
  BY <1>36 DEF UncountPages
<1>37. ASSUME NEW t \in Threads, EndShrinking(t) PROVE WriterInv'
  BY <1>37 DEF EndShrinking
<1>38. ASSUME NEW t \in Threads, Unlock(t) PROVE WriterInv'
  BY <1>38 DEF Unlock
<1>39. ASSUME NEW t \in Threads, LoadMark(t) PROVE WriterInv'
  <2>1. CASE loc[t].page \in marked
    <3>1. pc[t] \in Unguarded /\ Return(t) /\ UNCHANGED <<writer, free, toFree>>
      BY <1>39, <2>1 DEF LoadMark
    <3> QED
      BY <3>1, ReturnUnguarded
  <2>2. CASE loc[t].page \notin marked
    BY <1>39, <2>2 DEF LoadMark
  <2> QED BY <1>39, <2>1, <2>2 DEF LoadMark
<1>40. ASSUME NEW t \in Threads, SwapMark(t) PROVE WriterInv'
  <2>1. CASE loc[t].page \in marked
    <3>1. pc[t] \in Unguarded /\ Return(t) /\ UNCHANGED <<writer, free, toFree>>
      BY <1>40, <2>1 DEF SwapMark
    <3> QED
      BY <3>1, ReturnUnguarded
  <2>2. CASE loc[t].page \notin marked
    BY <1>40, <2>2 DEF SwapMark
  <2> QED BY <1>40, <2>1, <2>2 DEF SwapMark
<1>41. ASSUME NEW t \in Threads, UpgradePending(t) PROVE WriterInv'
  <2>1. CASE arena # "dropped"
    BY <1>41, <2>1 DEF UpgradePending
  <2>2. CASE arena = "dropped"
    <3>1. pc[t] \in Unguarded /\ Return(t) /\ UNCHANGED <<writer, free, toFree>>
      BY <1>41, <2>2 DEF UpgradePending
    <3> QED
      BY <3>1, ReturnUnguarded
  <2> QED BY <1>41, <2>1, <2>2 DEF UpgradePending
<1>42. ASSUME NEW t \in Threads, LinkPending(t) PROVE WriterInv'
  BY <1>42 DEF LinkPending
<1>43. ASSUME NEW t \in Threads, PushPending(t) PROVE WriterInv'
  <2>1. CASE pending = loc[t].nxt
    <3>1. pc[t] \in Unguarded /\ Return(t) /\ UNCHANGED <<writer, free, toFree>>
      BY <1>43, <2>1 DEF PushPending
    <3> QED
      BY <3>1, ReturnUnguarded
  <2>2. CASE pending # loc[t].nxt
    BY <1>43, <2>2 DEF PushPending
  <2> QED BY <1>43, <2>1, <2>2 DEF PushPending
<1>44. ASSUME NEW t \in Threads, EndDropArena(t) PROVE WriterInv'
  BY <1>44 DEF EndDropArena
<1>45. ASSUME NEW t \in Threads, TouchFreed(t) PROVE WriterInv'
  BY <1>45 DEF TouchFreed
<1>46. ASSUME NEW t \in Threads, StartAlloc(t) PROVE WriterInv'
  BY <1>46 DEF StartAlloc
<1>47. ASSUME NEW t \in Threads, StartShrink(t) PROVE WriterInv'
  BY <1>47 DEF StartShrink
<1>48. ASSUME NEW t \in Threads, StartDropArena(t) PROVE WriterInv'
  BY <1>48 DEF StartDropArena
<1>49. ASSUME NEW t \in Threads, NEW p \in Pages, GiveBlock(t, p) PROVE WriterInv'
  <2>1. CASE used[p] = 1 /\ p \notin arenaBit /\ UNCHANGED <<pc, loc>>
    BY <1>49, <2>1 DEF GiveBlock
  <2>2. CASE Goto(t, "marked") /\ loc' = [loc EXCEPT ![t].page = p]
    BY <1>49, <2>2 DEF GiveBlock
  <2> QED BY <1>49, <2>1, <2>2 DEF GiveBlock
<1>50. CASE UNCHANGED vars
  BY <1>50 DEF vars
<1>51. ASSUME NEW t \in Threads, FindPlaceStep(t) PROVE WriterInv'
  BY <1>51, <1>1, <1>2, <1>3, <1>4, <1>5, <1>6, <1>7, <1>8, <1>9, <1>10, <1>11, <1>12, <1>13, <1>14,
     <1>15, <1>16, <1>17, <1>18, <1>19, <1>20, <1>21, <1>22, <1>23, <1>24, <1>25
  DEF FindPlaceStep
<1>52. ASSUME NEW t \in Threads, ShrinkStep(t) PROVE WriterInv'
  BY <1>52, <1>26, <1>27, <1>28, <1>29, <1>30, <1>31, <1>32, <1>33, <1>34, <1>35, <1>36, <1>37, <1>38
  DEF ShrinkStep
<1>53. ASSUME NEW t \in Threads, DropBlockStep(t) PROVE WriterInv'
  BY <1>53, <1>39, <1>40, <1>41, <1>42, <1>43
  DEF DropBlockStep
<1>54. ASSUME NEW t \in Threads, Continue(t) PROVE WriterInv'
  BY <1>54, <1>51, <1>52, <1>53, <1>44, <1>45 DEF Continue
<1>55. ASSUME NEW t \in Threads, Start(t) PROVE WriterInv'
  BY <1>55, <1>46, <1>47, <1>48, <1>49 DEF Start
<1> QED
  BY <1>50, <1>54, <1>55 DEF Next

\* The invariant of every behaviour.
LEMMA WriterInvAlways == Spec => []WriterInv
<1> QED
  BY WriterInvInit, WriterInvNext, PTL DEF Spec

-----------------------------------------------------------------------------

\* For every number of threads that allocate and shrink at the same time:
\* "A single and only thread run this block at a time".
THEOREM OneWriter == Spec => []WriterIsExclusive
<1>1. WriterInv => WriterIsExclusive
  BY DEF WriterInv
<1> QED
  BY <1>1, WriterInvAlways, PTL

\* For every number of threads, and also while droppers push pages: the writer
\* finds the list empty in which it puts another one, in find_place, in
\* put_pages_in_lists, in take_pages_to_be_freed and in shrink_to_fit.
THEOREM ListAssertsHold == Spec => []AssertsHold
<1>1. WriterInv => AssertsHold
  BY DEF WriterInv, ThreadInv, AssertsHold
<1> QED
  BY <1>1, WriterInvAlways, PTL

-----------------------------------------------------------------------------
(* The types.                                                              *)

Labels == FindPlace \cup Shrink \cup DropBlock \cup {"idle", "dropArena", "panic", "wild"}

\* A thread that works on a page has one, and a list that is put in the lists is
\* not empty.
HasPage(t) ==
  /\ pc[t] \in {"acquire", "next", "cas", "unmark", "unlink"} \cup DropBlock => loc[t].page # Null
  /\ pc[t] \in {"putFull", "putFree"} => loc[t].batch # <<>>

ArenaType ==
  /\ nextFree \in [Pages -> Pointer]
  /\ marked \subseteq Pages /\ arenaBit \subseteq Pages /\ freed \subseteq Pages
  /\ used \in [Pages -> 0 .. BLOCK_PER_PAGE]
  /\ free \in Pointer /\ pending \in Pointer
  /\ full \in Seq(Pages) /\ toFree \in Seq(Pages)
  /\ npages \in 0 .. USIZE - 1
  /\ writer \in BOOLEAN /\ shrinking \in BOOLEAN
  /\ delay \in Nat
  /\ arena \in {"open", "dropping", "dropped"}
  /\ made \in 0 .. MaxPages

ThreadType ==
  /\ pc \in [Threads -> Labels]
  /\ loc \in [Threads -> Locals]
  /\ \A t \in Threads : HasPage(t)

TypeInv == ArenaType /\ ThreadType

\* What a step does to the locals.
LEMMA LocalsUpdated ==
  ASSUME NEW r \in Locals
  PROVE  /\ \A x \in Pointer : /\ [r EXCEPT !.page = x] \in Locals /\ [r EXCEPT !.nxt = x] \in Locals
                               /\ [r EXCEPT !.start = x] \in Locals /\ [r EXCEPT !.cur = x] \in Locals
         /\ \A x \in Seq(Pages) : [r EXCEPT !.batch = x] \in Locals /\ [r EXCEPT !.rest = x] \in Locals
         /\ \A x \in BOOLEAN : [r EXCEPT !.reusing = x] \in Locals /\ [r EXCEPT !.guarded = x] \in Locals
         /\ \A x : /\ [r EXCEPT !.page = x].page = x /\ [r EXCEPT !.nxt = x].page = r.page
                   /\ [r EXCEPT !.batch = x].batch = x /\ [r EXCEPT !.rest = x].batch = r.batch
                   /\ [r EXCEPT !.reusing = x].batch = r.batch
         /\ r.page \in Pointer /\ r.nxt \in Pointer /\ r.start \in Pointer /\ r.cur \in Pointer
         /\ r.batch \in Seq(Pages) /\ r.rest \in Seq(Pages)
BY DEF Locals

\* Each operation begins with these.
LEMMA NoLocalsType == NoLocals \in Locals
BY DEF NoLocals, Locals, Pointer

\* The thread of a step is the only one that moves.
Moves(t) ==
  /\ pc' = [pc EXCEPT ![t] = pc'[t]] /\ loc' = [loc EXCEPT ![t] = loc'[t]]
  /\ pc'[t] \in Labels /\ loc'[t] \in Locals /\ HasPage(t)'

\* The pages that take_pages_to_be_freed puts back in the lists, at least one,
\* and those that it leaves.
LEMMA Reinserted ==
  ASSUME NEW s \in Seq(Pages), s # <<>>, NEW k \in Int,
         NEW n, n = Max({k, 1}), NEW cut, cut = Max({Len(s) - n, 0}),
         NEW a, NEW b, Halves(s, cut, a, b)
  PROVE  /\ a \in Seq(Pages) /\ b \in Seq(Pages) /\ b # <<>>
         /\ ToSet(s) = ToSet(a) \cup ToSet(b)
         /\ IsInjective(s) => IsInjective(a) /\ IsInjective(b) /\ ToSet(a) \cap ToSet(b) = {}
<1>1. n \in Nat \ {0}
  BY LargerOfTwo
<1>2. Len(s) \in Nat \ {0}
  OBVIOUS
<1>3. cut \in 0 .. Len(s) /\ cut # Len(s)
  <2>1. Len(s) - n \in Int /\ Len(s) - n < Len(s)
    BY <1>1, <1>2
  <2>2. cut = IF Len(s) - n >= 0 THEN Len(s) - n ELSE 0
    BY <2>1, LargerOfTwo
  <2> QED
    BY <1>2, <2>1, <2>2
<1>4. /\ a \in Seq(Pages) /\ b \in Seq(Pages) /\ Len(b) = Len(s) - cut
      /\ ToSet(s) = ToSet(a) \cup ToSet(b)
      /\ IsInjective(s) => IsInjective(a) /\ IsInjective(b) /\ ToSet(a) \cap ToSet(b) = {}
  <2>1. cut \in 0 .. Len(s)
    BY <1>3
  <2>2. a \in Seq(Pages) /\ b \in Seq(Pages) /\ Len(b) = Len(s) - cut
    BY <2>1, CutInTwo
  <2>3. ToSet(s) = ToSet(a) \cup ToSet(b)
    BY <2>1, CutInTwo
  <2>4. IsInjective(s) => IsInjective(a) /\ IsInjective(b) /\ ToSet(a) \cap ToSet(b) = {}
    BY <2>1, CutInTwo
  <2> QED
    BY <2>2, <2>3, <2>4
<1>5. b # <<>>
  <2>1. Len(b) = Len(s) - cut
    BY <1>4
  <2>2. Len(b) # 0
    BY <1>2, <1>3, <2>1
  <2> QED
    BY <2>2
<1> QED
  BY <1>4, <1>5

\* A sequence of members of a smaller set.
LEMMA SeqOfSubset ==
  ASSUME NEW S, NEW T, S \subseteq T, NEW s \in Seq(S)
  PROVE  s \in Seq(T)
<1>1. Len(s) \in Nat /\ \A i \in 1 .. Len(s) : s[i] \in T
  OBVIOUS
<1>2. s = [i \in 1 .. Len(s) |-> s[i]]
  OBVIOUS
<1> QED
  BY <1>1, <1>2

\* alloc_new_page makes a page at least.
LEMMA NewPages ==
  ASSUME NEW k \in Int, NEW n, n = Min({Max({k, 1}), MaxAllocate})
  PROVE  n \in Nat \ {0}
<1> DEFINE m == Max({k, 1})
<1>1. m \in Nat \ {0} /\ MaxAllocate \in Nat \ {0}
  BY LargerOfTwo, SharedArenaAssumption
<1> HIDE DEF m
<1>2. n = IF m <= MaxAllocate THEN m ELSE MaxAllocate
  BY <1>1, SmallerOfTwo DEF m
<1> QED
  BY <1>1, <1>2

\* It goes somewhere, with some locals.
LEMMA Arrives ==
  ASSUME ThreadType, NEW t \in Threads, NEW l \in Labels, NEW r \in Locals,
         pc' = [pc EXCEPT ![t] = l], loc' = [loc EXCEPT ![t] = r],
         l \in {"acquire", "next", "cas", "unmark", "unlink"} \cup DropBlock => r.page # Null,
         l \in {"putFull", "putFree"} => r.batch # <<>>
  PROVE  Moves(t)
<1>1. pc'[t] = l /\ loc'[t] = r
  BY DEF ThreadType
<1> QED
  BY <1>1 DEF Moves, HasPage

\* Or its operation is over.
LEMMA Returns ==
  ASSUME ThreadType, NEW t \in Threads, Return(t)
  PROVE  Moves(t)
<1>1. pc'[t] = "idle" /\ loc'[t] = NoLocals
  BY DEF ThreadType, Return, Goto
<1> QED
  BY <1>1, NoLocalsType DEF Moves, HasPage, Return, Goto, Labels, DropBlock

\* Where the thread of a step goes, and with what.
LEMMA ThreadMoves ==
  ASSUME TypeInv, NEW t \in Threads, Continue(t) \/ Start(t)
  PROVE  Moves(t)
<1>t. ThreadType
  BY DEF TypeInv
<1> USE NoLocalsType DEF Goto, Labels, FindPlace, Shrink, DropBlock, HasPage, Moves
<1>0. /\ pc \in [Threads -> Labels] /\ loc \in [Threads -> Locals] /\ loc[t] \in Locals /\ HasPage(t)
      /\ free \in Pointer /\ pending \in Pointer /\ nextFree \in [Pages -> Pointer]
  BY DEF TypeInv, ThreadType, ArenaType
<1>1. CASE LoadHead(t)
  BY <1>0, <1>1, LocalsUpdated DEF LoadHead
<1>2. CASE AcquireFreeBlock(t)
  <2>1. CASE Return(t)
    BY <1>t, <2>1, Returns
  <2>2. CASE Goto(t, "next") /\ UNCHANGED loc
    BY <1>0, <1>2, <2>2 DEF AcquireFreeBlock
  <2> QED
    BY <1>2, <2>1, <2>2 DEF AcquireFreeBlock
<1>3. CASE LoadNextFree(t)
  <2>1. nextFree[loc[t].page] \in Pointer /\ loc[t].page # Null
    BY <1>0, <1>3, LocalsUpdated DEF LoadNextFree, Pointer
  <2> DEFINE r == [loc[t] EXCEPT !.nxt = nextFree[loc[t].page]]
  <2>2. r \in Locals /\ r.page # Null /\ "cas" \in Labels
    BY <1>0, <2>1, LocalsUpdated
  <2>3. pc' = [pc EXCEPT ![t] = "cas"] /\ loc' = [loc EXCEPT ![t] = r]
    BY <1>3 DEF LoadNextFree
  <2> HIDE DEF r
  <2> QED
    BY <1>t, <2>2, <2>3, Arrives
<1>4. CASE PopFree(t)
  BY <1>0, <1>4, LocalsUpdated DEF PopFree
<1>5. CASE UnmarkPage(t)
  BY <1>0, <1>5, LocalsUpdated DEF UnmarkPage
<1>6. CASE TryGuard(t)
  <2>1. CASE ~writer
    <3> DEFINE r == [loc[t] EXCEPT !.guarded = TRUE]
    <3>1. r \in Locals /\ "recheck" \in Labels
      BY <1>0, LocalsUpdated
    <3>2. pc' = [pc EXCEPT ![t] = "recheck"] /\ loc' = [loc EXCEPT ![t] = r]
      BY <1>6, <2>1 DEF TryGuard
    <3> HIDE DEF r
    <3> QED
      BY <1>t, <3>1, <3>2, Arrives
  <2>2. CASE writer
    BY <1>0, <1>6, <2>2 DEF TryGuard
  <2> QED
    BY <2>1, <2>2
<1>7. CASE SeeLocked(t)
  BY <1>0, <1>7, LocalsUpdated DEF SeeLocked
<1>8. CASE RecheckFree(t)
  BY <1>0, <1>8, LocalsUpdated DEF RecheckFree
<1>9. CASE LoadPending(t)
  BY <1>0, <1>9, LocalsUpdated DEF LoadPending
<1>10. CASE TakePending(t)
  BY <1>0, <1>10, LocalsUpdated DEF TakePending
<1>11. CASE InstallPending(t)
  BY <1>0, <1>11, LocalsUpdated DEF InstallPending
<1>12. CASE LoadToFree(t)
  BY <1>0, <1>12, LocalsUpdated DEF LoadToFree
<1>13. CASE TakeToFree(t)
  <2>1. toFree \in Seq(Pages) /\ npages \in Int
    BY SharedArenaAssumption DEF TypeInv, ArenaType
  <2> DEFINE n   == Max({npages, 1})
             cut == Max({Len(toFree) - n, 0})
             a   == SubSeq(toFree, 1, cut)
             b   == SubSeq(toFree, cut + 1, Len(toFree))
  <2>2. toFree # <<>> => a \in Seq(Pages) /\ b \in Seq(Pages) /\ b # <<>>
    <3>1. Halves(toFree, cut, a, b)
      BY DEF Halves
    <3>2. n = Max({npages, 1}) /\ cut = Max({Len(toFree) - n, 0})
      OBVIOUS
    <3> HIDE DEF n, cut, a, b
    <3> QED
      BY <2>1, <3>1, <3>2, Reinserted
  <2>3. /\ pc[t] = "reuse"
        /\ \/ toFree = <<>> /\ pc' = [pc EXCEPT ![t] = "release"] /\ UNCHANGED loc
           \/ /\ toFree # <<>> /\ pc' = [pc EXCEPT ![t] = "putFull"]
              /\ loc' = [loc EXCEPT ![t] = [loc[t] EXCEPT !.batch = b, !.rest = a, !.reusing = TRUE]]
    BY <1>13 DEF TakeToFree
  <2> HIDE DEF n, cut, a, b
  <2>4. CASE toFree = <<>>
    BY <1>0, <2>3, <2>4
  <2>5. CASE toFree # <<>>
    <3> DEFINE r == [loc[t] EXCEPT !.batch = b, !.rest = a, !.reusing = TRUE]
    <3>1. [loc[t] EXCEPT !.batch = b] \in Locals
      BY <1>0, <2>2, <2>5, LocalsUpdated
    <3>2. [loc[t] EXCEPT !.batch = b, !.rest = a] \in Locals
      BY <3>1, <2>2, <2>5, LocalsUpdated
    <3>3. r \in Locals /\ r.batch = b
      BY <1>0, <3>2, LocalsUpdated DEF Locals
    <3>4. pc' = [pc EXCEPT ![t] = "putFull"] /\ loc' = [loc EXCEPT ![t] = r] /\ "putFull" \in Labels
      BY <2>3, <2>5
    <3> HIDE DEF r
    <3> QED
      BY <1>t, <2>2, <2>5, <3>3, <3>4, Arrives
  <2> QED
    BY <2>4, <2>5
<1>14. CASE AllocNewPages(t)
  <2> DEFINE n    == Min({Max({npages, 1}), MaxAllocate})
             list == NewList(made, n)
  <2>0. npages \in Int /\ made \in Nat /\ MaxPages \in Nat
    BY SharedArenaAssumption DEF TypeInv, ArenaType
  <2>1. n \in Nat \ {0}
    BY <2>0, NewPages
  <2>2. /\ pc[t] = "allocate" /\ pc' = [pc EXCEPT ![t] = "putFull"]
        /\ loc' = [loc EXCEPT ![t].batch = list] /\ made + n <= MaxPages
    BY <1>14 DEF AllocNewPages
  <2> HIDE DEF n
  <2>3. list \in Seq(made + 1 .. made + n) /\ Len(list) = n
    BY <2>0, <2>1, NewListElements
  <2> HIDE DEF list
  <2>4. made + 1 .. made + n \subseteq Pages
    BY <2>0, <2>1, <2>2 DEF Pages
  <2>5. list \in Seq(Pages)
    BY <2>1, <2>3, <2>4, SeqOfSubset
  <2>6. list # <<>>
    BY <2>1, <2>3
  <2> QED
    BY <1>0, <2>2, <2>5, <2>6, LocalsUpdated
<1>15. CASE PutFull(t)
  BY <1>0, <1>15, LocalsUpdated DEF PutFull
<1>16. CASE PutFree(t)
  BY <1>0, <1>16, LocalsUpdated DEF PutFree
<1>17. CASE CountPages(t)
  BY <1>0, <1>17, LocalsUpdated DEF CountPages
<1>18. CASE PutBackRest(t)
  BY <1>0, <1>18, LocalsUpdated DEF PutBackRest
<1>19. CASE ZeroDelay(t)
  BY <1>0, <1>19, LocalsUpdated DEF ZeroDelay
<1>20. CASE Release(t)
  BY <1>0, <1>20, LocalsUpdated DEF Release
<1>21. CASE LoadDelay(t)
  BY <1>0, <1>21, LocalsUpdated DEF LoadDelay, AfterMaybeFree
<1>22. CASE BumpDelay(t)
  <2>1. UNCHANGED loc /\ \E l \in {"sweep", "release", "head"} : pc' = [pc EXCEPT ![t] = l]
    BY <1>22 DEF BumpDelay, AfterMaybeFree
  <2> QED
    BY <1>0, <2>1
<1>23. CASE SweepToFree(t)
  <2>1. toFree \in Seq(Pages)
    BY DEF TypeInv, ArenaType
  <2> QED
    BY <1>0, <1>23, <2>1, LocalsUpdated DEF SweepToFree
<1>24. CASE DropPages(t)
  <2>1. Tail(loc[t].batch) \in Seq(Pages)
    BY <1>0, <1>24, LocalsUpdated DEF DropPages
  <2> QED
    BY <1>0, <1>24, <2>1, LocalsUpdated DEF DropPages
<1>25. CASE EndOfSweep(t)
  BY <1>0, <1>25, LocalsUpdated DEF EndOfSweep, AfterMaybeFree
<1>26. CASE Lock(t)
  BY <1>0, <1>26, LocalsUpdated DEF Lock
<1>27. CASE DetachFree(t)
  BY <1>0, <1>27, LocalsUpdated DEF DetachFree
<1>28. CASE WalkFree(t)
  <2>1. Cell(t) \in Pointer /\ (Cell(t) # Null => nextFree[Cell(t)] \in Pointer)
    BY <1>0, LocalsUpdated DEF Cell, Pointer
  <2>2. CASE Cell(t) = Null
    BY <1>0, <1>28, <2>2 DEF WalkFree
  <2>3. CASE Cell(t) # Null /\ Untouched(Cell(t))
    <3> DEFINE r == [loc[t] EXCEPT !.page = Cell(t), !.nxt = nextFree[Cell(t)]]
    <3>1. r \in Locals /\ r.page = Cell(t)
      <4> DEFINE q == [loc[t] EXCEPT !.page = Cell(t)]
      <4>1. q \in Locals /\ q.page = Cell(t)
        BY <1>0, <2>1, LocalsUpdated
      <4>2. r = [q EXCEPT !.nxt = nextFree[Cell(t)]]
        OBVIOUS
      <4> HIDE DEF q, r
      <4> QED
        BY <2>1, <2>3, <4>1, <4>2, LocalsUpdated
    <3>2. pc' = [pc EXCEPT ![t] = "unlink"] /\ loc' = [loc EXCEPT ![t] = r] /\ "unlink" \in Labels
      BY <1>28, <2>3 DEF WalkFree
    <3> HIDE DEF r
    <3> QED
      BY <1>t, <2>3, <3>1, <3>2, Arrives
  <2>4. CASE Cell(t) # Null /\ ~Untouched(Cell(t))
    <3>1. loc' = [loc EXCEPT ![t].cur = Cell(t)] /\ UNCHANGED pc /\ pc[t] = "walk"
      BY <1>28, <2>4 DEF WalkFree
    <3> QED
      BY <1>0, <2>1, <3>1, LocalsUpdated
  <2> QED
    BY <2>2, <2>3, <2>4
<1>29. CASE Unlink(t)
  <2> DEFINE taken == Append(loc[t].batch, loc[t].page)
  <2>1. loc[t].page \in Pages /\ loc[t].batch \in Seq(Pages) /\ loc[t].nxt \in Pointer
    BY <1>0, <1>29, LocalsUpdated DEF Unlink, Pointer
  <2>2. taken \in Seq(Pages)
    BY <2>1
  <2>3. /\ pc' = [pc EXCEPT ![t] = "walk"] /\ "walk" \in Labels
        /\ \/ loc' = [loc EXCEPT ![t] = [loc[t] EXCEPT !.start = loc[t].nxt, !.batch = taken]]
           \/ loc' = [loc EXCEPT ![t] = [loc[t] EXCEPT !.batch = taken]]
           \/ UNCHANGED loc
    BY <1>29 DEF Unlink
  <2> HIDE DEF taken
  <2>4. [loc[t] EXCEPT !.batch = taken] \in Locals
    BY <1>0, <2>2, LocalsUpdated
  <2>5. [loc[t] EXCEPT !.start = loc[t].nxt, !.batch = taken] \in Locals
    <3>1. [loc[t] EXCEPT !.start = loc[t].nxt] \in Locals
      BY <1>0, <2>1, LocalsUpdated
    <3> QED
      BY <2>2, <3>1, LocalsUpdated
  <2>6. \E r \in Locals : loc' = [loc EXCEPT ![t] = r]
    BY <1>0, <2>3, <2>4, <2>5
  <2> QED
    BY <1>t, <2>3, <2>6, Arrives
<1>30. CASE RetainUntouched(t)
  <2>1. Kept(loc[t].batch, {p \in Pages : Untouched(p)}) \in Seq(Pages)
    BY <1>0, LocalsUpdated, KeptElements
  <2> QED
    BY <1>0, <1>30, <2>1, LocalsUpdated DEF RetainUntouched
<1>31. CASE RemoveFromFull(t)
  BY <1>0, <1>31, LocalsUpdated DEF RemoveFromFull
<1>32. CASE ResetDelay(t)
  BY <1>0, <1>32, LocalsUpdated DEF ResetDelay
<1>33. CASE GrabToFree(t)
  <2>1. toFree \in Seq(Pages)
    BY DEF TypeInv, ArenaType
  <2> QED
    BY <1>0, <1>33, <2>1, LocalsUpdated DEF GrabToFree
<1>34. CASE GiveToFree(t)
  BY <1>0, <1>34, LocalsUpdated DEF GiveToFree
<1>35. CASE RestoreFree(t)
  BY <1>0, <1>35, LocalsUpdated DEF RestoreFree
<1>36. CASE UncountPages(t)
  BY <1>0, <1>36, LocalsUpdated DEF UncountPages
<1>37. CASE EndShrinking(t)
  BY <1>0, <1>37, LocalsUpdated DEF EndShrinking
<1>38. CASE Unlock(t)
  <2>1. Return(t)
    BY <1>38 DEF Unlock
  <2> QED
    BY <1>t, <2>1, Returns
<1>39. CASE LoadMark(t)
  <2>1. CASE Return(t)
    BY <1>t, <2>1, Returns
  <2>2. CASE Goto(t, "swap") /\ UNCHANGED loc
    BY <1>0, <1>39, <2>2 DEF LoadMark
  <2> QED
    BY <1>39, <2>1, <2>2 DEF LoadMark
<1>40. CASE SwapMark(t)
  <2>1. CASE Return(t)
    BY <1>t, <2>1, Returns
  <2>2. CASE Goto(t, "upgrade") /\ UNCHANGED loc
    BY <1>0, <1>40, <2>2 DEF SwapMark
  <2> QED
    BY <1>40, <2>1, <2>2 DEF SwapMark
<1>41. CASE UpgradePending(t)
  <2>1. CASE Return(t)
    BY <1>t, <2>1, Returns
  <2>2. CASE Goto(t, "push") /\ UNCHANGED loc
    BY <1>0, <1>41, <2>2 DEF UpgradePending
  <2> QED
    BY <1>41, <2>1, <2>2 DEF UpgradePending
<1>42. CASE LinkPending(t)
  <2>1. pending \in Pointer /\ pc[t] \in DropBlock
    BY <1>0, <1>42 DEF LinkPending
  <2> QED
    BY <1>0, <1>42, <2>1, LocalsUpdated DEF LinkPending
<1>43. CASE PushPending(t)
  <2>1. CASE Return(t)
    BY <1>t, <2>1, Returns
  <2>2. CASE Goto(t, "push") /\ UNCHANGED loc
    BY <1>0, <1>43, <2>2 DEF PushPending
  <2> QED
    BY <1>43, <2>1, <2>2 DEF PushPending
<1>44. CASE EndDropArena(t)
  <2>1. Return(t)
    BY <1>44 DEF EndDropArena
  <2> QED
    BY <1>t, <2>1, Returns
<1>45. CASE TouchFreed(t)
  BY <1>0, <1>45, LocalsUpdated DEF TouchFreed
<1>46. CASE StartAlloc(t)
  BY <1>0, <1>46, LocalsUpdated DEF StartAlloc
<1>47. CASE StartShrink(t)
  BY <1>0, <1>47, LocalsUpdated DEF StartShrink
<1>48. CASE StartDropArena(t)
  <2>1. toFree \o full \in Seq(Pages)
    BY DEF TypeInv, ArenaType
  <2> DEFINE r == [loc[t] EXCEPT !.batch = toFree \o full]
  <2>2. r \in Locals /\ "dropArena" \in Labels
    BY <1>0, <2>1, LocalsUpdated
  <2>3. pc' = [pc EXCEPT ![t] = "dropArena"] /\ loc' = [loc EXCEPT ![t] = r]
    BY <1>48 DEF StartDropArena
  <2> HIDE DEF r
  <2> QED
    BY <1>t, <2>2, <2>3, Arrives
<1>49. ASSUME NEW p \in Pages, GiveBlock(t, p) PROVE Moves(t)
  <2>1. p \in Pointer /\ p # Null
    BY DEF Pointer, Pages, Null
  <2>2. CASE UNCHANGED <<pc, loc>>
    BY <1>0, <2>2
  <2>3. CASE Goto(t, "marked") /\ loc' = [loc EXCEPT ![t].page = p]
    <3> DEFINE r == [loc[t] EXCEPT !.page = p]
    <3>1. r \in Locals /\ r.page # Null /\ "marked" \in Labels
      BY <1>0, <2>1, LocalsUpdated
    <3>2. pc' = [pc EXCEPT ![t] = "marked"] /\ loc' = [loc EXCEPT ![t] = r]
      BY <2>3
    <3> HIDE DEF r
    <3> QED
      BY <1>t, <3>1, <3>2, Arrives
  <2> QED
    BY <1>49, <2>2, <2>3 DEF GiveBlock
<1>50. CASE FindPlaceStep(t)
  BY <1>50, <1>1, <1>2, <1>3, <1>4, <1>5, <1>6, <1>7, <1>8, <1>9, <1>10, <1>11, <1>12,
     <1>13, <1>14, <1>15, <1>16, <1>17, <1>18, <1>19, <1>20, <1>21, <1>22, <1>23, <1>24, <1>25 DEF FindPlaceStep
<1>51. CASE ShrinkStep(t)
  BY <1>51, <1>26, <1>27, <1>28, <1>29, <1>30, <1>31, <1>32, <1>33, <1>34, <1>35, <1>36, <1>37, <1>38
  DEF ShrinkStep
<1>52. CASE DropBlockStep(t)
  BY <1>52, <1>39, <1>40, <1>41, <1>42, <1>43 DEF DropBlockStep
<1> QED
  BY <1>50, <1>51, <1>52, <1>44, <1>45, <1>46, <1>47, <1>48, <1>49
  DEF Continue, Start

\* The state of the arena after a step.
LEMMA ArenaTypeNext ==
  ASSUME TypeInv, NEW t \in Threads, Continue(t) \/ Start(t)
  PROVE  ArenaType'
<1> USE DEF pageVars, listVars, arenaVars
<1>0. /\ ArenaType
      /\ loc[t].page \in Pointer /\ loc[t].nxt \in Pointer
      /\ loc[t].start \in Pointer /\ loc[t].cur \in Pointer
      /\ loc[t].batch \in Seq(Pages) /\ loc[t].rest \in Seq(Pages)
      /\ HasPage(t)
  BY LocalsUpdated DEF TypeInv, ThreadType
<1>c. /\ BLOCK_PER_PAGE \in Nat /\ USIZE \in Nat /\ USIZE > MaxPages /\ MaxPages \in Nat \ {0}
      /\ DELAY_DROP_SHRINK \in Nat
  BY SharedArenaAssumption
<1>m. \A x \in Int : x % USIZE \in 0 .. USIZE - 1
  BY <1>c
<1>p. loc[t].page # Null => loc[t].page \in Pages
  BY <1>0 DEF Pointer
<1>1. CASE LoadHead(t)
  BY <1>0, <1>1 DEF LoadHead, ArenaType
<1>2. CASE AcquireFreeBlock(t)
  <2>1. CASE used[loc[t].page] < BLOCK_PER_PAGE /\ used' = [used EXCEPT ![loc[t].page] = used[loc[t].page] + 1]
    <3>1. used \in [Pages -> 0 .. BLOCK_PER_PAGE]
      BY <1>0 DEF ArenaType
    <3>2. used' \in [Pages -> 0 .. BLOCK_PER_PAGE]
      <4>1. loc[t].page \in Pages => used[loc[t].page] + 1 \in 0 .. BLOCK_PER_PAGE
        BY <1>c, <2>1, <3>1
      <4> QED
        BY <2>1, <3>1, <4>1
    <3> QED
      BY <1>0, <1>2, <3>2 DEF AcquireFreeBlock, ArenaType
  <2>2. CASE UNCHANGED used
    BY <1>0, <1>2, <2>2 DEF AcquireFreeBlock, ArenaType
  <2> QED
    BY <1>2, <2>1, <2>2 DEF AcquireFreeBlock
<1>3. CASE LoadNextFree(t)
  BY <1>0, <1>3 DEF LoadNextFree, ArenaType
<1>4. CASE PopFree(t)
  BY <1>0, <1>4 DEF PopFree, ArenaType
<1>5. CASE UnmarkPage(t)
  BY <1>0, <1>5 DEF UnmarkPage, ArenaType
<1>6. CASE TryGuard(t)
  BY <1>0, <1>6 DEF TryGuard, ArenaType
<1>7. CASE SeeLocked(t)
  BY <1>0, <1>7 DEF SeeLocked, ArenaType
<1>8. CASE RecheckFree(t)
  BY <1>0, <1>8 DEF RecheckFree, ArenaType
<1>9. CASE LoadPending(t)
  BY <1>0, <1>9 DEF LoadPending, ArenaType
<1>10. CASE TakePending(t)
  BY <1>0, <1>10 DEF TakePending, Pointer, ArenaType
<1>11. CASE InstallPending(t)
  BY <1>0, <1>11 DEF InstallPending, ArenaType
<1>12. CASE LoadToFree(t)
  BY <1>0, <1>12 DEF LoadToFree, ArenaType
<1>13. CASE TakeToFree(t)
  <2> DEFINE n   == Max({npages, 1})
             cut == Max({Len(toFree) - n, 0})
             a   == SubSeq(toFree, 1, cut)
             b   == SubSeq(toFree, cut + 1, Len(toFree))
  <2>1. toFree \in Seq(Pages) /\ npages \in Int
    BY <1>0, <1>c DEF ArenaType
  <2>2. toFree # <<>> => b \in Seq(Pages)
    <3>1. Halves(toFree, cut, a, b)
      BY DEF Halves
    <3>2. n = Max({npages, 1}) /\ cut = Max({Len(toFree) - n, 0})
      OBVIOUS
    <3> HIDE DEF n, cut, a, b
    <3> QED
      BY <2>1, <3>1, <3>2, Reinserted
  <2>3. /\ toFree' = <<>>
        /\ UNCHANGED <<used, arenaBit, freed, listVars, npages, writer, shrinking, delay, arena, made>>
        /\ \/ UNCHANGED <<nextFree, marked>>
           \/ /\ toFree # <<>> /\ nextFree' = Linked(nextFree, b) /\ marked' = marked \cup ToSet(b)
    BY <1>13 DEF TakeToFree
  <2> HIDE DEF b
  <2>4. nextFree' \in [Pages -> Pointer] /\ marked' \subseteq Pages
    <3>1. CASE UNCHANGED <<nextFree, marked>>
      BY <1>0, <3>1 DEF ArenaType
    <3>2. CASE toFree # <<>> /\ nextFree' = Linked(nextFree, b) /\ marked' = marked \cup ToSet(b)
      <4>1. b \in Seq(Pages) /\ nextFree \in [Pages -> Pointer] /\ marked \subseteq Pages
        BY <1>0, <2>2, <3>2 DEF ArenaType
      <4>2. ToSet(b) \subseteq Pages
        BY <4>1 DEF ToSet
      <4> QED
        BY <3>2, <4>1, <4>2, LinkedType
    <3> QED
      BY <2>3, <3>1, <3>2
  <2> QED
    BY <1>0, <2>3, <2>4 DEF ArenaType
<1>14. CASE AllocNewPages(t)
  <2> DEFINE n    == Min({Max({npages, 1}), MaxAllocate})
             list == NewList(made, n)
  <2>0. npages \in Int /\ made \in Nat
    BY <1>0, <1>c DEF ArenaType
  <2>1. n \in Nat \ {0}
    BY <2>0, NewPages
  <2>2. /\ made + n <= MaxPages /\ made' = made + n
        /\ nextFree' = Linked(nextFree, list)
        /\ marked' = marked \cup ToSet(list) /\ arenaBit' = arenaBit \cup ToSet(list)
        /\ UNCHANGED <<used, freed, listVars, npages, writer, shrinking, toFree, delay, arena>>
    BY <1>14 DEF AllocNewPages
  <2> HIDE DEF n
  <2>3. list \in Seq(made + 1 .. made + n) /\ ToSet(list) = made + 1 .. made + n
    BY <2>0, <2>1, NewListElements
  <2> HIDE DEF list
  <2>4. made + 1 .. made + n \subseteq Pages
    BY <1>c, <2>0, <2>1, <2>2 DEF Pages
  <2>5. list \in Seq(Pages)
    BY <2>3, <2>4, SeqOfSubset
  <2>6. nextFree' \in [Pages -> Pointer]
    <3>1. nextFree \in [Pages -> Pointer]
      BY <1>0 DEF ArenaType
    <3> QED
      BY <2>2, <2>5, <3>1, LinkedType
  <2>7. made' \in 0 .. MaxPages
    BY <1>c, <2>0, <2>1, <2>2
  <2> QED
    BY <1>0, <2>2, <2>3, <2>4, <2>6, <2>7 DEF ArenaType
<1>15. CASE PutFull(t)
  <2>1. loc[t].batch \o full \in Seq(Pages)
    BY <1>0 DEF ArenaType
  <2> QED
    BY <1>0, <1>15, <2>1 DEF PutFull, ArenaType
<1>16. CASE PutFree(t)
  <2>1. Head(loc[t].batch) \in Pages
    BY <1>0, <1>16 DEF PutFree, HasPage
  <2> QED
    BY <1>0, <1>16, <2>1 DEF PutFree, ArenaType, Pointer
<1>17. CASE CountPages(t)
  <2>1. (npages + Len(loc[t].batch)) % USIZE \in 0 .. USIZE - 1
    BY <1>0, <1>c, <1>m DEF ArenaType
  <2> QED
    BY <1>0, <1>17, <2>1 DEF CountPages, ArenaType
<1>18. CASE PutBackRest(t)
  BY <1>0, <1>18, <1>c DEF PutBackRest, ArenaType
<1>19. CASE ZeroDelay(t)
  BY <1>0, <1>19 DEF ZeroDelay, ArenaType
<1>20. CASE Release(t)
  BY <1>0, <1>20 DEF Release, ArenaType
<1>21. CASE LoadDelay(t)
  BY <1>0, <1>21 DEF LoadDelay, AfterMaybeFree, ArenaType
<1>22. CASE BumpDelay(t)
  BY <1>0, <1>22, <1>c DEF BumpDelay, AfterMaybeFree, ArenaType
<1>23. CASE SweepToFree(t)
  BY <1>0, <1>23 DEF SweepToFree, ArenaType
<1>24. CASE DropPages(t)
  <2>1. Head(loc[t].batch) \in Pages
    BY <1>0, <1>24 DEF DropPages
  <2> QED
    BY <1>0, <1>24, <2>1 DEF DropPages, DropPage, ArenaType
<1>25. CASE EndOfSweep(t)
  BY <1>0, <1>25 DEF EndOfSweep, AfterMaybeFree, ArenaType
<1>26. CASE Lock(t)
  BY <1>0, <1>26 DEF Lock, ArenaType
<1>27. CASE DetachFree(t)
  BY <1>0, <1>27 DEF DetachFree, Pointer, ArenaType
<1>28. CASE WalkFree(t)
  BY <1>0, <1>28 DEF WalkFree, ArenaType
<1>29. CASE Unlink(t)
  <2>1. CASE UNCHANGED nextFree
    BY <1>0, <1>29, <2>1 DEF Unlink, ArenaType
  <2>2. CASE nextFree' = [nextFree EXCEPT ![loc[t].cur] = loc[t].nxt]
    <3>1. nextFree' \in [Pages -> Pointer]
      BY <1>0, <2>2 DEF ArenaType
    <3> QED
      BY <1>0, <1>29, <3>1 DEF Unlink, ArenaType
  <2> QED
    BY <1>29, <2>1, <2>2 DEF Unlink
<1>30. CASE RetainUntouched(t)
  BY <1>0, <1>30 DEF RetainUntouched, ArenaType
<1>31. CASE RemoveFromFull(t)
  <2>1. Kept(full, Pages \ ToSet(loc[t].batch)) \in Seq(Pages)
    BY <1>0, KeptElements DEF ArenaType
  <2> QED
    BY <1>0, <1>31, <2>1 DEF RemoveFromFull, ArenaType
<1>32. CASE ResetDelay(t)
  BY <1>0, <1>32 DEF ResetDelay, ArenaType
<1>33. CASE GrabToFree(t)
  BY <1>0, <1>33 DEF GrabToFree, ArenaType
<1>34. CASE GiveToFree(t)
  <2>1. loc[t].rest \o loc[t].batch \in Seq(Pages)
    BY <1>0
  <2> QED
    BY <1>0, <1>34, <2>1 DEF GiveToFree, ArenaType
<1>35. CASE RestoreFree(t)
  BY <1>0, <1>35 DEF RestoreFree, ArenaType
<1>36. CASE UncountPages(t)
  <2>1. (npages - Len(loc[t].batch)) % USIZE \in 0 .. USIZE - 1
    BY <1>0, <1>c, <1>m DEF ArenaType
  <2> QED
    BY <1>0, <1>36, <2>1 DEF UncountPages, ArenaType
<1>37. CASE EndShrinking(t)
  BY <1>0, <1>37 DEF EndShrinking, ArenaType
<1>38. CASE Unlock(t)
  BY <1>0, <1>38 DEF Unlock, ArenaType
<1>39. CASE LoadMark(t)
  BY <1>0, <1>39 DEF LoadMark, ArenaType
<1>40. CASE SwapMark(t)
  <2>1. loc[t].page \in Pages
    BY <1>0, <1>p, <1>40 DEF SwapMark, HasPage, DropBlock
  <2> QED
    BY <1>0, <1>40, <2>1 DEF SwapMark, ArenaType
<1>41. CASE UpgradePending(t)
  BY <1>0, <1>41 DEF UpgradePending, ArenaType
<1>42. CASE LinkPending(t)
  BY <1>0, <1>42 DEF LinkPending, ArenaType
<1>43. CASE PushPending(t)
  <2>1. pending' \in Pointer
    BY <1>0, <1>43 DEF PushPending, ArenaType
  <2> QED
    BY <1>0, <1>43, <2>1 DEF PushPending, ArenaType
<1>44. CASE EndDropArena(t)
  BY <1>0, <1>44 DEF EndDropArena, ArenaType
<1>45. CASE TouchFreed(t)
  BY <1>0, <1>45 DEF TouchFreed, ArenaType
<1>46. CASE StartAlloc(t)
  BY <1>0, <1>46 DEF StartAlloc, ArenaType
<1>47. CASE StartShrink(t)
  BY <1>0, <1>47 DEF StartShrink, ArenaType
<1>48. CASE StartDropArena(t)
  BY <1>0, <1>48 DEF StartDropArena, ArenaType
<1>49. ASSUME NEW p \in Pages, GiveBlock(t, p) PROVE ArenaType'
  <2>1. used' \in [Pages -> 0 .. BLOCK_PER_PAGE]
    BY <1>0, <1>c, <1>49 DEF GiveBlock, ArenaType
  <2>2. freed' \subseteq Pages
    BY <1>0, <1>49 DEF GiveBlock, ArenaType
  <2> QED
    BY <1>0, <1>49, <2>1, <2>2 DEF GiveBlock, ArenaType
<1>50. CASE FindPlaceStep(t)
  BY <1>50, <1>1, <1>2, <1>3, <1>4, <1>5, <1>6, <1>7, <1>8, <1>9, <1>10, <1>11, <1>12,
     <1>13, <1>14, <1>15, <1>16, <1>17, <1>18, <1>19, <1>20, <1>21, <1>22, <1>23, <1>24, <1>25 DEF FindPlaceStep
<1>51. CASE ShrinkStep(t)
  BY <1>51, <1>26, <1>27, <1>28, <1>29, <1>30, <1>31, <1>32, <1>33, <1>34, <1>35, <1>36, <1>37, <1>38
  DEF ShrinkStep
<1>52. CASE DropBlockStep(t)
  BY <1>52, <1>39, <1>40, <1>41, <1>42, <1>43 DEF DropBlockStep
<1> QED
  BY <1>50, <1>51, <1>52, <1>44, <1>45, <1>46, <1>47, <1>48, <1>49
  DEF Continue, Start

-----------------------------------------------------------------------------

\* with_capacity.
LEMMA TypeInvInit == Init => TypeInv
<1> SUFFICES ASSUME Init PROVE TypeInv
  OBVIOUS
<1>1. /\ Capacity \in Nat \ {0} /\ MaxPages \in Nat /\ Capacity <= MaxPages
      /\ USIZE \in Nat /\ USIZE > MaxPages /\ DELAY_DROP_SHRINK \in Nat /\ BLOCK_PER_PAGE \in Nat
  BY SharedArenaAssumption
<1>2. 1 .. Capacity \subseteq Pages /\ Capacity \in Pointer /\ Null \in Pointer
  BY <1>1 DEF Pages, Pointer
<1>3. nextFree \in [Pages -> Pointer]
  BY <1>1, <1>2 DEF Init, Pages, Pointer, Null
<1>4. full \in Seq(Pages)
  <2>1. NewList(0, Capacity) \in Seq(0 + 1 .. 0 + Capacity)
    BY <1>1, NewListElements
  <2>2. 0 + 1 .. 0 + Capacity \subseteq Pages
    BY <1>1, <1>2
  <2>3. NewList(0, Capacity) \in Seq(Pages)
    BY <2>1, <2>2, SeqOfSubset
  <2> QED
    BY <2>3 DEF Init
<1>5. used \in [Pages -> 0 .. BLOCK_PER_PAGE]
  BY <1>1 DEF Init
<1>6. /\ marked \subseteq Pages /\ arenaBit \subseteq Pages /\ freed \subseteq Pages
      /\ free \in Pointer /\ pending \in Pointer /\ toFree \in Seq(Pages)
  BY <1>2 DEF Init
<1>7. /\ npages \in 0 .. USIZE - 1 /\ made \in 0 .. MaxPages /\ delay \in Nat
      /\ writer \in BOOLEAN /\ shrinking \in BOOLEAN /\ arena \in {"open", "dropping", "dropped"}
  <2>1. npages = Capacity /\ made = Capacity /\ delay = DELAY_DROP_SHRINK
    BY DEF Init
  <2>2. writer = FALSE /\ shrinking = FALSE /\ arena = "open"
    BY DEF Init
  <2>3. Capacity \in 0 .. USIZE - 1 /\ Capacity \in 0 .. MaxPages
    BY <1>1
  <2> QED
    BY <1>1, <2>1, <2>2, <2>3
<1>8. ArenaType
  BY <1>3, <1>4, <1>5, <1>6, <1>7 DEF ArenaType
<1>9. ThreadType
  BY NoLocalsType DEF Init, ThreadType, HasPage, Labels, DropBlock
<1> QED
  BY <1>8, <1>9 DEF TypeInv

\* The types, step by step.
LEMMA TypeInvNext == TypeInv /\ [Next]_vars => TypeInv'
<1> SUFFICES ASSUME TypeInv, [Next]_vars PROVE TypeInv'
  OBVIOUS
<1>1. CASE UNCHANGED vars
  BY <1>1 DEF TypeInv, ArenaType, ThreadType, HasPage, vars
<1>2. ASSUME NEW t \in Threads, Continue(t) \/ Start(t)
      PROVE  TypeInv'
  <2>1. ArenaType'
    BY <1>2, ArenaTypeNext
  <2>2. Moves(t)
    BY <1>2, ThreadMoves
  <2>3. ThreadType'
    BY <2>2 DEF TypeInv, ThreadType, Moves, HasPage
  <2> QED
    BY <2>1, <2>3 DEF TypeInv
<1> QED
  BY <1>1, <1>2 DEF Next

\* In every behaviour.
LEMMA TypeInvAlways == Spec => []TypeInv
<1> QED
  BY TypeInvInit, TypeInvNext, PTL DEF Spec

\* Whatever the threads do: the counters of the arena stay within their words,
\* the pages within those allocated, and a thread that works on a page has one.
THEOREM TypeCorrect == Spec => []TypeOK
<1>1. TypeInv => TypeOK
  BY DEF TypeInv, ArenaType, ThreadType, TypeOK, Labels
<1> QED
  BY <1>1, TypeInvAlways, PTL
=============================================================================
