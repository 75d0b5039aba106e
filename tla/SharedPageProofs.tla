--------------------------- MODULE SharedPageProofs ---------------------------
(***************************************************************************)
(* Proofs about SharedPage, for every width of the word, every number of   *)
(* threads and every bound on the clones.                                  *)
(***************************************************************************)
EXTENDS SharedPage, BitfieldProofs

-----------------------------------------------------------------------------
(* Who a block belongs to, whatever the interleaving.                      *)

\* The inductive strengthening of NoSharedBlock and CounterCountsHandles: the
\* index a thread holds is that of a block, so that its bit is a block's bit.
BlockInv ==
  /\ TypeOK
  /\ NoSharedBlock
  /\ CounterCountsHandles
  /\ \A t \in Threads : pc[t] \in {"publish", "value", "add"} => blk[t] \in Blocks

\* A new page has no handles, no thread in it and all its blocks free
\* (PageSharedArena::new).
LEMMA BlockInvInit == Init => BlockInv
PROOF
  <1> SUFFICES ASSUME Init PROVE BlockInv
    OBVIOUS
  <1>1. TypeOK
    BY DEF Init, TypeOK, Places, Labels
  <1>2. NoSharedBlock
    BY DEF Init, NoSharedBlock, Handled, Holds
  <1>3. CounterCountsHandles
    BY DEF Init, CounterCountsHandles
  <1>. QED
    BY <1>1, <1>2, <1>3 DEF BlockInv, Init

\* Every atomic operation of find_place, of the constructors and the drops of
\* the handles, of drop_block and of the arena preserves BlockInv.
LEMMA BlockInvStep == BlockInv /\ [Next]_vars => BlockInv'
PROOF
  <1> SUFFICES ASSUME BlockInv, [Next]_vars PROVE BlockInv'
    OBVIOUS
  <1> USE BlocksAndArenaBit
          DEF BlockInv, TypeOK, NoSharedBlock, CounterCountsHandles, Handled, Holds,
              Labels, Touching, Allocating, Pushing, Places, Listed, Held, Goto,
              vars, pageVars, handleVars, arenaVars
  <1>0. ASSUME NEW t \in Threads, DropPage(t), arena' \in {"open", "dropped"}
        PROVE  BlockInv'
    <2>0. /\ FetchSubArenaBit(bitfield) \subseteq Bits
          /\ \A b \in Blocks : b \in FetchSubArenaBit(bitfield) <=> b \in bitfield
      BY FetchSubInverts
    <2>1. TypeOK'
      BY <1>0, <2>0 DEF DropPage
    <2>2. NoSharedBlock'
      BY <1>0, <2>0 DEF DropPage
    <2>3. CounterCountsHandles'
      BY <1>0 DEF DropPage
    <2>4. \A u \in Threads : pc'[u] \in {"publish", "value", "add"} => blk'[u] \in Blocks
      BY <1>0 DEF DropPage
    <2>. QED
      BY <2>1, <2>2, <2>3, <2>4
  <1>1. ASSUME NEW t \in Threads, FindPage(t) PROVE BlockInv'
    BY <1>1 DEF FindPage
  <1>2. ASSUME NEW t \in Threads, LoadBitfield(t) PROVE BlockInv'
    <2>1. TrailingZeros(bitfield) \in Nat
      BY TrailingZerosRange
    <2>. QED
      BY <1>2, <2>1 DEF LoadBitfield
  <1>3. ASSUME NEW t \in Threads, FetchAnd(t) PROVE BlockInv'
    <2>1. TypeOK'
      BY <1>3 DEF FetchAnd, FetchAndNot
    <2>2. NoSharedBlock'
      BY <1>3 DEF FetchAnd, FetchAndNot
    <2>3. CounterCountsHandles'
      BY <1>3 DEF FetchAnd
    <2>4. \A u \in Threads : pc'[u] \in {"publish", "value", "add"} => blk'[u] \in Blocks
      BY <1>3 DEF FetchAnd
    <2>. QED
      BY <2>1, <2>2, <2>3, <2>4
  <1>4. ASSUME NEW t \in Threads, Publish(t) PROVE BlockInv'
    <2>0. /\ blk[t] \in Blocks /\ counter[blk[t]] = 0 /\ ~ Handled(blk[t])
          /\ blk[t] \notin bitfield
          /\ \A u \in Threads \ {t} : ~ Holds(u, blk[t])
          /\ pc' = [pc EXCEPT ![t] = "idle"]
      BY <1>4 DEF Publish, NewBox, NewArc
    <2>1. TypeOK'
      <3>0. /\ live \subseteq Blocks /\ live' = live \cup {blk[t]}
            /\ boxes \subseteq Blocks /\ (boxes' = boxes \/ boxes' = boxes \cup {blk[t]})
        BY <1>4, <2>0 DEF Publish, NewBox, NewArc
      <3>1. live' \subseteq Blocks /\ boxes' \subseteq Blocks
        BY ONLY <2>0, <3>0
      <3>2. counter' \in [Blocks -> Nat] /\ arcs' \in [Blocks -> Nat]
        BY <1>4, <2>0 DEF Publish, NewBox, NewArc
      <3>3. pc' \in [Threads -> Labels]
        BY <2>0
      <3>. QED
        BY <1>4, <3>1, <3>2, <3>3 DEF Publish, NewBox, NewArc
    <2>2. NoSharedBlock'
      <3>1. CASE boxes' = boxes \cup {blk[t]} /\ UNCHANGED arcs
        BY <1>4, <2>0, <3>1 DEF Publish, NewBox, NewArc
      <3>2. CASE arcs' = [arcs EXCEPT ![blk[t]] = 1] /\ UNCHANGED boxes
        BY <1>4, <2>0, <3>2 DEF Publish, NewBox, NewArc
      <3>. QED
        BY <1>4, <2>0, <3>1, <3>2 DEF Publish, NewBox, NewArc
    <2>3. CounterCountsHandles'
      BY <1>4 DEF Publish, NewBox, NewArc
    <2>4. \A u \in Threads : pc'[u] \in {"publish", "value", "add"} => blk'[u] \in Blocks
      BY <1>4 DEF Publish, NewBox, NewArc
    <2>. QED
      BY <2>1, <2>2, <2>3, <2>4
  <1>5. ASSUME NEW t \in Threads, PopPage(t) PROVE BlockInv'
    BY <1>5 DEF PopPage
  <1>6. ASSUME NEW t \in Threads, UnmarkPage(t) PROVE BlockInv'
    <2>1. TypeOK'
      BY <1>6 DEF UnmarkPage
    <2>2. NoSharedBlock'
      BY <1>6 DEF UnmarkPage
    <2>3. CounterCountsHandles'
      BY <1>6 DEF UnmarkPage
    <2>4. \A u \in Threads : pc'[u] \in {"publish", "value", "add"} => blk'[u] \in Blocks
      BY <1>6 DEF UnmarkPage
    <2>. QED
      BY <2>1, <2>2, <2>3, <2>4
  <1>7. ASSUME NEW t \in Threads, NEW b \in Blocks, DropBox(t, b) PROVE BlockInv'
    BY <1>7 DEF DropBox
  <1>8. ASSUME NEW t \in Threads, NEW b \in Blocks, DropArc(t, b) PROVE BlockInv'
    BY <1>8 DEF DropArc
  <1>9. ASSUME NEW t \in Threads, DropValue(t) PROVE BlockInv'
    <2>1. TypeOK'
      BY <1>9 DEF DropValue
    <2>2. NoSharedBlock'
      BY <1>9 DEF DropValue
    <2>3. CounterCountsHandles'
      BY <1>9 DEF DropValue
    <2>4. \A u \in Threads : pc'[u] \in {"publish", "value", "add"} => blk'[u] \in Blocks
      BY <1>9 DEF DropValue
    <2>. QED
      BY <2>1, <2>2, <2>3, <2>4
  <1>10. ASSUME NEW t \in Threads, FetchAdd(t) PROVE BlockInv'
    <2>0. blk[t] \in Blocks /\ FetchAddBit(bitfield, blk[t]) = bitfield \cup {blk[t]}
      BY <1>10, FetchAddOfClearBit DEF FetchAdd
    <2>1. TypeOK'
      <3>0. bitfield \subseteq Bits /\ bitfield' = bitfield \cup {blk[t]} /\ blk[t] \in Bits
        BY <1>10, <2>0 DEF FetchAdd
      <3>1. bitfield' \subseteq Bits
        BY ONLY <3>0
      <3>2. pc' \in [Threads -> Labels]
        BY <1>10 DEF FetchAdd
      <3>. QED
        BY <1>10, <3>1, <3>2 DEF FetchAdd
    <2>2. NoSharedBlock'
      BY <1>10, <2>0 DEF FetchAdd
    <2>3. CounterCountsHandles'
      BY <1>10 DEF FetchAdd
    <2>4. \A u \in Threads : pc'[u] \in {"publish", "value", "add"} => blk'[u] \in Blocks
      BY <1>10 DEF FetchAdd
    <2>. QED
      BY <2>1, <2>2, <2>3, <2>4
  <1>11. ASSUME NEW t \in Threads, Deallocate(t) PROVE BlockInv'
    BY <1>11 DEF Deallocate
  <1>12. ASSUME NEW t \in Threads, LoadMark(t) PROVE BlockInv'
    BY <1>12 DEF LoadMark
  <1>13. ASSUME NEW t \in Threads, SwapMark(t) PROVE BlockInv'
    BY <1>13 DEF SwapMark
  <1>14. ASSUME NEW t \in Threads, PushPending(t) PROVE BlockInv'
    <2>1. /\ at' \in Places /\ strays' \subseteq {"listed", "held"}
          /\ \E label \in {"idle", "push"} : pc' = [pc EXCEPT ![t] = label]
          /\ UNCHANGED <<pageVars, handleVars, usage, arena, blk>>
      <3>1. CASE at' = "listed" /\ strays' = strays
        BY <1>14, <3>1 DEF PushPending
      <3>2. CASE at' = at /\ (strays' = strays \/ strays' = strays \cup {"listed"})
        BY <1>14, <3>2 DEF PushPending
      <3>. QED
        BY <1>14, <3>1, <3>2 DEF PushPending
    <2>. QED
      BY <2>1
  <1>15. ASSUME NEW t \in Threads, TouchFreed(t) PROVE BlockInv'
    BY <1>15 DEF TouchFreed
  <1>16. ASSUME NEW t \in Threads, MaybeFreePage(t) PROVE BlockInv'
    BY <1>16, <1>0 DEF MaybeFreePage
  <1>17. ASSUME NEW t \in Threads, DropArena(t) PROVE BlockInv'
    <2>1. CASE DropPage(t)
      BY <1>17, <2>1, <1>0 DEF DropArena
    <2>2. CASE UNCHANGED <<pageVars, handleVars, usage, at, strays, pc, blk>>
      BY <1>17, <2>2 DEF DropArena
    <2>. QED
      BY <1>17, <2>1, <2>2 DEF DropArena
  <1>18. ASSUME NEW b \in Blocks, CloneArc(b) PROVE BlockInv'
    BY <1>18 DEF CloneArc
  <1>19. ASSUME NEW t \in Threads, Withdraw(t) PROVE BlockInv'
    BY <1>19 DEF Withdraw
  <1>20. ASSUME NEW t \in Threads, Retain(t) PROVE BlockInv'
    BY <1>20 DEF Retain
  <1>21. ASSUME NEW t \in Threads, Reuse(t) PROVE BlockInv'
    BY <1>21 DEF Reuse
  <1>22. ASSUME NEW t \in Threads, LoadNextFree(t) PROVE BlockInv'
    BY <1>22 DEF LoadNextFree
  <1>23. ASSUME NEW t \in Threads, InstallStaleNext(t) PROVE BlockInv'
    BY <1>23 DEF InstallStaleNext
  <1>24. ASSUME NEW t \in Threads, UpgradePending(t) PROVE BlockInv'
    BY <1>24 DEF UpgradePending
  <1>25. ASSUME NEW t \in Threads, LinkPending(t) PROVE BlockInv'
    BY <1>25 DEF LinkPending
  <1>26. CASE UNCHANGED vars
    BY <1>26
  <1>. QED
    BY <1>1, <1>2, <1>3, <1>4, <1>5, <1>6, <1>7, <1>8, <1>9, <1>10,
       <1>11, <1>12, <1>13, <1>14, <1>15, <1>16, <1>17, <1>18, <1>19, <1>20,
       <1>21, <1>22, <1>23, <1>24, <1>25, <1>26
       DEF Next, Continue, Start

\* A block of the page has at most one owner in every reachable state.
LEMMA BlockInvAlways == Spec => []BlockInv
PROOF
  <1>1. Init => BlockInv
    BY BlockInvInit
  <1>2. BlockInv /\ [Next]_vars => BlockInv'
    BY BlockInvStep
  <1>. QED
    BY <1>1, <1>2, PTL DEF Spec

\* The variables of the page, its handles and its threads keep their types:
\* in particular counter never goes below zero and no carry leaves the word.
THEOREM TypeCorrectness == Spec => []TypeOK
PROOF
  <1>1. BlockInv => TypeOK
    BY DEF BlockInv
  <1>. QED
    BY <1>1, BlockInvAlways, PTL

\* Whatever the number of threads and their interleaving, the fetch_and of
\* acquire_free_block gives no block to two users.
THEOREM BlocksAreNotShared == Spec => []NoSharedBlock
PROOF
  <1>1. BlockInv => NoSharedBlock
    BY DEF BlockInv
  <1>. QED
    BY <1>1, BlockInvAlways, PTL

\* The asserts on block.counter never fail, since it counts the handles.
THEOREM CountersCountHandles == Spec => []CounterCountsHandles
PROOF
  <1>1. BlockInv => CounterCountsHandles
    BY DEF BlockInv
  <1>. QED
    BY <1>1, BlockInvAlways, PTL

-----------------------------------------------------------------------------
(* The life of the page, when the uses are orderly.                        *)

\* The arena's bit and the place where the arena keeps the page agree, and
\* nobody is in find_place or alloc on a page that the arena let go: a thread
\* that empties to_free moves the pages alone. Where several threads allocate
\* the lists may lead to the page wherever it is, but nobody shrinks, so that
\* only SharedArena::drop lets it go.
PlaceInv ==
  /\ OneMover(usage) \/ usage.shrink = {}
  /\ ArenaBit \in bitfield <=> at # "retired"
  /\ arena = "dropped" => at = "retired"
  /\ at = "retired" => \A t \in Threads : pc[t] \notin Allocating
  /\ "held" \notin strays
  /\ (OneMover(usage) /\ arena = "open") => strays = {}
  /\ ~OneMover(usage) =>
       /\ at \in {"listed", "out", "retired"}
       /\ at = "retired" => arena = "dropped"
  /\ \A t \in Threads :
       /\ pc[t] \in Allocating => t \in usage.alloc
       /\ pc[t] = "retain" => t \in usage.shrink
       /\ pc[t] = "and" => blk[t] \in Blocks

\* Where one thread moves the pages, in_free_list is false only while the page
\* is in no list. At most one thread is between the compare_exchange that
\* removed the page and the store, or between the swap and the end of the push,
\* and it finds the page where it left it.
Away == at = IF arena = "open" THEN "out" ELSE "retired"

MarkInv ==
  OneMover(usage) =>
    /\ ~inFreeList => Away /\ \A t \in Threads : pc[t] \notin Pushing \cup {"unmark"}
    /\ \A t \in Threads :
         /\ pc[t] = "unmark" => at = "out"
         /\ pc[t] \in Pushing => Away
    /\ \A t, u \in Threads :
         (pc[t] \in Pushing \cup {"unmark"} /\ pc[u] \in Pushing \cup {"unmark"}) => t = u

\* Whoever frees the page, or did, found every block free and the arena gone.
FreeInv ==
  /\ freed => bitfield = Blocks
  /\ \A t \in Threads : pc[t] = "dealloc" => bitfield = Blocks
  /\ FreedOnce

\* The inductive invariant: who owns the blocks, where the page is, what its
\* mark says, who frees it, and what becomes of the blocks and their values.
LifeInv == BlockInv /\ PlaceInv /\ MarkInv /\ FreeInv /\ NoLostBlock /\ ValueLivesWithHandles

\* The place and the arena bit change together, in drop_page.
LEMMA PlaceInvStep ==
  BlockInv /\ PlaceInv /\ MarkInv /\ [Next]_vars => PlaceInv'
PROOF
  <1> SUFFICES ASSUME BlockInv, PlaceInv, MarkInv, [Next]_vars
               PROVE  PlaceInv'
    OBVIOUS
  <1> USE BlocksAndArenaBit
          DEF PlaceInv,
              BlockInv, TypeOK, Holds, Handled, Goto, Labels, Touching, Allocating,
              Pushing, Places, Listed, Held,
              vars, pageVars, handleVars, arenaVars
  <1>1. ASSUME NEW t \in Threads, FindPage(t) PROVE PlaceInv'
    BY <1>1 DEF FindPage
  <1>2. ASSUME NEW t \in Threads, LoadBitfield(t) PROVE PlaceInv'
    <2>1. bitfield # {} /\ bitfield \subseteq Bits
      BY <1>2 DEF LoadBitfield
    <2>2. TrailingZeros(bitfield) \in bitfield
      BY <2>1, TrailingZerosRange
    <2>3. TrailingZeros(bitfield) # BLOCK_PER_PAGE => TrailingZeros(bitfield) \in Blocks
      BY <2>1, <2>2
    <2>. QED
      BY <1>2, <2>3 DEF LoadBitfield
  <1>3. ASSUME NEW t \in Threads, FetchAnd(t) PROVE PlaceInv'
    <2>1. blk[t] \in Blocks /\ ShiftedOne(blk[t]) = blk[t]
      BY <1>3 DEF FetchAnd
    <2>2. ArenaBit \in bitfield' <=> ArenaBit \in bitfield
      BY <1>3, <2>1 DEF FetchAnd, FetchAndNot
    <2>. QED
      BY <1>3, <2>2 DEF FetchAnd
  <1>4. ASSUME NEW t \in Threads, Publish(t) PROVE PlaceInv'
    BY <1>4 DEF Publish, NewBox, NewArc
  <1>5. ASSUME NEW t \in Threads, PopPage(t) PROVE PlaceInv'
    BY <1>5 DEF PopPage
  <1>6. ASSUME NEW t \in Threads, UnmarkPage(t) PROVE PlaceInv'
    BY <1>6 DEF UnmarkPage
  <1>7. ASSUME NEW t \in Threads, NEW b \in Blocks, DropBox(t, b) PROVE PlaceInv'
    BY <1>7 DEF DropBox
  <1>8. ASSUME NEW t \in Threads, NEW b \in Blocks, DropArc(t, b) PROVE PlaceInv'
    BY <1>8 DEF DropArc
  <1>9. ASSUME NEW t \in Threads, DropValue(t) PROVE PlaceInv'
    BY <1>9 DEF DropValue
  <1>10. ASSUME NEW t \in Threads, FetchAdd(t) PROVE PlaceInv'
    <2>1. blk[t] \in Blocks /\ FetchAddBit(bitfield, blk[t]) = bitfield \cup {blk[t]}
      BY <1>10, FetchAddOfClearBit DEF FetchAdd, NoSharedBlock
    <2>2. ArenaBit \in bitfield' <=> ArenaBit \in bitfield
      BY <1>10, <2>1 DEF FetchAdd
    <2>. QED
      BY <1>10, <2>2 DEF FetchAdd
  <1>11. ASSUME NEW t \in Threads, Deallocate(t) PROVE PlaceInv'
    BY <1>11 DEF Deallocate
  <1>12. ASSUME NEW t \in Threads, LoadMark(t) PROVE PlaceInv'
    BY <1>12 DEF LoadMark
  <1>13. ASSUME NEW t \in Threads, SwapMark(t) PROVE PlaceInv'
    BY <1>13 DEF SwapMark
  <1>14. ASSUME NEW t \in Threads, PushPending(t) PROVE PlaceInv'
    <2>1. pc[t] = "pushCas"
      BY <1>14 DEF PushPending
    <2>2. (OneMover(usage) /\ arena = "open") => at = "out"
      BY <2>1 DEF MarkInv, Away
    <2>3. /\ \E label \in {"idle", "push"} : pc' = [pc EXCEPT ![t] = label]
          /\ UNCHANGED <<pageVars, handleVars, usage, arena, blk>>
          /\ \/ at \in {"out", "stranded"} /\ at' = "listed" /\ strays' = strays
             \/ at \notin {"out", "stranded"} /\ at' = at /\ strays' = strays \cup {"listed"}
             \/ at' = at /\ strays' = strays
      BY <1>14 DEF PushPending
    <2>4. at' = "retired" <=> at = "retired"
      BY <2>3
    <2>5. \A u \in Threads : (pc'[u] \in Allocating \/ pc'[u] = "retain") => pc'[u] = pc[u]
      BY <2>3
    <2>6. "held" \notin strays' /\ ((OneMover(usage) /\ arena = "open") => strays' = {})
      BY <2>2, <2>3
    <2>. QED
      BY <2>3, <2>4, <2>5, <2>6
  <1>15. ASSUME NEW t \in Threads, TouchFreed(t) PROVE PlaceInv'
    BY <1>15 DEF TouchFreed
  <1>16. ASSUME NEW t \in Threads, MaybeFreePage(t) PROVE PlaceInv'
    <2>1. ArenaBit \in FetchSubArenaBit(bitfield) <=> ArenaBit \notin bitfield
      BY FetchSubInverts
    <2>2. at = "held" /\ arena = "open" /\ OneMover(usage) /\ t \in usage.alloc
      BY <1>16 DEF MaybeFreePage
    <2>3. \A u \in Threads : pc[u] \notin Allocating
      <3>1. \A u \in Threads : pc[u] \in Allocating => u = t
        BY <2>2 DEF OneMover
      <3>. QED
        BY <1>16, <3>1 DEF MaybeFreePage, DropPage
    <2>. QED
      BY <1>16, <2>1, <2>2, <2>3 DEF MaybeFreePage, DropPage
  <1>17. ASSUME NEW t \in Threads, DropArena(t) PROVE PlaceInv'
    <2>1. ArenaBit \in FetchSubArenaBit(bitfield) <=> ArenaBit \notin bitfield
      BY FetchSubInverts
    <2>2. \A u \in Threads : pc[u] \notin Allocating
      BY <1>17 DEF DropArena
    <2>3. CASE at # "retired" /\ DropPage(t)
      BY <1>17, <2>1, <2>2, <2>3 DEF DropArena, DropPage
    <2>4. CASE at = "retired" /\ UNCHANGED <<pageVars, handleVars, usage, at, strays, pc, blk>>
      BY <1>17, <2>2, <2>4 DEF DropArena
    <2>. QED
      BY <1>17, <2>3, <2>4 DEF DropArena
  <1>18. ASSUME NEW b \in Blocks, CloneArc(b) PROVE PlaceInv'
    BY <1>18 DEF CloneArc
  <1>19. ASSUME NEW t \in Threads, Withdraw(t) PROVE PlaceInv'
    BY <1>19 DEF Withdraw
  <1>20. ASSUME NEW t \in Threads, Retain(t) PROVE PlaceInv'
    BY <1>20 DEF Retain
  <1>21. ASSUME NEW t \in Threads, Reuse(t) PROVE PlaceInv'
    BY <1>21 DEF Reuse
  <1>22. ASSUME NEW t \in Threads, LoadNextFree(t) PROVE PlaceInv'
    BY <1>22 DEF LoadNextFree
  <1>23. ASSUME NEW t \in Threads, InstallStaleNext(t) PROVE PlaceInv'
    BY <1>23 DEF InstallStaleNext
  <1>24. ASSUME NEW t \in Threads, UpgradePending(t) PROVE PlaceInv'
    BY <1>24 DEF UpgradePending
  <1>25. ASSUME NEW t \in Threads, LinkPending(t) PROVE PlaceInv'
    BY <1>25 DEF LinkPending
  <1>26. CASE UNCHANGED vars
    BY <1>26
  <1>. QED
    BY <1>1, <1>2, <1>3, <1>4, <1>5, <1>6, <1>7, <1>8, <1>9, <1>10,
       <1>11, <1>12, <1>13, <1>14, <1>15, <1>16, <1>17, <1>18, <1>19, <1>20,
       <1>21, <1>22, <1>23, <1>24, <1>25, <1>26
       DEF Next, Continue, Start

\* The swap on in_free_list lets one thread through.
LEMMA MarkInvStep ==
  BlockInv /\ PlaceInv /\ MarkInv /\ [Next]_vars => MarkInv'
PROOF
  <1> SUFFICES ASSUME BlockInv, PlaceInv, MarkInv, [Next]_vars PROVE MarkInv'
    OBVIOUS
  <1> USE BlocksAndArenaBit
          DEF PlaceInv, MarkInv, Away,
              BlockInv, TypeOK, Holds, Handled, Goto, Labels, Touching, Allocating,
              Pushing, Places, Listed, Held,
              vars, pageVars, handleVars, arenaVars
  <1>1. ASSUME NEW t \in Threads, FindPage(t) PROVE MarkInv'
    BY <1>1 DEF FindPage
  <1>2. ASSUME NEW t \in Threads, LoadBitfield(t) PROVE MarkInv'
    BY <1>2 DEF LoadBitfield
  <1>3. ASSUME NEW t \in Threads, FetchAnd(t) PROVE MarkInv'
    BY <1>3 DEF FetchAnd
  <1>4. ASSUME NEW t \in Threads, Publish(t) PROVE MarkInv'
    BY <1>4 DEF Publish, NewBox, NewArc
  <1>5. ASSUME NEW t \in Threads, PopPage(t) PROVE MarkInv'
    BY <1>5 DEF PopPage
  <1>6. ASSUME NEW t \in Threads, UnmarkPage(t) PROVE MarkInv'
    BY <1>6 DEF UnmarkPage
  <1>7. ASSUME NEW t \in Threads, NEW b \in Blocks, DropBox(t, b) PROVE MarkInv'
    BY <1>7 DEF DropBox
  <1>8. ASSUME NEW t \in Threads, NEW b \in Blocks, DropArc(t, b) PROVE MarkInv'
    BY <1>8 DEF DropArc
  <1>9. ASSUME NEW t \in Threads, DropValue(t) PROVE MarkInv'
    BY <1>9 DEF DropValue
  <1>10. ASSUME NEW t \in Threads, FetchAdd(t) PROVE MarkInv'
    BY <1>10 DEF FetchAdd
  <1>11. ASSUME NEW t \in Threads, Deallocate(t) PROVE MarkInv'
    BY <1>11 DEF Deallocate
  <1>12. ASSUME NEW t \in Threads, LoadMark(t) PROVE MarkInv'
    BY <1>12 DEF LoadMark
  <1>13. ASSUME NEW t \in Threads, SwapMark(t) PROVE MarkInv'
    BY <1>13 DEF SwapMark
  <1>14. ASSUME NEW t \in Threads, PushPending(t) PROVE MarkInv'
    BY <1>14 DEF PushPending
  <1>15. ASSUME NEW t \in Threads, TouchFreed(t) PROVE MarkInv'
    BY <1>15 DEF TouchFreed
  <1>16. ASSUME NEW t \in Threads, MaybeFreePage(t) PROVE MarkInv'
    BY <1>16 DEF MaybeFreePage, DropPage
  <1>17. ASSUME NEW t \in Threads, DropArena(t) PROVE MarkInv'
    BY <1>17 DEF DropArena, DropPage
  <1>18. ASSUME NEW b \in Blocks, CloneArc(b) PROVE MarkInv'
    BY <1>18 DEF CloneArc
  <1>19. ASSUME NEW t \in Threads, Withdraw(t) PROVE MarkInv'
    BY <1>19 DEF Withdraw
  <1>20. ASSUME NEW t \in Threads, Retain(t) PROVE MarkInv'
    BY <1>20 DEF Retain
  <1>21. ASSUME NEW t \in Threads, Reuse(t) PROVE MarkInv'
    BY <1>21 DEF Reuse
  <1>22. ASSUME NEW t \in Threads, LoadNextFree(t) PROVE MarkInv'
    BY <1>22 DEF LoadNextFree
  <1>23. ASSUME NEW t \in Threads, InstallStaleNext(t) PROVE MarkInv'
    BY <1>23 DEF InstallStaleNext
  <1>24. ASSUME NEW t \in Threads, UpgradePending(t) PROVE MarkInv'
    BY <1>24 DEF UpgradePending
  <1>25. ASSUME NEW t \in Threads, LinkPending(t) PROVE MarkInv'
    BY <1>25 DEF LinkPending
  <1>26. CASE UNCHANGED vars
    BY <1>26
  <1>. QED
    BY <1>1, <1>2, <1>3, <1>4, <1>5, <1>6, <1>7, <1>8, <1>9, <1>10,
       <1>11, <1>12, <1>13, <1>14, <1>15, <1>16, <1>17, <1>18, <1>19, <1>20,
       <1>21, <1>22, <1>23, <1>24, <1>25, <1>26
       DEF Next, Continue, Start

\* The word of a page that is being freed does not change any more.
LEMMA FreeInvStep ==
  BlockInv /\ PlaceInv /\ FreeInv /\ [Next]_vars => FreeInv'
PROOF
  <1> SUFFICES ASSUME BlockInv, PlaceInv, FreeInv, [Next]_vars PROVE FreeInv'
    OBVIOUS
  <1> USE BlocksAndArenaBit
          DEF PlaceInv, FreeInv, FreedOnce, NoSharedBlock,
              BlockInv, TypeOK, Holds, Handled, Goto, Labels, Touching, Allocating,
              Pushing, Places, Listed, Held,
              vars, pageVars, handleVars, arenaVars
  <1>0. ASSUME NEW t \in Threads, at # "retired", DropPage(t) PROVE FreeInv'
    <2>1. /\ FetchSubArenaBit(bitfield) \subseteq Bits
          /\ \A b \in Blocks : b \in FetchSubArenaBit(bitfield) <=> b \in bitfield
          /\ ArenaBit \notin FetchSubArenaBit(bitfield)
      BY <1>0, FetchSubInverts
    <2>2. ~ freed /\ \A u \in Threads : pc[u] # "dealloc"
      BY <1>0
    <2>3. Bits \ bitfield = {} => bitfield' = Blocks
      BY <1>0, FetchSubOfFullWord DEF DropPage
    <2>. QED
      BY <1>0, <2>2, <2>3 DEF DropPage
  <1>1. ASSUME NEW t \in Threads, FindPage(t) PROVE FreeInv'
    BY <1>1 DEF FindPage
  <1>2. ASSUME NEW t \in Threads, LoadBitfield(t) PROVE FreeInv'
    BY <1>2 DEF LoadBitfield
  <1>3. ASSUME NEW t \in Threads, FetchAnd(t) PROVE FreeInv'
    BY <1>3 DEF FetchAnd
  <1>4. ASSUME NEW t \in Threads, Publish(t) PROVE FreeInv'
    BY <1>4 DEF Publish, NewBox, NewArc
  <1>5. ASSUME NEW t \in Threads, PopPage(t) PROVE FreeInv'
    BY <1>5 DEF PopPage
  <1>6. ASSUME NEW t \in Threads, UnmarkPage(t) PROVE FreeInv'
    BY <1>6 DEF UnmarkPage
  <1>7. ASSUME NEW t \in Threads, NEW b \in Blocks, DropBox(t, b) PROVE FreeInv'
    BY <1>7 DEF DropBox
  <1>8. ASSUME NEW t \in Threads, NEW b \in Blocks, DropArc(t, b) PROVE FreeInv'
    BY <1>8 DEF DropArc
  <1>9. ASSUME NEW t \in Threads, DropValue(t) PROVE FreeInv'
    BY <1>9 DEF DropValue
  <1>10. ASSUME NEW t \in Threads, FetchAdd(t) PROVE FreeInv'
    <2>1. /\ blk[t] \in Blocks /\ blk[t] \notin bitfield
          /\ FetchAddBit(bitfield, blk[t]) = bitfield \cup {blk[t]}
      BY <1>10, FetchAddOfClearBit DEF FetchAdd
    <2>2. ~ freed /\ \A u \in Threads : pc[u] # "dealloc"
      BY <1>10, <2>1 DEF FetchAdd
    <2>3. Bits \ (bitfield \cup {blk[t]}) = {ArenaBit} => bitfield \cup {blk[t]} = Blocks
      <3>1. bitfield \subseteq Bits /\ blk[t] \in Bits
        BY <2>1
      <3>2. bitfield \cup {blk[t]} \subseteq Bits
        BY ONLY <3>1
      <3>. QED
        BY ONLY <3>2, OnlyArenaBitClear
    <2>. QED
      BY <1>10, <2>1, <2>2, <2>3 DEF FetchAdd
  <1>11. ASSUME NEW t \in Threads, Deallocate(t) PROVE FreeInv'
    BY <1>11 DEF Deallocate
  <1>12. ASSUME NEW t \in Threads, LoadMark(t) PROVE FreeInv'
    BY <1>12 DEF LoadMark
  <1>13. ASSUME NEW t \in Threads, SwapMark(t) PROVE FreeInv'
    BY <1>13 DEF SwapMark
  <1>14. ASSUME NEW t \in Threads, PushPending(t) PROVE FreeInv'
    BY <1>14 DEF PushPending
  <1>15. ASSUME NEW t \in Threads, TouchFreed(t) PROVE FreeInv'
    BY <1>15 DEF TouchFreed
  <1>16. ASSUME NEW t \in Threads, MaybeFreePage(t) PROVE FreeInv'
    BY <1>16, <1>0 DEF MaybeFreePage
  <1>17. ASSUME NEW t \in Threads, DropArena(t) PROVE FreeInv'
    <2>1. CASE at # "retired" /\ DropPage(t)
      BY <2>1, <1>0
    <2>2. CASE at = "retired" /\ UNCHANGED <<pageVars, handleVars, usage, at, strays, pc, blk>>
      BY <1>17, <2>2 DEF DropArena
    <2>. QED
      BY <1>17, <2>1, <2>2 DEF DropArena
  <1>18. ASSUME NEW b \in Blocks, CloneArc(b) PROVE FreeInv'
    BY <1>18 DEF CloneArc
  <1>19. ASSUME NEW t \in Threads, Withdraw(t) PROVE FreeInv'
    BY <1>19 DEF Withdraw
  <1>20. ASSUME NEW t \in Threads, Retain(t) PROVE FreeInv'
    BY <1>20 DEF Retain
  <1>21. ASSUME NEW t \in Threads, Reuse(t) PROVE FreeInv'
    BY <1>21 DEF Reuse
  <1>22. ASSUME NEW t \in Threads, LoadNextFree(t) PROVE FreeInv'
    BY <1>22 DEF LoadNextFree
  <1>23. ASSUME NEW t \in Threads, InstallStaleNext(t) PROVE FreeInv'
    BY <1>23 DEF InstallStaleNext
  <1>24. ASSUME NEW t \in Threads, UpgradePending(t) PROVE FreeInv'
    BY <1>24 DEF UpgradePending
  <1>25. ASSUME NEW t \in Threads, LinkPending(t) PROVE FreeInv'
    BY <1>25 DEF LinkPending
  <1>26. CASE UNCHANGED vars
    BY <1>26
  <1>. QED
    BY <1>1, <1>2, <1>3, <1>4, <1>5, <1>6, <1>7, <1>8, <1>9, <1>10,
       <1>11, <1>12, <1>13, <1>14, <1>15, <1>16, <1>17, <1>18, <1>19, <1>20,
       <1>21, <1>22, <1>23, <1>24, <1>25, <1>26
       DEF Next, Continue, Start

\* A used block passes from hand to hand until its bit is set again.
LEMMA NoLostBlockStep ==
  BlockInv /\ PlaceInv /\ FreeInv /\ NoLostBlock /\ [Next]_vars => NoLostBlock'
PROOF
  <1> SUFFICES ASSUME BlockInv, PlaceInv, FreeInv, NoLostBlock, [Next]_vars PROVE NoLostBlock'
    OBVIOUS
  <1> USE BlocksAndArenaBit
          DEF NoLostBlock, NoSharedBlock, CounterCountsHandles,
              BlockInv, TypeOK, Holds, Handled, Goto, Labels, Touching, Allocating,
              Pushing, Places, Listed, Held,
              vars, pageVars, handleVars, arenaVars
  <1>0. ASSUME NEW t \in Threads, DropPage(t) PROVE NoLostBlock'
    <2>1. \A b \in Blocks : b \in FetchSubArenaBit(bitfield) <=> b \in bitfield
      BY FetchSubInverts
    <2>. QED
      BY <1>0, <2>1 DEF DropPage
  <1>1. ASSUME NEW t \in Threads, FindPage(t) PROVE NoLostBlock'
    BY <1>1 DEF FindPage
  <1>2. ASSUME NEW t \in Threads, LoadBitfield(t) PROVE NoLostBlock'
    BY <1>2 DEF LoadBitfield
  <1>3. ASSUME NEW t \in Threads, FetchAnd(t) PROVE NoLostBlock'
    <2>1. blk[t] \in Blocks /\ bitfield' = bitfield \ {blk[t]}
      BY <1>3 DEF FetchAnd, FetchAndNot, PlaceInv
    <2>2. CASE blk[t] \in bitfield
      <3>1. pc' = [pc EXCEPT ![t] = "publish"] /\ UNCHANGED <<handleVars, blk>>
        BY <1>3, <2>1, <2>2 DEF FetchAnd
      <3>2. ASSUME NEW b \in Blocks \ bitfield'
            PROVE  Handled(b)' \/ \E u \in Threads : Holds(u, b)'
        <4>1. CASE b = blk[t]
          BY <3>1, <4>1
        <4>2. CASE b # blk[t]
          <5>1. Handled(b) \/ \E u \in Threads \ {t} : Holds(u, b)
            BY <1>3, <2>1, <3>2, <4>2 DEF FetchAnd
          <5>. QED
            BY <3>1, <5>1
        <4>. QED
          BY <4>1, <4>2
      <3>. QED
        BY <3>2
    <2>3. CASE blk[t] \notin bitfield
      BY <1>3, <2>1, <2>3 DEF FetchAnd
    <2>. QED
      BY <2>2, <2>3
  <1>4. ASSUME NEW t \in Threads, Publish(t) PROVE NoLostBlock'
    <2>1. /\ blk[t] \in Blocks /\ counter[blk[t]] = 0
          /\ pc' = [pc EXCEPT ![t] = "idle"]
          /\ UNCHANGED <<bitfield, blk>>
      BY <1>4 DEF Publish
    <2>2. \A b \in Blocks : Handled(b)' <=> Handled(b) \/ b = blk[t]
      BY <1>4, <2>1 DEF Publish, NewBox, NewArc
    <2>3. \A b \in Blocks, u \in Threads : Holds(u, b) => Holds(u, b)' \/ b = blk[t]
      BY <1>4, <2>1 DEF Publish
    <2>4. bitfield' = bitfield
      BY <2>1
    <2>. QED
      BY ONLY <2>2, <2>3, <2>4, NoLostBlock DEF NoLostBlock
  <1>5. ASSUME NEW t \in Threads, PopPage(t) PROVE NoLostBlock'
    BY <1>5 DEF PopPage
  <1>6. ASSUME NEW t \in Threads, UnmarkPage(t) PROVE NoLostBlock'
    BY <1>6 DEF UnmarkPage
  <1>7. ASSUME NEW t \in Threads, NEW b \in Blocks, DropBox(t, b) PROVE NoLostBlock'
    BY <1>7 DEF DropBox
  <1>8. ASSUME NEW t \in Threads, NEW b \in Blocks, DropArc(t, b) PROVE NoLostBlock'
    BY <1>8 DEF DropArc
  <1>9. ASSUME NEW t \in Threads, DropValue(t) PROVE NoLostBlock'
    BY <1>9 DEF DropValue
  <1>10. ASSUME NEW t \in Threads, FetchAdd(t) PROVE NoLostBlock'
    <2>1. /\ blk[t] \in Blocks /\ blk[t] \notin bitfield
          /\ bitfield \subseteq Bits /\ blk[t] \in Bits
      BY <1>10 DEF FetchAdd
    <2>2. FetchAddBit(bitfield, blk[t]) = bitfield \cup {blk[t]}
      BY ONLY <2>1, FetchAddOfClearBit
    <2>3. \A u \in Threads \ {t} : pc'[u] = pc[u] /\ blk'[u] = blk[u]
      BY <1>10 DEF FetchAdd
    <2>4. ASSUME NEW b \in Blocks \ bitfield'
          PROVE  Handled(b)' \/ \E u \in Threads : Holds(u, b)'
      <3>1. b \notin bitfield /\ b # blk[t]
        BY <1>10, <2>2, <2>4 DEF FetchAdd
      <3>. QED
        BY <1>10, <2>3, <3>1 DEF FetchAdd
    <2>. QED
      BY <2>4
  <1>11. ASSUME NEW t \in Threads, Deallocate(t) PROVE NoLostBlock'
    BY <1>11 DEF Deallocate
  <1>12. ASSUME NEW t \in Threads, LoadMark(t) PROVE NoLostBlock'
    BY <1>12 DEF LoadMark
  <1>13. ASSUME NEW t \in Threads, SwapMark(t) PROVE NoLostBlock'
    BY <1>13 DEF SwapMark
  <1>14. ASSUME NEW t \in Threads, PushPending(t) PROVE NoLostBlock'
    BY <1>14 DEF PushPending
  <1>15. ASSUME NEW t \in Threads, TouchFreed(t) PROVE NoLostBlock'
    BY <1>15 DEF TouchFreed, FreeInv
  <1>16. ASSUME NEW t \in Threads, MaybeFreePage(t) PROVE NoLostBlock'
    BY <1>16, <1>0 DEF MaybeFreePage
  <1>17. ASSUME NEW t \in Threads, DropArena(t) PROVE NoLostBlock'
    <2>1. CASE DropPage(t)
      BY <2>1, <1>0
    <2>2. CASE UNCHANGED <<pageVars, handleVars, usage, at, strays, pc, blk>>
      BY <1>17, <2>2 DEF DropArena
    <2>. QED
      BY <1>17, <2>1, <2>2 DEF DropArena
  <1>18. ASSUME NEW b \in Blocks, CloneArc(b) PROVE NoLostBlock'
    BY <1>18 DEF CloneArc
  <1>19. ASSUME NEW t \in Threads, Withdraw(t) PROVE NoLostBlock'
    BY <1>19 DEF Withdraw
  <1>20. ASSUME NEW t \in Threads, Retain(t) PROVE NoLostBlock'
    BY <1>20 DEF Retain
  <1>21. ASSUME NEW t \in Threads, Reuse(t) PROVE NoLostBlock'
    BY <1>21 DEF Reuse
  <1>22. ASSUME NEW t \in Threads, LoadNextFree(t) PROVE NoLostBlock'
    BY <1>22 DEF LoadNextFree
  <1>23. ASSUME NEW t \in Threads, InstallStaleNext(t) PROVE NoLostBlock'
    BY <1>23 DEF InstallStaleNext
  <1>24. ASSUME NEW t \in Threads, UpgradePending(t) PROVE NoLostBlock'
    BY <1>24 DEF UpgradePending
  <1>25. ASSUME NEW t \in Threads, LinkPending(t) PROVE NoLostBlock'
    BY <1>25 DEF LinkPending
  <1>26. CASE UNCHANGED vars
    BY <1>26
  <1>. QED
    BY <1>1, <1>2, <1>3, <1>4, <1>5, <1>6, <1>7, <1>8, <1>9, <1>10,
       <1>11, <1>12, <1>13, <1>14, <1>15, <1>16, <1>17, <1>18, <1>19, <1>20,
       <1>21, <1>22, <1>23, <1>24, <1>25, <1>26
       DEF Next, Continue, Start

\* The value is written before the handle exists and dropped after the last one.
LEMMA ValueLivesStep ==
  BlockInv /\ FreeInv /\ ValueLivesWithHandles /\ [Next]_vars => ValueLivesWithHandles'
PROOF
  <1> SUFFICES ASSUME BlockInv, FreeInv, ValueLivesWithHandles, [Next]_vars
               PROVE  ValueLivesWithHandles'
    OBVIOUS
  <1> USE BlocksAndArenaBit
          DEF ValueLivesWithHandles, NoSharedBlock, CounterCountsHandles,
              BlockInv, TypeOK, Holds, Handled, Goto, Labels, Touching, Allocating,
              Pushing, Places, Listed, Held,
              vars, pageVars, handleVars, arenaVars
  <1>1. ASSUME NEW t \in Threads, FindPage(t) PROVE ValueLivesWithHandles'
    BY <1>1 DEF FindPage
  <1>2. ASSUME NEW t \in Threads, LoadBitfield(t) PROVE ValueLivesWithHandles'
    BY <1>2 DEF LoadBitfield
  <1>3. ASSUME NEW t \in Threads, FetchAnd(t) PROVE ValueLivesWithHandles'
    BY <1>3 DEF FetchAnd
  <1>4. ASSUME NEW t \in Threads, Publish(t) PROVE ValueLivesWithHandles'
    <2>1. /\ blk[t] \in Blocks /\ counter[blk[t]] = 0 /\ ~ Handled(blk[t])
          /\ live' = live \cup {blk[t]}
          /\ pc' = [pc EXCEPT ![t] = "idle"]
      BY <1>4 DEF Publish, NewBox, NewArc
    <2>2. \A b \in Blocks : Handled(b)' <=> Handled(b) \/ b = blk[t]
      BY <1>4, <2>1 DEF Publish, NewBox, NewArc
    <2>3. \A b \in Blocks :
            (\E u \in Threads : pc'[u] = "value" /\ blk'[u] = b)
              <=> (\E u \in Threads : pc[u] = "value" /\ blk[u] = b)
      BY <1>4, <2>1 DEF Publish, NewBox, NewArc
    <2>4. \A b \in Blocks :
            b \in live' <=> Handled(b)' \/ \E u \in Threads : pc'[u] = "value" /\ blk'[u] = b
      BY <2>1, <2>2, <2>3
    <2>5. live' \subseteq Blocks
      BY <2>1
    <2>. QED
      BY <2>4, <2>5
  <1>5. ASSUME NEW t \in Threads, PopPage(t) PROVE ValueLivesWithHandles'
    BY <1>5 DEF PopPage
  <1>6. ASSUME NEW t \in Threads, UnmarkPage(t) PROVE ValueLivesWithHandles'
    BY <1>6 DEF UnmarkPage
  <1>7. ASSUME NEW t \in Threads, NEW b \in Blocks, DropBox(t, b) PROVE ValueLivesWithHandles'
    BY <1>7 DEF DropBox
  <1>8. ASSUME NEW t \in Threads, NEW b \in Blocks, DropArc(t, b) PROVE ValueLivesWithHandles'
    BY <1>8 DEF DropArc
  <1>9. ASSUME NEW t \in Threads, DropValue(t) PROVE ValueLivesWithHandles'
    BY <1>9 DEF DropValue
  <1>10. ASSUME NEW t \in Threads, FetchAdd(t) PROVE ValueLivesWithHandles'
    BY <1>10 DEF FetchAdd
  <1>11. ASSUME NEW t \in Threads, Deallocate(t) PROVE ValueLivesWithHandles'
    BY <1>11 DEF Deallocate
  <1>12. ASSUME NEW t \in Threads, LoadMark(t) PROVE ValueLivesWithHandles'
    BY <1>12 DEF LoadMark
  <1>13. ASSUME NEW t \in Threads, SwapMark(t) PROVE ValueLivesWithHandles'
    BY <1>13 DEF SwapMark
  <1>14. ASSUME NEW t \in Threads, PushPending(t) PROVE ValueLivesWithHandles'
    BY <1>14 DEF PushPending
  <1>15. ASSUME NEW t \in Threads, TouchFreed(t) PROVE ValueLivesWithHandles'
    <2>1. pc[t] # "value"
      BY <1>15 DEF TouchFreed, FreeInv
    <2>. QED
      BY <1>15, <2>1 DEF TouchFreed
  <1>16. ASSUME NEW t \in Threads, MaybeFreePage(t) PROVE ValueLivesWithHandles'
    BY <1>16 DEF MaybeFreePage, DropPage
  <1>17. ASSUME NEW t \in Threads, DropArena(t) PROVE ValueLivesWithHandles'
    BY <1>17 DEF DropArena, DropPage
  <1>18. ASSUME NEW b \in Blocks, CloneArc(b) PROVE ValueLivesWithHandles'
    BY <1>18 DEF CloneArc
  <1>19. ASSUME NEW t \in Threads, Withdraw(t) PROVE ValueLivesWithHandles'
    BY <1>19 DEF Withdraw
  <1>20. ASSUME NEW t \in Threads, Retain(t) PROVE ValueLivesWithHandles'
    BY <1>20 DEF Retain
  <1>21. ASSUME NEW t \in Threads, Reuse(t) PROVE ValueLivesWithHandles'
    BY <1>21 DEF Reuse
  <1>22. ASSUME NEW t \in Threads, LoadNextFree(t) PROVE ValueLivesWithHandles'
    BY <1>22 DEF LoadNextFree
  <1>23. ASSUME NEW t \in Threads, InstallStaleNext(t) PROVE ValueLivesWithHandles'
    BY <1>23 DEF InstallStaleNext
  <1>24. ASSUME NEW t \in Threads, UpgradePending(t) PROVE ValueLivesWithHandles'
    BY <1>24 DEF UpgradePending
  <1>25. ASSUME NEW t \in Threads, LinkPending(t) PROVE ValueLivesWithHandles'
    BY <1>25 DEF LinkPending
  <1>26. CASE UNCHANGED vars
    BY <1>26
  <1>. QED
    BY <1>1, <1>2, <1>3, <1>4, <1>5, <1>6, <1>7, <1>8, <1>9, <1>10,
       <1>11, <1>12, <1>13, <1>14, <1>15, <1>16, <1>17, <1>18, <1>19, <1>20,
       <1>21, <1>22, <1>23, <1>24, <1>25, <1>26
       DEF Next, Continue, Start

\* A new page is referenced by its arena and by nothing else.
LEMMA LifeInvInit ==
  ASSUME OrderlyUses, Init
  PROVE  LifeInv
PROOF
  <1>1. BlockInv
    BY BlockInvInit
  <1>2. PlaceInv /\ MarkInv /\ FreeInv
    BY BlocksAndArenaBit
    DEF OrderlyUses, Init, PlaceInv, MarkInv, FreeInv, FreedOnce, Allocating, Pushing
  <1>3. NoLostBlock
    BY BlocksAndArenaBit DEF Init, NoLostBlock
  <1>4. ValueLivesWithHandles
    BY DEF Init, ValueLivesWithHandles, Handled
  <1>. QED
    BY <1>1, <1>2, <1>3, <1>4 DEF LifeInv

\* Where the uses are orderly every operation preserves LifeInv: the lemmas
\* above, put together.
LEMMA LifeInvAlways ==
  ASSUME OrderlyUses
  PROVE  Spec => []LifeInv
PROOF
  <1>1. Init => LifeInv
    BY LifeInvInit
  <1>2. LifeInv /\ [Next]_vars => LifeInv'
    <2> SUFFICES ASSUME LifeInv, [Next]_vars PROVE LifeInv'
      OBVIOUS
    <2>1. [Next]_vars
      OBVIOUS
    <2>2. BlockInv'
      BY <2>1, BlockInvStep DEF LifeInv
    <2>3. PlaceInv' /\ MarkInv' /\ FreeInv'
      BY PlaceInvStep, MarkInvStep, FreeInvStep DEF LifeInv
    <2>4. NoLostBlock' /\ ValueLivesWithHandles'
      BY NoLostBlockStep, ValueLivesStep DEF LifeInv
    <2>. QED
      BY <2>2, <2>3, <2>4 DEF LifeInv
  <1>. QED
    BY <1>1, <1>2, PTL DEF Spec

\* Nobody who holds a block, a handle or a borrow of the arena ever finds the
\* page freed, for any number of blocks, threads and clones.
THEOREM ReferencedPagesSurvive ==
  ASSUME OrderlyUses
  PROVE  Spec => []ReferencedPageSurvives
PROOF
  <1>1. LifeInv => ReferencedPageSurvives
    <2> SUFFICES ASSUME LifeInv, freed PROVE
          /\ at = "retired"
          /\ arena = "open" => strays = {}
          /\ \A b \in Blocks : ~Handled(b)
          /\ \A t \in Threads : pc[t] \notin Allocating \cup {"value", "add"}
      BY DEF ReferencedPageSurvives
    <2>1. bitfield = Blocks
      BY DEF LifeInv, FreeInv
    <2>2. at = "retired"
      BY <2>1, BlocksAndArenaBit DEF LifeInv, PlaceInv
    <2>3. \A b \in Blocks : ~Handled(b)
      BY <2>1 DEF LifeInv, BlockInv, NoSharedBlock
    <2>4. \A t \in Threads : pc[t] \notin {"publish", "value", "add"}
      BY <2>1 DEF LifeInv, BlockInv, NoSharedBlock, Holds
    <2>5. \A t \in Threads : pc[t] \notin Allocating
      BY <2>2 DEF LifeInv, PlaceInv
    <2>6. arena = "open" => strays = {}
      BY <2>2 DEF LifeInv, PlaceInv
    <2>. QED
      BY <2>2, <2>3, <2>4, <2>5, <2>6
  <1>. QED
    BY <1>1, LifeInvAlways, PTL

\* drop_block and drop_page never both free the page, nor two drop_blocks.
THEOREM PageFreedOnce ==
  ASSUME OrderlyUses
  PROVE  Spec => []FreedOnce
PROOF
  <1>1. LifeInv => FreedOnce
    BY DEF LifeInv, FreeInv
  <1>. QED
    BY <1>1, LifeInvAlways, PTL

\* A block that is marked used is always in somebody's hands.
THEOREM BlocksAreNotLost ==
  ASSUME OrderlyUses
  PROVE  Spec => []NoLostBlock
PROOF
  <1>1. LifeInv => NoLostBlock
    BY DEF LifeInv
  <1>. QED
    BY <1>1, LifeInvAlways, PTL

\* Values are dropped exactly once, when their last handle is.
THEOREM ValuesLiveWithHandles ==
  ASSUME OrderlyUses
  PROVE  Spec => []ValueLivesWithHandles
PROOF
  <1>1. LifeInv => ValueLivesWithHandles
    BY DEF LifeInv
  <1>. QED
    BY <1>1, LifeInvAlways, PTL

\* Two threads never push the page, nor does one while it is in a list.
THEOREM PagePushedOnlyWhenOut ==
  ASSUME OrderlyUses
  PROVE  Spec => []PushedOnlyWhenOut
PROOF
  <1>1. LifeInv => PushedOnlyWhenOut
    BY DEF LifeInv, MarkInv, Away, PushedOnlyWhenOut
  <1>. QED
    BY <1>1, LifeInvAlways, PTL

-----------------------------------------------------------------------------
(* The page implements PageLife.                                           *)

\* One step of the word, seen as PageLife sees it: nothing happened to the
\* sharers, a block was taken, or a block or the arena left.
LEMMA StepOfTheWord ==
  LifeInv /\ [Next]_vars =>
    \/ bitfield' = bitfield /\ freed' = freed
    \/ \E b \in Blocks : /\ b \in bitfield /\ ArenaBit \in bitfield
                         /\ bitfield' = bitfield \ {b} /\ freed' = freed
    \/ \E b \in Blocks : b \notin bitfield /\ bitfield' = bitfield \cup {b} /\ freed' = freed
    \/ ArenaBit \in bitfield /\ bitfield' = bitfield \ {ArenaBit} /\ freed' = freed
    \/ bitfield = Blocks /\ ~freed /\ freed' /\ bitfield' = bitfield
PROOF
  <1> DEFINE Same == bitfield' = bitfield /\ freed' = freed
             Taken == \E b \in Blocks : /\ b \in bitfield /\ ArenaBit \in bitfield
                                       /\ bitfield' = bitfield \ {b} /\ freed' = freed
             Given == \E b \in Blocks : /\ b \notin bitfield
                                       /\ bitfield' = bitfield \cup {b} /\ freed' = freed
             Retired == /\ ArenaBit \in bitfield
                        /\ bitfield' = bitfield \ {ArenaBit} /\ freed' = freed
             Freed == bitfield = Blocks /\ ~freed /\ freed' /\ bitfield' = bitfield
  <1> SUFFICES ASSUME LifeInv, [Next]_vars
               PROVE  Same \/ Taken \/ Given \/ Retired \/ Freed
    OBVIOUS
  <1> HIDE DEF Same, Taken, Given, Retired, Freed
  <1>1. ASSUME NEW t \in Threads, FetchAnd(t) PROVE Same \/ Taken
    <2>1. ArenaBit \in bitfield /\ blk[t] \in Blocks /\ ShiftedOne(blk[t]) = blk[t]
      BY <1>1, BlocksAndArenaBit DEF FetchAnd, LifeInv, PlaceInv, Allocating
    <2>2. bitfield' = bitfield \ {blk[t]} /\ freed' = freed
      BY <1>1, <2>1 DEF FetchAnd, FetchAndNot
    <2>3. CASE blk[t] \in bitfield
      BY <2>1, <2>2, <2>3 DEF Taken
    <2>4. CASE blk[t] \notin bitfield
      <3>1. bitfield \ {blk[t]} = bitfield
        BY ONLY <2>4
      <3>. QED
        BY <2>2, <3>1 DEF Same
    <2>. QED
      BY <2>3, <2>4
  <1>2. ASSUME NEW t \in Threads, FetchAdd(t) PROVE Given
    <2>1. /\ blk[t] \in Blocks /\ blk[t] \notin bitfield
          /\ bitfield \subseteq Bits /\ blk[t] \in Bits
      BY <1>2, BlocksAndArenaBit DEF FetchAdd, LifeInv, BlockInv, TypeOK, NoSharedBlock, Holds
    <2>2. FetchAddBit(bitfield, blk[t]) = bitfield \cup {blk[t]}
      BY ONLY <2>1, FetchAddOfClearBit
    <2>. QED
      BY <1>2, <2>1, <2>2 DEF FetchAdd, Given
  <1>3. ASSUME NEW t \in Threads, at # "retired", DropPage(t) PROVE Retired
    BY <1>3 DEF DropPage, FetchSubArenaBit, LifeInv, PlaceInv, Retired
  <1>4. ASSUME NEW t \in Threads, Deallocate(t) PROVE Freed
    BY <1>4 DEF Deallocate, LifeInv, FreeInv, FreedOnce, Freed
  <1>5. ASSUME NEW t \in Threads, MaybeFreePage(t) PROVE Retired
    BY <1>5, <1>3 DEF MaybeFreePage, Held, LifeInv, PlaceInv
  <1>6. ASSUME NEW t \in Threads, DropArena(t) PROVE Same \/ Retired
    BY <1>6, <1>3 DEF DropArena, Held, LifeInv, PlaceInv, Same, pageVars
  <1>7. ASSUME NEW t \in Threads,
               \/ FindPage(t) \/ LoadBitfield(t) \/ Publish(t) \/ PopPage(t)
               \/ UnmarkPage(t) \/ DropValue(t) \/ LoadMark(t) \/ SwapMark(t)
               \/ PushPending(t) \/ TouchFreed(t) \/ LoadNextFree(t)
               \/ InstallStaleNext(t) \/ UpgradePending(t) \/ LinkPending(t)
               \/ Withdraw(t) \/ Retain(t) \/ Reuse(t)
               \/ \E b \in Blocks : DropBox(t, b) \/ DropArc(t, b)
        PROVE  Same
    BY <1>7 DEF FindPage, LoadBitfield, Publish, NewBox, NewArc, PopPage, UnmarkPage,
                DropValue, LoadMark, SwapMark, PushPending, TouchFreed, LoadNextFree,
                InstallStaleNext, UpgradePending, LinkPending, Withdraw, Retain, Reuse,
                DropBox, DropArc,
                pageVars, Same
  <1>8. ASSUME \/ \E b \in Blocks : CloneArc(b)
               \/ UNCHANGED vars
        PROVE  Same
    BY <1>8 DEF CloneArc, vars, pageVars, Same
  <1>. QED
    BY <1>1, <1>2, <1>4, <1>5, <1>6, <1>7, <1>8 DEF Next, Continue, Start

\* After drop_page cleared the arena's bit, blocks are only given back.
THEOREM RetiredPagesDrain ==
  ASSUME OrderlyUses
  PROVE  Spec => RetiredPageDrains
PROOF
  <1>1. LifeInv /\ [Next]_vars
          => [ArenaBit \notin bitfield => Blocks \cap bitfield \subseteq bitfield']_vars
    BY StepOfTheWord
  <1>. QED
    BY <1>1, LifeInvAlways, PTL DEF Spec, RetiredPageDrains

\* Every behaviour of the page is, step by step, one of PageLife (that the
\* page is freed in the end, the fairness part, is model-checked).
THEOREM ImplementsPageLifeSafety ==
  ASSUME OrderlyUses
  PROVE  Spec => Life!Init /\ [][Life!Next]_(Life!vars)
PROOF
  <1> DEFINE sharers == (Blocks \ bitfield) \cup (bitfield \cap {ArenaBit})
  <1>1. Init => Life!Init
    BY BlocksAndArenaBit DEF Init, Life!Init
  <1>2. LifeInv /\ [Next]_vars => [Life!Next]_(Life!vars)
    <2> SUFFICES ASSUME LifeInv, [Next]_vars
                 PROVE  [Life!Next]_(Life!vars)
      OBVIOUS
    <2>1. CASE bitfield' = bitfield /\ freed' = freed
      BY <2>1 DEF Life!vars
    <2>2. ASSUME NEW b \in Blocks, b \in bitfield, ArenaBit \in bitfield,
                 bitfield' = bitfield \ {b}, freed' = freed
          PROVE  Life!Take(b)
      BY <2>2, BlocksAndArenaBit DEF Life!Take
    <2>3. ASSUME NEW b \in Blocks, b \notin bitfield,
                 bitfield' = bitfield \cup {b}, freed' = freed
          PROVE  Life!Leave(b)
      BY <2>3, BlocksAndArenaBit DEF Life!Leave
    <2>4. CASE ArenaBit \in bitfield /\ bitfield' = bitfield \ {ArenaBit} /\ freed' = freed
      <3>1. Life!Leave(ArenaBit)
        BY <2>4, BlocksAndArenaBit DEF Life!Leave
      <3>. QED
        BY <3>1 DEF Life!Next
    <2>5. CASE bitfield = Blocks /\ ~freed /\ freed' /\ bitfield' = bitfield
      BY <2>5, BlocksAndArenaBit DEF Life!Free, Life!Next
    <2>. QED
      BY <2>1, <2>2, <2>3, <2>4, <2>5, StepOfTheWord DEF Life!Next
  <1>. QED
    BY <1>1, <1>2, LifeInvAlways, PTL DEF Spec
=============================================================================
