------------------------------ MODULE PoolProofs ------------------------------
(***************************************************************************)
(* Proofs about Pool, for every width of the word, every number of pages   *)
(* and handles, and every depth of the calls inside one another.           *)
(***************************************************************************)
EXTENDS Pool, BitfieldProofs, PageListProofs

-----------------------------------------------------------------------------
(* The invariant.                                                          *)

\* What the proof needs of the types.
Shape ==
  /\ bitfield \in [Pages -> SUBSET Bits]
  /\ counter \in [AllBlocks -> Nat]
  /\ boxes \subseteq AllBlocks /\ leaked \subseteq AllBlocks
  /\ frames \in Seq(Frame)

InFrame(x) == \E i \in DOMAIN frames : frames[i].block = x

\* What is left of BlocksHaveOneOwner to say of the calls: each is about another
\* block, which has a handle in alloc_with and none in drop_block.
FramesInv ==
  /\ \A i, j \in DOMAIN frames : frames[i].block = frames[j].block => i = j
  /\ \A i \in DOMAIN frames :
       /\ frames[i].call = "alloc_with" => counter[frames[i].block] > 0
       /\ frames[i].call = "drop_block" => counter[frames[i].block] = 0
  /\ \A x \in leaked : counter[x] = 0 /\ ~InFrame(x)

\* A block is free when nothing holds it.
FreeInv ==
  \A x \in AllBlocks :
    x[2] \in bitfield[x[1]] <=> counter[x] = 0 /\ ~InFrame(x) /\ x \notin leaked

OwnerInv ==
  /\ Shape
  /\ FramesInv
  /\ FreeInv
  /\ \A x \in boxes : counter[x] = 1

-----------------------------------------------------------------------------
(* The stack of calls.                                                     *)

\* A call is pushed.
LEMMA Pushed ==
  ASSUME NEW s \in Seq(Frame), NEW f \in Frame
  PROVE  /\ Append(s, f) \in Seq(Frame)
         /\ DOMAIN Append(s, f) = 1 .. Len(s) + 1
         /\ Append(s, f)[Len(s) + 1] = f
         /\ \A i \in DOMAIN s : i \in 1 .. Len(s) /\ Append(s, f)[i] = s[i]
OBVIOUS

\* The innermost call is over.
LEMMA Popped ==
  ASSUME NEW s \in Seq(Frame), s # <<>>
  PROVE  /\ Front(s) \in Seq(Frame)
         /\ Len(s) \in DOMAIN s /\ Last(s) = s[Len(s)] /\ Last(s) \in Frame
         /\ DOMAIN Front(s) = 1 .. Len(s) - 1
         /\ Len(s) \in Nat /\ Len(Front(s)) = Len(s) - 1
         /\ DOMAIN s = 1 .. Len(s)
         /\ \A i \in DOMAIN Front(s) : Front(s)[i] = s[i]
<1>1. Len(s) \in Nat /\ Len(s) > 0 /\ DOMAIN s = 1 .. Len(s)
  OBVIOUS
<1>2. Front(s) = [i \in 1 .. Len(s) - 1 |-> s[i]]
  BY <1>1 DEF Front
<1> QED
  BY <1>1, <1>2 DEF Last

\* What a call is.
LEMMA FrameFields ==
  ASSUME Shape, NEW i \in DOMAIN frames
  PROVE  /\ frames[i].call \in {"alloc_with", "drop_block"}
         /\ frames[i].block \in AllBlocks
         /\ frames[i] = [call |-> frames[i].call, block |-> frames[i].block]
<1>1. frames[i] \in Frame
  BY DEF Shape
<1> QED
  BY <1>1 DEF Frame

\* A page has all its blocks, and nobody a handle.
LEMMA OwnerInvInit == Init => OwnerInv
<1> SUFFICES ASSUME Init PROVE OwnerInv
  OBVIOUS
<1>1. Shape /\ frames = <<>>
  BY DEF Init, Shape, NewPage
<1>2. FramesInv
  BY <1>1 DEF Init, FramesInv
<1>3. FreeInv
  BY <1>1, BlocksAndArenaBit DEF Init, FreeInv, InFrame, NewPage, AllBlocks
<1> QED
  BY <1>1, <1>2, <1>3 DEF Init, OwnerInv

\* A block is given by its page and its index.
LEMMA SameBlock ==
  ASSUME NEW x \in AllBlocks, NEW y \in AllBlocks
  PROVE  y = x <=> y[1] = x[1] /\ y[2] = x[2]
<1>1. PICK p \in Pages, b \in Blocks : x = <<p, b>>
  BY DEF AllBlocks
<1>2. PICK q \in Pages, c \in Blocks : y = <<q, c>>
  BY DEF AllBlocks
<1> QED
  BY <1>1, <1>2

\* One bit of a word changes: the other blocks stay as they are.
LEMMA BitTaken ==
  ASSUME Shape, NEW x \in AllBlocks, bitfield' = [bitfield EXCEPT ![x[1]] = @ \ {x[2]}]
  PROVE  \A y \in AllBlocks : y[2] \in bitfield'[y[1]] <=> y[2] \in bitfield[y[1]] /\ y # x
<1> SUFFICES ASSUME NEW y \in AllBlocks
             PROVE  y[2] \in bitfield'[y[1]] <=> y[2] \in bitfield[y[1]] /\ y # x
  OBVIOUS
<1>1. y[1] \in Pages /\ x[1] \in Pages
  BY DEF AllBlocks
<1>2. bitfield'[y[1]] = IF y[1] = x[1] THEN bitfield[y[1]] \ {x[2]} ELSE bitfield[y[1]]
  BY <1>1 DEF Shape
<1> QED
  BY <1>2, SameBlock

\* find_place finds a block that is free, and takes it.
LEMMA FoundBlock ==
  ASSUME OwnerInv, NEW x \in AllBlocks, FindPlace(x)
  PROVE  /\ x[2] \in bitfield[x[1]]
         /\ bitfield' = [bitfield EXCEPT ![x[1]] = @ \ {x[2]}]
         /\ counter[x] = 0 /\ ~InFrame(x) /\ x \notin leaked
<1>1. /\ x[1] \in Pages /\ x[2] \in Blocks /\ bitfield[x[1]] \subseteq Bits
      /\ x[2] = TrailingZeros(bitfield[x[1]])
      /\ bitfield' = [bitfield EXCEPT ![x[1]] = FetchAndNot(@, x[2])]
  BY DEF OwnerInv, Shape, AllBlocks, FindPlace
<1>2. bitfield[x[1]] # {}
  BY <1>1, WidthAssumption DEF TrailingZeros, Blocks, BLOCK_PER_PAGE
<1>3. x[2] \in bitfield[x[1]]
  BY <1>1, <1>2, TrailingZerosRange
<1> QED
  BY <1>1, <1>3 DEF FetchAndNot, OwnerInv, FreeInv, Shape

-----------------------------------------------------------------------------
(* The steps.                                                              *)

\* A new handle, of alloc and alloc_rc.
LEMMA NewHandleKeeps ==
  ASSUME OwnerInv, NEW x \in AllBlocks, NewHandle(x), UNCHANGED frames,
         boxes' = boxes \/ boxes' = boxes \cup {x}
  PROVE  OwnerInv'
<1>1. /\ x[2] \in bitfield[x[1]]
      /\ bitfield' = [bitfield EXCEPT ![x[1]] = @ \ {x[2]}]
      /\ counter[x] = 0 /\ ~InFrame(x) /\ x \notin leaked
      /\ counter' = [counter EXCEPT ![x] = 1] /\ leaked' = leaked
  BY FoundBlock DEF NewHandle
<1>2. Shape'
  BY <1>1 DEF OwnerInv, Shape, AllBlocks
<1>3. \A y \in AllBlocks : counter'[y] = IF y = x THEN 1 ELSE counter[y]
  BY <1>1 DEF OwnerInv, Shape
<1>4. FramesInv'
  BY <1>1, <1>3 DEF OwnerInv, FramesInv, Shape, InFrame, Frame
<1>5. \A y \in AllBlocks : y[2] \in bitfield'[y[1]] <=> y[2] \in bitfield[y[1]] /\ y # x
  BY <1>1, BitTaken DEF OwnerInv
<1>6. FreeInv'
  BY <1>1, <1>3, <1>5 DEF OwnerInv, FreeInv, InFrame
<1>7. (\A y \in boxes : counter[y] = 1)'
  BY <1>3, <1>1 DEF OwnerInv, Shape
<1> QED
  BY <1>2, <1>4, <1>6, <1>7 DEF OwnerInv

\* A new handle whose initializer starts, of alloc_with and alloc_rc_with.
LEMMA RunInitializerKeeps ==
  ASSUME OwnerInv, NEW x \in AllBlocks, NewHandle(x), RunInitializer(x),
         boxes' = boxes \/ boxes' = boxes \cup {x}
  PROVE  OwnerInv'
<1>1. /\ x[2] \in bitfield[x[1]]
      /\ bitfield' = [bitfield EXCEPT ![x[1]] = @ \ {x[2]}]
      /\ counter[x] = 0 /\ ~InFrame(x) /\ x \notin leaked
      /\ counter' = [counter EXCEPT ![x] = 1] /\ leaked' = leaked
  BY FoundBlock DEF NewHandle
<1> DEFINE f == [call |-> "alloc_with", block |-> x]
<1>2. f \in Frame /\ frames' = Append(frames, f) /\ frames \in Seq(Frame)
  BY DEF Frame, RunInitializer, OwnerInv, Shape
<1>3. /\ frames' \in Seq(Frame) /\ DOMAIN frames' = 1 .. Len(frames) + 1
      /\ frames'[Len(frames) + 1] = f
      /\ DOMAIN frames = 1 .. Len(frames) /\ Len(frames) \in Nat
      /\ \A i \in DOMAIN frames : frames'[i] = frames[i]
  BY <1>2, Pushed
<1>4. Shape'
  BY <1>1, <1>3 DEF OwnerInv, Shape, AllBlocks
<1>5. \A y \in AllBlocks : counter'[y] = IF y = x THEN 1 ELSE counter[y]
  BY <1>1 DEF OwnerInv, Shape
<1>6. \A y : InFrame(y)' <=> InFrame(y) \/ y = x
  BY <1>3 DEF InFrame
<1>7. FramesInv'
  <2>1. \A i, j \in DOMAIN frames' : frames'[i].block = frames'[j].block => i = j
    BY <1>1, <1>3 DEF OwnerInv, FramesInv, InFrame
  <2>2. \A i \in DOMAIN frames' :
          /\ frames'[i].call = "alloc_with" => counter'[frames'[i].block] > 0
          /\ frames'[i].call = "drop_block" => counter'[frames'[i].block] = 0
    BY <1>1, <1>3, <1>5 DEF OwnerInv, FramesInv, InFrame, Shape, Frame
  <2>3. \A y \in leaked' : counter'[y] = 0 /\ ~InFrame(y)'
    BY <1>1, <1>5, <1>6 DEF OwnerInv, FramesInv, Shape
  <2> QED
    BY <2>1, <2>2, <2>3 DEF FramesInv
<1>8. \A y \in AllBlocks : y[2] \in bitfield'[y[1]] <=> y[2] \in bitfield[y[1]] /\ y # x
  BY <1>1, BitTaken DEF OwnerInv
<1>9. FreeInv'
  BY <1>1, <1>5, <1>6, <1>8 DEF OwnerInv, FreeInv
<1>10. (\A y \in boxes : counter[y] = 1)'
  BY <1>5, <1>1 DEF OwnerInv, Shape
<1> QED
  BY <1>4, <1>7, <1>9, <1>10 DEF OwnerInv

\* The last handle of x goes and drop_block begins, in the frames there are.
LEMMA LastHandleKeeps ==
  ASSUME OwnerInv, NEW x \in AllBlocks, counter[x] > 0, ~InFrame(x),
         counter' = [counter EXCEPT ![x] = 0], BeginDrop(x, frames),
         boxes' \subseteq boxes, x \notin boxes', UNCHANGED leaked
  PROVE  OwnerInv'
<1> DEFINE f == [call |-> "drop_block", block |-> x]
<1>1. f \in Frame /\ frames' = Append(frames, f) /\ frames \in Seq(Frame) /\ bitfield' = bitfield
  BY DEF Frame, BeginDrop, OwnerInv, Shape
<1>2. /\ frames' \in Seq(Frame) /\ DOMAIN frames' = 1 .. Len(frames) + 1
      /\ frames'[Len(frames) + 1] = f
      /\ DOMAIN frames = 1 .. Len(frames) /\ Len(frames) \in Nat
      /\ \A i \in DOMAIN frames : frames'[i] = frames[i]
  BY <1>1, Pushed
<1>3. Shape'
  BY <1>1, <1>2 DEF OwnerInv, Shape
<1>4. \A y \in AllBlocks : counter'[y] = IF y = x THEN 0 ELSE counter[y]
  BY DEF OwnerInv, Shape
<1>5. \A y : InFrame(y)' <=> InFrame(y) \/ y = x
  BY <1>2 DEF InFrame
<1>6. x \notin leaked
  BY DEF OwnerInv, FramesInv
<1>7. FramesInv'
  <2>1. \A i, j \in DOMAIN frames' : frames'[i].block = frames'[j].block => i = j
    BY <1>2 DEF OwnerInv, FramesInv, InFrame
  <2>2. \A i \in DOMAIN frames' :
          /\ frames'[i].call = "alloc_with" => counter'[frames'[i].block] > 0
          /\ frames'[i].call = "drop_block" => counter'[frames'[i].block] = 0
    BY <1>2, <1>4 DEF OwnerInv, FramesInv, InFrame, Shape, Frame
  <2>3. \A y \in leaked' : counter'[y] = 0 /\ ~InFrame(y)'
    BY <1>4, <1>5, <1>6 DEF OwnerInv, FramesInv, Shape
  <2> QED
    BY <2>1, <2>2, <2>3 DEF FramesInv
<1>8. FreeInv'
  BY <1>1, <1>4, <1>5, <1>6 DEF OwnerInv, FreeInv, Shape
<1>9. (\A y \in boxes : counter[y] = 1)'
  BY <1>4 DEF OwnerInv, Shape
<1> QED
  BY <1>3, <1>7, <1>8, <1>9 DEF OwnerInv

\* The initializer panics: its call gives way to drop_block.
LEMMA InitPanicsKeeps ==
  ASSUME OwnerInv, InitPanics, NEW x, x = Last(frames).block, NEW n, n = Len(frames)
  PROVE  OwnerInv'
<1> DEFINE f == [call |-> "drop_block", block |-> x]
<1>1. /\ frames \in Seq(Frame) /\ frames # <<>> /\ Last(frames).call = "alloc_with"
      /\ counter' = [counter EXCEPT ![x] = 0] /\ boxes' = boxes \ {x}
      /\ frames' = Append(Front(frames), f) /\ UNCHANGED <<bitfield, leaked>>
  BY DEF InitPanics, InCall, BeginDrop, OwnerInv, Shape
<1>2. /\ n \in DOMAIN frames /\ frames[n].block = x /\ frames[n].call = "alloc_with"
      /\ x \in AllBlocks /\ f \in Frame /\ DOMAIN frames = 1 .. n
      /\ Front(frames) \in Seq(Frame) /\ DOMAIN Front(frames) = 1 .. n - 1
      /\ \A i \in DOMAIN Front(frames) : Front(frames)[i] = frames[i]
  BY <1>1, Popped DEF Frame
<1>3. n \in Nat /\ Len(Front(frames)) = n - 1
  BY <1>1, Popped
<1>4. /\ frames' \in Seq(Frame) /\ DOMAIN frames' = 1 .. n
      /\ frames'[n] = f /\ \A i \in 1 .. n - 1 : frames'[i] = frames[i]
  BY <1>1, <1>2, <1>3, Pushed
<1>5. counter[x] > 0 /\ x \notin leaked
  BY <1>2 DEF OwnerInv, FramesInv
<1>6. Shape'
  BY <1>1, <1>2, <1>4 DEF OwnerInv, Shape
<1>7. \A y \in AllBlocks : counter'[y] = IF y = x THEN 0 ELSE counter[y]
  BY <1>1, <1>2 DEF OwnerInv, Shape
<1>8. \A i \in DOMAIN frames' : frames'[i].block = frames[i].block
  BY <1>2, <1>3, <1>4
<1>9. \A y : InFrame(y)' <=> InFrame(y)
  BY <1>2, <1>4, <1>8 DEF InFrame
<1>10. FramesInv'
  <2>1. \A i, j \in DOMAIN frames' : frames'[i].block = frames'[j].block => i = j
    BY <1>2, <1>4, <1>8 DEF OwnerInv, FramesInv
  <2>2. ASSUME NEW i \in 1 .. n - 1
        PROVE  /\ i \in DOMAIN frames /\ frames'[i] = frames[i]
               /\ frames[i].block # x /\ frames[i].block \in AllBlocks
    <3>1. i \in DOMAIN frames /\ frames'[i] = frames[i] /\ i # n
      BY <1>2, <1>3, <1>4
    <3>2. frames[i].block # x
      BY <1>2, <3>1 DEF OwnerInv, FramesInv
    <3> QED
      BY <3>1, <3>2, FrameFields DEF OwnerInv
  <2>3. \A i \in DOMAIN frames' :
          /\ frames'[i].call = "alloc_with" => counter'[frames'[i].block] > 0
          /\ frames'[i].call = "drop_block" => counter'[frames'[i].block] = 0
    <3> SUFFICES ASSUME NEW i \in 1 .. n
                 PROVE  /\ frames'[i].call = "alloc_with" => counter'[frames'[i].block] > 0
                        /\ frames'[i].call = "drop_block" => counter'[frames'[i].block] = 0
      BY <1>4
    <3>1. CASE i = n
      BY <1>2, <1>4, <1>7, <3>1
    <3>2. CASE i # n
      <4>1. i \in 1 .. n - 1
        BY <1>3, <3>2
      <4> QED
        BY <1>7, <2>2, <4>1 DEF OwnerInv, FramesInv
    <3> QED
      BY <3>1, <3>2
  <2>4. \A y \in leaked' : counter'[y] = 0 /\ ~InFrame(y)'
    BY <1>1, <1>7, <1>9 DEF OwnerInv, FramesInv, Shape
  <2> QED
    BY <2>1, <2>3, <2>4 DEF FramesInv
<1>11. FreeInv'
  <2>1. InFrame(x)
    BY <1>2 DEF InFrame
  <2> QED
    BY <1>1, <1>7, <1>9, <2>1 DEF OwnerInv, FreeInv
<1>12. (\A y \in boxes : counter[y] = 1)'
  BY <1>1, <1>7 DEF OwnerInv, Shape
<1> QED
  BY <1>6, <1>10, <1>11, <1>12 DEF OwnerInv

\* The innermost call is over: its block has a handle when it was an initializer
\* that returned, comes back when it was drop_block, or is lost when the
\* destructor panicked.
LEMMA PopKeeps ==
  ASSUME OwnerInv, frames # <<>>, frames' = Front(frames), UNCHANGED <<counter, boxes>>,
         NEW x, x = Last(frames).block,
         \/ /\ Last(frames).call = "alloc_with"
            /\ UNCHANGED <<bitfield, leaked>>
         \/ /\ Last(frames).call = "drop_block"
            /\ bitfield' = [bitfield EXCEPT ![x[1]] = @ \cup {x[2]}]
            /\ UNCHANGED leaked
         \/ /\ Last(frames).call = "drop_block"
            /\ leaked' = leaked \cup {x}
            /\ UNCHANGED bitfield
  PROVE  OwnerInv'
<1> DEFINE n == Len(frames)
<1>1. /\ n \in DOMAIN frames /\ frames[n] = Last(frames) /\ x \in AllBlocks
      /\ DOMAIN frames = 1 .. n /\ frames' \in Seq(Frame) /\ DOMAIN frames' = 1 .. n - 1
      /\ \A i \in DOMAIN frames' : frames'[i] = frames[i]
  BY Popped DEF Frame, OwnerInv, Shape
<1>2. n \in Nat
  BY DEF OwnerInv, Shape
<1> HIDE DEF n
<1>3. \A y : InFrame(y)' <=> InFrame(y) /\ y # x
  BY <1>1, <1>2 DEF InFrame, OwnerInv, FramesInv
<1>4. InFrame(x) /\ x \notin leaked
  BY <1>1 DEF InFrame, OwnerInv, FramesInv
<1>5. /\ Last(frames).call = "alloc_with" => counter[x] > 0
      /\ Last(frames).call = "drop_block" => counter[x] = 0
      /\ counter[x] \in Nat
  BY <1>1 DEF OwnerInv, FramesInv, Shape
<1>6. x[1] \in Pages /\ x[2] \in Bits
  BY <1>1, BlocksAndArenaBit DEF AllBlocks
<1>7. Shape'
  BY <1>1, <1>6 DEF OwnerInv, Shape
<1>8. FramesInv'
  BY <1>1, <1>2, <1>3, <1>5 DEF OwnerInv, FramesInv
<1>9. \A y \in AllBlocks :
        y[2] \in bitfield'[y[1]] <=> \/ y[2] \in bitfield[y[1]]
                                     \/ y = x /\ bitfield' # bitfield
  <2> SUFFICES ASSUME NEW y \in AllBlocks
               PROVE  y[2] \in bitfield'[y[1]] <=> \/ y[2] \in bitfield[y[1]]
                                                   \/ y = x /\ bitfield' # bitfield
    OBVIOUS
  <2>1. y[1] \in Pages
    BY DEF AllBlocks
  <2>2. x[2] \notin bitfield[x[1]]
    BY <1>1, <1>4 DEF OwnerInv, FreeInv
  <2>3. CASE bitfield' = [bitfield EXCEPT ![x[1]] = @ \cup {x[2]}]
    <3>1. bitfield'[y[1]] = IF y[1] = x[1] THEN bitfield[y[1]] \cup {x[2]} ELSE bitfield[y[1]]
      BY <2>1, <2>3 DEF OwnerInv, Shape
    <3>2. bitfield'[x[1]] = bitfield[x[1]] \cup {x[2]}
      BY <1>6, <2>3 DEF OwnerInv, Shape
    <3> QED
      BY <1>1, <2>2, <3>1, <3>2, SameBlock
  <2>4. CASE bitfield' = bitfield
    BY <2>4
  <2> QED
    BY <2>3, <2>4
<1>10. FreeInv'
  <2>1. x[2] \notin bitfield[x[1]]
    BY <1>1, <1>4 DEF OwnerInv, FreeInv
  <2>2. CASE Last(frames).call = "alloc_with" /\ UNCHANGED <<bitfield, leaked>>
    BY <1>3, <1>5, <2>1, <2>2 DEF OwnerInv, FreeInv
  <2>3. CASE /\ Last(frames).call = "drop_block"
             /\ bitfield' = [bitfield EXCEPT ![x[1]] = @ \cup {x[2]}]
             /\ UNCHANGED leaked
    <3>1. x[2] \in bitfield'[x[1]]
      BY <1>6, <2>3 DEF OwnerInv, Shape
    <3> QED
      BY <1>3, <1>4, <1>5, <1>9, <2>3, <3>1 DEF OwnerInv, FreeInv
  <2>4. CASE leaked' = leaked \cup {x} /\ UNCHANGED bitfield
    BY <1>3, <2>1, <2>4 DEF OwnerInv, FreeInv
  <2> QED
    BY <2>2, <2>3, <2>4
<1> QED
  BY <1>7, <1>8, <1>10 DEF OwnerInv

\* drop_page changes the arena's bit only.
LEMMA DropPagesKeeps ==
  ASSUME OwnerInv, NEW s, DropPages(s), UNCHANGED <<counter, boxes, frames, leaked>>
  PROVE  OwnerInv'
<1>1. \A p \in Pages : bitfield'[p] = IF p \in s THEN bitfield[p] \ {ArenaBit} ELSE bitfield[p]
  BY DEF DropPages
<1>2. Shape'
  BY DEF OwnerInv, Shape, DropPages
<1>3. \A y \in AllBlocks : y[1] \in Pages /\ y[2] # ArenaBit
  BY BlocksAndArenaBit DEF AllBlocks
<1>4. FreeInv'
  <2>1. \A y \in AllBlocks : y[2] \in bitfield'[y[1]] <=> y[2] \in bitfield[y[1]]
    BY <1>1, <1>3
  <2> QED
    BY <2>1 DEF OwnerInv, FreeInv, InFrame
<1>5. FramesInv'
  BY DEF OwnerInv, FramesInv, InFrame
<1> QED
  BY <1>2, <1>4, <1>5 DEF OwnerInv

\* An ArenaRc of a block that has others, or will have one more.
LEMMA CountKeeps ==
  ASSUME OwnerInv, NEW x \in AllBlocks, NEW n \in Nat, n > 0, counter[x] > 0,
         counter' = [counter EXCEPT ![x] = n], x \notin boxes,
         UNCHANGED <<bitfield, boxes, frames, leaked>>
  PROVE  OwnerInv'
<1>1. Shape'
  BY DEF OwnerInv, Shape
<1>2. \A y \in AllBlocks : counter'[y] = IF y = x THEN n ELSE counter[y]
  BY DEF OwnerInv, Shape
<1>3. \A i \in DOMAIN frames : frames[i].block \in AllBlocks
  BY FrameFields DEF OwnerInv
<1>4. FramesInv'
  BY <1>2, <1>3 DEF OwnerInv, FramesInv, Shape, InFrame
<1>5. FreeInv'
  BY <1>2 DEF OwnerInv, FreeInv, InFrame
<1>6. (\A y \in boxes : counter[y] = 1)'
  BY <1>2 DEF OwnerInv, Shape
<1> QED
  BY <1>1, <1>4, <1>5, <1>6 DEF OwnerInv

\* One step for each action.
LEMMA OwnerInvNext == OwnerInv /\ [Next]_vars => OwnerInv'
<1> SUFFICES ASSUME OwnerInv, [Next]_vars
             PROVE  OwnerInv'
  OBVIOUS
<1>1. ASSUME NEW x \in AllBlocks, alloc(x) \/ alloc_rc(x) PROVE OwnerInv'
  BY <1>1, NewHandleKeeps DEF alloc, alloc_rc, NewBox, NewRc
<1>2. ASSUME NEW x \in AllBlocks, alloc_with(x) \/ alloc_rc_with(x) PROVE OwnerInv'
  BY <1>2, RunInitializerKeeps DEF alloc_with, alloc_rc_with, NewBox, NewRc
<1>3. ASSUME NEW x \in AllBlocks, DropBox(x) PROVE OwnerInv'
  BY <1>3, LastHandleKeeps DEF DropBox, Out, InFrame
<1>4. ASSUME NEW x \in AllBlocks, CloneRc(x) PROVE OwnerInv'
  <2>1. counter[x] \in Nat /\ counter' = [counter EXCEPT ![x] = counter[x] + 1]
    BY <1>4 DEF CloneRc, OwnerInv, Shape
  <2>2. counter[x] + 1 \in Nat /\ counter[x] + 1 > 0
    BY <2>1
  <2> QED
    BY <1>4, <2>1, <2>2, CountKeeps DEF CloneRc, Out
<1>5. ASSUME NEW x \in AllBlocks, DropRc(x) PROVE OwnerInv'
  <2>1. counter[x] \in Nat /\ counter' = [counter EXCEPT ![x] = counter[x] - 1]
    BY <1>5 DEF DropRc, OwnerInv, Shape
  <2>2. CASE counter[x] > 1 /\ UNCHANGED <<bitfield, frames>>
    <3>1. counter[x] - 1 \in Nat /\ counter[x] - 1 > 0
      BY <2>1, <2>2
    <3> QED
      BY <1>5, <2>1, <2>2, <3>1, CountKeeps DEF DropRc, Out
  <2>3. CASE counter[x] = 1 /\ BeginDrop(x, frames)
    <3>1. counter' = [counter EXCEPT ![x] = 0]
      BY <2>1, <2>3
    <3> QED
      BY <1>5, <2>3, <3>1, LastHandleKeeps DEF DropRc, Out, InFrame
  <2> QED
    BY <1>5, <2>2, <2>3 DEF DropRc
<1>6. CASE EndInit
  BY <1>6, PopKeeps DEF EndInit, InCall
<1>7. CASE InitPanics
  BY <1>7, InitPanicsKeeps
<1>8. CASE EndDrop
  BY <1>8, PopKeeps DEF EndDrop, InCall
<1>9. CASE DropPanics
  BY <1>9, PopKeeps DEF DropPanics, InCall
<1>10. CASE shrink_to_fit
  BY <1>10, DropPagesKeeps DEF shrink_to_fit
<1>11. CASE DropPool
  BY <1>11, DropPagesKeeps DEF DropPool, listVars
<1>12. CASE UNCHANGED vars
  BY <1>12 DEF vars, OwnerInv, Shape, FramesInv, FreeInv, InFrame
<1> QED
  BY <1>1, <1>2, <1>3, <1>4, <1>5, <1>6, <1>7, <1>8, <1>9, <1>10, <1>11, <1>12 DEF Next

-----------------------------------------------------------------------------

\* A block that is out, or on its way back, or lost, is not free.
LEMMA OneOwnerEach == OwnerInv => BlocksHaveOneOwner
<1> SUFFICES ASSUME OwnerInv, NEW x \in AllBlocks
             PROVE  /\ x[2] \in bitfield[x[1]] <=> ~InUse(x)
                    /\ counter[x] > 0 => Dropping(x) = {} /\ x \notin leaked
                    /\ Cardinality(Dropping(x)) <= IF x \in leaked THEN 0 ELSE 1
                    /\ x \in boxes => counter[x] = 1
  BY DEF BlocksHaveOneOwner
<1>1. \A i \in DOMAIN frames :
        /\ frames[i] = [call |-> frames[i].call, block |-> frames[i].block]
        /\ frames[i].call \in {"alloc_with", "drop_block"}
  BY FrameFields DEF OwnerInv
<1>2. \A i \in DOMAIN frames :
        i \in Dropping(x) <=> frames[i].block = x /\ frames[i].call = "drop_block"
  BY <1>1 DEF Dropping
<1>3. counter[x] \in Nat
  BY DEF OwnerInv, Shape
<1>4. counter[x] > 0 => Dropping(x) = {} /\ x \notin leaked
  BY <1>2, <1>3 DEF OwnerInv, FramesInv, Dropping
<1>5. counter[x] = 0 => (Dropping(x) = {} <=> ~InFrame(x))
  BY <1>1, <1>2, <1>3 DEF OwnerInv, FramesInv, Dropping, InFrame
<1>6. x[2] \in bitfield[x[1]] <=> ~InUse(x)
  BY <1>3, <1>4, <1>5 DEF OwnerInv, FreeInv, InUse, FramesInv
<1>7. x \in leaked => Dropping(x) = {}
  BY <1>2 DEF OwnerInv, FramesInv, InFrame, Dropping
<1>8. Dropping(x) = {} \/ \E i : Dropping(x) = {i}
  BY <1>2 DEF OwnerInv, FramesInv, Dropping
<1>9. Cardinality(Dropping(x)) <= IF x \in leaked THEN 0 ELSE 1
  <2>1. CASE Dropping(x) = {}
    BY <2>1, FS_EmptySet
  <2>2. CASE Dropping(x) # {}
    <3>1. PICK i : Dropping(x) = {i}
      BY <1>8, <2>2
    <3>2. Cardinality({i}) = 1 /\ x \notin leaked
      BY <1>7, <2>2, FS_Singleton
    <3> QED
      BY <3>1, <3>2
  <2> QED
    BY <2>1, <2>2
<1> QED
  BY <1>4, <1>6, <1>9 DEF OwnerInv

\* Whatever the destructors and the initializers do, however deep their calls
\* go and however they end: a block has one owner, and comes back once.
THEOREM OneOwner == Spec => []BlocksHaveOneOwner
BY OwnerInvInit, OwnerInvNext, OneOwnerEach, PTL DEF Spec

-----------------------------------------------------------------------------
(* The pages and the lists: the invariant.                                 *)

\* What the proof needs of the types.
ListShape ==
  /\ marked \subseteq Pages /\ freed \subseteq Pages
  /\ free \in Seq(Pages) /\ page_list \in Seq(Pages)
  /\ npages \in Nat /\ open \in BOOLEAN /\ made \in 0 .. MaxPages

\* A page is as new until it is made, and is freed with the last of its bits:
\* the arena's goes with the pool at the latest.
WordInv ==
  /\ \A p \in Pages : p > made => bitfield[p] = Bits
  /\ \A p \in Pages : p \in freed <=> LastOut(bitfield[p])
  /\ ~open => \A p \in Pages : p <= made => ArenaBit \notin bitfield[p]

\* page_list has the pages the pool has not let go, which are those that were
\* not freed, and the free list those of them that say so, which are all that
\* have a free block.
PoolListInv ==
  /\ \A p \in Pages : ArenaBit \notin bitfield[p] => p \in freed
  /\ \A p \in Pages : p \in ToSet(page_list) <=> p <= made /\ ArenaBit \in bitfield[p]
  /\ IsInjective(page_list)
  /\ npages = Len(page_list)
  /\ IsInjective(free)
  /\ ToSet(free) = marked \cap ToSet(page_list)
  /\ \A p \in ToSet(page_list) : Usable(p) => p \in ToSet(free)

PagesInv ==
  /\ ListShape
  /\ WordInv
  /\ open => PoolListInv

PoolInv == OwnerInv /\ PagesInv

-----------------------------------------------------------------------------
(* Lemmas on lists and words.                                              *)

\* A list without repetitions is cut in two.
LEMMA Cut ==
  ASSUME NEW S, NEW s \in Seq(S), NEW k \in 1 .. Len(s), IsInjective(s)
  PROVE  /\ SubSeq(s, k, Len(s)) \in Seq(S) /\ IsInjective(SubSeq(s, k, Len(s)))
         /\ s[k] \in ToSet(SubSeq(s, k, Len(s)))
         /\ ToSet(SubSeq(s, k, Len(s))) = ToSet(s) \ ToSet(SubSeq(s, 1, k - 1))
         /\ \A p \in ToSet(SubSeq(s, 1, k - 1)) : \E i \in 1 .. k - 1 : p = s[i]
<1> DEFINE a == SubSeq(s, 1, k - 1)
           b == SubSeq(s, k, Len(s))
           m == Len(s) - k + 1
<1>1. /\ Len(s) \in Nat /\ DOMAIN s = 1 .. Len(s) /\ k \in Nat /\ m \in Nat /\ m >= 1
      /\ a \in Seq(S) /\ Len(a) = k - 1 /\ b \in Seq(S) /\ Len(b) = m
  OBVIOUS
<1>2. DOMAIN a = 1 .. k - 1 /\ DOMAIN b = 1 .. m
  BY <1>1
<1>3. /\ \A i \in 1 .. k - 1 : a[i] = s[i]
      /\ \A i \in 1 .. m : b[i] = s[k + i - 1]
  OBVIOUS
<1> HIDE DEF a, b
<1>4. \A i, j \in 1 .. Len(s) : s[i] = s[j] => i = j
  BY <1>1 DEF IsInjective
<1>5. \A p \in ToSet(a) : \E i \in 1 .. k - 1 : p = s[i]
  BY <1>2, <1>3 DEF ToSet
<1>6. s[k] \in ToSet(b)
  <2>1. 1 \in 1 .. m /\ b[1] = s[k + 1 - 1] /\ k + 1 - 1 = k
    BY <1>1, <1>3
  <2> QED
    BY <1>2, <2>1 DEF ToSet
<1>7. IsInjective(b)
  <2> SUFFICES ASSUME NEW i \in 1 .. m, NEW j \in 1 .. m, b[i] = b[j] PROVE i = j
    BY <1>2 DEF IsInjective
  <2>1. k + i - 1 \in 1 .. Len(s) /\ k + j - 1 \in 1 .. Len(s) /\ s[k + i - 1] = s[k + j - 1]
    BY <1>1, <1>3
  <2>2. k + i - 1 = k + j - 1
    BY <1>4, <2>1
  <2> QED
    BY <1>1, <2>2
<1>8. ToSet(b) = ToSet(s) \ ToSet(a)
  <2>1. ASSUME NEW p \in ToSet(b) PROVE p \in ToSet(s) \ ToSet(a)
    <3>1. PICK i \in 1 .. m : p = b[i]
      BY <1>2 DEF ToSet
    <3>2. k + i - 1 \in 1 .. Len(s) /\ p = s[k + i - 1]
      BY <1>1, <1>3, <3>1
    <3>3. p \notin ToSet(a)
      <4> SUFFICES ASSUME p \in ToSet(a) PROVE FALSE
        OBVIOUS
      <4>1. PICK j \in 1 .. k - 1 : p = s[j]
        BY <1>5
      <4>2. j \in 1 .. Len(s) /\ j # k + i - 1
        BY <1>1
      <4> QED
        BY <1>4, <3>2, <4>1, <4>2
    <3> QED
      BY <1>1, <3>2, <3>3 DEF ToSet
  <2>2. ASSUME NEW p \in ToSet(s), p \notin ToSet(a) PROVE p \in ToSet(b)
    <3>1. PICK i \in 1 .. Len(s) : p = s[i]
      BY <1>1 DEF ToSet
    <3>2. ~ (i \in 1 .. k - 1)
      BY <1>2, <1>3, <2>2, <3>1 DEF ToSet
    <3>3. i - k + 1 \in 1 .. m /\ k + (i - k + 1) - 1 = i
      BY <1>1, <3>2
    <3>4. b[i - k + 1] = s[i]
      BY <1>3, <3>3
    <3> QED
      BY <1>2, <3>1, <3>3, <3>4 DEF ToSet
  <2> QED
    BY <2>1, <2>2
<1> QED
  BY <1>1, <1>5, <1>6, <1>7, <1>8 DEF a, b

\* The first page of the free list that find_place can use.
LEMMA FirstUsable ==
  ASSUME free \in Seq(Pages), NEW k, k = SelectInSeq(free, Usable)
  PROVE  /\ k = 0 => \A p \in ToSet(free) : ~Usable(p)
         /\ k # 0 => /\ k \in 1 .. Len(free) /\ Usable(free[k])
                     /\ \A i \in 1 .. k - 1 : ~Usable(free[i])
<1> DEFINE found == {i \in 1 .. Len(free) : Usable(free[i])}
<1>1. k = IF found # {} THEN Min(found) ELSE 0
  BY DEF SelectInSeq
<1>2. Len(free) \in Nat /\ DOMAIN free = 1 .. Len(free)
  OBVIOUS
<1>3. CASE found = {}
  BY <1>1, <1>2, <1>3 DEF ToSet
<1>4. CASE found # {}
  <2>1. found \subseteq Nat
    BY <1>2
  <2>2. PICK m \in found : \A n \in found : m <= n
    <3> HIDE DEF found
    <3> QED
      BY <1>4, <2>1, LeastNumber
  <2>3. Min(found) \in found /\ \A n \in found : Min(found) <= n
    BY <2>2 DEF Min
  <2>4. k \in found /\ \A n \in found : k <= n
    BY <1>1, <1>4, <2>3
  <2>5. ASSUME NEW i \in 1 .. k - 1 PROVE ~Usable(free[i])
    <3>1. i \in 1 .. Len(free) /\ ~ (k <= i)
      BY <1>2, <2>4
    <3> QED
      BY <2>4, <3>1
  <2>6. k # 0 /\ k \in 1 .. Len(free) /\ Usable(free[k])
    BY <1>2, <2>4
  <2> HIDE DEF found
  <2> QED
    BY <2>5, <2>6
<1> QED
  BY <1>3, <1>4

\* The word of a page without a block in use has room.
LEMMA UnusedIsUsable ==
  ASSUME NEW p, Unused(p)
  PROVE  Usable(p)
<1>1. Bits # {} /\ Bits \subseteq Bits /\ 0 \in Bits
  BY WidthAssumption DEF Bits
<1>2. Min(Bits) \in Bits /\ Min(Bits) <= 0
  BY <1>1, LeastBit
<1>3. TrailingZeros(Bits) = Min(Bits)
  BY <1>1 DEF TrailingZeros
<1> QED
  BY <1>2, <1>3, WidthAssumption DEF Unused, Usable, BLOCK_PER_PAGE, Bits

\* A page with a block in use, or that the arena has, is not freed.
LEMMA NotLastOut ==
  ASSUME NEW word, NEW b \in Bits, b \notin word, b # ArenaBit \/ ArenaBit \in word
  PROVE  ~LastOut(word)
BY BlocksAndArenaBit DEF LastOut

\* alloc_new_page allocates a page at least.
LEMMA SomePages ==
  ASSUME npages \in Nat
  PROVE  ToAllocate \in Nat \ {0}
<1> DEFINE most == IF npages >= 1 THEN npages ELSE 1
<1>1. most \in {npages, 1} /\ most \in Nat \ {0} /\ \A y \in {npages, 1} : most >= y
  OBVIOUS
<1>2. Max({npages, 1}) \in Nat \ {0}
  BY <1>1 DEF Max
<1> DEFINE m == Max({npages, 1})
<1> HIDE DEF m
<1> DEFINE least == IF m <= MaxAllocate THEN m ELSE MaxAllocate
<1>3. m \in Nat \ {0} /\ MaxAllocate \in Nat \ {0}
  BY <1>2, PoolAssumption DEF m
<1>4. least \in {m, MaxAllocate} /\ least \in Nat \ {0} /\ \A y \in {m, MaxAllocate} : least <= y
  BY <1>3
<1>5. Min({m, MaxAllocate}) \in Nat \ {0}
  BY <1>3, <1>4 DEF Min
<1> QED
  BY <1>5 DEF ToAllocate, m

-----------------------------------------------------------------------------
(* The pages and the lists: the steps.                                     *)

\* The pages are new, and in both lists.
LEMMA PagesInvInit == Init => PagesInv
<1> SUFFICES ASSUME Init PROVE PagesInv
  OBVIOUS
<1>1. Capacity \in Nat \ {0} /\ Capacity <= MaxPages /\ MaxPages \in Nat /\ 1 .. Capacity \subseteq Pages
  BY PoolAssumption DEF Pages
<1> DEFINE list == NewList(0, Capacity)
<1>2. /\ Len(list) = Capacity /\ IsInjective(list) /\ ToSet(list) = 1 .. Capacity
  <2>1. 0 + 1 .. 0 + Capacity = 1 .. Capacity
    BY <1>1
  <2> QED
    BY <1>1, <2>1, NewListElements
<1>3. list \in Seq(Pages)
  <2>1. list \in [1 .. Capacity -> Pages]
    BY <1>1 DEF NewList
  <2> QED
    BY <1>1, <2>1
<1>4. /\ bitfield = [p \in Pages |-> Bits] /\ marked = 1 .. Capacity /\ freed = {}
      /\ free = list /\ page_list = list /\ npages = Capacity /\ open = TRUE /\ made = Capacity
  BY DEF Init, NewPage
<1> HIDE DEF list
<1>5. ListShape
  BY <1>1, <1>3, <1>4 DEF ListShape
<1>6. \A p \in Pages : ~LastOut(bitfield[p]) /\ ArenaBit \in bitfield[p]
  BY <1>4, BlocksAndArenaBit DEF LastOut
<1>7. WordInv
  BY <1>4, <1>6 DEF WordInv
<1>8. \A p \in Pages : p \in 1 .. Capacity <=> p <= Capacity
  BY <1>1 DEF Pages
<1>9. PoolListInv
  BY <1>2, <1>4, <1>6, <1>8 DEF PoolListInv
<1> QED
  BY <1>5, <1>7, <1>9 DEF PagesInv

\* A handle is taken, counted, or given back, and no word and no list changes.
LEMMA PagesFrame ==
  ASSUME PagesInv, UNCHANGED <<bitfield, freed, listVars, open>>
  PROVE  PagesInv'
BY DEF PagesInv, ListShape, WordInv, PoolListInv, Usable, listVars

\* A block of a page of the pool is taken: its other bits stay as they are.
LEMMA WordTaken ==
  ASSUME OwnerInv, NEW x \in AllBlocks, x[2] \in bitfield[x[1]], ArenaBit \in bitfield[x[1]],
         bitfield' = [bitfield EXCEPT ![x[1]] = @ \ {x[2]}]
  PROVE  /\ \A p \in Pages : ArenaBit \in bitfield'[p] <=> ArenaBit \in bitfield[p]
         /\ \A p \in Pages : LastOut(bitfield'[p]) <=> LastOut(bitfield[p])
         /\ \A p \in Pages : p # x[1] => bitfield'[p] = bitfield[p]
<1>1. /\ x[1] \in Pages /\ x[2] \in Bits /\ x[2] # ArenaBit /\ bitfield[x[1]] \subseteq Bits
      /\ \A p \in Pages : bitfield'[p] = IF p = x[1] THEN bitfield[p] \ {x[2]} ELSE bitfield[p]
  BY BlocksAndArenaBit DEF AllBlocks, OwnerInv, Shape
<1>2. x[2] \notin bitfield'[x[1]]
  BY <1>1
<1>3. ~LastOut(bitfield'[x[1]]) /\ ~LastOut(bitfield[x[1]])
  BY <1>1, <1>2 DEF LastOut
<1>4. \A p \in Pages : p # x[1] => bitfield'[p] = bitfield[p]
  BY <1>1
<1>5. \A p \in Pages : LastOut(bitfield'[p]) <=> LastOut(bitfield[p])
  BY <1>3, <1>4
<1> QED
  BY <1>1, <1>4, <1>5

\* find_place takes a block of the first page of the free list that has one, ...
LEMMA FindListed ==
  ASSUME PoolInv, NEW x \in AllBlocks, NewHandle(x), NEW k, k = SelectInSeq(free, Usable), k # 0
  PROVE  PagesInv'
<1>1. /\ open /\ open' = open /\ freed' = freed /\ UNCHANGED <<page_list, npages, made>>
      /\ x[1] = free[k] /\ free' = SubSeq(free, k, Len(free))
      /\ marked' = marked \ ToSet(SubSeq(free, 1, k - 1))
  BY DEF NewHandle, FindPlace
<1>2. x[2] \in bitfield[x[1]] /\ bitfield' = [bitfield EXCEPT ![x[1]] = @ \ {x[2]}]
  BY FoundBlock DEF PoolInv, NewHandle
<1>3. /\ free \in Seq(Pages) /\ IsInjective(free) /\ ToSet(free) = marked \cap ToSet(page_list)
      /\ PoolListInv /\ ListShape /\ WordInv /\ OwnerInv
  BY <1>1 DEF PoolInv, PagesInv, PoolListInv, ListShape
<1>4. k \in 1 .. Len(free) /\ \A i \in 1 .. k - 1 : ~Usable(free[i])
  BY <1>3, FirstUsable
<1>5. /\ free' \in Seq(Pages) /\ IsInjective(free') /\ x[1] \in ToSet(free')
      /\ ToSet(free') = ToSet(free) \ ToSet(SubSeq(free, 1, k - 1))
      /\ \A p \in ToSet(SubSeq(free, 1, k - 1)) : \E i \in 1 .. k - 1 : p = free[i]
  BY <1>1, <1>3, <1>4, Cut
<1>6. \A p \in ToSet(SubSeq(free, 1, k - 1)) : ~Usable(p)
  <2> SUFFICES ASSUME NEW p \in ToSet(SubSeq(free, 1, k - 1)) PROVE ~Usable(p)
    OBVIOUS
  <2>1. PICK i \in 1 .. k - 1 : p = free[i]
    BY <1>5
  <2> QED
    BY <1>4, <2>1, Zenon
<1>7. x[1] \in Pages /\ x[1] \in ToSet(page_list) /\ ArenaBit \in bitfield[x[1]] /\ x[1] <= made
  BY <1>3, <1>5 DEF AllBlocks, PoolListInv
<1>8. /\ \A p \in Pages : ArenaBit \in bitfield'[p] <=> ArenaBit \in bitfield[p]
      /\ \A p \in Pages : LastOut(bitfield'[p]) <=> LastOut(bitfield[p])
      /\ \A p \in Pages : p # x[1] => bitfield'[p] = bitfield[p]
  BY <1>2, <1>3, <1>7, WordTaken
<1>9. ListShape'
  BY <1>1, <1>3, <1>5 DEF ListShape
<1>10. WordInv'
  <2>1. x[1] \in Nat /\ made \in Nat /\ ~ (x[1] > made)
    BY <1>3, <1>7 DEF ListShape, Pages
  <2> QED
    BY <1>1, <1>3, <1>8, <2>1 DEF WordInv
<1>11. PoolListInv'
  <2>1. ToSet(free') = marked' \cap ToSet(page_list')
    BY <1>1, <1>3, <1>5
  <2>2. ASSUME NEW p \in ToSet(page_list), Usable(p)'
        PROVE  p \in ToSet(free')
    <3>1. p \in Pages
      BY <1>3 DEF ListShape, ToSet
    <3>2. CASE p = x[1]
      BY <1>5, <3>2
    <3>3. CASE p # x[1]
      <4>1. Usable(p)
        BY <1>8, <2>2, <3>1, <3>3 DEF Usable
      <4> QED
        BY <1>3, <1>5, <1>6, <4>1 DEF PoolListInv
    <3> QED
      BY <3>2, <3>3
  <2> QED
    BY <1>1, <1>3, <1>5, <1>8, <2>1, <2>2 DEF PoolListInv
<1> QED
  BY <1>9, <1>10, <1>11 DEF PagesInv

\* ... or of a new page when none has one.
LEMMA FindNew ==
  ASSUME PoolInv, NEW x \in AllBlocks, NewHandle(x), SelectInSeq(free, Usable) = 0,
         NEW n, n = ToAllocate
  PROVE  PagesInv'
<1> DEFINE list == NewList(made, n)
<1>1. /\ open /\ open' = open /\ freed' = freed /\ made + n <= MaxPages
      /\ x[1] = Head(list) /\ free' = list /\ marked' = (marked \ ToSet(free)) \cup ToSet(list)
      /\ page_list' = list \o page_list /\ npages' = npages + n /\ made' = made + n
  BY DEF NewHandle, FindPlace, make_list
<1>2. x[2] \in bitfield[x[1]] /\ bitfield' = [bitfield EXCEPT ![x[1]] = @ \ {x[2]}]
  BY FoundBlock DEF PoolInv, NewHandle
<1>3. /\ free \in Seq(Pages) /\ IsInjective(free) /\ ToSet(free) = marked \cap ToSet(page_list)
      /\ page_list \in Seq(Pages) /\ IsInjective(page_list) /\ npages = Len(page_list)
      /\ npages \in Nat /\ made \in Nat /\ MaxPages \in Nat /\ marked \subseteq Pages
      /\ PoolListInv /\ ListShape /\ WordInv /\ OwnerInv
  BY <1>1, PoolAssumption DEF PoolInv, PagesInv, PoolListInv, ListShape
<1>4. \A p \in ToSet(free) : ~Usable(p)
  BY <1>3, FirstUsable
<1>5. n \in Nat \ {0}
  BY <1>3, SomePages
<1>6. made + 1 .. made + n \subseteq Pages
  BY <1>1, <1>3, <1>5 DEF Pages
<1>7. /\ Len(list) = n /\ IsInjective(list)
      /\ ToSet(list) = made + 1 .. made + n /\ Head(list) = made + n
  BY <1>3, <1>5, NewListElements
<1>8. list \in Seq(Pages)
  <2>1. list \in [1 .. n -> Pages]
    BY <1>3, <1>5, <1>6 DEF NewList
  <2> QED
    BY <1>5, <2>1
<1> HIDE DEF list
<1>9. \A p \in made + 1 .. made + n : p \in Pages /\ bitfield[p] = Bits /\ p \notin ToSet(page_list)
  <2>1. \A p \in made + 1 .. made + n : p \in Pages /\ p > made /\ ~ (p <= made)
    BY <1>3, <1>6
  <2> QED
    BY <1>3, <2>1 DEF WordInv, PoolListInv
<1>10. /\ page_list' \in Seq(Pages) /\ Len(page_list') = Len(page_list) + n
       /\ ToSet(page_list') = ToSet(page_list) \cup (made + 1 .. made + n)
       /\ IsInjective(page_list')
  <2>1. ToSet(page_list) \cap ToSet(list) = {}
    BY <1>7, <1>9
  <2> DEFINE u == list \o page_list
  <2>2. /\ u \in Seq(Pages) /\ Len(u) = Len(page_list) + Len(list)
        /\ ToSet(u) = ToSet(page_list) \cup ToSet(list)
        /\ IsInjective(page_list) /\ IsInjective(list) /\ ToSet(page_list) \cap ToSet(list) = {}
             => IsInjective(u)
    BY <1>3, <1>7, <1>8, Joined
  <2> HIDE DEF u
  <2>3. page_list' = u
    BY <1>1 DEF u
  <2> QED
    BY <1>3, <1>7, <2>1, <2>2, <2>3
<1>11. x[1] \in made + 1 .. made + n
  BY <1>1, <1>3, <1>5, <1>7
<1>12. x[1] \in Pages /\ ArenaBit \in bitfield[x[1]] /\ x[1] \in ToSet(free')
  BY <1>1, <1>7, <1>9, <1>11, BlocksAndArenaBit
<1>13. /\ \A p \in Pages : ArenaBit \in bitfield'[p] <=> ArenaBit \in bitfield[p]
       /\ \A p \in Pages : LastOut(bitfield'[p]) <=> LastOut(bitfield[p])
       /\ \A p \in Pages : p # x[1] => bitfield'[p] = bitfield[p]
  BY <1>2, <1>3, <1>12, WordTaken
<1>14. ListShape'
  <2>1. marked' \subseteq Pages /\ made' \in 0 .. MaxPages /\ npages' \in Nat
    BY <1>1, <1>3, <1>5, <1>6, <1>7
  <2> QED
    BY <1>1, <1>3, <1>8, <1>10, <2>1 DEF ListShape
<1>15. WordInv'
  <2>1. \A p \in Pages : p > made' => p > made /\ p # x[1]
    BY <1>1, <1>3, <1>5, <1>11 DEF Pages
  <2> QED
    BY <1>1, <1>3, <1>13, <2>1 DEF WordInv
<1>16. PoolListInv'
  <2>1. ToSet(free') = marked' \cap ToSet(page_list')
    BY <1>1, <1>3, <1>7, <1>9, <1>10
  <2>2. ASSUME NEW p \in ToSet(page_list'), Usable(p)'
        PROVE  p \in ToSet(free')
    <3>1. CASE p \in made + 1 .. made + n
      BY <1>1, <1>7, <3>1
    <3>2. CASE p \notin made + 1 .. made + n
      <4>1. p \in ToSet(page_list) /\ p # x[1]
        BY <1>10, <1>11, <3>2
      <4>2. p \in Pages
        BY <1>3, <4>1 DEF ToSet
      <4>3. Usable(p)
        BY <1>13, <2>2, <4>1, <4>2 DEF Usable
      <4> QED
        BY <1>3, <1>4, <4>1, <4>3 DEF PoolListInv
    <3> QED
      BY <3>1, <3>2
  <2>3. \A p \in Pages : p \in ToSet(page_list') <=> p <= made' /\ ArenaBit \in bitfield'[p]
    <3> SUFFICES ASSUME NEW p \in Pages
                 PROVE  p \in ToSet(page_list') <=> p <= made' /\ ArenaBit \in bitfield'[p]
      OBVIOUS
    <3>1. p \in ToSet(page_list) <=> p <= made /\ ArenaBit \in bitfield[p]
      BY <1>3 DEF PoolListInv
    <3>2. p <= made' <=> p <= made \/ p \in made + 1 .. made + n
      BY <1>1, <1>3, <1>5 DEF Pages
    <3>3. p \in made + 1 .. made + n => ArenaBit \in bitfield[p]
      BY <1>9, BlocksAndArenaBit
    <3> QED
      BY <1>10, <1>13, <3>1, <3>2, <3>3
  <2>4. \A p \in Pages : ArenaBit \notin bitfield'[p] => p \in freed'
    BY <1>1, <1>3, <1>13 DEF PoolListInv
  <2>5. npages' = Len(page_list')
    BY <1>1, <1>3, <1>10
  <2>6. IsInjective(free')
    BY <1>1, <1>7
  <2> QED
    BY <1>10, <2>1, <2>2, <2>3, <2>4, <2>5, <2>6 DEF PoolListInv
<1> QED
  BY <1>14, <1>15, <1>16 DEF PagesInv

\* drop_block returned a block: its page is freed with the last one, or is in
\* the free list of a pool that exists, which it enters once.
LEMMA ReturnedBlock ==
  ASSUME PoolInv, EndDrop, NEW x, x = Last(frames).block
  PROVE  PagesInv'
<1> DEFINE p == x[1]
           word == bitfield[p] \cup {x[2]}
<1>1. /\ bitfield' = [bitfield EXCEPT ![p] = word]
      /\ \/ LastOut(word) /\ freed' = freed \cup {p} /\ UNCHANGED <<marked, free>>
         \/ /\ ~LastOut(word) /\ marked' = marked \cup {p} /\ freed' = freed
            /\ free' = IF p \notin marked /\ open THEN <<p>> \o free ELSE free
      /\ UNCHANGED <<page_list, npages, made, open>>
  BY DEF EndDrop
<1>2. OwnerInv /\ ListShape /\ WordInv /\ (open => PoolListInv)
  BY DEF PoolInv, PagesInv
<1>3. x \in AllBlocks /\ InFrame(x)
  <2>1. frames # <<>> /\ frames \in Seq(Frame)
    BY <1>2 DEF EndDrop, InCall, OwnerInv, Shape
  <2>2. Len(frames) \in DOMAIN frames /\ Last(frames) = frames[Len(frames)] /\ Last(frames) \in Frame
    BY <2>1, Popped
  <2> QED
    BY <2>2 DEF InFrame, Frame
<1>4. /\ p \in Pages /\ x[2] \in Bits /\ x[2] # ArenaBit /\ bitfield[p] \subseteq Bits
      /\ x[2] \notin bitfield[p]
  BY <1>2, <1>3, BlocksAndArenaBit DEF OwnerInv, FreeInv, Shape, AllBlocks
<1>5. ~LastOut(bitfield[p]) /\ p \notin freed
  <2>1. ~LastOut(bitfield[p])
    BY <1>4 DEF LastOut
  <2> QED
    BY <1>2, <1>4, <2>1 DEF WordInv
<1>6. bitfield'[p] = word /\ \A q \in Pages : q # p => bitfield'[q] = bitfield[q]
  BY <1>1, <1>2, <1>4 DEF OwnerInv, Shape
<1>7. \A q \in Pages : ArenaBit \in bitfield'[q] <=> ArenaBit \in bitfield[q]
  BY <1>4, <1>6
<1> HIDE DEF word, p
<1>8. WordInv'
  <2>1. \A q \in Pages : q \in freed' <=> LastOut(bitfield'[q])
    BY <1>1, <1>2, <1>4, <1>5, <1>6 DEF WordInv
  <2>2. \A q \in Pages : q > made => q # p
    BY <1>2, <1>4 DEF WordInv
  <2> QED
    BY <1>1, <1>2, <1>6, <1>7, <2>1, <2>2 DEF WordInv
<1>9. /\ <<p>> \in Seq(Pages) /\ ToSet(<<p>>) = {p} /\ IsInjective(<<p>>)
  BY <1>4 DEF ToSet, IsInjective
<1>10. free \in Seq(Pages) /\ open \in BOOLEAN
  BY <1>2 DEF ListShape
<1>11. /\ <<p>> \o free \in Seq(Pages)
       /\ ToSet(<<p>> \o free) = ToSet(free) \cup {p}
       /\ IsInjective(free) /\ p \notin ToSet(free) => IsInjective(<<p>> \o free)
  <2> DEFINE u == <<p>> \o free
  <2>1. /\ u \in Seq(Pages)
        /\ ToSet(u) = ToSet(free) \cup ToSet(<<p>>)
        /\ IsInjective(free) /\ IsInjective(<<p>>) /\ ToSet(free) \cap ToSet(<<p>>) = {}
             => IsInjective(u)
    BY <1>9, <1>10, Joined
  <2> HIDE DEF u
  <2> QED
    BY <1>9, <2>1 DEF u
<1>12. ListShape'
  <2>1. free' = free \/ free' = <<p>> \o free
    BY <1>1
  <2>2. free' \in Seq(Pages)
    BY <1>10, <1>11, <2>1
  <2>3. marked' \subseteq Pages /\ freed' \subseteq Pages
    BY <1>1, <1>2, <1>4 DEF ListShape
  <2> QED
    BY <1>1, <1>2, <2>2, <2>3 DEF ListShape
<1>13. ASSUME open PROVE PoolListInv'
  <2>1. PoolListInv
    BY <1>2, <1>13
  <2>2. ArenaBit \in bitfield[p] /\ p \in ToSet(page_list)
    <3>1. ArenaBit \in bitfield[p]
      BY <1>4, <1>5, <2>1 DEF PoolListInv
    <3>2. ~ (p > made) /\ made \in Int /\ p \in Int
      BY <1>2, <1>4 DEF WordInv, ListShape, Pages
    <3> QED
      BY <1>4, <2>1, <3>1, <3>2 DEF PoolListInv
  <2>3. ~LastOut(word)
    BY <2>2 DEF LastOut, word
  <2>4. /\ marked' = marked \cup {p} /\ freed' = freed
        /\ free' = IF p \notin marked THEN <<p>> \o free ELSE free
    BY <1>1, <1>13, <2>3
  <2>5. IsInjective(free) /\ ToSet(free) = marked \cap ToSet(page_list)
    BY <2>1 DEF PoolListInv
  <2>6. IsInjective(free') /\ ToSet(free') = ToSet(free) \cup {p}
    <3>1. CASE p \in marked
      BY <2>2, <2>4, <2>5, <3>1
    <3>2. CASE p \notin marked
      BY <1>11, <2>4, <2>5, <3>2
    <3> QED
      BY <3>1, <3>2
  <2>7. ToSet(free') = marked' \cap ToSet(page_list')
    BY <1>1, <2>2, <2>4, <2>5, <2>6
  <2>8. ASSUME NEW q \in ToSet(page_list'), Usable(q)'
        PROVE  q \in ToSet(free')
    <3>1. q \in ToSet(page_list) /\ q \in Pages
      BY <1>1, <1>2 DEF ListShape, ToSet
    <3>2. CASE q = p
      BY <2>6, <3>2
    <3>3. CASE q # p
      <4>1. Usable(q)
        BY <1>6, <2>8, <3>1, <3>3 DEF Usable
      <4> QED
        BY <2>1, <2>6, <3>1, <4>1 DEF PoolListInv
    <3> QED
      BY <3>2, <3>3
  <2> QED
    BY <1>1, <1>7, <2>1, <2>4, <2>6, <2>7, <2>8 DEF PoolListInv
<1> QED
  BY <1>1, <1>8, <1>12, <1>13 DEF PagesInv

\* The pages that shrink_to_fit lets go are all the unused ones of the pool, and
\* each is freed.
LEMMA Shrunk ==
  ASSUME PoolInv, shrink_to_fit
  PROVE  PagesInv' /\ \A p \in ToSet(page_list') : ~Unused(p)
<1> DEFINE to_drop == Kept(free, UnusedPages)
           d == ToSet(to_drop)
<1>1. /\ open /\ free' = Kept(free, Pages \ UnusedPages)
      /\ page_list' = Kept(page_list, Pages \ d) /\ npages' = npages - Len(to_drop)
      /\ bitfield' = [p \in Pages |-> IF p \in d THEN bitfield[p] \ {ArenaBit} ELSE bitfield[p]]
      /\ freed' = freed \cup {p \in d : LastOut(bitfield[p] \ {ArenaBit})}
      /\ UNCHANGED <<marked, made, open>>
  BY DEF shrink_to_fit, NotBorrowed, DropPages
<1>2. OwnerInv /\ ListShape /\ WordInv /\ PoolListInv
  BY <1>1 DEF PoolInv, PagesInv
<1>3. /\ free \in Seq(Pages) /\ page_list \in Seq(Pages)
      /\ IsInjective(free) /\ IsInjective(page_list)
      /\ ToSet(free) = marked \cap ToSet(page_list) /\ npages = Len(page_list)
      /\ ToSet(free) \subseteq Pages /\ ToSet(page_list) \subseteq Pages
  BY <1>2 DEF PoolListInv, ListShape, ToSet
<1>4. /\ to_drop \in Seq(Pages) /\ d = ToSet(free) \cap UnusedPages /\ IsInjective(to_drop)
  BY <1>3, KeptElements
<1> HIDE DEF to_drop, d
<1>5. /\ free' \in Seq(Pages) /\ ToSet(free') = ToSet(free) \ d /\ IsInjective(free')
  <2>1. /\ free' \in Seq(Pages) /\ ToSet(free') = ToSet(free) \cap (Pages \ UnusedPages)
        /\ IsInjective(free')
    BY <1>1, <1>3, KeptElements
  <2> QED
    BY <1>3, <1>4, <2>1
<1>6. /\ page_list' \in Seq(Pages) /\ ToSet(page_list') = ToSet(page_list) \ d
      /\ IsInjective(page_list')
  <2>1. /\ page_list' \in Seq(Pages) /\ ToSet(page_list') = ToSet(page_list) \cap (Pages \ d)
        /\ IsInjective(page_list')
    BY <1>1, <1>3, KeptElements
  <2> QED
    BY <1>3, <2>1
<1>7. d \subseteq Pages /\ d \subseteq ToSet(page_list) /\ \A p \in d : bitfield[p] = Bits
  BY <1>3, <1>4 DEF UnusedPages, Unused
<1>8. \A p \in d : LastOut(bitfield[p] \ {ArenaBit})
  BY <1>7, BlocksAndArenaBit DEF LastOut
<1>9. freed' = freed \cup d
  BY <1>1, <1>8
<1>10. /\ \A p \in d : bitfield'[p] = bitfield[p] \ {ArenaBit}
       /\ \A p \in Pages : p \notin d => bitfield'[p] = bitfield[p]
  BY <1>1, <1>7
<1>11. \A p \in d : p <= made
  BY <1>2, <1>7 DEF PoolListInv
<1>12. WordInv'
  <2>1. \A p \in Pages : p \in freed' <=> LastOut(bitfield'[p])
    BY <1>2, <1>8, <1>9, <1>10 DEF WordInv
  <2>2. \A p \in Pages : p > made => p \notin d
    BY <1>2, <1>11 DEF ListShape, Pages
  <2> QED
    BY <1>1, <1>2, <1>10, <2>1, <2>2 DEF WordInv
<1>13. Len(page_list) = Len(page_list') + Len(to_drop)
  <2>1. /\ IsFiniteSet(ToSet(page_list')) /\ Cardinality(ToSet(page_list')) = Len(page_list')
        /\ IsFiniteSet(d) /\ Cardinality(d) = Len(to_drop)
        /\ Cardinality(ToSet(page_list)) = Len(page_list)
    BY <1>3, <1>4, <1>6, InjectiveLength DEF d
  <2>2. Cardinality(ToSet(page_list') \cup d) =
          Cardinality(ToSet(page_list')) + Cardinality(d) - Cardinality(ToSet(page_list') \cap d)
    BY <2>1, FS_Union
  <2>3. ToSet(page_list) = ToSet(page_list') \cup d /\ ToSet(page_list') \cap d = {}
    BY <1>6, <1>7
  <2>4. Cardinality(ToSet(page_list') \cap d) = 0
    BY <2>3, FS_EmptySet
  <2>5. Cardinality(ToSet(page_list)) = Cardinality(ToSet(page_list') \cup d)
    BY <2>3, Zenon
  <2>6. Len(page_list') \in Nat /\ Len(to_drop) \in Nat
    BY <1>4, <1>6
  <2> DEFINE c == Cardinality(ToSet(page_list') \cup d)
             e == Cardinality(ToSet(page_list') \cap d)
  <2>7. c = Len(page_list) /\ e = 0 /\ c = Len(page_list') + Len(to_drop) - e
    BY <2>1, <2>2, <2>4, <2>5
  <2> HIDE DEF c, e
  <2> QED
    BY <2>6, <2>7
<1>14. npages' = Len(page_list') /\ npages' \in Nat
  <2>1. Len(page_list') \in Nat /\ Len(to_drop) \in Nat
    BY <1>4, <1>6
  <2> QED
    BY <1>1, <1>3, <1>13, <2>1
<1>15. ListShape'
  BY <1>1, <1>2, <1>5, <1>6, <1>7, <1>9, <1>14 DEF ListShape
<1>16. \A p \in ToSet(page_list') : Usable(p) => p \in ToSet(free')
  BY <1>2, <1>5, <1>6 DEF PoolListInv
<1>17. PoolListInv'
  <2>1. \A p \in ToSet(page_list') : Usable(p)' => p \in ToSet(free')
    <3>1. \A p \in ToSet(page_list') : p \in Pages /\ bitfield'[p] = bitfield[p]
      BY <1>3, <1>6, <1>10
    <3> QED
      BY <1>16, <3>1 DEF Usable
  <2>2. ToSet(free') = marked' \cap ToSet(page_list')
    BY <1>1, <1>3, <1>5, <1>6
  <2>3. \A p \in Pages : p \in ToSet(page_list') <=> p <= made' /\ ArenaBit \in bitfield'[p]
    BY <1>1, <1>2, <1>6, <1>10 DEF PoolListInv
  <2>4. \A p \in Pages : ArenaBit \notin bitfield'[p] => p \in freed'
    BY <1>2, <1>9, <1>10 DEF PoolListInv
  <2> QED
    BY <1>5, <1>6, <1>14, <2>1, <2>2, <2>3, <2>4 DEF PoolListInv
<1>18. \A p \in ToSet(page_list') : ~Unused(p)
  <2> SUFFICES ASSUME NEW p \in ToSet(page_list'), Unused(p) PROVE FALSE
    OBVIOUS
  <2>1. p \in ToSet(free') /\ p \in Pages
    BY <1>3, <1>6, <1>16, UnusedIsUsable
  <2> QED
    BY <1>4, <1>5, <2>1 DEF UnusedPages
<1> QED
  BY <1>1, <1>12, <1>15, <1>17, <1>18 DEF PagesInv

\* The pool lets go of all its pages.
LEMMA Dropped ==
  ASSUME PoolInv, DropPool
  PROVE  PagesInv'
<1> DEFINE s == ToSet(page_list)
<1>1. /\ open /\ open' = FALSE
      /\ bitfield' = [p \in Pages |-> IF p \in s THEN bitfield[p] \ {ArenaBit} ELSE bitfield[p]]
      /\ freed' = freed \cup {p \in s : LastOut(bitfield[p] \ {ArenaBit})}
      /\ UNCHANGED <<marked, free, page_list, npages, made>>
  BY DEF DropPool, NotBorrowed, DropPages, listVars
<1>2. OwnerInv /\ ListShape /\ WordInv /\ PoolListInv
  BY <1>1 DEF PoolInv, PagesInv
<1>3. s \subseteq Pages
  BY <1>2 DEF ListShape, ToSet
<1> HIDE DEF s
<1>4. ListShape'
  BY <1>1, <1>2, <1>3 DEF ListShape
<1>5. \A p \in Pages : p \in s <=> p <= made /\ ArenaBit \in bitfield[p]
  BY <1>2 DEF PoolListInv, s
<1>6. \A p \in Pages : p > made => p \notin s
  BY <1>2, <1>5 DEF ListShape, Pages
<1>7. \A p \in s : p \notin freed
  <2>1. \A p \in s : ~LastOut(bitfield[p])
    BY <1>3, <1>5 DEF LastOut
  <2> QED
    BY <1>2, <1>3, <2>1 DEF WordInv
<1>8. \A p \in Pages : p \in freed' <=> LastOut(bitfield'[p])
  BY <1>1, <1>2, <1>7 DEF WordInv
<1>9. WordInv'
  BY <1>1, <1>2, <1>5, <1>6, <1>8 DEF WordInv
<1> QED
  BY <1>1, <1>4, <1>9 DEF PagesInv

\* One step for each action.
LEMMA PagesInvNext == PoolInv /\ [Next]_vars => PagesInv'
<1> SUFFICES ASSUME PoolInv, [Next]_vars PROVE PagesInv'
  OBVIOUS
<1>1. ASSUME NEW x \in AllBlocks, NewHandle(x) PROVE PagesInv'
  BY <1>1, FindListed, FindNew
<1>2. ASSUME NEW x \in AllBlocks, alloc(x) \/ alloc_with(x) \/ alloc_rc(x) \/ alloc_rc_with(x)
      PROVE  PagesInv'
  BY <1>1, <1>2 DEF alloc, alloc_with, alloc_rc, alloc_rc_with, NewBox, NewRc
<1>3. ASSUME NEW x \in AllBlocks, DropBox(x) \/ CloneRc(x) \/ DropRc(x)
      PROVE  PagesInv'
  <2>1. UNCHANGED <<bitfield, freed, listVars, open>>
    BY <1>3 DEF DropBox, CloneRc, DropRc, BeginDrop
  <2> QED
    BY <2>1, PagesFrame DEF PoolInv
<1>4. CASE EndInit \/ InitPanics \/ DropPanics
  <2>1. UNCHANGED <<bitfield, freed, listVars, open>>
    BY <1>4 DEF EndInit, InitPanics, DropPanics, BeginDrop
  <2> QED
    BY <2>1, PagesFrame DEF PoolInv
<1>5. CASE EndDrop
  BY <1>5, ReturnedBlock
<1>6. CASE shrink_to_fit
  BY <1>6, Shrunk
<1>7. CASE DropPool
  BY <1>7, Dropped
<1>8. CASE UNCHANGED vars
  <2>1. UNCHANGED <<bitfield, freed, listVars, open>>
    BY <1>8 DEF vars, listVars
  <2> QED
    BY <2>1, PagesFrame DEF PoolInv
<1> QED
  BY <1>2, <1>3, <1>4, <1>5, <1>6, <1>7, <1>8 DEF Next

\* The invariant of the pool.
LEMMA PoolInvAlways == Spec => []PoolInv
<1>1. Init => PoolInv
  BY OwnerInvInit, PagesInvInit DEF PoolInv
<1>2. PoolInv /\ [Next]_vars => PoolInv'
  BY OwnerInvNext, PagesInvNext DEF PoolInv
<1> QED
  BY <1>1, <1>2, PTL DEF Spec

-----------------------------------------------------------------------------
(* What the pool promises.                                                 *)

\* The blocks that are in use are the zeros of the words.
LEMMA ZerosAreInUse ==
  ASSUME OwnerInv
  PROVE  \A p \in Pages, b \in Blocks : InUse(<<p, b>>) <=> b \notin bitfield[p]
<1> SUFFICES ASSUME NEW p \in Pages, NEW b \in Blocks
             PROVE  InUse(<<p, b>>) <=> b \notin bitfield[p]
  OBVIOUS
<1> DEFINE x == <<p, b>>
<1>1. x \in AllBlocks /\ x[1] = p /\ x[2] = b
  BY DEF AllBlocks
<1> HIDE DEF x
<1>2. x[2] \in bitfield[x[1]] <=> ~InUse(x)
  BY <1>1, OneOwnerEach DEF BlocksHaveOneOwner
<1> QED
  BY <1>1, <1>2 DEF x

\* No page is freed that has a block in use, or that the pool has in a list:
\* also when a destructor shrinks or drops the pool in the middle of drop_block.
THEOREM UsedPagesSurvive == Spec => []ReferencedPagesSurvive
<1>1. PoolInv => ReferencedPagesSurvive
  <2> SUFFICES ASSUME PoolInv PROVE ReferencedPagesSurvive
    OBVIOUS
  <2>1. OwnerInv /\ ListShape /\ WordInv /\ (open => PoolListInv)
    BY DEF PoolInv, PagesInv
  <2>2. ASSUME NEW x \in AllBlocks, InUse(x) PROVE x[1] \notin freed
    <3>1. PICK p \in Pages, b \in Blocks : x = <<p, b>>
      BY DEF AllBlocks
    <3>2. x[1] = p /\ b \notin bitfield[p]
      BY <2>1, <2>2, <3>1, ZerosAreInUse
    <3>3. ~LastOut(bitfield[p])
      BY <3>2, BlocksAndArenaBit DEF LastOut
    <3> QED
      BY <2>1, <3>2, <3>3 DEF WordInv
  <2>3. ASSUME open PROVE (ToSet(free) \cup ToSet(page_list)) \cap freed = {}
    <3>1. PoolListInv
      BY <2>1, <2>3
    <3>2. \A p \in ToSet(page_list) : p \in Pages /\ ArenaBit \in bitfield[p]
      BY <2>1, <3>1 DEF PoolListInv, ListShape, ToSet
    <3>3. \A p \in ToSet(page_list) : p \notin freed
      BY <2>1, <3>2 DEF WordInv, LastOut
    <3> QED
      BY <3>1, <3>3 DEF PoolListInv
  <2> QED
    BY <2>2, <2>3 DEF ReferencedPagesSurvive
<1> QED
  BY <1>1, PoolInvAlways, PTL

\* The free list has the pages that say so, once, and all that have a free block.
THEOREM FreeListExact == Spec => []FreeListIsExact
<1>1. PoolInv => FreeListIsExact
  BY DEF PoolInv, PagesInv, PoolListInv, FreeListIsExact
<1> QED
  BY <1>1, PoolInvAlways, PTL

\* Once the pool is dropped the pages that are left are those with a block in
\* use, so that the last handle frees the last page.
THEOREM DroppedPoolFrees == Spec => []DroppedPoolFreesPages
<1>1. PoolInv => DroppedPoolFreesPages
  <2> SUFFICES ASSUME PoolInv, ~open, NEW p \in 1 .. made
               PROVE  p \in freed <=> \A b \in Blocks : ~InUse(<<p, b>>)
    BY DEF DroppedPoolFreesPages
  <2>1. OwnerInv /\ ListShape /\ WordInv
    BY DEF PoolInv, PagesInv
  <2>2. p \in Pages /\ p <= made /\ bitfield[p] \subseteq Bits
    <3>1. made \in Nat /\ made <= MaxPages /\ MaxPages \in Nat
      BY <2>1, PoolAssumption DEF ListShape
    <3>2. p \in Pages /\ p <= made
      BY <3>1 DEF Pages
    <3>3. bitfield \in [Pages -> SUBSET Bits]
      BY <2>1 DEF OwnerInv, Shape
    <3> QED
      BY <3>2, <3>3
  <2>3. p \in freed <=> LastOut(bitfield[p])
    BY <2>1, <2>2 DEF WordInv
  <2>4. ArenaBit \notin bitfield[p]
    BY <2>1, <2>2 DEF WordInv
  <2>5. LastOut(bitfield[p]) <=> \A b \in Blocks : b \in bitfield[p]
    BY <2>2, <2>4, BlocksAndArenaBit DEF LastOut
  <2> QED
    BY <2>1, <2>2, <2>3, <2>5, ZerosAreInUse
<1> QED
  BY <1>1, PoolInvAlways, PTL

\* shrink_to_fit lets go of every unused page, because each is in the free list
\* that it goes through.
THEOREM ShrinkDropsUnused == Spec => ShrinkDropsUnusedPages
<1>1. PoolInv /\ [Next]_vars => [shrink_to_fit => \A p \in ToSet(page_list') : ~Unused(p)]_vars
  BY Shrunk
<1> QED
  BY <1>1, PoolInvAlways, PTL DEF Spec, ShrinkDropsUnusedPages

-----------------------------------------------------------------------------
(* Each page as PageLife describes it.                                     *)

\* Who shares a page: its blocks in use and, until it lets go of it, the pool.
Sharers(p) == (Blocks \ bitfield[p]) \cup (bitfield[p] \cap {ArenaBit})

\* What a step of PageLife is, in the variables of the pool.
LEMMA PageLifeStutters ==
  ASSUME NEW p \in Pages, bitfield'[p] = bitfield[p], (p \in freed') <=> (p \in freed)
  PROVE  [Life(p)!Next]_(Life(p)!vars)
BY DEF Life!vars

LEMMA PageLifeTakes ==
  ASSUME NEW p \in Pages, NEW b \in Blocks, Sharers(p) # {}, b \notin Sharers(p),
         Sharers(p)' = Sharers(p) \cup {b}, (p \in freed') <=> (p \in freed)
  PROVE  Life(p)!Next
BY DEF Sharers, Life!Next, Life!Take

LEMMA PageLifeLeaves ==
  ASSUME NEW p \in Pages, NEW s \in Blocks \cup {ArenaBit}, s \in Sharers(p),
         Sharers(p)' = Sharers(p) \ {s},
         \/ (p \in freed') <=> (p \in freed)
         \/ Sharers(p)' = {} /\ p \notin freed /\ p \in freed'
  PROVE  Life(p)!Next
<1>1. CASE (p \in freed') <=> (p \in freed)
  BY <1>1 DEF Sharers, Life!Next, Life!Leave
<1>2. CASE Sharers(p)' = {} /\ p \notin freed /\ p \in freed'
  <2>1. Sharers(p) = {s}
    BY <1>2
  <2> QED
    BY <1>2, <2>1 DEF Sharers, Life!Next, Life!LeaveAndFree
<1> QED
  BY <1>1, <1>2

\* find_place takes a block of a page that the pool has, or that it makes.
LEMMA FoundPage ==
  ASSUME PoolInv, NEW x \in AllBlocks, NewHandle(x)
  PROVE  ArenaBit \in bitfield[x[1]]
<1>0. /\ free \in Seq(Pages) /\ ToSet(free) = marked \cap ToSet(page_list) /\ npages \in Nat /\ made \in Nat
      /\ MaxPages \in Nat /\ PoolListInv /\ WordInv /\ x[1] \in Pages
  BY PoolAssumption DEF PoolInv, PagesInv, PoolListInv, ListShape, NewHandle, AllBlocks
<1> DEFINE k == SelectInSeq(free, Usable)
           n == ToAllocate
           list == NewList(made, n)
<1>1. CASE k # 0
  <2>1. x[1] = free[k]
    BY <1>1 DEF NewHandle, FindPlace
  <2>2. k \in 1 .. Len(free)
    BY <1>0, <1>1, FirstUsable
  <2>3. x[1] \in ToSet(page_list)
    BY <1>0, <2>1, <2>2 DEF ToSet
  <2> QED
    BY <1>0, <2>3 DEF PoolListInv
<1>2. CASE k = 0
  <2>1. x[1] = Head(list)
    BY <1>2 DEF NewHandle, FindPlace, make_list
  <2>2. n \in Nat \ {0}
    BY <1>0, SomePages
  <2>3. Head(list) = made + n
    BY <1>0, <2>2, NewListElements
  <2> HIDE DEF list, n
  <2>4. x[1] > made
    BY <1>0, <2>1, <2>2, <2>3
  <2> QED
    BY <1>0, <2>4, BlocksAndArenaBit DEF WordInv
<1> QED
  BY <1>1, <1>2

\* alloc and its variants take a block.
LEMMA PageLifeOfNewHandle ==
  ASSUME PoolInv, NEW x \in AllBlocks, NewHandle(x), NEW p \in Pages
  PROVE  [Life(p)!Next]_(Life(p)!vars)
<1>1. /\ x[2] \in bitfield[x[1]] /\ bitfield' = [bitfield EXCEPT ![x[1]] = @ \ {x[2]}]
      /\ x[1] \in Pages /\ x[2] \in Blocks /\ x[2] # ArenaBit /\ bitfield \in [Pages -> SUBSET Bits]
      /\ freed' = freed
  BY FoundBlock, BlocksAndArenaBit DEF PoolInv, OwnerInv, Shape, NewHandle, AllBlocks
<1>2. ArenaBit \in bitfield[x[1]]
  BY FoundPage
<1>3. CASE p = x[1]
  <2>1. bitfield'[p] = bitfield[p] \ {x[2]}
    BY <1>1, <1>3
  <2>2. Sharers(p) # {} /\ x[2] \notin Sharers(p) /\ Sharers(p)' = Sharers(p) \cup {x[2]}
    BY <1>1, <1>2, <1>3, <2>1 DEF Sharers
  <2> QED
    BY <1>1, <2>2, PageLifeTakes
<1>4. CASE p # x[1]
  BY <1>1, <1>4, PageLifeStutters
<1> QED
  BY <1>3, <1>4

\* The second part of drop_block gives one back, and frees the page after the last.
LEMMA PageLifeOfEndDrop ==
  ASSUME PoolInv, EndDrop, NEW p \in Pages
  PROVE  [Life(p)!Next]_(Life(p)!vars)
<1> DEFINE x == Last(frames).block
           q == x[1]
           word == bitfield[q] \cup {x[2]}
<1>1. /\ bitfield' = [bitfield EXCEPT ![q] = word]
      /\ (LastOut(word) /\ freed' = freed \cup {q}) \/ freed' = freed
  BY DEF EndDrop
<1>2. x \in AllBlocks /\ InFrame(x) /\ OwnerInv /\ WordInv
  <2>1. frames # <<>> /\ frames \in Seq(Frame)
    BY DEF EndDrop, InCall, PoolInv, OwnerInv, Shape
  <2>2. Len(frames) \in DOMAIN frames /\ Last(frames) = frames[Len(frames)] /\ Last(frames) \in Frame
    BY <2>1, Popped
  <2> QED
    BY <2>2 DEF InFrame, Frame, PoolInv, PagesInv
<1> HIDE DEF x
<1>3. /\ q \in Pages /\ x[2] \in Blocks /\ x[2] \in Bits /\ x[2] # ArenaBit /\ bitfield \in [Pages -> SUBSET Bits]
      /\ x[2] \notin bitfield[q]
  BY <1>2, BlocksAndArenaBit DEF OwnerInv, FreeInv, Shape, AllBlocks
<1>4. q \notin freed
  BY <1>2, <1>3 DEF WordInv, LastOut
<1>5. CASE p = q
  <2>1. bitfield'[p] = bitfield[p] \cup {x[2]}
    BY <1>1, <1>3, <1>5
  <2>2. x[2] \in Sharers(p) /\ Sharers(p)' = Sharers(p) \ {x[2]}
    BY <1>3, <1>5, <2>1 DEF Sharers
  <2>3. ASSUME LastOut(word) PROVE Sharers(p)' = {}
    BY <1>5, <2>1, <2>3, BlocksAndArenaBit DEF Sharers, LastOut
  <2> QED
    BY <1>1, <1>3, <1>4, <1>5, <2>2, <2>3, PageLifeLeaves
<1>6. CASE p # q
  <2>1. bitfield'[p] = bitfield[p] /\ (p \in freed' <=> p \in freed)
    BY <1>1, <1>3, <1>6
  <2> QED
    BY <2>1, PageLifeStutters
<1> QED
  BY <1>5, <1>6

\* shrink_to_fit and the drop of the pool let go of pages the pool has.
LEMMA PageLifeOfDropPages ==
  ASSUME PoolInv, NEW s \in SUBSET Pages, DropPages(s), \A q \in s : ArenaBit \in bitfield[q],
         NEW p \in Pages
  PROVE  [Life(p)!Next]_(Life(p)!vars)
<1>1. /\ bitfield'[p] = IF p \in s THEN bitfield[p] \ {ArenaBit} ELSE bitfield[p]
      /\ p \in freed' <=> p \in freed \/ (p \in s /\ LastOut(bitfield[p] \ {ArenaBit}))
  BY DEF DropPages
<1>2. /\ bitfield[p] \subseteq Bits /\ WordInv
  BY DEF PoolInv, OwnerInv, Shape, PagesInv
<1>3. CASE p \in s
  <2>1. ArenaBit \in Sharers(p) /\ Sharers(p)' = Sharers(p) \ {ArenaBit}
    BY <1>1, <1>3, BlocksAndArenaBit DEF Sharers
  <2>2. p \notin freed
    BY <1>2, <1>3 DEF WordInv, LastOut
  <2>3. ASSUME LastOut(bitfield[p] \ {ArenaBit}) PROVE Sharers(p)' = {}
    BY <1>1, <1>3, <2>3, BlocksAndArenaBit DEF Sharers, LastOut
  <2> QED
    BY <1>1, <1>3, <2>1, <2>2, <2>3, PageLifeLeaves
<1>4. CASE p \notin s
  BY <1>1, <1>4, PageLifeStutters
<1> QED
  BY <1>3, <1>4

\* Whatever runs inside drop_block and alloc_with: each page is shared by the pool
\* and the blocks in use, the last to leave frees it, once, and nobody comes back.
THEOREM PoolImplementsPageLife == Spec => ImplementsPageLife
<1>1. Init => \A p \in Pages : Life(p)!Init
  BY BlocksAndArenaBit DEF Init, NewPage, Life!Init
<1>2. ASSUME PoolInv, [Next]_vars, NEW p \in Pages
      PROVE  [Life(p)!Next]_(Life(p)!vars)
  <2>0. open => PoolListInv /\ free \in Seq(Pages) /\ page_list \in Seq(Pages)
    BY <1>2 DEF PoolInv, PagesInv, ListShape
  <2>1. ASSUME NEW x \in AllBlocks, alloc(x) \/ alloc_with(x) \/ alloc_rc(x) \/ alloc_rc_with(x)
        PROVE  [Life(p)!Next]_(Life(p)!vars)
    BY <1>2, <2>1, PageLifeOfNewHandle DEF alloc, alloc_with, alloc_rc, alloc_rc_with, NewBox, NewRc
  <2>2. CASE UNCHANGED <<bitfield, freed>>
    BY <2>2, PageLifeStutters
  <2>3. (\E x \in AllBlocks : DropBox(x) \/ CloneRc(x) \/ DropRc(x)) => UNCHANGED <<bitfield, freed>>
    BY DEF DropBox, CloneRc, DropRc, BeginDrop
  <2>4. EndInit \/ InitPanics \/ DropPanics \/ UNCHANGED vars => UNCHANGED <<bitfield, freed>>
    BY DEF EndInit, InitPanics, DropPanics, BeginDrop, vars
  <2>5. CASE EndDrop
    BY <1>2, <2>5, PageLifeOfEndDrop
  <2>6. CASE shrink_to_fit
    <3>1. open /\ DropPages(ToSet(Kept(free, UnusedPages)))
      BY <2>6 DEF shrink_to_fit, NotBorrowed
    <3>2. ToSet(Kept(free, UnusedPages)) = ToSet(free) \cap UnusedPages
      BY <2>0, <3>1, KeptElements
    <3>3. \A q \in ToSet(Kept(free, UnusedPages)) : q \in Pages /\ ArenaBit \in bitfield[q]
      BY <3>2, BlocksAndArenaBit DEF UnusedPages, Unused
    <3> QED
      BY <1>2, <3>1, <3>3, PageLifeOfDropPages
  <2>7. CASE DropPool
    <3>1. open /\ DropPages(ToSet(page_list))
      BY <2>7 DEF DropPool, NotBorrowed
    <3>2. \A q \in ToSet(page_list) : q \in Pages /\ ArenaBit \in bitfield[q]
      BY <2>0, <3>1 DEF PoolListInv, ToSet
    <3> QED
      BY <1>2, <3>1, <3>2, PageLifeOfDropPages
  <2> QED
    BY <1>2, <2>1, <2>2, <2>3, <2>4, <2>5, <2>6, <2>7 DEF Next
<1>3. PoolInv /\ [Next]_vars => [\A p \in Pages : [Life(p)!Next]_(Life(p)!vars)]_vars
  BY <1>2
<1> QED
  BY <1>1, <1>3, PoolInvAlways, PTL DEF Spec, ImplementsPageLife

-----------------------------------------------------------------------------
(* The types, with their bounds.                                           *)

\* The bounds that Shape and ListShape leave out.
Bounds == counter \in [AllBlocks -> 0 .. MaxRcs] /\ npages \in 0 .. MaxPages

\* A list without repetitions has no more pages than there are.
LEMMA PagesBoundLists ==
  ASSUME NEW list \in Seq(Pages), IsInjective(list)
  PROVE  Len(list) \in 0 .. MaxPages
<1>1. Len(list) \in Nat /\ MaxPages \in Nat
  BY PoolAssumption
<1>2. ToSet(list) \subseteq Pages
  BY DEF ToSet
<1>3. IsFiniteSet(Pages) /\ Cardinality(Pages) = MaxPages
  BY <1>1, FS_Interval DEF Pages
<1>4. Cardinality(ToSet(list)) <= Cardinality(Pages)
  BY <1>2, <1>3, FS_Subset
<1>5. Cardinality(ToSet(list)) = Len(list)
  BY InjectiveLength
<1> QED
  BY <1>1, <1>3, <1>4, <1>5

\* No step leaves the bounds.
LEMMA BoundsNext ==
  ASSUME PoolInv, PoolInv', Bounds, [Next]_vars
  PROVE  Bounds'
<1>1. counter' \in [AllBlocks -> 0 .. MaxRcs]
  <2>0. MaxRcs \in Nat \ {0} /\ counter \in [AllBlocks -> 0 .. MaxRcs]
    BY PoolAssumption DEF Bounds
  <2>1. ASSUME NEW x \in AllBlocks,
               alloc(x) \/ alloc_with(x) \/ alloc_rc(x) \/ alloc_rc_with(x)
        PROVE  counter' \in [AllBlocks -> 0 .. MaxRcs]
    BY <2>0, <2>1 DEF alloc, alloc_with, alloc_rc, alloc_rc_with, NewBox, NewRc, NewHandle
  <2>2. ASSUME NEW x \in AllBlocks, DropBox(x) PROVE counter' \in [AllBlocks -> 0 .. MaxRcs]
    BY <2>0, <2>2 DEF DropBox
  <2>3. ASSUME NEW x \in AllBlocks, CloneRc(x) PROVE counter' \in [AllBlocks -> 0 .. MaxRcs]
    <3>1. counter[x] + 1 \in 0 .. MaxRcs
      BY <2>0, <2>3 DEF CloneRc
    <3> QED
      BY <2>0, <2>3, <3>1 DEF CloneRc
  <2>4. ASSUME NEW x \in AllBlocks, DropRc(x) PROVE counter' \in [AllBlocks -> 0 .. MaxRcs]
    <3>1. counter[x] - 1 \in 0 .. MaxRcs
      BY <2>0, <2>4 DEF DropRc, Out
    <3> QED
      BY <2>0, <2>4, <3>1 DEF DropRc
  <2>5. CASE InitPanics
    <3>1. PICK x : counter' = [counter EXCEPT ![x] = 0]
      BY <2>5 DEF InitPanics
    <3>2. 0 \in 0 .. MaxRcs
      BY <2>0
    <3>3. \A S, T, f, y, e : f \in [S -> T] /\ e \in T => [f EXCEPT ![y] = e] \in [S -> T]
      OBVIOUS
    <3> QED
      BY <2>0, <3>1, <3>2, <3>3, Zenon
  <2>6. CASE EndInit \/ EndDrop \/ DropPanics \/ shrink_to_fit \/ DropPool \/ UNCHANGED vars
    BY <2>0, <2>6 DEF EndInit, EndDrop, DropPanics, shrink_to_fit, DropPool, vars
  <2> QED
    BY <2>1, <2>2, <2>3, <2>4, <2>5, <2>6 DEF Next
<1>2. npages' \in 0 .. MaxPages
  <2>1. CASE open'
    <3>1. page_list' \in Seq(Pages) /\ IsInjective(page_list') /\ npages' = Len(page_list')
      BY <2>1 DEF PoolInv, PagesInv, PoolListInv, ListShape
    <3> QED
      BY <3>1, PagesBoundLists
  <2>2. CASE ~open'
    <3>1. npages' = npages
      BY <2>2 DEF Next, alloc, alloc_with, alloc_rc, alloc_rc_with, NewBox, NewRc, NewHandle,
         DropBox, CloneRc, DropRc, EndInit, InitPanics, EndDrop, DropPanics, shrink_to_fit,
         DropPool, NotBorrowed, listVars, vars
    <3> QED
      BY <3>1 DEF Bounds
  <2> QED
    BY <2>1, <2>2
<1> QED
  BY <1>1, <1>2 DEF Bounds

\* Each variable has its type: a block no more handles than were made, and the
\* pool no more pages.
THEOREM TypeCorrect == Spec => []TypeOK
<1>1. Init => Bounds
  BY PoolAssumption DEF Init, Bounds, NewPage
<1>2. PoolInv /\ PoolInv' /\ Bounds /\ [Next]_vars => Bounds'
  BY BoundsNext
<1>3. PoolInv /\ Bounds => TypeOK
  BY DEF PoolInv, OwnerInv, Shape, PagesInv, ListShape, Bounds, TypeOK
<1> QED
  BY <1>1, <1>2, <1>3, PoolInvAlways, PTL DEF Spec

-----------------------------------------------------------------------------
(* What stats and Debug count.                                             *)

\* The blocks of p that are in use.
UsedOf == [p \in Pages |-> {x \in AllBlocks : InUse(x) /\ x[1] = p}]

\* The zeros of a page of the pool are its blocks in use.
LEMMA UsedBlocks ==
  ASSUME OwnerInv, NEW p \in Pages
  PROVE  /\ IsFiniteSet(UsedOf[p])
         /\ ArenaBit \in bitfield[p] => Cardinality(Bits \ bitfield[p]) = Cardinality(UsedOf[p])
<1> DEFINE zeros == Blocks \ bitfield[p]
<1>1. zeros = {b \in Blocks : InUse(<<p, b>>)}
  BY ZerosAreInUse
<1>2. IsFiniteSet(zeros)
  <2>1. IsFiniteSet(Blocks)
    BY WidthAssumption, FS_Interval DEF Blocks, BLOCK_PER_PAGE
  <2> QED
    BY <2>1, FS_Subset
<1>3. UsedOf[p] = {x \in AllBlocks : InUse(x) /\ x[1] = p}
  BY DEF UsedOf
<1> DEFINE f == [b \in zeros |-> <<p, b>>]
<1>4. f \in Bijection(zeros, UsedOf[p])
  <2>1. \A b \in zeros : f[b] = <<p, b>> /\ f[b] \in UsedOf[p]
    BY <1>1, <1>3 DEF AllBlocks
  <2>2. \A b, c \in zeros : f[b] = f[c] => b = c
    BY <2>1
  <2>3. ASSUME NEW x \in UsedOf[p] PROVE \E b \in zeros : f[b] = x
    <3>1. x \in AllBlocks /\ InUse(x) /\ x[1] = p
      BY <1>3
    <3>2. PICK q \in Pages, b \in Blocks : x = <<q, b>>
      BY <3>1 DEF AllBlocks
    <3>3. q = p /\ b \in zeros
      BY <1>1, <3>1, <3>2
    <3> QED
      BY <2>1, <3>2, <3>3
  <2>4. f \in [zeros -> UsedOf[p]]
    BY <2>1
  <2> HIDE DEF f, zeros
  <2> QED
    BY <2>2, <2>3, <2>4 DEF Bijection, Injection, Surjection, IsInjective
<1> HIDE DEF f
<1>5. IsFiniteSet(UsedOf[p]) /\ Cardinality(UsedOf[p]) = Cardinality(zeros)
  <2> HIDE DEF zeros
  <2> QED
    BY <1>2, <1>4, FS_Bijection DEF ExistsBijection
<1>6. ASSUME ArenaBit \in bitfield[p] PROVE Bits \ bitfield[p] = zeros
  BY <1>6, BlocksAndArenaBit
<1> QED
  BY <1>5, <1>6, Zenon

\* Debug sums up what stats counts.
LEMMA DebugCounts ==
  ASSUME page_list \in Seq(Pages), \A p \in Pages : Cardinality(Bits \ bitfield[p]) \in Nat
  PROVE  stats = <<fmt.blocks_used, fmt.blocks_free>>
<1> DEFINE u == [i \in DOMAIN page_list |-> Cardinality(Bits \ bitfield[page_list[i]])]
           r == [i \in DOMAIN page_list |-> BLOCK_PER_PAGE - u[i]]
           pages == [i \in DOMAIN page_list |->
                      [used |-> Cardinality(Bits \ bitfield[page_list[i]]),
                       free |-> BLOCK_PER_PAGE - Cardinality(Bits \ bitfield[page_list[i]])]]
<1>1. DOMAIN page_list = 1 .. Len(page_list) /\ \A i \in DOMAIN page_list : page_list[i] \in Pages
  OBVIOUS
<1>2. u \in Seq(Int) /\ Len(u) = Len(page_list)
  <2>1. u \in [1 .. Len(page_list) -> Int]
    BY <1>1
  <2>2. Len(page_list) \in Nat
    OBVIOUS
  <2> HIDE DEF u
  <2> QED
    BY <2>1, <2>2
<1>3. BLOCK_PER_PAGE \in Int
  BY WidthAssumption DEF BLOCK_PER_PAGE
<1>4. r = [i \in 1 .. Len(u) |-> BLOCK_PER_PAGE - u[i]]
  <2> HIDE DEF u
  <2> QED
    BY <1>1, <1>2
<1>5. Total(r) = Len(page_list) * BLOCK_PER_PAGE - Total(u)
  <2> HIDE DEF u, r
  <2>1. Total(r) = Len(u) * BLOCK_PER_PAGE - Total(u)
    BY <1>2, <1>3, <1>4, TotalOfRest
  <2> QED
    BY <1>2, <2>1
<1>6. /\ DOMAIN pages = DOMAIN page_list
      /\ \A i \in DOMAIN page_list : pages[i].used = u[i] /\ pages[i].free = r[i]
  OBVIOUS
<1>7. fmt = [blocks_free |-> Total([i \in DOMAIN pages |-> pages[i].free]),
             blocks_used |-> Total([i \in DOMAIN pages |-> pages[i].used]),
             npages |-> npages, pages |-> pages]
  BY Zenon DEF fmt
<1>8. stats = <<Total(u), Len(page_list) * BLOCK_PER_PAGE - Total(u)>>
  BY Zenon DEF stats
<1>9. [i \in DOMAIN pages |-> pages[i].free] = r /\ [i \in DOMAIN pages |-> pages[i].used] = u
  <2>1. /\ r = [i \in DOMAIN page_list |-> r[i]]
        /\ u = [i \in DOMAIN page_list |-> u[i]]
    OBVIOUS
  <2> HIDE DEF pages, r, u
  <2> QED
    BY <1>6, <2>1
<1> HIDE DEF pages, r, u
<1>10. fmt.blocks_free = Total(r) /\ fmt.blocks_used = Total(u)
  BY <1>7, <1>9
<1> QED
  BY <1>5, <1>8, <1>10

\* page_list has the pages that were not freed, npages is their number, as stats
\* asserts, and what stats and Debug report are the blocks in use.
THEOREM StatsAreUsedBlocks == Spec => []StatsCountUsedBlocks
<1>1. PoolInv => StatsCountUsedBlocks
  <2> DEFINE inUse == {x \in AllBlocks : InUse(x)}
             used == Cardinality(inUse)
  <2> SUFFICES ASSUME PoolInv, open
               PROVE  /\ IsInjective(page_list) /\ ToSet(page_list) = (1 .. made) \ freed
                      /\ npages = Len(page_list)
                      /\ stats = <<used, npages * BLOCK_PER_PAGE - used>>
                      /\ stats = <<fmt.blocks_used, fmt.blocks_free>>
    BY DEF StatsCountUsedBlocks
  <2>0. OwnerInv /\ ListShape /\ WordInv /\ PoolListInv
    BY DEF PoolInv, PagesInv
  <2>1. /\ page_list \in Seq(Pages) /\ made \in 0 .. MaxPages /\ MaxPages \in Nat
        /\ 1 .. made \subseteq Pages /\ IsInjective(page_list) /\ npages = Len(page_list)
        /\ \A p \in Pages : p \in ToSet(page_list) <=> p <= made /\ ArenaBit \in bitfield[p]
    BY <2>0, PoolAssumption DEF ListShape, PoolListInv, Pages
  <2>2. \A p \in Pages : p \in freed <=> ArenaBit \notin bitfield[p]
    BY <2>0 DEF WordInv, PoolListInv, LastOut
  <2>3. ToSet(page_list) \subseteq Pages
    BY <2>1 DEF ToSet
  <2>4. ToSet(page_list) = (1 .. made) \ freed
    <3>1. \A p \in Pages : p \in 1 .. made <=> p <= made
      BY <2>1 DEF Pages
    <3> QED
      BY <2>1, <2>2, <2>3, <3>1
  <2>5. UNION {UsedOf[p] : p \in ToSet(page_list)} = inUse
    <3>1. ASSUME NEW x \in inUse PROVE x[1] \in ToSet(page_list) /\ x \in UsedOf[x[1]]
      <4>1. PICK p \in Pages, b \in Blocks : x = <<p, b>>
        BY DEF AllBlocks
      <4>2. x[1] = p /\ b \notin bitfield[p] /\ InUse(x)
        BY <2>0, <4>1, ZerosAreInUse
      <4>3. ~LastOut(bitfield[p]) /\ bitfield[p] # Bits
        BY <4>2, BlocksAndArenaBit DEF LastOut
      <4>4. p \notin freed /\ ~ (p > made)
        BY <2>0, <4>3 DEF WordInv
      <4>5. p <= made
        BY <2>1, <4>4 DEF Pages
      <4> QED
        BY <2>1, <2>2, <4>2, <4>4, <4>5 DEF UsedOf
    <3>2. \A p \in ToSet(page_list) : UsedOf[p] \subseteq inUse
      BY <2>3 DEF UsedOf
    <3> HIDE DEF inUse
    <3> QED
      BY <3>1, <3>2
  <2>6. /\ \A p \in Pages : IsFiniteSet(UsedOf[p])
        /\ \A p \in Pages : ArenaBit \in bitfield[p] =>
                              Cardinality(Bits \ bitfield[p]) = Cardinality(UsedOf[p])
        /\ \A p, q \in Pages : p # q => UsedOf[p] \cap UsedOf[q] = {}
    BY <2>0, UsedBlocks DEF UsedOf
  <2>7. \A p \in Pages : Cardinality(Bits \ bitfield[p]) \in Nat
    <3>1. IsFiniteSet(Bits)
      BY WidthAssumption, FS_Interval DEF Bits
    <3> QED
      BY <3>1, FS_Subset, FS_CardinalityType
  <2> HIDE DEF inUse
  <2> DEFINE u == [i \in DOMAIN page_list |-> Cardinality(Bits \ bitfield[page_list[i]])]
  <2>8. u = [i \in 1 .. Len(page_list) |-> Cardinality(UsedOf[page_list[i]])]
    <3>1. /\ DOMAIN page_list = 1 .. Len(page_list)
          /\ \A i \in 1 .. Len(page_list) : page_list[i] \in Pages /\ page_list[i] \in ToSet(page_list)
      BY <2>1 DEF ToSet
    <3> QED
      BY <2>1, <2>6, <3>1
  <2>9. Total(u) = used
    <3> HIDE DEF u
    <3>1. Total(u) = Cardinality(UNION {UsedOf[p] : p \in ToSet(page_list)})
      BY <2>1, <2>6, <2>8, TotalOfParts
    <3> QED
      BY <2>5, <3>1, Zenon
  <2>10. stats = <<Total(u), Len(page_list) * BLOCK_PER_PAGE - Total(u)>>
    BY Zenon DEF stats
  <2>11. stats = <<used, npages * BLOCK_PER_PAGE - used>>
    <3> HIDE DEF u
    <3> QED
      BY <2>1, <2>9, <2>10, Zenon
  <2> QED
    BY <2>1, <2>4, <2>7, <2>11, DebugCounts
<1> QED
  BY <1>1, PoolInvAlways, PTL
=============================================================================
