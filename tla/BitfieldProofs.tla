---------------------------- MODULE BitfieldProofs ----------------------------
(***************************************************************************)
(* What the instructions on the word of a page do, for every width: the    *)
(* lemmas that the proofs about the pages rest on.                         *)
(***************************************************************************)
EXTENDS Bitfield, WellFoundedInduction, TLAPS

\* A set of bit positions that is not empty has a least element, and that is
\* the one Min names: trailing_zeros of a word that is not null.
LEMMA LeastBit ==
  ASSUME NEW w, w \subseteq Bits, w # {}
  PROVE  /\ Min(w) \in w
         /\ \A j \in w : Min(w) <= j
PROOF
  <1>1. w \subseteq Nat
    BY WidthAssumption DEF Bits
  <1>2. PICK x \in w : \A y \in w : ~ (<<y, x>> \in OpToRel(<, Nat))
    BY <1>1, NatLessThanWellFounded, WFMin
  <1>3. ASSUME NEW y \in w, y < x
        PROVE  FALSE
    <2>1. <<y, x>> \in Nat \X Nat /\ <<y, x>>[1] < <<y, x>>[2]
      BY <1>1, <1>3
    <2>2. <<y, x>> \in OpToRel(<, Nat)
      BY <2>1 DEF OpToRel
    <2>. QED
      BY <1>2, <2>2
  <1>4. \A y \in w : x <= y
    BY <1>1, <1>3
  <1>. QED
    BY <1>4 DEF Min

\* The bits of the word are those of the blocks and, above them, the arena's.
LEMMA BlocksAndArenaBit ==
  /\ Blocks = Bits \ {ArenaBit}
  /\ Blocks \subseteq Nat
  /\ ArenaBit \in Bits
  /\ \A b \in Blocks : ShiftedOne(b) = b
  /\ BLOCK_PER_PAGE = ArenaBit
  BY WidthAssumption DEF Blocks, Bits, ArenaBit, BLOCK_PER_PAGE, ShiftedOne

\* fetch_add(1 << b) sets the bit b and nothing else when it was clear: no
\* carry (drop_block, "fetch_add is faster than fetch_or").
LEMMA FetchAddOfClearBit ==
  ASSUME NEW w, w \subseteq Bits, NEW b \in Bits, b \notin w
  PROVE  FetchAddBit(w, b) = w \cup {b}
PROOF
  <1> DEFINE zeros == {j \in b .. W - 1 : j \notin w}
  <1>1. b \in zeros /\ zeros \subseteq Bits
    BY WidthAssumption DEF Bits
  <1>2. \A j \in zeros : b <= j
    BY WidthAssumption DEF Bits
  <1>3. Min(zeros) \in zeros /\ Min(zeros) <= b
    BY <1>1, LeastBit
  <1>4. Min(zeros) = b
    <2> DEFINE m == Min(zeros)
    <2>1. m \in Bits /\ b <= m /\ m <= b
      BY <1>1, <1>2, <1>3
    <2> HIDE DEF m
    <2>2. m = b
      BY <2>1, WidthAssumption DEF Bits
    <2>. QED
      BY <2>2 DEF m
  <1>5. FetchAddBit(w, b) = (w \ (b .. b - 1)) \cup {b}
    BY <1>1, <1>4 DEF FetchAddBit
  <1>6. b .. b - 1 = {}
    BY WidthAssumption DEF Bits
  <1>. QED
    BY <1>5, <1>6

\* trailing_zeros gives the position of a set bit, or W for the null word.
LEMMA TrailingZerosRange ==
  ASSUME NEW w, w \subseteq Bits
  PROVE  /\ TrailingZeros(w) \in Nat
         /\ w # {} => TrailingZeros(w) \in w
PROOF
  <1>1. CASE w = {}
    BY <1>1, WidthAssumption DEF TrailingZeros
  <1>2. CASE w # {}
    <2>1. TrailingZeros(w) = Min(w)
      BY <1>2 DEF TrailingZeros
    <2>2. Min(w) \in w
      BY <1>2, LeastBit
    <2>3. \A j \in w : j \in Nat
      BY WidthAssumption DEF Bits
    <2>. QED
      BY <2>1, <2>2, <2>3
  <1>. QED
    BY <1>1, <1>2

\* fetch_sub(MASK_ARENA_BIT) inverts the arena's bit and leaves the others.
LEMMA FetchSubInverts ==
  ASSUME NEW w, w \subseteq Bits
  PROVE  /\ FetchSubArenaBit(w) \subseteq Bits
         /\ \A b \in Blocks : b \in FetchSubArenaBit(w) <=> b \in w
         /\ ArenaBit \in FetchSubArenaBit(w) <=> ArenaBit \notin w
  BY BlocksAndArenaBit DEF FetchSubArenaBit

\* The word that drop_block looks for: `!new_bitfield == MASK_ARENA_BIT'.
LEMMA OnlyArenaBitClear ==
  ASSUME NEW w, w \subseteq Bits, Bits \ w = {ArenaBit}
  PROVE  w = Blocks
PROOF
  <1>1. \A j : j \in w <=> j \in Bits /\ j # ArenaBit
    OBVIOUS
  <1>. QED
    BY <1>1, BlocksAndArenaBit

\* The word that drop_page leaves when it found `!0'.
LEMMA FetchSubOfFullWord ==
  ASSUME NEW w, w \subseteq Bits, Bits \ w = {}
  PROVE  FetchSubArenaBit(w) = Blocks
PROOF
  <1>1. w = Bits
    OBVIOUS
  <1>. QED
    BY <1>1, BlocksAndArenaBit DEF FetchSubArenaBit
=============================================================================
