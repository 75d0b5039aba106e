------------------------------ MODULE Bitfield ------------------------------
(***************************************************************************)
(* The machine word that records which blocks of a page are free           *)
(* (src/common.rs, src/page/shared_arena.rs).  A word is represented by    *)
(* the set of positions of its 1 bits, and each operator below is one of   *)
(* the integer instructions the code applies to it, with its wrap-around.  *)
(* Nothing here assumes that the code uses them well: FetchAddBit carries  *)
(* when the bit it adds is already set.                                    *)
(***************************************************************************)
EXTENDS Integers, FiniteSetsExt

CONSTANT W    \* BITFIELD_WIDTH: 64 on the usual targets

ASSUME WidthAssumption == W \in Nat /\ W >= 2

Bits == 0 .. W - 1

BLOCK_PER_PAGE == W - 1

Blocks == 0 .. BLOCK_PER_PAGE - 1

\* The only 1 bit of MASK_ARENA_BIT.
ArenaBit == W - 1

\* word.trailing_zeros(): W for the null word.
TrailingZeros(word) == IF word = {} THEN W ELSE Min(word)

\* `1 << i` without overflow checks: the shift amount is taken modulo W.
ShiftedOne(i) == i % W

\* The new value after word.fetch_and(!(1 << i)).
FetchAndNot(word, i) == word \ {i}

\* The new value after word.fetch_add(1 << i), modulo 2^W: the run of ones
\* that starts at i is cleared and the first zero above it is set.
FetchAddBit(word, i) ==
  LET zeros == {j \in i .. W - 1 : j \notin word}
  IN  IF zeros = {} THEN word \ (i .. W - 1)
      ELSE (word \ (i .. Min(zeros) - 1)) \cup {Min(zeros)}

\* The new value after word.fetch_sub(MASK_ARENA_BIT), modulo 2^W: the
\* borrow of the most significant bit is lost, so the bit is inverted.
FetchSubArenaBit(word) ==
  IF ArenaBit \in word THEN word \ {ArenaBit} ELSE word \cup {ArenaBit}
=============================================================================
