------------------------------ MODULE TaggedPtr ------------------------------
(***************************************************************************)
(* PageTaggedPtr (src/block.rs): the pointer a block has to its page, with *)
(* the block's index in the page and the kind of the page in the bits of   *)
(* the pointer that only repeat the one below them; and the dispatch of    *)
(* Block::drop_block on it. Words are those of Bitfield, so that pointers, *)
(* indexes and kinds are sets of bit positions.                            *)
(***************************************************************************)
EXTENDS Bitfield

CONSTANT INDEX_BITS    \* the bits of an index: 6

KIND_BITS == 2

TAG_BITS == INDEX_BITS + KIND_BITS

ASSUME TagAssumption == INDEX_BITS \in Nat /\ TAG_BITS < W

\* The bits of the tag are those from here on, where pointers have 64 bits.
TagShift == W - TAG_BITS

ShiftLeft(word, n) == {i \in Bits : i - n \in word}

ShiftRight(word, n) == {i \in Bits : i + n \in word}

\* `>>' on an isize fills with copies of the sign.
ShiftRightSigned(word, n) ==
  {i \in Bits : IF i + n < W THEN i + n \in word ELSE W - 1 \in word}

\* PageKind as usize
KindCode == [SharedArena |-> {}, Arena |-> {0}, Pool |-> {1}]

PageKind == DOMAIN KindCode

\* Faulty variants of the operators below.
make_tag_overlaps(index, kind) == ShiftLeft(KindCode[kind], INDEX_BITS - 1) \cup index
page_ptr_unsigned(data) == ShiftRight(ShiftLeft(data, TAG_BITS), TAG_BITS)

make_tag(index, kind) == ShiftLeft(KindCode[kind], INDEX_BITS) \cup index

new(ptr, index, kind) ==
  (ptr \ ShiftLeft(0 .. TAG_BITS - 1, TagShift)) \cup ShiftLeft(make_tag(index, kind), TagShift)

page_ptr(data) == ShiftRightSigned(ShiftLeft(data, TAG_BITS), TAG_BITS)

index_block(data) == ShiftRight(data, TagShift) \cap (0 .. INDEX_BITS - 1)

\* PageKind::from. The fourth code is no kind: it panics.
KindOf(code) ==
  IF code = {} THEN "SharedArena"
  ELSE IF code = {0} THEN "Arena"
  ELSE IF code = {1} THEN "Pool"
  ELSE "panic"

page_kind(data) == KindOf(ShiftRight(data, W - KIND_BITS))

\* Block::drop_block calls the drop_block of this kind of page, with this page,
\* in which it returns the block of this index.
drop_block(data) == <<page_kind(data), page_ptr(data), index_block(data)>>

\* The pointers a 64-bit target has: the upper bits repeat the one below them.
Canonical(ptr) == \A i \in TagShift .. W - 1 : i \in ptr <=> TagShift - 1 \in ptr

\* Elsewhere the tag has a word of its own.
new_32(ptr, index, kind) == [ptr |-> ptr, data |-> make_tag(index, kind)]

drop_block_32(tagged) ==
  <<KindOf(ShiftRight(tagged.data, INDEX_BITS)), tagged.ptr,
    tagged.data \cap (0 .. INDEX_BITS - 1)>>

-----------------------------------------------------------------------------

\* The block of a page of any kind, at any index, is returned to that page, as
\* that block and by the drop_block of that kind, wherever the page is: what
\* Block::drop_block reads from the pointer is what the page was made with.
TagRoundTrip(ptr) ==
  \A index \in SUBSET (0 .. INDEX_BITS - 1), kind \in PageKind :
    /\ Canonical(ptr) => drop_block(new(ptr, index, kind)) = <<kind, ptr, index>>
    /\ drop_block_32(new_32(ptr, index, kind)) = <<kind, ptr, index>>
=============================================================================
