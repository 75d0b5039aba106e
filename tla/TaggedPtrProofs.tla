--------------------------- MODULE TaggedPtrProofs ---------------------------
(***************************************************************************)
(* PageTaggedPtr gives back what it was made of, for every width of the    *)
(* pointers and every number of index bits that fits in it.                *)
(***************************************************************************)
EXTENDS MCTaggedPtr, TLAPS

\* The numbers that the shifts are made of.
LEMMA TagArithmetic ==
  /\ W \in Nat /\ INDEX_BITS \in Nat
  /\ TAG_BITS = INDEX_BITS + 2
  /\ TagShift \in Nat /\ TagShift >= 1 /\ TagShift + INDEX_BITS + 2 = W
  /\ ArenaBit = W - 1
BY WidthAssumption, TagAssumption DEF TAG_BITS, KIND_BITS, TagShift, ArenaBit

\* The codes of the kinds are sets of the bits 0 and 1, and page_kind undoes
\* them.
LEMMA KindCodes ==
  ASSUME NEW kind \in PageKind
  PROVE  KindCode[kind] \subseteq 0 .. 1 /\ KindOf(KindCode[kind]) = kind
<1>1. CASE kind = "SharedArena"
  BY <1>1 DEF KindCode, KindOf
<1>2. CASE kind = "Arena"
  <2>1. KindCode[kind] = {0} BY <1>2 DEF KindCode
  <2>2. {0} # {} OBVIOUS
  <2> QED BY <1>2, <2>1, <2>2 DEF KindOf
<1>3. CASE kind = "Pool"
  <2>1. KindCode[kind] = {1} BY <1>3 DEF KindCode
  <2>2. 1 \in {1} /\ 1 \notin {} /\ 1 \notin {0} OBVIOUS
  <2> QED BY <1>3, <2>1, <2>2 DEF KindOf
<1> QED BY <1>1, <1>2, <1>3 DEF PageKind, KindCode

\* The kind is above the index in the tag.
LEMMA TagBits ==
  ASSUME NEW index \in SUBSET (0 .. INDEX_BITS - 1), NEW kind \in PageKind
  PROVE  /\ make_tag(index, kind) \subseteq 0 .. TAG_BITS - 1
         /\ \A i \in 0 .. INDEX_BITS - 1 : i \in make_tag(index, kind) <=> i \in index
         /\ \A i \in Nat : INDEX_BITS + i \in make_tag(index, kind) <=> i \in KindCode[kind]
<1> DEFINE tag == make_tag(index, kind)
           code == KindCode[kind]
<1>1. \A i : i \in tag <=> (i \in Bits /\ i - INDEX_BITS \in code) \/ i \in index
  BY DEF make_tag, ShiftLeft
<1>2. code \subseteq 0 .. 1
  BY KindCodes
<1> HIDE DEF tag, code
<1>3. tag \subseteq 0 .. TAG_BITS - 1
  <2> SUFFICES ASSUME NEW i \in tag PROVE i \in 0 .. TAG_BITS - 1
    OBVIOUS
  <2>1. CASE i \in index
    BY <2>1, TagArithmetic
  <2>2. CASE i \in Bits /\ i - INDEX_BITS \in code
    <3>1. i \in Nat /\ i - INDEX_BITS \in 0 .. 1
      BY <2>2, <1>2, TagArithmetic DEF Bits
    <3> QED BY <3>1, TagArithmetic
  <2> QED BY <2>1, <2>2, <1>1
<1>4. \A i \in 0 .. INDEX_BITS - 1 : i \in tag <=> i \in index
  BY <1>1, <1>2, TagArithmetic
<1>5. \A i \in Nat : INDEX_BITS + i \in tag <=> i \in code
  <2> SUFFICES ASSUME NEW i \in Nat PROVE INDEX_BITS + i \in tag <=> i \in code
    OBVIOUS
  <2>1. INDEX_BITS + i \notin index /\ (INDEX_BITS + i) - INDEX_BITS = i
    BY TagArithmetic
  <2>2. i \in code => INDEX_BITS + i \in Bits
    BY <1>2, TagArithmetic DEF Bits
  <2> QED BY <1>1, <2>1, <2>2
<1> QED BY <1>3, <1>4, <1>5 DEF tag, code

\* Every bit of the tagged pointer is one of the address or one of the tag.
LEMMA TaggedBits ==
  ASSUME NEW ptr \in SUBSET Bits, NEW tag, tag \subseteq 0 .. TAG_BITS - 1
  PROVE  LET data == (ptr \ ShiftLeft(0 .. TAG_BITS - 1, TagShift)) \cup ShiftLeft(tag, TagShift)
         IN  /\ data \subseteq Bits
             /\ \A i \in 0 .. TagShift - 1 : i \in data <=> i \in ptr
             /\ \A i \in Nat : TagShift + i \in data <=> i \in tag
<1> DEFINE high == ShiftLeft(0 .. TAG_BITS - 1, TagShift)
           data == (ptr \ high) \cup ShiftLeft(tag, TagShift)
<1>1. \A i : i \in high <=> i \in Bits /\ i - TagShift \in 0 .. TAG_BITS - 1
  BY DEF ShiftLeft
<1>2. \A i : i \in data <=> (i \in ptr /\ i \notin high) \/ (i \in Bits /\ i - TagShift \in tag)
  BY DEF ShiftLeft
<1> HIDE DEF high, data
<1>3. data \subseteq Bits
  BY <1>2
<1>4. \A i \in 0 .. TagShift - 1 : i \in data <=> i \in ptr
  BY <1>1, <1>2, TagArithmetic DEF Bits
<1>5. \A i \in Nat : TagShift + i \in data <=> i \in tag
  <2> SUFFICES ASSUME NEW i \in Nat PROVE TagShift + i \in data <=> i \in tag
    OBVIOUS
  <2>1. (TagShift + i) - TagShift = i
    BY TagArithmetic
  <2>2. TagShift + i \in Bits <=> i \in 0 .. TAG_BITS - 1
    BY TagArithmetic DEF Bits
  <2> QED BY <1>1, <1>2, <2>1, <2>2
<1> QED BY <1>3, <1>4, <1>5 DEF data, high

\* The block of a page of any kind, at any index, is returned to that page, as
\* that block and by the drop_block of that kind: PageTaggedPtr::new and
\* Block::drop_block agree on every address, index and kind.
THEOREM TagsRoundTrip == \A ptr \in SUBSET Bits : TagRoundTrip(ptr)
<1> SUFFICES ASSUME NEW ptr \in SUBSET Bits,
                    NEW index \in SUBSET (0 .. INDEX_BITS - 1), NEW kind \in PageKind
             PROVE  /\ Canonical(ptr) => drop_block(new(ptr, index, kind)) = <<kind, ptr, index>>
                    /\ drop_block_32(new_32(ptr, index, kind)) = <<kind, ptr, index>>
  BY DEF TagRoundTrip
<1> DEFINE tag == make_tag(index, kind)
           data == new(ptr, index, kind)
<1>0. /\ \A i \in 0 .. INDEX_BITS - 1 : i \in tag <=> i \in index
      /\ \A i \in Nat : INDEX_BITS + i \in tag <=> i \in KindCode[kind]
      /\ tag \subseteq 0 .. TAG_BITS - 1
  BY TagBits
<1>1. /\ data \subseteq Bits
      /\ \A i \in 0 .. TagShift - 1 : i \in data <=> i \in ptr
      /\ \A i \in Nat : TagShift + i \in data <=> i \in tag
  BY TaggedBits, TagBits DEF new
<1>2. ASSUME Canonical(ptr) PROVE page_ptr(data) = ptr
  <2> SUFFICES ASSUME NEW i \in Bits PROVE i \in page_ptr(data) <=> i \in ptr
    BY DEF page_ptr, ShiftRightSigned
  <2>1. CASE i < TagShift
    <3>1. i + TAG_BITS \in Bits BY <2>1, TagArithmetic DEF Bits
    <3> QED BY <2>1, <3>1, <1>1, TagArithmetic DEF page_ptr, ShiftRightSigned, ShiftLeft, Bits
  <2>2. CASE i >= TagShift
    <3>1. i \in page_ptr(data) <=> TagShift - 1 \in data
      BY <2>2, TagArithmetic DEF page_ptr, ShiftRightSigned, ShiftLeft, Bits
    <3> QED BY <2>2, <3>1, <1>1, <1>2, TagArithmetic DEF Canonical, Bits
  <2> QED BY <2>1, <2>2, TagArithmetic DEF Bits
<1> HIDE DEF data, tag
<1>3. index_block(data) = index
  <2> SUFFICES ASSUME NEW i \in 0 .. INDEX_BITS - 1
               PROVE  i \in ShiftRight(data, TagShift) <=> i \in index
    BY DEF index_block
  <2>1. i \in Bits /\ i \in Nat /\ i + TagShift = TagShift + i
    BY TagArithmetic DEF Bits
  <2> QED BY <2>1, <1>1, <1>0 DEF ShiftRight
<1>4. ShiftRight(data, W - KIND_BITS) = KindCode[kind]
  <2>1. KindCode[kind] \subseteq 0 .. 1 /\ 0 .. 1 \subseteq Bits
    BY KindCodes, TagArithmetic DEF Bits
  <2> SUFFICES ASSUME NEW i \in Bits
               PROVE  i + (W - KIND_BITS) \in data <=> i \in KindCode[kind]
    BY <2>1 DEF ShiftRight
  <2>2. /\ i + (W - KIND_BITS) = TagShift + (INDEX_BITS + i)
        /\ i \in Nat /\ INDEX_BITS + i \in Nat
    BY TagArithmetic DEF KIND_BITS, Bits
  <2> QED BY <2>2, <1>0, <1>1
<1>5. ShiftRight(tag, INDEX_BITS) = KindCode[kind]
  <2>1. KindCode[kind] \subseteq 0 .. 1 /\ 0 .. 1 \subseteq Bits
    BY KindCodes, TagArithmetic DEF Bits
  <2> SUFFICES ASSUME NEW i \in Bits
               PROVE  i + INDEX_BITS \in tag <=> i \in KindCode[kind]
    BY <2>1 DEF ShiftRight
  <2>2. i + INDEX_BITS = INDEX_BITS + i /\ i \in Nat
    BY TagArithmetic DEF Bits
  <2> QED BY <2>2, <1>0
<1>6. tag \cap (0 .. INDEX_BITS - 1) = index
  BY <1>0
<1>7. KindOf(KindCode[kind]) = kind
  BY KindCodes
<1>8. Canonical(ptr) => drop_block(data) = <<kind, ptr, index>>
  BY <1>2, <1>3, <1>4, <1>7 DEF drop_block, page_kind
<1>9. drop_block_32(new_32(ptr, index, kind)) = <<kind, ptr, index>>
  BY <1>5, <1>6, <1>7 DEF drop_block_32, new_32, tag
<1> QED BY <1>8, <1>9 DEF data

\* PageTaggedPtr gives back the page, the index and the kind it was made of,
\* wherever the pages are allocated (src/block.rs).
THEOREM TaggedPointersAlwaysRoundTrip == Spec => []TaggedPointersRoundTrip
<1> DEFINE Address == page \in SUBSET Bits
<1>1. Init => Address
  BY DEF Init
<1>2. Address /\ [Next]_page => Address'
  BY DEF Next
<1>3. Address => TaggedPointersRoundTrip
  BY TagsRoundTrip DEF TaggedPointersRoundTrip
<1> QED
  BY <1>1, <1>2, <1>3, PTL DEF Spec
=============================================================================
