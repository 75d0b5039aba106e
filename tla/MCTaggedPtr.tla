----------------------------- MODULE MCTaggedPtr -----------------------------
(***************************************************************************)
(* TaggedPtr for TLC: pages are allocated at one address after another,    *)
(* and every address of a word of W bits comes.                            *)
(***************************************************************************)
EXTENDS TaggedPtr

VARIABLE page

Init == page \in SUBSET Bits

Next == page' \in SUBSET Bits

Spec == Init /\ [][Next]_page

\* PageTaggedPtr loses nothing of a page's address, of the index or of the kind
\* (src/block.rs).
TaggedPointersRoundTrip == TagRoundTrip(page)
=============================================================================
