------------------------------ MODULE PageList ------------------------------
(***************************************************************************)
(* Pages and the chains their next_free pointers make. Pages are numbered  *)
(* in the order in which they are allocated; a number is not used again.   *)
(* A chain is given by the pointers, next, and the page it starts at.      *)
(***************************************************************************)
EXTENDS Integers, Sequences, SequencesExt

CONSTANT MaxPages    \* bound on the pages ever allocated

Pages == 1 .. MaxPages
Null == 0
Pointer == Pages \cup {Null}

\* make_list numbers n new pages after the first m: the page made last is the
\* first of the list.
NewList(m, n) == [i \in 1 .. n |-> m + n + 1 - i]

\* The pointers once the pages of s have been linked in their order.
Linked(next, s) ==
  [p \in Pages |->
    IF p \notin ToSet(s) THEN next[p]
    ELSE IF p = Last(s) THEN Null
    ELSE s[CHOOSE i \in 2 .. Len(s) : s[i - 1] = p]]

\* The pages of s that are in keep, in their order: what remains of a list when
\* a loop has removed the others. It is SelectSeq with a set in place of the test.
Kept(s, keep) ==
  LET kept[n \in 0 .. Len(s)] ==
        IF n = 0 THEN <<>>
        ELSE IF s[n] \in keep THEN Append(kept[n - 1], s[n]) ELSE kept[n - 1]
  IN  kept[Len(s)]

\* The sum of the numbers of s, which a loop on a list has counted.
Total(s) ==
  LET sum[n \in 0 .. Len(s)] == IF n = 0 THEN 0 ELSE sum[n - 1] + s[n]
  IN  sum[Len(s)]

\* The pages of the chain that starts at head.
Listed(next, head) ==
  LET reached[n \in 0 .. MaxPages] ==
        IF n = 0 THEN {head} \ {Null}
        ELSE reached[n - 1] \cup ({next[p] : p \in reached[n - 1]} \ {Null})
  IN  reached[MaxPages]

\* That chain ends.
Ends(next, head) ==
  LET nth[n \in 0 .. MaxPages] ==
        IF n = 0 THEN head
        ELSE IF nth[n - 1] = Null THEN Null ELSE next[nth[n - 1]]
  IN  nth[MaxPages] = Null
=============================================================================
