---------------------------- MODULE PageListProofs ----------------------------
(***************************************************************************)
(* What the operators on lists of pages do, for any list: the lemmas that  *)
(* the proofs about the arenas and the pool rest on.                       *)
(***************************************************************************)
EXTENDS PageList, FiniteSetTheorems, TLAPS

-----------------------------------------------------------------------------
(* Induction, for a set in place of a predicate.                           *)

\* A set of numbers that is not empty has a least element.
LEMMA LeastNumber ==
  ASSUME NEW s, s \subseteq Nat, s # {}
  PROVE  \E m \in s : \A n \in s : m <= n
<1>1. PICK x \in s : \A y \in s : ~ (<<y, x>> \in OpToRel(<, Nat))
  BY NatLessThanWellFounded, WFMin
<1>2. ASSUME NEW y \in s, y < x
      PROVE  FALSE
  <2>1. <<y, x>> \in Nat \X Nat /\ <<y, x>>[1] < <<y, x>>[2]
    BY <1>2
  <2>2. <<y, x>> \in OpToRel(<, Nat)
    BY <2>1 DEF OpToRel
  <2> QED
    BY <1>1, <2>2
<1> QED
  BY <1>2

\* A set that holds 0 and, with a number, the next one, up to m, holds all the
\* numbers up to m.
LEMMA UpTo ==
  ASSUME NEW m \in Nat, NEW s, 0 \in s,
         \A n \in 1 .. m : n - 1 \in s => n \in s
  PROVE  \A n \in 0 .. m : n \in s
<1> SUFFICES ASSUME NEW k \in 0 .. m, k \notin s PROVE FALSE
  OBVIOUS
<1> DEFINE out == {n \in 0 .. m : n \notin s}
<1>1. PICK n \in out : \A i \in out : n <= i
  <2>1. out \subseteq Nat /\ k \in out
    OBVIOUS
  <2> HIDE DEF out
  <2> QED
    BY <2>1, LeastNumber
<1>2. n \in 1 .. m /\ n - 1 \in 0 .. m /\ n - 1 \notin out
  BY <1>1
<1> QED
  BY <1>1, <1>2

\* The values of f from a first one on, each from the one before it.
Iterates(f, m, V, first, step) ==
  /\ f \in [0 .. m -> V]
  /\ f[0] = first
  /\ \A n \in 1 .. m : f[n] = step[f[n - 1]]

\* There are such values.
LEMMA Iteration ==
  \A m, V, first, step :
    m \in Nat /\ first \in V /\ step \in [V -> V] => \E f : Iterates(f, m, V, first, step)
<1> SUFFICES ASSUME NEW m \in Nat, NEW V, NEW first \in V, NEW step \in [V -> V]
             PROVE  \E f : Iterates(f, m, V, first, step)
  OBVIOUS
<1> DEFINE Solves(f, k) == f[0] = first /\ \A n \in 1 .. k : f[n] = step[f[n - 1]]
           good == {k \in 0 .. m : \E f \in [0 .. k -> V] : Solves(f, k)}
<1>1. 0 \in good
  <2> DEFINE f == [i \in 0 .. 0 |-> first]
  <2>1. f \in [0 .. 0 -> V] /\ f[0] = first
    OBVIOUS
  <2> HIDE DEF f
  <2>2. Solves(f, 0) /\ 0 \in 0 .. m
    BY <2>1
  <2> QED
    BY <2>1, <2>2, Zenon
<1>2. ASSUME NEW k \in 1 .. m, k - 1 \in good
      PROVE  k \in good
  <2>1. PICK f \in [0 .. k - 1 -> V] : Solves(f, k - 1)
    BY <1>2
  <2> DEFINE g == [i \in 0 .. k |-> IF i = k THEN step[f[k - 1]] ELSE f[i]]
  <2>2. f[k - 1] \in V /\ step[f[k - 1]] \in V
    OBVIOUS
  <2>3. g \in [0 .. k -> V] /\ g[k] = step[f[k - 1]]
    BY <2>2
  <2>4. \A i \in 0 .. k - 1 : g[i] = f[i]
    OBVIOUS
  <2> HIDE DEF g
  <2>5. g[0] = first
    BY <2>1, <2>4
  <2>6. ASSUME NEW n \in 1 .. k PROVE g[n] = step[g[n - 1]]
    <3>1. CASE n = k
      BY <2>3, <2>4, <3>1
    <3>2. CASE n # k
      <4>1. n \in 1 .. k - 1 /\ n \in 0 .. k - 1 /\ n - 1 \in 0 .. k - 1
        BY <3>2
      <4> QED
        BY <2>1, <2>4, <4>1, Zenon
    <3> QED
      BY <3>1, <3>2
  <2>7. Solves(g, k)
    BY <2>5, <2>6, Zenon
  <2> QED
    BY <2>3, <2>7
<1> HIDE DEF good
<1>3. \A k \in 0 .. m : k \in good
  BY <1>1, <1>2, UpTo
<1>4. m \in good
  BY <1>3
<1> QED
  BY <1>4 DEF good, Iterates

-----------------------------------------------------------------------------
(* The elements of sequences.                                              *)

\* An element more.
LEMMA Appended ==
  ASSUME NEW S, NEW s \in Seq(S), NEW e \in S
  PROVE  /\ Append(s, e) \in Seq(S) /\ Len(Append(s, e)) = Len(s) + 1
         /\ ToSet(Append(s, e)) = ToSet(s) \cup {e}
         /\ IsInjective(s) /\ e \notin ToSet(s) => IsInjective(Append(s, e))
<1> DEFINE t == Append(s, e)
<1>1. /\ t \in Seq(S) /\ Len(t) = Len(s) + 1 /\ Len(s) \in Nat
      /\ \A i \in 1 .. Len(s) : t[i] = s[i]
      /\ t[Len(s) + 1] = e
  OBVIOUS
<1>2. DOMAIN t = 1 .. Len(s) + 1 /\ DOMAIN s = 1 .. Len(s)
  BY <1>1
<1> HIDE DEF t
<1>3. ToSet(t) = ToSet(s) \cup {e}
  <2>1. ASSUME NEW x \in ToSet(t) PROVE x \in ToSet(s) \cup {e}
    <3>1. PICK i \in 1 .. Len(s) + 1 : x = t[i]
      BY <1>2 DEF ToSet
    <3> QED
      BY <1>1, <1>2, <3>1 DEF ToSet
  <2>2. ASSUME NEW x \in ToSet(s) PROVE x \in ToSet(t)
    <3>1. PICK i \in 1 .. Len(s) : x = s[i]
      BY <1>2 DEF ToSet
    <3> QED
      BY <1>1, <1>2, <3>1 DEF ToSet
  <2>3. e \in ToSet(t)
    BY <1>1, <1>2 DEF ToSet
  <2> QED
    BY <2>1, <2>2, <2>3
<1>4. ASSUME IsInjective(s), e \notin ToSet(s) PROVE IsInjective(t)
  <2>1. \A i \in 1 .. Len(s) : s[i] # e
    BY <1>2, <1>4 DEF ToSet
  <2>2. \A i, j \in 1 .. Len(s) : s[i] = s[j] => i = j
    BY <1>2, <1>4 DEF IsInjective
  <2>3. \A i, j \in 1 .. Len(s) + 1 : t[i] = t[j] => i = j
    BY <1>1, <2>1, <2>2
  <2> QED
    BY <1>2, <2>3 DEF IsInjective
<1> QED
  BY <1>1, <1>3, <1>4 DEF t

\* Two lists, one behind the other.
LEMMA Joined ==
  ASSUME NEW S, NEW s \in Seq(S), NEW t \in Seq(S)
  PROVE  /\ t \o s \in Seq(S) /\ Len(t \o s) = Len(s) + Len(t)
         /\ ToSet(t \o s) = ToSet(s) \cup ToSet(t)
         /\ IsInjective(s) /\ IsInjective(t) /\ ToSet(s) \cap ToSet(t) = {} => IsInjective(t \o s)
<1> DEFINE u == t \o s
<1>1. /\ u \in Seq(S) /\ Len(u) = Len(t) + Len(s) /\ Len(s) \in Nat /\ Len(t) \in Nat
      /\ \A i \in 1 .. Len(t) : u[i] = t[i]
      /\ \A i \in Len(t) + 1 .. Len(t) + Len(s) : u[i] = s[i - Len(t)]
  OBVIOUS
<1>2. DOMAIN u = 1 .. Len(t) + Len(s) /\ DOMAIN s = 1 .. Len(s) /\ DOMAIN t = 1 .. Len(t)
  BY <1>1
<1>3. \A i \in 1 .. Len(s) :
        /\ i + Len(t) \in Len(t) + 1 .. Len(t) + Len(s) /\ i + Len(t) \in DOMAIN u
        /\ u[i + Len(t)] = s[i]
  BY <1>1, <1>2
<1> HIDE DEF u
<1>4. \A i \in DOMAIN u :
        \/ i \in DOMAIN t /\ u[i] = t[i]
        \/ i - Len(t) \in DOMAIN s /\ u[i] = s[i - Len(t)]
  BY <1>1, <1>2
<1>5. ToSet(u) = ToSet(s) \cup ToSet(t)
  <2>1. ASSUME NEW x \in ToSet(u) PROVE x \in ToSet(s) \cup ToSet(t)
    BY <1>4 DEF ToSet
  <2>2. ASSUME NEW x \in ToSet(s) PROVE x \in ToSet(u)
    BY <1>2, <1>3 DEF ToSet
  <2>3. ASSUME NEW x \in ToSet(t) PROVE x \in ToSet(u)
    BY <1>1, <1>2 DEF ToSet
  <2> QED
    BY <2>1, <2>2, <2>3
<1>6. ASSUME IsInjective(s), IsInjective(t), ToSet(s) \cap ToSet(t) = {}
      PROVE  IsInjective(u)
  <2> SUFFICES ASSUME NEW i \in DOMAIN u, NEW j \in DOMAIN u, u[i] = u[j]
               PROVE  i = j
    BY DEF IsInjective
  <2>1. \A k \in DOMAIN s, l \in DOMAIN t : s[k] # t[l]
    BY <1>6 DEF ToSet
  <2>2. /\ \A k, l \in DOMAIN s : s[k] = s[l] => k = l
        /\ \A k, l \in DOMAIN t : t[k] = t[l] => k = l
    BY <1>6 DEF IsInjective
  <2>3. i \in Int /\ j \in Int /\ Len(t) \in Int
    BY <1>1, <1>2
  <2>4. CASE i \in DOMAIN t /\ u[i] = t[i]
    <3>1. CASE j \in DOMAIN t /\ u[j] = t[j]
      BY <2>2, <2>4, <3>1
    <3>2. ~ (j - Len(t) \in DOMAIN s /\ u[j] = s[j - Len(t)])
      BY <2>1, <2>4
    <3> QED
      BY <1>4, <3>1, <3>2
  <2>5. CASE i - Len(t) \in DOMAIN s /\ u[i] = s[i - Len(t)]
    <3>1. j - Len(t) \in DOMAIN s /\ u[j] = s[j - Len(t)]
      BY <1>4, <2>1, <2>5, Zenon
    <3>2. i - Len(t) = j - Len(t)
      BY <2>2, <2>5, <3>1, Zenon
    <3> QED
      BY <2>3, <3>2
  <2> QED
    BY <1>4, <2>4, <2>5
<1> QED
  BY <1>1, <1>5, <1>6 DEF u

\* A list without repetitions is as long as it has pages.
LEMMA InjectiveLength ==
  ASSUME NEW S, NEW s \in Seq(S), IsInjective(s)
  PROVE  IsFiniteSet(ToSet(s)) /\ Cardinality(ToSet(s)) = Len(s)
<1>1. Len(s) \in Nat /\ DOMAIN s = 1 .. Len(s)
  OBVIOUS
<1>2. IsFiniteSet(1 .. Len(s)) /\ Cardinality(1 .. Len(s)) = Len(s)
  BY <1>1, FS_Interval
<1> DEFINE f == [i \in 1 .. Len(s) |-> s[i]]
<1>3. f \in Bijection(1 .. Len(s), ToSet(s))
  <2>1. f \in [1 .. Len(s) -> ToSet(s)]
    BY <1>1 DEF ToSet
  <2>2. \A i, j \in 1 .. Len(s) : f[i] = f[j] => i = j
    BY <1>1 DEF IsInjective
  <2>3. \A x \in ToSet(s) : \E i \in 1 .. Len(s) : f[i] = x
    BY <1>1 DEF ToSet
  <2> QED
    BY <2>1, <2>2, <2>3 DEF Bijection, Injection, Surjection, IsInjective
<1> QED
  BY <1>1, <1>2, <1>3, FS_Bijection DEF ExistsBijection

-----------------------------------------------------------------------------
(* Kept.                                                                   *)

\* The next element is kept or not.
KeepNext(f, s, keep, n) == IF s[n] \in keep THEN Append(f[n - 1], s[n]) ELSE f[n - 1]

\* f has what is kept of the first elements of s, up to m.
KeptUpTo(f, s, keep, m) == f[0] = <<>> /\ \A n \in 1 .. m : f[n] = KeepNext(f, s, keep, n)

\* What is kept of the first elements of s are sequences.
LEMMA KeptUpToType ==
  ASSUME NEW S, NEW s \in Seq(S), NEW keep, NEW f, KeptUpTo(f, s, keep, Len(s))
  PROVE  \A n \in 0 .. Len(s) : f[n] \in Seq(S)
<1> DEFINE typed == {n \in 0 .. Len(s) : f[n] \in Seq(S)}
<1>1. 0 \in typed
  <2>1. <<>> \in Seq(S) /\ 0 \in 0 .. Len(s)
    OBVIOUS
  <2> QED
    BY <2>1, Zenon DEF KeptUpTo
<1>2. ASSUME NEW n \in 1 .. Len(s), n - 1 \in typed
      PROVE  n \in typed
  <2>1. f[n - 1] \in Seq(S)
    BY <1>2, Zenon
  <2>0. s[n] \in S /\ n \in 0 .. Len(s)
    OBVIOUS
  <2>2. f[n] = Append(f[n - 1], s[n]) \/ f[n] = f[n - 1]
    BY DEF KeptUpTo, KeepNext
  <2>3. \A q \in Seq(S), e \in S : Append(q, e) \in Seq(S)
    OBVIOUS
  <2> QED
    BY <2>0, <2>1, <2>2, <2>3, Zenon
<1> HIDE DEF typed
<1>3. \A n \in 0 .. Len(s) : n \in typed
  BY <1>1, <1>2, UpTo
<1> QED
  BY <1>3 DEF typed

\* The recursion that defines Kept has a solution.
LEMMA KeptEquation ==
  ASSUME NEW S, NEW s \in Seq(S), NEW keep
  PROVE  \E f : /\ DOMAIN f = 0 .. Len(s)
                /\ KeptUpTo(f, s, keep, Len(s))
                /\ Kept(s, keep) = f[Len(s)]
<1> DEFINE good == {m \in 0 .. Len(s) : \E f : DOMAIN f = 0 .. m /\ KeptUpTo(f, s, keep, m)}
<1>0. Len(s) \in Nat
  OBVIOUS
<1>1. 0 \in good
  <2> DEFINE f == [i \in 0 .. 0 |-> <<>>]
  <2>1. DOMAIN f = 0 .. 0 /\ f[0] = <<>>
    OBVIOUS
  <2> HIDE DEF f
  <2>2. KeptUpTo(f, s, keep, 0)
    BY <2>1 DEF KeptUpTo
  <2> QED
    BY <1>0, <2>1, <2>2
<1>2. ASSUME NEW m \in 1 .. Len(s), m - 1 \in good
      PROVE  m \in good
  <2>1. PICK f : DOMAIN f = 0 .. m - 1 /\ KeptUpTo(f, s, keep, m - 1)
    BY <1>2
  <2> DEFINE g == [i \in 0 .. m |-> IF i = m THEN KeepNext(f, s, keep, m) ELSE f[i]]
  <2>2. DOMAIN g = 0 .. m /\ g[m] = KeepNext(f, s, keep, m)
    BY <1>0
  <2>3. \A i \in 0 .. m - 1 : g[i] = f[i]
    BY <1>0
  <2> HIDE DEF g
  <2>4. \A n \in 1 .. m : KeepNext(g, s, keep, n) = KeepNext(f, s, keep, n)
    BY <1>0, <2>3 DEF KeepNext
  <2>5. KeptUpTo(g, s, keep, m)
    BY <1>0, <2>1, <2>2, <2>3, <2>4 DEF KeptUpTo
  <2> QED
    BY <1>0, <2>2, <2>5
<1>3. Len(s) \in good
  <2> HIDE DEF good
  <2>1. \A m \in 0 .. Len(s) : m \in good
    BY <1>0, <1>1, <1>2, UpTo, Zenon
  <2> QED
    BY <1>0, <2>1
<1>4. PICK f : DOMAIN f = 0 .. Len(s) /\ KeptUpTo(f, s, keep, Len(s))
  BY <1>3
<1> DEFINE IsKept(g) ==
      g = [n \in 0 .. Len(s) |->
            IF n = 0 THEN <<>>
            ELSE IF s[n] \in keep THEN Append(g[n - 1], s[n]) ELSE g[n - 1]]
           h == [n \in 0 .. Len(s) |-> f[n]]
<1>5. IsKept(h)
  <2>1. \A n \in 0 .. Len(s) : h[n] = f[n]
    OBVIOUS
  <2>2. \A n \in 0 .. Len(s) :
          f[n] = IF n = 0 THEN <<>>
                 ELSE IF s[n] \in keep THEN Append(h[n - 1], s[n]) ELSE h[n - 1]
    <3>1. ASSUME NEW n \in 0 .. Len(s), n # 0
          PROVE  n - 1 \in 0 .. Len(s) /\ n \in 1 .. Len(s)
      BY <1>0, <3>1
    <3> HIDE DEF h
    <3> QED
      BY <1>4, <2>1, <3>1, Zenon DEF KeptUpTo, KeepNext
  <2> QED
    BY <2>2, Zenon
<1> DEFINE k == CHOOSE g : IsKept(g)
<1>6. Kept(s, keep) = k[Len(s)]
  BY Zenon DEF Kept
<1>7. IsKept(k)
  <2> HIDE DEF IsKept, h
  <2> QED
    BY <1>5, Zenon
<1> HIDE DEF k
<1>8. DOMAIN k = 0 .. Len(s) /\ KeptUpTo(k, s, keep, Len(s))
  <2>1. DOMAIN k = 0 .. Len(s) /\ k[0] = <<>>
    BY <1>0, <1>7
  <2>2. ASSUME NEW n \in 1 .. Len(s) PROVE k[n] = KeepNext(k, s, keep, n)
    <3>1. n \in 0 .. Len(s) /\ n # 0
      BY <1>0
    <3> QED
      BY <1>7, <3>1, Zenon DEF KeepNext
  <2> QED
    BY <2>1, <2>2 DEF KeptUpTo
<1> QED
  BY <1>6, <1>8

\* The kept elements are those of s that are in keep, each as often as in s.
LEMMA KeptElements ==
  ASSUME NEW S, NEW s \in Seq(S), NEW keep
  PROVE  /\ Kept(s, keep) \in Seq(S) /\ Len(Kept(s, keep)) <= Len(s)
         /\ ToSet(Kept(s, keep)) = ToSet(s) \cap keep
         /\ IsInjective(s) => IsInjective(Kept(s, keep))
<1>1. PICK f : /\ DOMAIN f = 0 .. Len(s)
               /\ KeptUpTo(f, s, keep, Len(s))
               /\ Kept(s, keep) = f[Len(s)]
  BY KeptEquation
<1>2. \A n \in 0 .. Len(s) : f[n] \in Seq(S)
  BY <1>1, KeptUpToType
<1> DEFINE First(n) == {s[i] : i \in 1 .. n}
           Right(n) == /\ Len(f[n]) <= n
                       /\ ToSet(f[n]) = First(n) \cap keep
                       /\ IsInjective(s) => IsInjective(f[n])
           right == {n \in 0 .. Len(s) : Right(n)}
<1>3. Len(s) \in Nat /\ DOMAIN s = 1 .. Len(s)
  OBVIOUS
<1>4. 0 \in right
  <2>1. f[0] = <<>> /\ 0 \in 0 .. Len(s)
    BY <1>1, <1>3 DEF KeptUpTo
  <2>2. Len(<<>>) = 0 /\ DOMAIN <<>> = {} /\ First(0) = {}
    OBVIOUS
  <2>3. ToSet(<<>>) = {} /\ IsInjective(<<>>)
    BY <2>2 DEF ToSet, IsInjective
  <2> HIDE DEF First
  <2> QED
    BY <2>1, <2>2, <2>3
<1>5. ASSUME NEW n \in 1 .. Len(s), n - 1 \in right
      PROVE  n \in right
  <2>1. f[n - 1] \in Seq(S) /\ s[n] \in S /\ n \in 0 .. Len(s) /\ n - 1 \in 0 .. Len(s)
    BY <1>2, <1>3
  <2>2. First(n) = First(n - 1) \cup {s[n]}
    BY <1>3
  <2>3. IsInjective(s) => s[n] \notin First(n - 1)
    BY <1>3 DEF IsInjective
  <2>4. Right(n - 1)
    BY <1>5
  <2> HIDE DEF First
  <2>5. CASE s[n] \in keep
    <3>1. f[n] = Append(f[n - 1], s[n])
      BY <1>1, <2>5, Zenon DEF KeptUpTo, KeepNext
    <3>2. /\ Len(f[n]) = Len(f[n - 1]) + 1
          /\ ToSet(f[n]) = ToSet(f[n - 1]) \cup {s[n]}
          /\ IsInjective(f[n - 1]) /\ s[n] \notin ToSet(f[n - 1]) => IsInjective(f[n])
      BY <2>1, <3>1, Appended
    <3>3. Len(f[n - 1]) \in Nat
      BY <2>1
    <3> QED
      BY <2>1, <2>2, <2>3, <2>4, <2>5, <3>2, <3>3
  <2>6. CASE s[n] \notin keep
    <3>1. f[n] = f[n - 1]
      BY <1>1, <2>6, Zenon DEF KeptUpTo, KeepNext
    <3>2. Len(f[n - 1]) \in Nat
      BY <2>1
    <3> QED
      BY <2>1, <2>2, <2>4, <2>6, <3>1, <3>2
  <2> QED
    BY <2>5, <2>6
<1>6. Right(Len(s))
  <2> HIDE DEF right
  <2>1. \A n \in 0 .. Len(s) : n \in right
    BY <1>3, <1>4, <1>5, UpTo, Zenon
  <2> QED
    BY <1>3, <2>1 DEF right
<1>7. First(Len(s)) = ToSet(s)
  BY <1>3 DEF ToSet
<1>8. f[Len(s)] \in Seq(S)
  BY <1>2, <1>3
<1> QED
  BY <1>1, <1>6, <1>7, <1>8

\* A loop that removes none leaves the list as it is.
LEMMA KeptAll ==
  ASSUME NEW S, NEW s \in Seq(S), NEW keep, ToSet(s) \subseteq keep
  PROVE  Kept(s, keep) = s
<1>1. PICK f : KeptUpTo(f, s, keep, Len(s)) /\ Kept(s, keep) = f[Len(s)]
  BY KeptEquation
<1>2. Len(s) \in Nat /\ \A n \in 1 .. Len(s) : s[n] \in S /\ s[n] \in keep
  BY DEF ToSet
<1> DEFINE Same(t, n) == t \in Seq(S) /\ Len(t) = n /\ \A i \in 1 .. n : t[i] = s[i]
           good == {n \in 0 .. Len(s) : Same(f[n], n)}
<1>3. 0 \in good
  <2>1. f[0] = <<>>
    BY <1>1 DEF KeptUpTo
  <2>2. Same(<<>>, 0)
    OBVIOUS
  <2> HIDE DEF Same
  <2> QED
    BY <1>2, <2>1, <2>2
<1>4. ASSUME NEW n \in 1 .. Len(s), n - 1 \in good
      PROVE  n \in good
  <2>1. f[n] = Append(f[n - 1], s[n])
    BY <1>1, <1>2 DEF KeptUpTo, KeepNext
  <2>2. Same(f[n - 1], n - 1) /\ n - 1 \in Nat /\ n \in 0 .. Len(s) /\ s[n] \in S
    BY <1>2, <1>4
  <2>3. ASSUME NEW t, Same(t, n - 1) PROVE Same(Append(t, s[n]), n)
    BY <2>2, <2>3
  <2> HIDE DEF Same
  <2> QED
    BY <2>1, <2>2, <2>3
<1>5. Same(f[Len(s)], Len(s))
  <2> HIDE DEF good, Same
  <2>1. \A n \in 0 .. Len(s) : n \in good
    BY <1>2, <1>3, <1>4, UpTo, Zenon
  <2> QED
    BY <1>2, <2>1 DEF good
<1>6. f[Len(s)] = s
  BY <1>2, <1>5
<1> QED
  BY <1>1, <1>6

\* A list cut in two.
Halves(s, c, a, b) == a = SubSeq(s, 1, c) /\ b = SubSeq(s, c + 1, Len(s))

\* Its two parts have all it has, and nothing in common when it has no page twice.
LEMMA CutInTwo ==
  ASSUME NEW S, NEW s \in Seq(S), NEW c \in 0 .. Len(s), NEW a, NEW b, Halves(s, c, a, b)
  PROVE  /\ a \in Seq(S) /\ b \in Seq(S) /\ Len(a) = c /\ Len(b) = Len(s) - c
         /\ ToSet(s) = ToSet(a) \cup ToSet(b)
         /\ IsInjective(s) => IsInjective(a) /\ IsInjective(b) /\ ToSet(a) \cap ToSet(b) = {}
<1> USE DEF Halves
<1>1. Len(s) \in Nat /\ \A i \in 1 .. Len(s) : s[i] \in S
  OBVIOUS
<1>2. /\ a \in Seq(S) /\ Len(a) = c
      /\ \A i \in 1 .. c : a[i] = s[i]
  BY <1>1
<1>3. /\ b \in Seq(S) /\ Len(b) = Len(s) - c
      /\ \A i \in 1 .. Len(s) - c : b[i] = s[c + i]
  BY <1>1
<1>4. ToSet(a) = {s[i] : i \in 1 .. c}
  <2>1. DOMAIN a = 1 .. c
    BY <1>2
  <2>2. ToSet(a) = {a[i] : i \in 1 .. c}
    BY <2>1 DEF ToSet
  <2> QED
    BY <1>2, <2>2
<1>5. ToSet(b) = {s[i] : i \in c + 1 .. Len(s)}
  <2> DEFINE m == Len(s) - c
  <2>1. DOMAIN b = 1 .. m
    BY <1>3
  <2>2. ToSet(b) = {b[i] : i \in 1 .. m}
    BY <2>1 DEF ToSet
  <2>3. \A i \in 1 .. m : c + i \in c + 1 .. Len(s) /\ b[i] = s[c + i]
    BY <1>1, <1>3
  <2>4. \A i \in c + 1 .. Len(s) : i - c \in 1 .. m /\ c + (i - c) = i
    BY <1>1
  <2>5. \A i \in c + 1 .. Len(s) : b[i - c] = s[i]
    BY <2>3, <2>4
  <2> HIDE DEF m
  <2> QED
    BY <2>2, <2>3, <2>4, <2>5
<1>6. ToSet(s) = {s[i] : i \in 1 .. Len(s)}
  <2>1. DOMAIN s = 1 .. Len(s)
    OBVIOUS
  <2> QED
    BY <2>1 DEF ToSet
<1>7. ToSet(s) = ToSet(a) \cup ToSet(b)
  BY <1>1, <1>4, <1>5, <1>6
<1>8. ASSUME IsInjective(s)
      PROVE  IsInjective(a) /\ IsInjective(b) /\ ToSet(a) \cap ToSet(b) = {}
  <2>1. \A i, j \in 1 .. Len(s) : s[i] = s[j] => i = j
    BY <1>8 DEF IsInjective
  <2>2. ToSet(a) \cap ToSet(b) = {}
    BY <1>1, <1>4, <1>5, <2>1
  <2>3. IsInjective(a)
    BY <1>1, <1>2, <2>1 DEF IsInjective
  <2>4. ASSUME NEW i \in 1 .. Len(s) - c, NEW j \in 1 .. Len(s) - c, b[i] = b[j]
        PROVE  i = j
    <3>1. c + i \in 1 .. Len(s) /\ c + j \in 1 .. Len(s)
      BY <1>1
    <3>2. c + i = c + j
      BY <1>3, <2>1, <2>4, <3>1
    <3> QED
      BY <3>2
  <2>5. IsInjective(b)
    <3>1. DOMAIN b = 1 .. Len(s) - c
      BY <1>3
    <3> QED
      BY <2>4, <3>1 DEF IsInjective
  <2> QED
    BY <2>2, <2>3, <2>5
<1> QED
  BY <1>2, <1>3, <1>7, <1>8

-----------------------------------------------------------------------------
(* Sums.                                                                   *)

\* f has the sums of the first numbers of s, up to m.
SumUpTo(f, s, m) == f[0] = 0 /\ \A n \in 1 .. m : f[n] = f[n - 1] + s[n]

\* The sums of the first numbers are numbers.
LEMMA SumUpToType ==
  ASSUME NEW s \in Seq(Int), NEW f, SumUpTo(f, s, Len(s))
  PROVE  \A n \in 0 .. Len(s) : f[n] \in Int
<1> DEFINE typed == {n \in 0 .. Len(s) : f[n] \in Int}
<1>1. 0 \in typed
  BY DEF SumUpTo
<1>2. ASSUME NEW n \in 1 .. Len(s), n - 1 \in typed
      PROVE  n \in typed
  <2>1. f[n - 1] \in Int /\ s[n] \in Int /\ n \in 0 .. Len(s)
    BY <1>2
  <2> QED
    BY <2>1 DEF SumUpTo
<1> HIDE DEF typed
<1>3. \A n \in 0 .. Len(s) : n \in typed
  <2>1. Len(s) \in Nat
    OBVIOUS
  <2> QED
    BY <1>1, <1>2, <2>1, UpTo, Zenon
<1> QED
  BY <1>3 DEF typed

\* The recursion that defines Total has a solution, and Total is its last value.
LEMMA TotalEquation ==
  ASSUME NEW s \in Seq(Int)
  PROVE  \E f : SumUpTo(f, s, Len(s)) /\ Total(s) = f[Len(s)]
<1> DEFINE good == {m \in 0 .. Len(s) : \E f : DOMAIN f = 0 .. m /\ SumUpTo(f, s, m)}
<1>0. Len(s) \in Nat
  OBVIOUS
<1>1. 0 \in good
  <2> DEFINE f == [i \in 0 .. 0 |-> 0]
  <2>1. DOMAIN f = 0 .. 0 /\ f[0] = 0
    OBVIOUS
  <2> HIDE DEF f
  <2>2. SumUpTo(f, s, 0)
    BY <2>1 DEF SumUpTo
  <2> QED
    BY <1>0, <2>1, <2>2
<1>2. ASSUME NEW m \in 1 .. Len(s), m - 1 \in good
      PROVE  m \in good
  <2>1. PICK f : DOMAIN f = 0 .. m - 1 /\ SumUpTo(f, s, m - 1)
    BY <1>2
  <2> DEFINE g == [i \in 0 .. m |-> IF i = m THEN f[m - 1] + s[m] ELSE f[i]]
  <2>2. DOMAIN g = 0 .. m /\ g[m] = f[m - 1] + s[m]
    BY <1>0
  <2>3. \A i \in 0 .. m - 1 : g[i] = f[i]
    BY <1>0
  <2> HIDE DEF g
  <2>4. SumUpTo(g, s, m)
    BY <1>0, <2>1, <2>2, <2>3 DEF SumUpTo
  <2> QED
    BY <1>0, <2>2, <2>4
<1>3. Len(s) \in good
  <2> HIDE DEF good
  <2>1. \A m \in 0 .. Len(s) : m \in good
    BY <1>0, <1>1, <1>2, UpTo, Zenon
  <2> QED
    BY <1>0, <2>1
<1>4. PICK f : DOMAIN f = 0 .. Len(s) /\ SumUpTo(f, s, Len(s))
  BY <1>3
<1> DEFINE IsSum(g) == g = [n \in 0 .. Len(s) |-> IF n = 0 THEN 0 ELSE g[n - 1] + s[n]]
           h == [n \in 0 .. Len(s) |-> f[n]]
<1>5. IsSum(h)
  <2>1. \A n \in 0 .. Len(s) : h[n] = f[n]
    OBVIOUS
  <2>2. \A n \in 0 .. Len(s) : f[n] = IF n = 0 THEN 0 ELSE h[n - 1] + s[n]
    <3>1. ASSUME NEW n \in 0 .. Len(s), n # 0
          PROVE  n - 1 \in 0 .. Len(s) /\ n \in 1 .. Len(s)
      BY <1>0, <3>1
    <3> HIDE DEF h
    <3> QED
      BY <1>4, <2>1, <3>1, Zenon DEF SumUpTo
  <2> QED
    BY <2>2, Zenon
<1> DEFINE k == CHOOSE g : IsSum(g)
<1>6. Total(s) = k[Len(s)]
  BY Zenon DEF Total
<1>7. IsSum(k)
  <2> HIDE DEF IsSum, h
  <2> QED
    BY <1>5, Zenon
<1> HIDE DEF k
<1>8. SumUpTo(k, s, Len(s))
  <2>1. k[0] = 0
    BY <1>0, <1>7
  <2>2. ASSUME NEW n \in 1 .. Len(s) PROVE k[n] = k[n - 1] + s[n]
    <3>1. n \in 0 .. Len(s) /\ n # 0
      BY <1>0
    <3> QED
      BY <1>7, <3>1, Zenon
  <2> QED
    BY <2>1, <2>2 DEF SumUpTo
<1> QED
  BY <1>6, <1>8

\* What the pages of a list have, counted page by page, is what they have
\* together.
LEMMA TotalOfParts ==
  ASSUME NEW S, NEW s \in Seq(S), IsInjective(s), NEW parts,
         \A p \in S : IsFiniteSet(parts[p]),
         \A p, q \in S : p # q => parts[p] \cap parts[q] = {},
         NEW t, t = [i \in 1 .. Len(s) |-> Cardinality(parts[s[i]])]
  PROVE  Total(t) = Cardinality(UNION {parts[p] : p \in ToSet(s)})
<1>0. /\ Len(s) \in Nat /\ DOMAIN s = 1 .. Len(s)
      /\ \A i \in 1 .. Len(s) : s[i] \in S
  OBVIOUS
<1>1. \A i \in 1 .. Len(s) : IsFiniteSet(parts[s[i]]) /\ Cardinality(parts[s[i]]) \in Nat
  BY <1>0, FS_CardinalityType
<1>2. t \in Seq(Int) /\ Len(t) = Len(s) /\ \A i \in 1 .. Len(s) : t[i] = Cardinality(parts[s[i]])
  <2>1. t \in [1 .. Len(s) -> Int]
    BY <1>1
  <2> QED
    BY <1>0, <2>1
<1>3. PICK f : SumUpTo(f, t, Len(s)) /\ Total(t) = f[Len(s)]
  BY <1>2, TotalEquation
<1> DEFINE First(n) == UNION {parts[s[i]] : i \in 1 .. n}
           good == {n \in 0 .. Len(s) : IsFiniteSet(First(n)) /\ f[n] = Cardinality(First(n))}
<1>4. 0 \in good
  <2>1. First(0) = {}
    OBVIOUS
  <2>2. IsFiniteSet(First(0)) /\ Cardinality(First(0)) = 0
    <3> HIDE DEF First
    <3> QED
      BY <2>1, FS_EmptySet
  <2>3. 0 \in 0 .. Len(s) /\ f[0] = 0
    BY <1>0, <1>3 DEF SumUpTo
  <2> HIDE DEF First
  <2> QED
    BY <2>2, <2>3
<1>5. ASSUME NEW n \in 1 .. Len(s), n - 1 \in good
      PROVE  n \in good
  <2>1. n \in 0 .. Len(s) /\ n - 1 \in Nat /\ n \in Nat /\ 1 .. n = (1 .. n - 1) \cup {n}
    BY <1>0
  <2>2. First(n) = First(n - 1) \cup parts[s[n]]
    BY <2>1
  <2>3. First(n - 1) \cap parts[s[n]] = {}
    <3>1. ASSUME NEW i \in 1 .. n - 1 PROVE parts[s[i]] \cap parts[s[n]] = {}
      <4>1. i \in 1 .. Len(s) /\ i # n
        BY <1>0
      <4>2. s[i] \in S /\ s[n] \in S /\ s[i] # s[n]
        BY <1>0, <4>1 DEF IsInjective
      <4> QED
        BY <4>2
    <3> QED
      BY <3>1
  <2>4. IsFiniteSet(First(n - 1)) /\ f[n - 1] = Cardinality(First(n - 1))
    BY <1>5
  <2>5. f[n] = f[n - 1] + Cardinality(parts[s[n]])
    BY <1>2, <1>3 DEF SumUpTo
  <2> HIDE DEF First
  <2> DEFINE a == First(n - 1)
             b == parts[s[n]]
  <2>6. IsFiniteSet(a) /\ IsFiniteSet(b) /\ a \cap b = {}
    BY <1>1, <2>3, <2>4
  <2> HIDE DEF a, b
  <2>7. /\ IsFiniteSet(a \cup b)
        /\ Cardinality(a \cup b) = Cardinality(a) + Cardinality(b) - Cardinality(a \cap b)
    BY <2>6, FS_Union
  <2>8. Cardinality(a \cap b) = 0 /\ Cardinality(a) \in Nat /\ Cardinality(b) \in Nat
    BY <2>6, FS_EmptySet, FS_CardinalityType
  <2>9. Cardinality(a \cup b) = Cardinality(a) + Cardinality(b)
    BY <2>7, <2>8
  <2>10. f[n] = Cardinality(a) + Cardinality(b) /\ First(n) = a \cup b
    BY <2>2, <2>4, <2>5 DEF a, b
  <2>11. IsFiniteSet(First(n)) /\ f[n] = Cardinality(First(n))
    BY <2>7, <2>9, <2>10
  <2> QED
    BY <2>1, <2>11
<1>6. Len(s) \in good
  <2> HIDE DEF good
  <2>1. \A n \in 0 .. Len(s) : n \in good
    BY <1>0, <1>4, <1>5, UpTo, Zenon
  <2> QED
    BY <1>0, <2>1
<1>7. First(Len(s)) = UNION {parts[p] : p \in ToSet(s)}
  BY <1>0 DEF ToSet
<1> QED
  BY <1>3, <1>6, <1>7

\* The same for a loop that meets some of the pages: the others have nothing.
LEMMA TotalOfSet ==
  ASSUME MaxPages \in Nat, NEW these \in SUBSET Pages, NEW parts,
         \A p \in Pages : IsFiniteSet(parts[p]),
         \A p, q \in Pages : p # q => parts[p] \cap parts[q] = {},
         NEW t, t = [p \in Pages |-> IF p \in these THEN Cardinality(parts[p]) ELSE 0]
  PROVE  Total(t) = Cardinality(UNION {parts[p] : p \in these})
<1> DEFINE every == [i \in 1 .. MaxPages |-> i]
           part == [p \in Pages |-> IF p \in these THEN parts[p] ELSE {}]
<1>1. /\ every \in Seq(Pages) /\ Len(every) = MaxPages /\ IsInjective(every) /\ ToSet(every) = Pages
      /\ \A i \in 1 .. MaxPages : every[i] = i
  BY DEF Pages, IsInjective, ToSet
<1>2. /\ \A p \in Pages : part[p] = IF p \in these THEN parts[p] ELSE {}
      /\ \A p \in Pages : IsFiniteSet(part[p])
      /\ \A p, q \in Pages : p # q => part[p] \cap part[q] = {}
  BY FS_EmptySet
<1>3. \A p \in Pages : Cardinality(part[p]) = IF p \in these THEN Cardinality(parts[p]) ELSE 0
  BY <1>2, FS_EmptySet
<1>4. UNION {part[p] : p \in Pages} = UNION {parts[p] : p \in these}
  BY <1>2
<1> HIDE DEF every, part
<1>5. t = [i \in 1 .. Len(every) |-> Cardinality(part[every[i]])]
  BY <1>1, <1>3 DEF Pages
<1>6. \A u : u = [i \in 1 .. Len(every) |-> Cardinality(part[every[i]])] =>
             Total(u) = Cardinality(UNION {part[p] : p \in ToSet(every)})
  BY <1>1, <1>2, TotalOfParts
<1>7. Total(t) = Cardinality(UNION {part[p] : p \in ToSet(every)})
  BY <1>5, <1>6, Zenon
<1>8. UNION {part[p] : p \in ToSet(every)} = UNION {parts[p] : p \in these}
  BY <1>1, <1>4, Zenon
<1> QED
  BY <1>7, <1>8, Zenon

\* The numbers that are missing to c.
LEMMA TotalOfRest ==
  ASSUME NEW s \in Seq(Int), NEW c \in Int,
         NEW t, t = [i \in 1 .. Len(s) |-> c - s[i]]
  PROVE  Total(s) \in Int /\ Total(t) = Len(s) * c - Total(s)
<1>0. Len(s) \in Nat /\ \A i \in 1 .. Len(s) : s[i] \in Int
  OBVIOUS
<1>1. t \in Seq(Int) /\ Len(t) = Len(s) /\ \A i \in 1 .. Len(s) : t[i] = c - s[i]
  <2>1. t \in [1 .. Len(s) -> Int]
    BY <1>0
  <2> QED
    BY <1>0, <2>1
<1>2. PICK f : SumUpTo(f, s, Len(s)) /\ Total(s) = f[Len(s)]
  BY TotalEquation
<1>3. PICK g : SumUpTo(g, t, Len(s)) /\ Total(t) = g[Len(s)]
  BY <1>1, TotalEquation
<1>4. \A n \in 0 .. Len(s) : f[n] \in Int
  BY <1>2, SumUpToType
<1> DEFINE good == {n \in 0 .. Len(s) : g[n] = n * c - f[n]}
<1>5. 0 \in good
  BY <1>0, <1>2, <1>3 DEF SumUpTo
<1>6. ASSUME NEW n \in 1 .. Len(s), n - 1 \in good
      PROVE  n \in good
  <2>1. /\ n \in 0 .. Len(s) /\ n \in Int /\ n - 1 \in 0 .. Len(s)
        /\ f[n - 1] \in Int /\ f[n] \in Int /\ s[n] \in Int
    BY <1>0, <1>4
  <2>2. g[n - 1] = (n - 1) * c - f[n - 1] /\ g[n] = g[n - 1] + (c - s[n]) /\ f[n] = f[n - 1] + s[n]
    BY <1>1, <1>2, <1>3, <1>6 DEF SumUpTo
  <2>3. (n - 1) * c + c = n * c
    BY <2>1
  <2>4. (n - 1) * c \in Int /\ n * c \in Int
    BY <2>1
  <2> DEFINE a == (n - 1) * c
             b == n * c
             x == f[n - 1]
             y == s[n]
  <2>5. g[n] = b - f[n]
    <3>1. a \in Int /\ b \in Int /\ x \in Int /\ y \in Int /\ a + c = b
      BY <2>1, <2>3, <2>4
    <3>2. g[n] = (a - x) + (c - y) /\ f[n] = x + y
      BY <2>2
    <3> HIDE DEF a, b, x, y
    <3>3. (a - x) + (c - y) = b - (x + y)
      BY <3>1
    <3> QED
      BY <3>2, <3>3
  <2> QED
    BY <2>1, <2>5
<1>7. Len(s) \in good
  <2> HIDE DEF good
  <2>1. \A n \in 0 .. Len(s) : n \in good
    BY <1>0, <1>5, <1>6, UpTo, Zenon
  <2> QED
    BY <1>0, <2>1
<1> QED
  BY <1>0, <1>2, <1>3, <1>4, <1>7

-----------------------------------------------------------------------------
(* The pages of a chain.                                                   *)

\* f has the pages that are reached from head in up to so many steps.
Reached(f, next, head, m) ==
  /\ f[0] = {head} \ {Null}
  /\ \A n \in 1 .. m : f[n] = f[n - 1] \cup ({next[p] : p \in f[n - 1]} \ {Null})

\* f has the page that is reached in so many steps, if there is one.
Walked(f, next, head, m) ==
  /\ f[0] = head
  /\ \A n \in 1 .. m : f[n] = IF f[n - 1] = Null THEN Null ELSE next[f[n - 1]]

\* The recursion that defines Listed has a solution.
LEMMA ListedEquation ==
  ASSUME NEW next \in [Pages -> Pointer], NEW head \in Pointer, MaxPages \in Nat
  PROVE  \E f : Reached(f, next, head, MaxPages) /\ Listed(next, head) = f[MaxPages]
<1> DEFINE Step(x) == x \cup ({next[p] : p \in x} \ {Null})
           IsFix(g) ==
             g = [n \in 0 .. MaxPages |->
                   IF n = 0 THEN {head} \ {Null}
                   ELSE g[n - 1] \cup ({next[p] : p \in g[n - 1]} \ {Null})]
<1>1. PICK step \in [SUBSET Pages -> SUBSET Pages] : \A x \in SUBSET Pages : step[x] = Step(x)
  <2> DEFINE step == [x \in SUBSET Pages |-> Step(x)]
  <2>1. step \in [SUBSET Pages -> SUBSET Pages]
    BY DEF Pointer
  <2>2. \A x \in SUBSET Pages : step[x] = Step(x)
    BY Zenon
  <2> HIDE DEF step
  <2> QED
    BY <2>1, <2>2, Zenon
<1>2. PICK base \in SUBSET Pages : base = {head} \ {Null}
  BY DEF Pointer
<1>3. PICK f : Iterates(f, MaxPages, SUBSET Pages, base, step)
  BY Iteration, Zenon
<1>4. \A n \in 0 .. MaxPages : f[n] = IF n = 0 THEN {head} \ {Null} ELSE Step(f[n - 1])
  <2> SUFFICES ASSUME NEW n \in 0 .. MaxPages
               PROVE  f[n] = IF n = 0 THEN {head} \ {Null} ELSE Step(f[n - 1])
    OBVIOUS
  <2>1. n # 0 => n \in 1 .. MaxPages /\ n - 1 \in 0 .. MaxPages /\ f[n - 1] \in SUBSET Pages
    BY <1>3 DEF Iterates
  <2> HIDE DEF Step
  <2> QED
    BY <1>1, <1>2, <1>3, <2>1 DEF Iterates
<1>5. IsFix(f)
  <2>1. f = [n \in 0 .. MaxPages |-> f[n]]
    BY <1>3 DEF Iterates
  <2> QED
    BY <1>4, <2>1, Zenon
<1> DEFINE k == CHOOSE g : IsFix(g)
<1>6. Listed(next, head) = k[MaxPages]
  BY Zenon DEF Listed
<1>7. IsFix(k)
  <2> HIDE DEF IsFix
  <2> QED
    BY <1>5, Zenon
<1> HIDE DEF k
<1>8. Reached(k, next, head, MaxPages)
  <2>1. k[0] = {head} \ {Null}
    BY <1>7
  <2>2. ASSUME NEW n \in 1 .. MaxPages
        PROVE  k[n] = k[n - 1] \cup ({next[p] : p \in k[n - 1]} \ {Null})
    <3>1. n \in 0 .. MaxPages /\ n # 0
      OBVIOUS
    <3> QED
      BY <1>7, <3>1, Zenon
  <2> QED
    BY <2>1, <2>2, Zenon DEF Reached
<1> QED
  BY <1>6, <1>8

\* So has the one that defines Ends.
LEMMA EndsEquation ==
  ASSUME NEW next \in [Pages -> Pointer], NEW head \in Pointer, MaxPages \in Nat
  PROVE  \E f : Walked(f, next, head, MaxPages) /\ Ends(next, head) = (f[MaxPages] = Null)
<1> DEFINE Step(x) == IF x = Null THEN Null ELSE next[x]
           IsFix(g) ==
             g = [n \in 0 .. MaxPages |->
                   IF n = 0 THEN head
                   ELSE IF g[n - 1] = Null THEN Null ELSE next[g[n - 1]]]
<1>1. PICK step \in [Pointer -> Pointer] : \A x \in Pointer : step[x] = Step(x)
  <2> DEFINE step == [x \in Pointer |-> Step(x)]
  <2>1. step \in [Pointer -> Pointer]
    BY DEF Pointer
  <2>2. \A x \in Pointer : step[x] = Step(x)
    BY Zenon
  <2> HIDE DEF step
  <2> QED
    BY <2>1, <2>2, Zenon
<1>2. PICK f : Iterates(f, MaxPages, Pointer, head, step)
  BY Iteration, Zenon
<1>3. \A n \in 0 .. MaxPages : f[n] = IF n = 0 THEN head ELSE Step(f[n - 1])
  <2> SUFFICES ASSUME NEW n \in 0 .. MaxPages
               PROVE  f[n] = IF n = 0 THEN head ELSE Step(f[n - 1])
    OBVIOUS
  <2>1. n # 0 => n \in 1 .. MaxPages /\ n - 1 \in 0 .. MaxPages /\ f[n - 1] \in Pointer
    BY <1>2 DEF Iterates
  <2> HIDE DEF Step
  <2> QED
    BY <1>1, <1>2, <2>1 DEF Iterates
<1>4. IsFix(f)
  <2>1. f = [n \in 0 .. MaxPages |-> f[n]]
    BY <1>2 DEF Iterates
  <2> QED
    BY <1>3, <2>1, Zenon
<1> DEFINE k == CHOOSE g : IsFix(g)
<1>5. Ends(next, head) = (k[MaxPages] = Null)
  BY Zenon DEF Ends
<1>6. IsFix(k)
  <2> HIDE DEF IsFix
  <2> QED
    BY <1>4, Zenon
<1> HIDE DEF k
<1>7. Walked(k, next, head, MaxPages)
  BY <1>6 DEF Walked
<1> QED
  BY <1>5, <1>7

-----------------------------------------------------------------------------
(* Chains. The pages of a list are given by a set that holds its head and  *)
(* what the pages of the set point to.                                     *)

\* s has the pages of the chain that starts at head: nobody in s points to the
\* head, one page to each of the others, and the chain goes down in rank, so that
\* it ends.
IsChain(next, s, head) ==
  /\ s \subseteq Pages
  /\ head # Null => head \in s
  /\ \A p \in s : next[p] # Null => next[p] \in s /\ next[p] # head
  /\ \A p \in s \ {head} : \E q \in s : next[q] = p
  /\ \A p, q \in s : next[p] # Null /\ next[p] = next[q] => p = q
  /\ \E rank \in [Pages -> Nat] : \A p \in s : next[p] # Null => rank[next[p]] < rank[p]

\* The empty list.
LEMMA ChainEmpty ==
  ASSUME NEW next
  PROVE  IsChain(next, {}, Null)
<1>1. [p \in Pages |-> 0] \in [Pages -> Nat]
  OBVIOUS
<1> QED
  BY <1>1 DEF IsChain

\* What other pages point to does not matter.
LEMMA ChainFrame ==
  ASSUME NEW next, NEW new, NEW s, NEW head, IsChain(next, s, head),
         \A p \in s : new[p] = next[p]
  PROVE  IsChain(new, s, head)
BY DEF IsChain

\* The head is removed.
LEMMA ChainPopped ==
  ASSUME NEW next \in [Pages -> Pointer], NEW s, NEW head, IsChain(next, s, head), head # Null
  PROVE  IsChain(next, s \ {head}, next[head])
<1>1. PICK rank \in [Pages -> Nat] : \A p \in s : next[p] # Null => rank[next[p]] < rank[p]
  BY DEF IsChain
<1>2. head \in s /\ s \subseteq Pages
  BY DEF IsChain
<1>3. next[head] # Null => next[head] # head
  BY <1>2 DEF IsChain
<1>4. ASSUME NEW p \in (s \ {head}) \ {next[head]} PROVE \E q \in s \ {head} : next[q] = p
  <2>1. PICK q \in s : next[q] = p
    BY DEF IsChain
  <2> QED
    BY <2>1
<1> QED
  BY <1>1, <1>2, <1>3, <1>4 DEF IsChain

\* A page that points to the head is put before it.
LEMMA ChainPushed ==
  ASSUME NEW next \in [Pages -> Pointer], NEW s, NEW head, IsChain(next, s, head),
         NEW p \in Pages, p \notin s, next[p] = head
  PROVE  IsChain(next, s \cup {p}, p)
<1>1. PICK rank \in [Pages -> Nat] : \A q \in s : next[q] # Null => rank[next[q]] < rank[q]
  BY DEF IsChain
<1> DEFINE top == IF head = Null THEN 0 ELSE rank[head] + 1
           new == [rank EXCEPT ![p] = top]
<1>2. s \subseteq Pages /\ (head # Null => head \in s)
  BY DEF IsChain
<1>3. top \in Nat /\ (head # Null => rank[head] < top)
  BY <1>2
<1>4. new \in [Pages -> Nat] /\ new[p] = top /\ \A q \in Pages : q # p => new[q] = rank[q]
  BY <1>3
<1> HIDE DEF top, new
<1>5. \A q \in s \cup {p} : next[q] # Null => new[next[q]] < new[q]
  <2>1. ASSUME NEW q \in s, next[q] # Null PROVE new[next[q]] < new[q]
    <3>1. next[q] \in s /\ rank[next[q]] < rank[q]
      BY <1>1, <2>1 DEF IsChain
    <3> QED
      BY <1>2, <1>4, <3>1
  <2>2. ASSUME next[p] # Null PROVE new[next[p]] < new[p]
    BY <1>2, <1>3, <1>4, <2>2
  <2> QED
    BY <2>1, <2>2
<1>6. \A q \in s \cup {p} : next[q] # Null => next[q] \in s \cup {p} /\ next[q] # p
  BY <1>2 DEF IsChain
<1>7. \A q, r \in s \cup {p} : next[q] # Null /\ next[q] = next[r] => q = r
  BY <1>2 DEF IsChain
<1>8. \A q \in (s \cup {p}) \ {p} : \E r \in s \cup {p} : next[r] = q
  BY DEF IsChain
<1> QED
  BY <1>2, <1>4, <1>5, <1>6, <1>7, <1>8 DEF IsChain

\* The page after c is unlinked.
LEMMA ChainUnlinked ==
  ASSUME NEW next \in [Pages -> Pointer], NEW s, NEW head, IsChain(next, s, head),
         NEW c \in s, NEW p, p = next[c], p # Null
  PROVE  /\ p \in s /\ c \in s \ {p}
         /\ IsChain([next EXCEPT ![c] = next[p]], s \ {p}, head)
<1>1. PICK rank \in [Pages -> Nat] : \A q \in s : next[q] # Null => rank[next[q]] < rank[q]
  BY DEF IsChain
<1>2. s \subseteq Pages /\ p \in s /\ p # head
  BY DEF IsChain
<1>3. rank[p] < rank[c] /\ rank[p] \in Nat /\ rank[c] \in Nat
  BY <1>1, <1>2
<1>4. c # p
  BY <1>3
<1> DEFINE new == [next EXCEPT ![c] = next[p]]
<1>5. \A q \in s : new[q] = IF q = c THEN next[p] ELSE next[q]
  BY <1>2
<1> HIDE DEF new
<1>6. \A q \in s \ {p} : new[q] # Null => new[q] \in s \ {p} /\ new[q] # head
  <2>1. next[p] # Null => next[p] # p
    BY <1>1, <1>2
  <2> QED
    BY <1>2, <1>4, <1>5, <2>1 DEF IsChain
<1>7. \A q, r \in s \ {p} : new[q] # Null /\ new[q] = new[r] => q = r
  BY <1>2, <1>4, <1>5 DEF IsChain
<1>8. \A q \in s \ {p} : new[q] # Null => rank[new[q]] < rank[q]
  <2>1. ASSUME next[p] # Null PROVE rank[next[p]] < rank[c]
    <3>1. rank[next[p]] < rank[p] /\ next[p] \in Pages
      BY <1>1, <1>2, <2>1 DEF IsChain
    <3> QED
      BY <1>3, <3>1
  <2> QED
    BY <1>1, <1>5, <2>1
<1>9. ASSUME NEW q \in (s \ {p}) \ {head} PROVE \E r \in s \ {p} : new[r] = q
  <2>1. PICK r \in s : next[r] = q
    BY DEF IsChain
  <2>2. CASE r = p
    BY <1>2, <1>4, <1>5, <2>1, <2>2
  <2>3. CASE r # p
    BY <1>5, <2>1, <2>3
  <2> QED
    BY <2>2, <2>3
<1>10. IsChain(new, s \ {p}, head)
  BY <1>1, <1>2, <1>6, <1>7, <1>8, <1>9 DEF IsChain
<1> QED
  BY <1>2, <1>4, <1>10 DEF new

\* From a page that is reached, in as many steps as there are pages, the next one
\* is reached too: as long as it is not, each step reaches one more.
LEMMA ReachedAll ==
  ASSUME NEW next \in [Pages -> Pointer], NEW head \in Pointer, MaxPages \in Nat,
         NEW f, Reached(f, next, head, MaxPages)
  PROVE  /\ head # Null => head \in f[MaxPages]
         /\ f[MaxPages] \subseteq Pages
         /\ \A p \in f[MaxPages] : next[p] # Null => next[p] \in f[MaxPages]
<1> DEFINE Closed(x) == \A p \in x : next[p] # Null => next[p] \in x
           good == {n \in 0 .. MaxPages :
                      /\ f[n] \subseteq Pages /\ (head # Null => head \in f[n])
                      /\ Closed(f[n]) \/ Cardinality(f[n]) > n}
<1>1. IsFiniteSet(Pages) /\ Cardinality(Pages) = MaxPages
  BY FS_Interval DEF Pages
<1>2. 0 \in good
  <2>1. f[0] = {head} \ {Null} /\ f[0] \subseteq Pages
    BY DEF Reached, Pointer
  <2>2. CASE head = Null
    <3>1. f[0] = {}
      BY <2>1, <2>2
    <3> QED
      BY <2>2, <3>1
  <2>3. CASE head # Null
    <3>1. f[0] = {head}
      BY <2>1, <2>3
    <3>2. Cardinality({head}) = 1
      BY FS_Singleton
    <3> QED
      BY <2>1, <3>1, <3>2
  <2> QED
    BY <2>2, <2>3
<1>3. ASSUME NEW n \in 1 .. MaxPages, n - 1 \in good
      PROVE  n \in good
  <2> DEFINE x == f[n - 1]
             y == f[n]
  <2>1. y = x \cup ({next[p] : p \in x} \ {Null})
    BY DEF Reached
  <2>2. x \subseteq Pages /\ (head # Null => head \in x) /\ (Closed(x) \/ Cardinality(x) > n - 1)
    BY <1>3
  <2>3. n \in 0 .. MaxPages
    OBVIOUS
  <2> HIDE DEF x
  <2>4. y \subseteq Pages /\ x \subseteq y
    BY <2>1, <2>2 DEF Pointer
  <2>5. CASE Closed(x)
    <3>1. y = x
      BY <2>1, <2>5
    <3> QED
      BY <2>2, <2>3, <2>5, <3>1
  <2>6. CASE ~Closed(x)
    <3>1. PICK p \in x : next[p] # Null /\ next[p] \notin x
      BY <2>6
    <3>2. next[p] \in y
      BY <2>1, <3>1
    <3>3. x # y
      BY <3>1, <3>2
    <3>4. IsFiniteSet(y)
      BY <1>1, <2>4, FS_Subset
    <3> HIDE DEF y
    <3>5. /\ IsFiniteSet(x) /\ Cardinality(x) <= Cardinality(y)
          /\ Cardinality(y) = Cardinality(x) => y = x
      BY <2>4, <3>4, FS_Subset
    <3>6. Cardinality(x) \in Nat /\ Cardinality(y) \in Nat
      BY <3>4, <3>5, FS_CardinalityType
    <3>7. Cardinality(y) > n
      BY <2>2, <2>6, <3>3, <3>5, <3>6
    <3> QED
      BY <2>2, <2>3, <2>4, <3>7 DEF y
  <2> QED
    BY <2>5, <2>6
<1> HIDE DEF good
<1>4. MaxPages \in good
  BY <1>2, <1>3, UpTo
<1>5. f[MaxPages] \subseteq Pages
  BY <1>4 DEF good
<1>6. ~(Cardinality(f[MaxPages]) > MaxPages)
  <2>1. Cardinality(f[MaxPages]) <= Cardinality(Pages) /\ IsFiniteSet(f[MaxPages])
    BY <1>1, <1>5, FS_Subset
  <2>2. Cardinality(f[MaxPages]) \in Nat
    BY <2>1, FS_CardinalityType
  <2> QED
    BY <1>1, <2>1, <2>2
<1> QED
  BY <1>4, <1>6 DEF good

\* What a list reaches are its pages.
LEMMA ChainListed ==
  ASSUME NEW next \in [Pages -> Pointer], NEW head \in Pointer, MaxPages \in Nat,
         NEW s, IsChain(next, s, head)
  PROVE  Listed(next, head) = s
<1>1. PICK f : Reached(f, next, head, MaxPages) /\ Listed(next, head) = f[MaxPages]
  BY ListedEquation
<1> DEFINE good == {i \in 0 .. MaxPages : f[i] \subseteq s}
<1>2. \A n \in 0 .. MaxPages : n \in good
  <2>1. 0 \in good
    BY <1>1 DEF Reached, IsChain
  <2>2. ASSUME NEW n \in 1 .. MaxPages, n - 1 \in good
        PROVE  n \in good
    <3>1. f[n] = f[n - 1] \cup ({next[p] : p \in f[n - 1]} \ {Null})
      BY <1>1 DEF Reached
    <3>2. f[n - 1] \subseteq s
      BY <2>2
    <3> QED
      BY <3>1, <3>2 DEF IsChain
  <2> HIDE DEF good
  <2> QED
    BY <2>1, <2>2, UpTo
<1>3. f[MaxPages] \subseteq s
  BY <1>2
<1> DEFINE out == s \ f[MaxPages]
<1>4. out = {}
  <2> SUFFICES ASSUME out # {} PROVE FALSE
    OBVIOUS
  <2>1. PICK rank \in [Pages -> Nat] : \A p \in s : next[p] # Null => rank[next[p]] < rank[p]
    BY DEF IsChain
  <2>2. s \subseteq Pages /\ Null \notin Pages
    BY DEF IsChain, Pages, Null
  <2>3. ASSUME NEW p \in out PROVE \E q \in out : next[q] = p
    <3>1. p # head
      BY <1>1, <2>2, ReachedAll
    <3>2. PICK q \in s : next[q] = p
      BY <3>1 DEF IsChain
    <3>3. q \notin f[MaxPages]
      BY <1>1, <2>2, <3>2, ReachedAll
    <3> QED
      BY <3>2, <3>3
  <2>4. PICK m \in out : \A p \in out : rank[m] <= rank[p]
    <3> DEFINE ranks == {rank[p] : p \in out}
    <3>1. ranks \subseteq Nat /\ ranks # {}
      BY <2>2
    <3>2. PICK r \in ranks : \A x \in ranks : r <= x
      <4> HIDE DEF ranks
      <4> QED
        BY <3>1, LeastNumber
    <3> QED
      BY <3>2
  <2> DEFINE pred == [p \in out |-> CHOOSE q \in out : next[q] = p]
  <2>5. \A p \in out : pred[p] \in out /\ next[pred[p]] = p
    BY <2>3
  <2> HIDE DEF pred
  <2>6. \A p \in out : pred[p] # m
    <3> SUFFICES ASSUME NEW p \in out, pred[p] = m PROVE FALSE
      OBVIOUS
    <3>1. next[m] = p /\ p # Null /\ p \in Pages /\ m \in Pages
      BY <2>2, <2>5
    <3>2. rank[p] < rank[m] /\ rank[m] <= rank[p] /\ rank[p] \in Nat /\ rank[m] \in Nat
      BY <2>1, <2>4, <3>1
    <3> QED
      BY <3>2
  <2> DEFINE g == [p \in out |-> pred[p]]
  <2>7. g \in [out -> out \ {m}]
    BY <2>5, <2>6
  <2>8. IsFiniteSet(out)
    <3>1. IsFiniteSet(Pages)
      BY FS_Interval DEF Pages
    <3>2. out \subseteq Pages
      BY <2>2
    <3> QED
      BY <3>1, <3>2, FS_Subset
  <2>9. \E p, q \in out : p # q /\ g[p] = g[q]
    <3> HIDE DEF out, g
    <3>1. IsFiniteSet(out \ {m}) /\ Cardinality(out \ {m}) = Cardinality(out) - 1
      BY <2>8, FS_RemoveElement
    <3>2. Cardinality(out) \in Nat
      BY <2>8, FS_CardinalityType
    <3>3. Cardinality(out \ {m}) < Cardinality(out)
      BY <3>1, <3>2
    <3> QED
      BY <2>7, <2>8, <3>1, <3>3, FS_PigeonHole
  <2>10. PICK p, q \in out : p # q /\ pred[p] = pred[q]
    BY <2>9
  <2> QED
    BY <2>5, <2>10
<1> QED
  BY <1>1, <1>3, <1>4

\* The list without a head is empty.
LEMMA ChainOfNull ==
  ASSUME NEW next \in [Pages -> Pointer], MaxPages \in Nat, NEW s, IsChain(next, s, Null)
  PROVE  s = {}
<1>1. PICK f : Reached(f, next, Null, MaxPages) /\ Listed(next, Null) = f[MaxPages]
  BY ListedEquation DEF Pointer
<1> DEFINE good == {i \in 0 .. MaxPages : f[i] = {}}
<1>2. 0 \in good
  BY <1>1 DEF Reached
<1>3. ASSUME NEW n \in 1 .. MaxPages, n - 1 \in good
      PROVE  n \in good
  BY <1>1, <1>3 DEF Reached
<1>4. MaxPages \in good
  <2> HIDE DEF good
  <2> QED
    BY <1>2, <1>3, UpTo
<1>5. Listed(next, Null) = s
  BY ChainListed DEF Pointer
<1> QED
  BY <1>1, <1>4, <1>5

\* A list ends: there are not as many pages as steps to go on.
LEMMA ChainEnds ==
  ASSUME NEW next \in [Pages -> Pointer], NEW head \in Pointer, MaxPages \in Nat,
         NEW s, IsChain(next, s, head)
  PROVE  Ends(next, head)
<1>1. PICK f : Walked(f, next, head, MaxPages) /\ Ends(next, head) = (f[MaxPages] = Null)
  BY EndsEquation
<1>2. PICK rank \in [Pages -> Nat] : \A p \in s : next[p] # Null => rank[next[p]] < rank[p]
  BY DEF IsChain
<1> SUFFICES ASSUME f[MaxPages] # Null PROVE FALSE
  BY <1>1
<1> DEFINE good == {n \in 0 .. MaxPages :
                      f[n] # Null => f[n] \in s /\ \A i \in 0 .. n - 1 :
                                       f[i] \in s /\ rank[f[n]] < rank[f[i]]}
<1>3. \A n \in 0 .. MaxPages : n \in good
  <2>1. 0 \in good
    BY <1>1 DEF Walked, IsChain
  <2>2. ASSUME NEW n \in 1 .. MaxPages, n - 1 \in good
        PROVE  n \in good
    <3> SUFFICES ASSUME f[n] # Null
                 PROVE  f[n] \in s /\ \A i \in 0 .. n - 1 : f[i] \in s /\ rank[f[n]] < rank[f[i]]
      OBVIOUS
    <3>1. f[n - 1] # Null /\ f[n] = next[f[n - 1]]
      BY <1>1 DEF Walked
    <3>2. /\ f[n - 1] \in s
          /\ \A i \in 0 .. n - 2 : f[i] \in s /\ rank[f[n - 1]] < rank[f[i]]
      BY <2>2, <3>1
    <3>3. f[n] \in s /\ rank[f[n]] < rank[f[n - 1]]
      BY <1>2, <3>1, <3>2 DEF IsChain
    <3>4. rank[f[n]] \in Nat /\ rank[f[n - 1]] \in Nat
      BY <3>2, <3>3 DEF IsChain
    <3> SUFFICES ASSUME NEW i \in 0 .. n - 1 PROVE f[i] \in s /\ rank[f[n]] < rank[f[i]]
      BY <3>3
    <3>5. CASE i = n - 1
      BY <3>2, <3>3, <3>5
    <3>6. CASE i # n - 1
      <4>1. i \in 0 .. n - 2
        BY <3>6
      <4>2. f[i] \in s /\ rank[f[n - 1]] < rank[f[i]]
        BY <3>2, <4>1
      <4>3. rank[f[i]] \in Nat
        BY <4>2 DEF IsChain
      <4> QED
        BY <3>3, <3>4, <4>2, <4>3
    <3> QED
      BY <3>5, <3>6
  <2> HIDE DEF good
  <2> QED
    BY <2>1, <2>2, UpTo
<1>4. \A i \in 0 .. MaxPages : f[i] \in s
  BY <1>3
<1>5. \A i, j \in 0 .. MaxPages : i < j => rank[f[j]] < rank[f[i]]
  <2> SUFFICES ASSUME NEW i \in 0 .. MaxPages, NEW j \in 0 .. MaxPages, i < j
               PROVE  rank[f[j]] < rank[f[i]]
    OBVIOUS
  <2>1. f[j] # Null
    BY <1>4 DEF IsChain, Pages, Null
  <2> QED
    BY <1>3, <2>1
<1>6. s \subseteq Pages
  BY DEF IsChain
<1> DEFINE g == [i \in 0 .. MaxPages |-> f[i]]
<1>7. g \in [0 .. MaxPages -> Pages]
  BY <1>4, <1>6
<1>8. /\ IsFiniteSet(0 .. MaxPages) /\ Cardinality(0 .. MaxPages) = MaxPages + 1
      /\ IsFiniteSet(Pages) /\ Cardinality(Pages) = MaxPages
  BY FS_Interval DEF Pages
<1>9. \E i, j \in 0 .. MaxPages : i # j /\ g[i] = g[j]
  <2> HIDE DEF g
  <2>1. Cardinality(Pages) < Cardinality(0 .. MaxPages)
    BY <1>8
  <2> QED
    BY <1>7, <1>8, <2>1, FS_PigeonHole
<1>10. PICK i, j \in 0 .. MaxPages : i # j /\ f[i] = f[j]
  BY <1>9
<1>11. rank[f[i]] \in Nat
  BY <1>4, <1>6
<1> QED
  BY <1>5, <1>10, <1>11

-----------------------------------------------------------------------------
(* New pages.                                                              *)

\* The larger and the smaller one of two numbers.
LEMMA LargerOfTwo ==
  ASSUME NEW a \in Int, NEW b \in Int
  PROVE  Max({a, b}) = IF a >= b THEN a ELSE b
BY DEF Max

\* And the smaller one.
LEMMA SmallerOfTwo ==
  ASSUME NEW a \in Int, NEW b \in Int
  PROVE  Min({a, b}) = IF a <= b THEN a ELSE b
BY DEF Min

\* The list of n new pages.
LEMMA NewListElements ==
  ASSUME NEW m \in Nat, NEW n \in Nat \ {0}
  PROVE  /\ NewList(m, n) \in Seq(m + 1 .. m + n) /\ Len(NewList(m, n)) = n
         /\ ToSet(NewList(m, n)) = m + 1 .. m + n
         /\ IsInjective(NewList(m, n))
         /\ Head(NewList(m, n)) = m + n /\ Last(NewList(m, n)) = m + 1
         /\ \A i \in 1 .. n : NewList(m, n)[i] = m + n + 1 - i
<1> DEFINE s == NewList(m, n)
<1>1. s \in [1 .. n -> m + 1 .. m + n] /\ \A i \in 1 .. n : s[i] = m + n + 1 - i
  BY DEF NewList
<1> HIDE DEF s
<1>2. s \in Seq(m + 1 .. m + n) /\ Len(s) = n /\ DOMAIN s = 1 .. n
  BY <1>1
<1>3. ToSet(s) = m + 1 .. m + n
  <2>1. ASSUME NEW p \in m + 1 .. m + n PROVE p \in ToSet(s)
    <3>1. m + n + 1 - p \in 1 .. n /\ s[m + n + 1 - p] = p
      BY <1>1
    <3> QED
      BY <1>2, <3>1 DEF ToSet
  <2>2. ASSUME NEW p \in ToSet(s) PROVE p \in m + 1 .. m + n
    BY <1>1, <1>2 DEF ToSet
  <2> QED
    BY <2>1, <2>2
<1>4. IsInjective(s)
  BY <1>1, <1>2 DEF IsInjective
<1>5. Head(s) = s[1] /\ Last(s) = s[n]
  BY <1>2 DEF Last
<1>6. Head(s) = m + n /\ Last(s) = m + 1
  BY <1>1, <1>5
<1> QED
  BY <1>1, <1>2, <1>3, <1>4, <1>6 DEF s

\* Pages that are linked point to pages, or nowhere.
LEMMA LinkedType ==
  ASSUME NEW next \in [Pages -> Pointer], NEW s \in Seq(Pages)
  PROVE  Linked(next, s) \in [Pages -> Pointer]
<1> DEFINE After(p) == CHOOSE i \in 2 .. Len(s) : s[i - 1] = p
<1>1. ASSUME NEW p \in ToSet(s), p # Last(s)
      PROVE  s[After(p)] \in Pages
  <2>1. PICK i \in 1 .. Len(s) : s[i] = p
    BY DEF ToSet
  <2>2. i # Len(s)
    BY <1>1, <2>1 DEF Last
  <2>3. i + 1 \in 2 .. Len(s) /\ s[(i + 1) - 1] = p
    BY <2>1, <2>2
  <2>4. After(p) \in 2 .. Len(s)
    BY <2>3
  <2> HIDE DEF After
  <2> QED
    BY <2>4
<1> HIDE DEF After
<1>2. Linked(next, s) =
        [p \in Pages |-> IF p \notin ToSet(s) THEN next[p]
                         ELSE IF p = Last(s) THEN Null ELSE s[After(p)]]
  BY DEF Linked, After
<1> QED
  BY <1>1, <1>2 DEF Pointer

\* Different pages, linked in their order, are a list.
LEMMA ChainLinked ==
  ASSUME NEW next \in [Pages -> Pointer], NEW s \in Seq(Pages), s # <<>>, IsInjective(s),
         NEW new, new = Linked(next, s)
  PROVE  /\ \A p \in Pages \ ToSet(s) : new[p] = next[p]
         /\ IsChain(new, ToSet(s), Head(s))
<1> DEFINE n == Len(s)
           After(p) == CHOOSE i \in 2 .. n : s[i - 1] = p
<1>1. /\ n \in Nat \ {0} /\ ToSet(s) \subseteq Pages /\ Head(s) = s[1] /\ Last(s) = s[n]
      /\ \A i \in 1 .. n : s[i] \in ToSet(s) /\ s[i] \in Pages
      /\ \A p \in ToSet(s) : \E i \in 1 .. n : s[i] = p
      /\ \A i, j \in 1 .. n : s[i] = s[j] => i = j
  BY DEF ToSet, Last, IsInjective
<1>2. ASSUME NEW i \in 1 .. n - 1
      PROVE  s[After(s[i])] = s[i + 1]
  <2>1. i + 1 \in 2 .. n /\ s[(i + 1) - 1] = s[i]
    BY <1>1
  <2>2. After(s[i]) \in 2 .. n /\ s[After(s[i]) - 1] = s[i]
    BY <2>1
  <2> HIDE DEF After
  <2>3. After(s[i]) - 1 \in 1 .. n /\ i \in 1 .. n /\ After(s[i]) \in Int
    BY <1>1, <2>2
  <2>4. After(s[i]) - 1 = i
    BY <1>1, <2>2, <2>3
  <2>5. After(s[i]) = i + 1
    BY <2>3, <2>4
  <2> QED
    BY <2>5
<1>3. new = [p \in Pages |-> IF p \notin ToSet(s) THEN next[p]
                             ELSE IF p = Last(s) THEN Null ELSE s[After(p)]]
  BY DEF Linked
<1> HIDE DEF After
<1>4. \A p \in Pages \ ToSet(s) : new[p] = next[p]
  BY <1>3
<1>5. ASSUME NEW i \in 1 .. n
      PROVE  new[s[i]] = IF i = n THEN Null ELSE s[i + 1]
  <2>1. CASE i = n
    BY <1>1, <1>3, <2>1
  <2>2. CASE i # n
    <3>1. s[i] # Last(s) /\ i \in 1 .. n - 1
      BY <1>1, <2>2
    <3> QED
      BY <1>1, <1>2, <1>3, <2>2, <3>1
  <2> QED
    BY <2>1, <2>2
<1>6. Null \notin Pages
  BY DEF Pages, Null
<1> DEFINE At(p) == CHOOSE i \in 1 .. n : s[i] = p
           rank == [p \in Pages |-> IF p \in ToSet(s) THEN n - At(p) ELSE 0]
<1>7. \A i \in 1 .. n : At(s[i]) = i
  <2> SUFFICES ASSUME NEW i \in 1 .. n PROVE At(s[i]) = i
    OBVIOUS
  <2>1. At(s[i]) \in 1 .. n /\ s[At(s[i])] = s[i]
    OBVIOUS
  <2> HIDE DEF At
  <2> QED
    BY <1>1, <2>1
<1> HIDE DEF At
<1>8. rank \in [Pages -> Nat]
  <2>1. \A p \in ToSet(s) : n - At(p) \in Nat
    BY <1>1, <1>7
  <2> QED
    BY <2>1
<1>9. \A i \in 1 .. n : rank[s[i]] = n - i
  BY <1>1, <1>7
<1> HIDE DEF rank, n
<1>10. ASSUME NEW p \in ToSet(s), new[p] # Null
       PROVE  new[p] \in ToSet(s) /\ new[p] # Head(s) /\ rank[new[p]] < rank[p]
  <2>1. PICK i \in 1 .. n : s[i] = p
    BY <1>1
  <2>2. i # n /\ new[p] = s[i + 1] /\ i + 1 \in 1 .. n /\ 1 \in 1 .. n
    BY <1>1, <1>5, <1>10, <2>1
  <2>3. rank[p] = n - i /\ rank[new[p]] = n - (i + 1)
    BY <1>9, <2>1, <2>2
  <2> QED
    BY <1>1, <2>1, <2>2, <2>3
<1>11. ASSUME NEW p \in ToSet(s), p # Head(s)
       PROVE  \E q \in ToSet(s) : new[q] = p
  <2>1. PICK i \in 1 .. n : s[i] = p
    BY <1>1
  <2>2. i - 1 \in 1 .. n /\ i - 1 # n /\ (i - 1) + 1 = i
    BY <1>1, <1>11, <2>1
  <2>3. new[s[i - 1]] = p
    BY <1>5, <2>1, <2>2
  <2> QED
    BY <1>1, <2>2, <2>3
<1>12. ASSUME NEW p \in ToSet(s), NEW q \in ToSet(s), new[p] # Null, new[p] = new[q]
       PROVE  p = q
  <2>1. PICK i \in 1 .. n : s[i] = p
    BY <1>1
  <2>2. PICK j \in 1 .. n : s[j] = q
    BY <1>1
  <2>3. /\ new[p] = s[i + 1] /\ i + 1 \in 1 .. n
        /\ new[q] = s[j + 1] /\ j + 1 \in 1 .. n
    BY <1>1, <1>5, <1>12, <2>1, <2>2
  <2>4. i + 1 = j + 1
    BY <1>1, <1>12, <2>3
  <2> QED
    BY <2>1, <2>2, <2>4
<1>13. Head(s) \in ToSet(s)
  BY <1>1
<1> QED
  BY <1>1, <1>4, <1>8, <1>10, <1>11, <1>12, <1>13 DEF IsChain

\* The new pages, linked in that order, are a list.
LEMMA ChainNew ==
  ASSUME NEW next \in [Pages -> Pointer], NEW m \in Nat, NEW n \in Nat \ {0},
         MaxPages \in Nat, m + n <= MaxPages,
         NEW new, new = Linked(next, NewList(m, n))
  PROVE  /\ new \in [Pages -> Pointer]
         /\ \A p \in Pages \ (m + 1 .. m + n) : new[p] = next[p]
         /\ IsChain(new, m + 1 .. m + n, m + n)
<1> DEFINE s == NewList(m, n)
<1>1. /\ s \in Seq(m + 1 .. m + n) /\ Len(s) = n /\ ToSet(s) = m + 1 .. m + n
      /\ IsInjective(s) /\ Head(s) = m + n
  BY NewListElements
<1>2. m + 1 .. m + n \subseteq Pages
  BY DEF Pages
<1> HIDE DEF s
<1>3. s \in Seq(Pages) /\ s # <<>>
  BY <1>1, <1>2
<1>4. new = Linked(next, s)
  BY DEF s
<1>5. new \in [Pages -> Pointer]
  BY <1>3, <1>4, LinkedType
<1>6. (\A p \in Pages \ ToSet(s) : new[p] = next[p]) /\ IsChain(new, ToSet(s), Head(s))
  BY <1>1, <1>3, <1>4, ChainLinked
<1> QED
  BY <1>1, <1>5, <1>6
=============================================================================
