--------------------------- MODULE InductionLemmas --------------------------
(***************************************************************************)
(* Induction over data, in the form the provers can use.  The induction     *)
(* theorems of the library take a predicate; the ones here take a set, which *)
(* a proof can name: to prove P(n) for all n, take {n \in Nat : P(n)}.  They *)
(* follow from the existence of minimal elements (WFMin), and give what the  *)
(* sums of the models are worth.                                            *)
(***************************************************************************)
EXTENDS SequencesExt, Filter, FiniteSetTheorems, WellFoundedInduction, TLAPS

\* A set that holds 0 and, with a number, its successor, holds all naturals.
LEMMA NatSetInduction ==
    ASSUME NEW T, 0 \in T, \A n \in Nat : n \in T => n + 1 \in T
    PROVE  \A n \in Nat : n \in T
<1> DEFINE Bad == {n \in Nat : n \notin T}
<1> SUFFICES ASSUME Bad # {}
             PROVE  FALSE
  OBVIOUS
<1>1. \E x \in Bad : \A y \in Bad : ~ (<<y, x>> \in OpToRel(<, Nat))
  BY NatLessThanWellFounded, WFMin
<1>2. PICK x \in Bad : \A y \in Bad : ~ (<<y, x>> \in OpToRel(<, Nat))
  BY <1>1
<1>3. \A y \in Bad : ~(y < x)
  BY <1>2 DEF OpToRel
<1>4. x # 0 /\ x \in Nat /\ x - 1 \in Nat
  OBVIOUS
<1> QED
  BY <1>3, <1>4

\* A collection of subsets of a finite set that holds a subset when it holds those with
\* one element less, holds them all.
LEMMA FiniteSetInduction ==
    ASSUME NEW S, IsFiniteSet(S), NEW T,
           \A A \in SUBSET S : (\A x \in A : A \ {x} \in T) => A \in T
    PROVE  \A A \in SUBSET S : A \in T
<1> DEFINE Sized == {n \in Nat : \A A \in SUBSET S : Cardinality(A) = n => A \in T}
<1>1. \A A \in SUBSET S : IsFiniteSet(A) /\ Cardinality(A) \in Nat
  BY FS_Subset, FS_CardinalityType
<1>2. 0 \in Sized
  BY <1>1, FS_EmptySet
<1>3. ASSUME NEW n \in Nat, n \in Sized
      PROVE  n + 1 \in Sized
  <2> SUFFICES ASSUME NEW A \in SUBSET S, Cardinality(A) = n + 1
               PROVE  A \in T
    OBVIOUS
  <2>1. ASSUME NEW x \in A
        PROVE  A \ {x} \in T
    <3>1. Cardinality(A \ {x}) = n
      BY <1>1, FS_RemoveElement
    <3> QED
      BY <1>3, <3>1
  <2> QED
    BY <2>1
<1>4. \A n \in Nat : n \in Sized
  <2> HIDE DEF Sized
  <2> QED
    BY <1>2, <1>3, NatSetInduction
<1> QED
  BY <1>1, <1>4
-----------------------------------------------------------------------------
(* g gives each subset of S the sum of the values that f has on it, in      *)
(* whichever order they are added.                                          *)
IsSum(g, f, S) ==
    /\ g \in [SUBSET S -> Nat]
    /\ g[{}] = 0
    /\ \A A \in SUBSET S : \A x \in A : g[A] = f[x] + g[A \ {x}]

\* What a finite set adds up to does not depend on the order.
LEMMA SumExists ==
    ASSUME NEW S, IsFiniteSet(S), NEW f \in [S -> Nat]
    PROVE  \E g : IsSum(g, f, S)
<1> DEFINE T == {A \in SUBSET S : \E g : IsSum(g, f, A)}
<1>1. ASSUME NEW A \in SUBSET S, \A x \in A : A \ {x} \in T
      PROVE  A \in T
  <2>1. CASE A = {}
    <3> DEFINE g == [B \in SUBSET A |-> 0]
    <3>1. IsSum(g, f, A)
      BY <2>1 DEF IsSum
    <3> QED
      BY <3>1
  <2>2. ASSUME NEW x \in A
        PROVE  A \in T
    <3>1. PICK h : IsSum(h, f, A \ {x})
      BY <1>1, <2>2
    <3> DEFINE g == [B \in SUBSET A |-> IF x \in B THEN f[x] + h[B \ {x}] ELSE h[B]]
    <3>2. /\ h \in [SUBSET (A \ {x}) -> Nat] /\ h[{}] = 0
          /\ \A B \in SUBSET (A \ {x}) : \A y \in B : h[B] = f[y] + h[B \ {y}]
      BY <3>1 DEF IsSum
    <3>3. \A y \in A : f[y] \in Nat
      OBVIOUS
    <3>4. \A B \in SUBSET A : /\ B \ {x} \in SUBSET (A \ {x})
                              /\ x \notin B => B \in SUBSET (A \ {x})
      OBVIOUS
    <3>5. g \in [SUBSET A -> Nat] /\ g[{}] = 0
      BY <3>2, <3>3, <3>4
    <3>6. ASSUME NEW B \in SUBSET A, NEW y \in B
          PROVE  g[B] = f[y] + g[B \ {y}]
      <4>0. B \ {y} \in SUBSET A
        OBVIOUS
      <4>1. CASE y = x
        BY <3>4, <4>0, <4>1
      <4>2. CASE y # x /\ x \in B
        <5>1. y \in B \ {x} /\ (B \ {x}) \ {y} = (B \ {y}) \ {x}
          BY <4>2
        <5>2. h[B \ {x}] = f[y] + h[(B \ {y}) \ {x}]
          <6>1. B \ {x} \in SUBSET (A \ {x})
            BY <3>4
          <6>2. h[B \ {x}] = f[y] + h[(B \ {x}) \ {y}]
            BY <3>2, <5>1, <6>1
          <6> QED
            BY <5>1, <6>2, Zenon
        <5>3. g[B] = f[x] + h[B \ {x}] /\ g[B \ {y}] = f[x] + h[(B \ {y}) \ {x}]
          BY <4>0, <4>2
        <5>4. h[(B \ {y}) \ {x}] \in Nat /\ f[x] \in Nat /\ f[y] \in Nat
          BY <3>2, <3>3, <3>4, <4>0
        <5> QED
          BY <5>2, <5>3, <5>4
      <4>3. CASE x \notin B
        BY <3>2, <3>4, <4>0, <4>3
      <4> QED
        BY <4>1, <4>2, <4>3
    <3>7. IsSum(g, f, A)
      BY <3>5, <3>6 DEF IsSum
    <3> QED
      BY <3>7
  <2> QED
    BY <2>1, <2>2
<1>2. S \in T
  <2> HIDE DEF T
  <2> QED
    BY <1>1, FiniteSetInduction
<1> QED
  BY <1>2

\* A set of which each element has one of its own in another set, of the same value, adds
\* up to no more than that set.
LEMMA SumInjection ==
    ASSUME NEW S, IsFiniteSet(S), NEW f \in [S -> Nat], NEW g, IsSum(g, f, S),
           NEW R, NEW k \in [R -> Nat], NEW h, IsSum(h, k, R),
           NEW m \in [S -> R], \A x, y \in S : m[x] = m[y] => x = y,
           \A x \in S : f[x] = k[m[x]]
    PROVE  g[S] <= h[R]
<1> DEFINE T == {A \in SUBSET S :
                    \A C \in SUBSET R : (\A x \in A : m[x] \in C) => g[A] <= h[C]}
<1>1. ASSUME NEW A \in SUBSET S, \A x \in A : A \ {x} \in T
      PROVE  A \in T
  <2> SUFFICES ASSUME NEW C \in SUBSET R, \A x \in A : m[x] \in C
               PROVE  g[A] <= h[C]
    OBVIOUS
  <2>1. g[A] \in Nat /\ h[C] \in Nat
    BY DEF IsSum
  <2>2. CASE A = {}
    BY <2>1, <2>2 DEF IsSum
  <2>3. ASSUME NEW x \in A
        PROVE  g[A] <= h[C]
    <3>1. C \ {m[x]} \in SUBSET R /\ A \ {x} \in SUBSET S
      OBVIOUS
    <3>2. \A y \in A \ {x} : m[y] \in C \ {m[x]}
      OBVIOUS
    <3>3. g[A \ {x}] <= h[C \ {m[x]}]
      BY <1>1, <3>1, <3>2
    <3>4. g[A] = f[x] + g[A \ {x}] /\ h[C] = f[x] + h[C \ {m[x]}]
      BY DEF IsSum
    <3>5. g[A \ {x}] \in Nat /\ h[C \ {m[x]}] \in Nat /\ f[x] \in Nat
      BY <3>1 DEF IsSum
    <3> QED
      BY <3>3, <3>4, <3>5
  <2> QED
    BY <2>2, <2>3
<1>2. S \in T
  <2> HIDE DEF T
  <2> QED
    BY <1>1, FiniteSetInduction
<1> QED
  BY <1>2

(* h adds the elements of each subset of S up one by one, in some order.     *)
AddsUp(h, f, S) ==
    /\ h[{}] = 0
    /\ \A A \in SUBSET S : A # {} => \E x \in A : h[A] = f[x] + h[A \ {x}]

\* Any order gives that sum.
LEMMA SumInSomeOrder ==
    ASSUME NEW S, IsFiniteSet(S), NEW f \in [S -> Nat], NEW g, IsSum(g, f, S),
           NEW h, AddsUp(h, f, S)
    PROVE  h[S] = g[S]
<1> DEFINE T == {A \in SUBSET S : h[A] = g[A]}
<1>1. ASSUME NEW A \in SUBSET S, \A x \in A : A \ {x} \in T
      PROVE  A \in T
  <2>1. CASE A = {}
    BY <2>1 DEF IsSum, AddsUp
  <2>2. CASE A # {}
    <3>1. PICK c \in A : h[A] = f[c] + h[A \ {c}]
      BY <2>2 DEF AddsUp
    <3>2. h[A \ {c}] = g[A \ {c}]
      BY <1>1
    <3>3. g[A] = f[c] + g[A \ {c}]
      BY DEF IsSum
    <3> QED
      BY <3>1, <3>2, <3>3
  <2> QED
    BY <2>1, <2>2
<1>2. \A A \in SUBSET S : A \in T
  <2> HIDE DEF T
  <2> QED
    BY <1>1, FiniteSetInduction, Zenon
<1> QED
  BY <1>2
-----------------------------------------------------------------------------
(* Sequences, and what a filter keeps of them.                              *)

(* Append adds one element.                                                 *)
LEMMA AppendElements ==
    ASSUME NEW S, NEW s \in Seq(S), NEW x \in S
    PROVE  /\ Append(s, x) \in Seq(S)
           /\ Append(s, x) # <<>>
           /\ ToSet(Append(s, x)) = ToSet(s) \cup {x}
           /\ IsInjective(s) /\ x \notin ToSet(s) => IsInjective(Append(s, x))
<1> DEFINE t == Append(s, x)
<1>1. /\ t \in Seq(S) /\ Len(t) = Len(s) + 1 /\ Len(s) \in Nat
      /\ DOMAIN s = 1 .. Len(s) /\ DOMAIN t = 1 .. Len(s) + 1
      /\ t[Len(s) + 1] = x /\ \A i \in 1 .. Len(s) : t[i] = s[i]
  OBVIOUS
<1>2. t # <<>>
  BY <1>1
<1> HIDE DEF t
<1>3. ToSet(t) = ToSet(s) \cup {x}
  BY <1>1 DEF ToSet
<1>4. ASSUME IsInjective(s), x \notin ToSet(s)
      PROVE  IsInjective(t)
  BY <1>1, <1>4 DEF ToSet, IsInjective
<1> QED
  BY <1>1, <1>2, <1>3, <1>4 DEF t

\* The empty sequence has no elements.
LEMMA EmptySequence ==
    ToSet(<<>>) = {} /\ IsInjective(<<>>)
  BY DEF ToSet, IsInjective

(* What the recursion of Kept says of a function.                           *)
Filters(kept, seq, S, n) ==
    /\ kept = [i \in 0 .. n |-> kept[i]]
    /\ kept[0] = <<>>
    /\ \A i \in 1 .. n :
          kept[i] = IF seq[i] \in S THEN Append(kept[i - 1], seq[i]) ELSE kept[i - 1]

(* There is such a function: the recursion defines something.               *)
LEMMA FilterExists ==
    ASSUME NEW seq, NEW S
    PROVE  \A n \in Nat : \E kept : Filters(kept, seq, S, n)
<1> DEFINE T == {n \in Nat : \E kept : Filters(kept, seq, S, n)}
<1>1. 0 \in T
  <2> DEFINE kept == [i \in 0 .. 0 |-> <<>>]
  <2>1. Filters(kept, seq, S, 0)
    BY DEF Filters
  <2> QED
    BY <2>1
<1>2. ASSUME NEW n \in Nat, n \in T
      PROVE  n + 1 \in T
  <2>1. PICK k : Filters(k, seq, S, n)
    BY <1>2
  <2> DEFINE kept == [i \in 0 .. n + 1 |->
                         IF i # n + 1 THEN k[i]
                         ELSE IF seq[n + 1] \in S THEN Append(k[n], seq[n + 1]) ELSE k[n]]
  <2>2. kept = [i \in 0 .. n + 1 |-> kept[i]]
    OBVIOUS
  <2>3. /\ \A i \in 0 .. n : kept[i] = k[i]
        /\ kept[n + 1] = IF seq[n + 1] \in S THEN Append(k[n], seq[n + 1]) ELSE k[n]
    OBVIOUS
  <2> HIDE DEF kept
  <2>4. kept[0] = <<>> /\ k[n] = kept[n]
    BY <2>1, <2>3 DEF Filters
  <2>5. ASSUME NEW i \in 1 .. n + 1
        PROVE  kept[i] = IF seq[i] \in S THEN Append(kept[i - 1], seq[i]) ELSE kept[i - 1]
    <3>1. CASE i = n + 1
      <4>1. i - 1 = n
        BY <3>1
      <4> QED
        BY <2>3, <2>4, <3>1, <4>1
    <3>2. CASE i \in 1 .. n
      <4>1. k[i] = IF seq[i] \in S THEN Append(k[i - 1], seq[i]) ELSE k[i - 1]
        BY <2>1, <3>2 DEF Filters
      <4>2. kept[i] = k[i] /\ kept[i - 1] = k[i - 1]
        BY <2>3, <3>2
      <4> QED
        BY <4>1, <4>2
    <3> QED
      BY <3>1, <3>2
  <2>6. Filters(kept, seq, S, n + 1)
    BY <2>2, <2>4, <2>5 DEF Filters
  <2> QED
    BY <2>6
<1>3. \A n \in Nat : n \in T
  <2> HIDE DEF T
  <2> QED
    BY <1>1, <1>2, NatSetInduction
<1> QED
  BY <1>3

(* Kept is the last value of such a function.                               *)
LEMMA KeptFilters ==
    ASSUME NEW X, NEW seq \in Seq(X), NEW S
    PROVE  \E kept : Filters(kept, seq, S, Len(seq)) /\ Kept(seq, S) = kept[Len(seq)]
<1> DEFINE Fun(k) == [i \in 0 .. Len(seq) |->
                        IF i = 0 THEN <<>>
                        ELSE IF seq[i] \in S THEN Append(k[i - 1], seq[i]) ELSE k[i - 1]]
           chosen == CHOOSE k : k = Fun(k)
<1>1. Len(seq) \in Nat
  OBVIOUS
<1>2. PICK k : Filters(k, seq, S, Len(seq))
  BY <1>1, FilterExists
<1>3. k = Fun(k)
  <2>1. ASSUME NEW i \in 0 .. Len(seq)
        PROVE  k[i] = Fun(k)[i]
    <3>1. i = 0 => k[i] = <<>>
      BY <1>2 DEF Filters
    <3>2. i # 0 => i \in 1 .. Len(seq)
      BY <1>1
    <3>3. i # 0 => k[i] = IF seq[i] \in S THEN Append(k[i - 1], seq[i]) ELSE k[i - 1]
      BY <1>2, <3>2 DEF Filters
    <3> QED
      BY <3>1, <3>3
  <2>2. k = [i \in 0 .. Len(seq) |-> k[i]] /\ Fun(k) = [i \in 0 .. Len(seq) |-> Fun(k)[i]]
    BY <1>2 DEF Filters
  <2> HIDE DEF Fun
  <2> QED
    BY <2>1, <2>2
<1>4. chosen = Fun(chosen)
  <2> HIDE DEF Fun
  <2> QED
    BY <1>3
<1>5. Kept(seq, S) = chosen[Len(seq)]
  BY DEF Kept
<1> HIDE DEF chosen
<1>6. Filters(chosen, seq, S, Len(seq))
  <2>1. chosen = [i \in 0 .. Len(seq) |-> chosen[i]]
    BY <1>4
  <2>2. ASSUME NEW i \in 0 .. Len(seq)
        PROVE  chosen[i] = Fun(chosen)[i]
    <3> HIDE DEF Fun
    <3> QED
      BY <1>4
  <2>3. 0 \in 0 .. Len(seq) /\ \A i \in 1 .. Len(seq) : i \in 0 .. Len(seq) /\ i # 0
    BY <1>1
  <2>4. chosen[0] = <<>>
    BY <2>2, <2>3
  <2>5. ASSUME NEW i \in 1 .. Len(seq)
        PROVE  chosen[i] = IF seq[i] \in S THEN Append(chosen[i - 1], seq[i])
                           ELSE chosen[i - 1]
    <3>1. chosen[i] = Fun(chosen)[i]
      BY <2>2, <2>3
    <3> QED
      BY <2>3, <3>1
  <2> QED
    BY <2>1, <2>4, <2>5 DEF Filters
<1> QED
  BY <1>5, <1>6

(* What is kept are the elements of the set, each as often as it was there. *)
LEMMA KeptAre ==
    ASSUME NEW X, NEW seq \in Seq(X), NEW S
    PROVE  /\ Kept(seq, S) \in Seq(X)
           /\ ToSet(Kept(seq, S)) = ToSet(seq) \cap S
           /\ IsInjective(seq) => IsInjective(Kept(seq, S))
<1>1. Len(seq) \in Nat /\ DOMAIN seq = 1 .. Len(seq) /\ \A i \in 1 .. Len(seq) : seq[i] \in X
  OBVIOUS
<1>2. PICK kept : Filters(kept, seq, S, Len(seq)) /\ Kept(seq, S) = kept[Len(seq)]
  BY KeptFilters
<1> DEFINE Before(n) == {seq[i] : i \in 1 .. n}
           T == {n \in Nat : n <= Len(seq) =>
                    /\ kept[n] \in Seq(X)
                    /\ ToSet(kept[n]) = Before(n) \cap S
                    /\ IsInjective(seq) => IsInjective(kept[n])}
<1>3. 0 \in T
  <2>1. kept[0] = <<>> /\ <<>> \in Seq(X)
    BY <1>2 DEF Filters
  <2>2. Before(0) = {}
    OBVIOUS
  <2> HIDE DEF Before
  <2> QED
    BY <2>1, <2>2, EmptySequence
<1>4. ASSUME NEW n \in Nat, n \in T
      PROVE  n + 1 \in T
  <2> SUFFICES ASSUME n + 1 <= Len(seq)
               PROVE  /\ kept[n + 1] \in Seq(X)
                      /\ ToSet(kept[n + 1]) = Before(n + 1) \cap S
                      /\ IsInjective(seq) => IsInjective(kept[n + 1])
    OBVIOUS
  <2>1. /\ n + 1 \in 1 .. Len(seq) /\ seq[n + 1] \in X /\ n <= Len(seq)
        /\ (n + 1) - 1 = n /\ Before(n + 1) = Before(n) \cup {seq[n + 1]}
    BY <1>1
  <2>2. /\ kept[n] \in Seq(X) /\ ToSet(kept[n]) = Before(n) \cap S
        /\ IsInjective(seq) => IsInjective(kept[n])
    BY <1>4, <2>1
  <2>3. kept[n + 1] = IF seq[n + 1] \in S THEN Append(kept[n], seq[n + 1]) ELSE kept[n]
    BY <1>2, <2>1 DEF Filters
  <2>4. IsInjective(seq) => seq[n + 1] \notin Before(n)
    BY <1>1, <2>1 DEF IsInjective
  <2> HIDE DEF Before
  <2>5. CASE seq[n + 1] \notin S
    BY <2>1, <2>2, <2>3, <2>5
  <2>6. CASE seq[n + 1] \in S
    <3>1. /\ kept[n + 1] = Append(kept[n], seq[n + 1])
          /\ kept[n + 1] \in Seq(X)
          /\ ToSet(kept[n + 1]) = ToSet(kept[n]) \cup {seq[n + 1]}
          /\ IsInjective(kept[n]) /\ seq[n + 1] \notin ToSet(kept[n])
                => IsInjective(kept[n + 1])
      BY <2>1, <2>2, <2>3, <2>6, AppendElements
    <3> QED
      BY <2>1, <2>2, <2>4, <2>6, <3>1
  <2> QED
    BY <2>5, <2>6
<1>5. Len(seq) \in T
  <2> HIDE DEF T
  <2> QED
    BY <1>1, <1>3, <1>4, NatSetInduction
<1>6. Before(Len(seq)) = ToSet(seq)
  BY <1>1 DEF ToSet
<1> QED
  BY <1>1, <1>2, <1>5, <1>6

(* Each element that is kept has a place in the list, in the same order.    *)
Places(m, out, seq) ==
    /\ m \in [1 .. Len(out) -> 1 .. Len(seq)]
    /\ \A k \in 1 .. Len(out) : out[k] = seq[m[k]]
    /\ \A k, l \in 1 .. Len(out) : k < l => m[k] < m[l]

\* A filter reorders and repeats nothing.
LEMMA KeptPlaces ==
    ASSUME NEW X, NEW seq \in Seq(X), NEW S
    PROVE  \E m : Places(m, Kept(seq, S), seq)
<1>1. Len(seq) \in Nat /\ \A i \in 1 .. Len(seq) : seq[i] \in X
  OBVIOUS
<1>2. PICK kept : Filters(kept, seq, S, Len(seq)) /\ Kept(seq, S) = kept[Len(seq)]
  BY KeptFilters
<1> DEFINE Below(m, n) == \A k \in 1 .. Len(kept[n]) : m[k] <= n
           T == {n \in Nat : n <= Len(seq) =>
                    /\ kept[n] \in Seq(X)
                    /\ \E m : Places(m, kept[n], seq) /\ Below(m, n)}
<1>3. 0 \in T
  <2>1. kept[0] = <<>> /\ <<>> \in Seq(X) /\ 1 .. Len(<<>>) = {}
    BY <1>2 DEF Filters
  <2> DEFINE m == [k \in {} |-> 0]
  <2>2. Places(m, kept[0], seq) /\ Below(m, 0)
    BY <2>1 DEF Places
  <2> QED
    BY <2>1, <2>2
<1>4. ASSUME NEW n \in Nat, n \in T
      PROVE  n + 1 \in T
  <2> SUFFICES ASSUME n + 1 <= Len(seq)
               PROVE  /\ kept[n + 1] \in Seq(X)
                      /\ \E m : Places(m, kept[n + 1], seq) /\ Below(m, n + 1)
    OBVIOUS
  <2>1. n + 1 \in 1 .. Len(seq) /\ n <= Len(seq) /\ seq[n + 1] \in X
    BY <1>1
  <2>2. kept[n] \in Seq(X)
    BY <1>4, <2>1
  <2>3. PICK m : Places(m, kept[n], seq) /\ Below(m, n)
    BY <1>4, <2>1
  <2>4. kept[n + 1] = IF seq[n + 1] \in S THEN Append(kept[n], seq[n + 1]) ELSE kept[n]
    BY <1>2, <2>1 DEF Filters
  <2>5. CASE seq[n + 1] \notin S
    <3>1. kept[n + 1] = kept[n]
      BY <2>4, <2>5
    <3>2. Below(m, n + 1)
      BY <2>3, <3>1, <1>1 DEF Places
    <3> QED
      BY <2>2, <2>3, <3>1, <3>2
  <2>6. CASE seq[n + 1] \in S
    <3> DEFINE z == Len(kept[n])
               p == [k \in 1 .. z + 1 |-> IF k = z + 1 THEN n + 1 ELSE m[k]]
    <3>1. /\ z \in Nat /\ kept[n + 1] \in Seq(X) /\ Len(kept[n + 1]) = z + 1
          /\ kept[n + 1][z + 1] = seq[n + 1]
          /\ \A k \in 1 .. z : kept[n + 1][k] = kept[n][k]
      BY <2>1, <2>2, <2>4, <2>6
    <3>2. /\ \A k \in 1 .. z : m[k] \in 1 .. Len(seq) /\ m[k] <= n /\ kept[n][k] = seq[m[k]]
          /\ \A k, l \in 1 .. z : k < l => m[k] < m[l]
      BY <2>3 DEF Places
    <3> HIDE DEF z
    <3>3. p[z + 1] = n + 1 /\ \A k \in 1 .. z : k \in 1 .. z + 1 /\ p[k] = m[k]
      BY <3>1
    <3>4. \A k \in 1 .. z + 1 : k = z + 1 \/ k \in 1 .. z
      BY <3>1
    <3>5. p \in [1 .. z + 1 -> 1 .. Len(seq)]
      BY <2>1, <3>2, <3>4
    <3> HIDE DEF p
    <3>6. Below(p, n + 1)
      BY <1>1, <3>1, <3>2, <3>3, <3>4
    <3>7. \A k \in 1 .. z + 1 : kept[n + 1][k] = seq[p[k]]
      BY <3>1, <3>2, <3>3, <3>4
    <3>8. ASSUME NEW k \in 1 .. z + 1, NEW l \in 1 .. z + 1, k < l
          PROVE  p[k] < p[l]
      <4>1. k \in 1 .. z
        BY <3>1, <3>8
      <4>2. CASE l = z + 1
        BY <1>1, <3>2, <3>3, <4>1, <4>2
      <4>3. CASE l \in 1 .. z
        BY <3>2, <3>3, <3>8, <4>1, <4>3
      <4> QED
        BY <3>4, <4>2, <4>3
    <3>9. Places(p, kept[n + 1], seq)
      BY <3>1, <3>5, <3>7, <3>8 DEF Places
    <3> QED
      BY <3>1, <3>6, <3>9
  <2> QED
    BY <2>5, <2>6
<1>5. Len(seq) \in T
  <2> HIDE DEF T
  <2> QED
    BY <1>1, <1>3, <1>4, NatSetInduction
<1> QED
  BY <1>1, <1>2, <1>5

\* The beginning of a list of which the filter takes nothing stays where it is.
LEMMA KeptPrefix ==
    ASSUME NEW X, NEW seq \in Seq(X), NEW S, NEW m \in 0 .. Len(seq),
           \A i \in 1 .. m : seq[i] \in S
    PROVE  m <= Len(Kept(seq, S)) /\ \A i \in 1 .. m : Kept(seq, S)[i] = seq[i]
<1>1. Len(seq) \in Nat /\ \A i \in 1 .. Len(seq) : seq[i] \in X
  OBVIOUS
<1>2. PICK kept : Filters(kept, seq, S, Len(seq)) /\ Kept(seq, S) = kept[Len(seq)]
  BY KeptFilters
<1> DEFINE P(n) == /\ kept[n] \in Seq(X)
                   /\ n <= m => Len(kept[n]) = n
                   /\ n >= m => Len(kept[n]) >= m
                   /\ \A i \in 1 .. n : i <= m => kept[n][i] = seq[i]
           T == {n \in Nat : n <= Len(seq) => P(n)}
<1>3. 0 \in T
  <2>1. kept[0] = <<>> /\ <<>> \in Seq(X) /\ Len(<<>>) = 0 /\ m \in Nat
    BY <1>1, <1>2 DEF Filters
  <2>2. P(0)
    BY <2>1
  <2> QED
    BY <2>2
<1>4. ASSUME NEW n \in Nat, n \in T
      PROVE  n + 1 \in T
  <2> SUFFICES ASSUME n + 1 <= Len(seq)
               PROVE  P(n + 1)
    OBVIOUS
  <2>1. n + 1 \in 1 .. Len(seq) /\ n <= Len(seq) /\ seq[n + 1] \in X /\ (n + 1) - 1 = n
    BY <1>1
  <2>2. /\ kept[n] \in Seq(X)
        /\ n <= m => Len(kept[n]) = n
        /\ n >= m => Len(kept[n]) >= m
        /\ \A i \in 1 .. n : i <= m => kept[n][i] = seq[i]
    <3>1. P(n)
      <4> HIDE DEF P
      <4> QED
        BY <1>4, <2>1
    <3> QED
      BY <3>1
  <2>3. kept[n + 1] = IF seq[n + 1] \in S THEN Append(kept[n], seq[n + 1]) ELSE kept[n]
    <3>1. kept[n + 1] = IF seq[n + 1] \in S THEN Append(kept[(n + 1) - 1], seq[n + 1])
                        ELSE kept[(n + 1) - 1]
      BY <1>2, <2>1, Zenon DEF Filters
    <3> QED
      BY <2>1, <3>1
  <2> DEFINE z == Len(kept[n])
  <2>4. z \in Nat
    BY <2>2
  <2>5. CASE seq[n + 1] \in S
    <3>1. /\ kept[n + 1] \in Seq(X) /\ Len(kept[n + 1]) = z + 1
          /\ kept[n + 1][z + 1] = seq[n + 1]
          /\ \A k \in 1 .. z : kept[n + 1][k] = kept[n][k]
      BY <2>1, <2>2, <2>3, <2>5
    <3> HIDE DEF z
    <3>2. CASE n + 1 <= m
      <4>1. z = n
        BY <2>2, <3>2 DEF z
      <4>2. ASSUME NEW i \in 1 .. n + 1
            PROVE  kept[n + 1][i] = seq[i]
        <5>1. CASE i = n + 1
          BY <3>1, <4>1, <5>1
        <5>2. CASE i \in 1 .. n
          BY <2>2, <3>1, <3>2, <4>1, <5>2
        <5> QED
          BY <5>1, <5>2
      <4> QED
        BY <1>1, <3>1, <3>2, <4>1, <4>2
    <3>3. CASE n + 1 > m
      <4>1. z >= m
        BY <2>2, <3>3, <1>1 DEF z
      <4>2. ASSUME NEW i \in 1 .. n + 1, i <= m
            PROVE  kept[n + 1][i] = seq[i]
        <5>1. i \in 1 .. n /\ i \in 1 .. z
          BY <2>4, <3>3, <4>1, <4>2
        <5> QED
          BY <2>2, <3>1, <4>2, <5>1
      <4> QED
        BY <2>4, <3>1, <3>3, <4>1, <4>2
    <3> QED
      BY <1>1, <3>2, <3>3
  <2>6. CASE seq[n + 1] \notin S
    <3>1. kept[n + 1] = kept[n]
      BY <2>3, <2>6
    <3>2. ~(n + 1 <= m)
      BY <2>1, <2>6
    <3>3. n >= m
      BY <1>1, <3>2
    <3>4. \A i \in 1 .. n + 1 : i <= m => i \in 1 .. n
      BY <1>1, <3>2
    <3> QED
      BY <2>2, <3>1, <3>2, <3>3, <3>4
  <2> QED
    BY <2>5, <2>6
<1>5. Len(seq) \in T
  <2> HIDE DEF T
  <2> QED
    BY <1>1, <1>3, <1>4, NatSetInduction
<1> QED
  BY <1>1, <1>2, <1>5

\* Only what a set says of the elements of the list matters.
LEMMA KeptSame ==
    ASSUME NEW X, NEW seq \in Seq(X), NEW A, NEW B,
           \A i \in 1 .. Len(seq) : seq[i] \in A <=> seq[i] \in B
    PROVE  Kept(seq, A) = Kept(seq, B)
<1>1. Len(seq) \in Nat
  OBVIOUS
<1>2. PICK a : Filters(a, seq, A, Len(seq)) /\ Kept(seq, A) = a[Len(seq)]
  BY KeptFilters
<1>3. PICK b : Filters(b, seq, B, Len(seq)) /\ Kept(seq, B) = b[Len(seq)]
  BY KeptFilters
<1> DEFINE T == {n \in Nat : n <= Len(seq) => a[n] = b[n]}
<1>4. 0 \in T
  BY <1>2, <1>3 DEF Filters
<1>5. ASSUME NEW n \in Nat, n \in T
      PROVE  n + 1 \in T
  <2> SUFFICES ASSUME n + 1 <= Len(seq)
               PROVE  a[n + 1] = b[n + 1]
    OBVIOUS
  <2>1. n + 1 \in 1 .. Len(seq) /\ n <= Len(seq) /\ (n + 1) - 1 = n
    BY <1>1
  <2>2. /\ a[n + 1] = IF seq[n + 1] \in A THEN Append(a[n], seq[n + 1]) ELSE a[n]
        /\ b[n + 1] = IF seq[n + 1] \in B THEN Append(b[n], seq[n + 1]) ELSE b[n]
    BY <1>2, <1>3, <2>1 DEF Filters
  <2> QED
    BY <1>5, <2>1, <2>2
<1>6. Len(seq) \in T
  <2> HIDE DEF T
  <2> QED
    BY <1>1, <1>4, <1>5, NatSetInduction
<1> QED
  BY <1>1, <1>2, <1>3, <1>6
-----------------------------------------------------------------------------
(* A set that holds the empty list and, with a list, the longer ones that   *)
(* have one more element at their end, holds all lists.                     *)
LEMMA SeqSetInduction ==
    ASSUME NEW X, NEW T, <<>> \in T,
           \A s \in Seq(X), e \in X : s \in T => Append(s, e) \in T
    PROVE  \A s \in Seq(X) : s \in T
<1> DEFINE Lengths == {n \in Nat : \A s \in Seq(X) : Len(s) = n => s \in T}
<1>1. 0 \in Lengths
  <2>1. \A s \in Seq(X) : Len(s) = 0 => s = <<>>
    OBVIOUS
  <2> QED
    BY <2>1
<1>2. ASSUME NEW n \in Nat, n \in Lengths
      PROVE  n + 1 \in Lengths
  <2> SUFFICES ASSUME NEW s \in Seq(X), Len(s) = n + 1
               PROVE  s \in T
    OBVIOUS
  <2> DEFINE t == [i \in 1 .. n |-> s[i]]
  <2>1. t \in Seq(X) /\ Len(t) = n /\ s[n + 1] \in X
    OBVIOUS
  <2>2. s = Append(t, s[n + 1])
    <3>1. /\ Append(t, s[n + 1]) \in Seq(X) /\ Len(Append(t, s[n + 1])) = n + 1
          /\ Append(t, s[n + 1])[n + 1] = s[n + 1]
          /\ \A i \in 1 .. n : Append(t, s[n + 1])[i] = t[i]
      BY <2>1
    <3>2. \A i \in 1 .. n : t[i] = s[i]
      OBVIOUS
    <3> HIDE DEF t
    <3>3. \A i \in 1 .. n + 1 : Append(t, s[n + 1])[i] = s[i]
      <4>1. \A i \in 1 .. n + 1 : i = n + 1 \/ i \in 1 .. n
        OBVIOUS
      <4> QED
        BY <3>1, <3>2, <4>1
    <3> QED
      BY <3>1, <3>3
  <2> HIDE DEF t
  <2>3. t \in T
    BY <1>2, <2>1
  <2> QED
    BY <2>1, <2>2, <2>3
<1>3. \A n \in Nat : n \in Lengths
  <2> HIDE DEF Lengths
  <2> QED
    BY <1>1, <1>2, NatSetInduction
<1>4. \A s \in Seq(X) : Len(s) \in Nat
  OBVIOUS
<1> QED
  BY <1>3, <1>4

(* Of an empty list nothing is kept.                                        *)
LEMMA KeptEmpty ==
    ASSUME NEW S
    PROVE  Kept(<<>>, S) = <<>>
<1>1. <<>> \in Seq({}) /\ Len(<<>>) = 0
  OBVIOUS
<1>2. PICK kept : Filters(kept, <<>>, S, Len(<<>>)) /\ Kept(<<>>, S) = kept[Len(<<>>)]
  BY <1>1, KeptFilters
<1> QED
  BY <1>1, <1>2 DEF Filters

(* What is kept of a list with one more element.                            *)
LEMMA KeptAppend ==
    ASSUME NEW X, NEW s \in Seq(X), NEW e \in X, NEW S
    PROVE  Kept(Append(s, e), S) = IF e \in S THEN Append(Kept(s, S), e) ELSE Kept(s, S)
<1> DEFINE t == Append(s, e)
           n == Len(s)
<1>1. /\ t \in Seq(X) /\ n \in Nat /\ Len(t) = n + 1 /\ t[n + 1] = e /\ (n + 1) - 1 = n
      /\ \A i \in 1 .. n : t[i] = s[i]
  OBVIOUS
<1>2. PICK a : Filters(a, s, S, n) /\ Kept(s, S) = a[n]
  BY KeptFilters
<1> HIDE DEF t, n
<1>3. PICK b : Filters(b, t, S, n + 1) /\ Kept(t, S) = b[n + 1]
  BY <1>1, KeptFilters
<1> DEFINE T == {k \in Nat : k <= n => a[k] = b[k]}
<1>4. 0 \in T
  BY <1>2, <1>3 DEF Filters
<1>5. ASSUME NEW k \in Nat, k \in T
      PROVE  k + 1 \in T
  <2> SUFFICES ASSUME k + 1 <= n
               PROVE  a[k + 1] = b[k + 1]
    OBVIOUS
  <2>1. /\ k + 1 \in 1 .. n /\ k + 1 \in 1 .. n + 1 /\ k <= n /\ (k + 1) - 1 = k
        /\ t[k + 1] = s[k + 1]
    BY <1>1
  <2>2. a[k + 1] = IF s[k + 1] \in S THEN Append(a[k], s[k + 1]) ELSE a[k]
    BY <1>2, <2>1 DEF Filters
  <2>3. b[k + 1] = IF t[k + 1] \in S THEN Append(b[k], t[k + 1]) ELSE b[k]
    BY <1>3, <2>1 DEF Filters
  <2> QED
    BY <1>5, <2>1, <2>2, <2>3
<1>6. n \in T
  <2> HIDE DEF T
  <2> QED
    BY <1>1, <1>4, <1>5, NatSetInduction
<1>7. a[n] = b[n] /\ n + 1 \in 1 .. n + 1
  BY <1>1, <1>6
<1>8. b[n + 1] = IF t[n + 1] \in S THEN Append(b[(n + 1) - 1], t[n + 1]) ELSE b[(n + 1) - 1]
  BY <1>3, <1>7 DEF Filters
<1> QED
  BY <1>1, <1>2, <1>3, <1>7, <1>8 DEF t

(* A list that is filtered twice keeps what both filters keep.              *)
LEMMA KeptTwice ==
    ASSUME NEW X, NEW seq \in Seq(X), NEW A, NEW B
    PROVE  Kept(Kept(seq, A), B) = Kept(seq, A \cap B)
<1> DEFINE T == {s \in Seq(X) : Kept(Kept(s, A), B) = Kept(s, A \cap B)}
<1>1. <<>> \in T
  <2>1. <<>> \in Seq(X)
    OBVIOUS
  <2> QED
    BY <2>1, KeptEmpty
<1>2. ASSUME NEW s \in Seq(X), NEW e \in X, s \in T
      PROVE  Append(s, e) \in T
  <2>1. Append(s, e) \in Seq(X) /\ Kept(s, A) \in Seq(X)
    BY KeptAre
  <2>2. Kept(Append(s, e), A) = IF e \in A THEN Append(Kept(s, A), e) ELSE Kept(s, A)
    BY KeptAppend
  <2>3. Kept(Append(s, e), A \cap B)
            = IF e \in A \cap B THEN Append(Kept(s, A \cap B), e) ELSE Kept(s, A \cap B)
    BY KeptAppend
  <2>4. Kept(Append(Kept(s, A), e), B)
            = IF e \in B THEN Append(Kept(Kept(s, A), B), e) ELSE Kept(Kept(s, A), B)
    BY <2>1, KeptAppend
  <2>5. Kept(Kept(s, A), B) = Kept(s, A \cap B)
    BY <1>2
  <2>6. Kept(Kept(Append(s, e), A), B) = Kept(Append(s, e), A \cap B)
    <3>1. CASE e \in A
      <4>1. Kept(Append(s, e), A) = Append(Kept(s, A), e) /\ (e \in A \cap B <=> e \in B)
        BY <2>2, <3>1
      <4>2. CASE e \in B
        BY <2>3, <2>4, <2>5, <4>1, <4>2, Zenon
      <4>3. CASE e \notin B
        BY <2>3, <2>4, <2>5, <4>1, <4>3, Zenon
      <4> QED
        BY <4>2, <4>3
    <3>2. CASE e \notin A
      BY <2>2, <2>3, <2>5, <3>2
    <3> QED
      BY <3>1, <3>2
  <2> QED
    BY <2>1, <2>6
<1>3. \A s \in Seq(X) : s \in T
  <2> HIDE DEF T
  <2> QED
    BY <1>1, <1>2, SeqSetInduction
<1> QED
  BY <1>3
=============================================================================
