------------------------------ MODULE DataFacts ------------------------------
(***************************************************************************)
(* Facts about sums (SumFunctionOnSet and SumFunction of the community     *)
(* modules) and selections (Members), which the models are built from and  *)
(* the proofs about them need.  Both are recursive: a sum over the subsets *)
(* of its domain, a selection over the prefixes of a sequence.  The facts  *)
(* are proved by induction, stated with a set in place of a predicate.     *)
(* And about the list of the vacant slots of a slab.                       *)
(***************************************************************************)
EXTENDS Integers, Sequences, FiniteSets, Functions, Selection, FiniteSetTheorems,
        SequenceTheorems, WellFoundedInduction, TLAPS

\* Induction over the natural numbers: a set with 0 and the successors of its
\* members has all of them.
LEMMA Induction ==
  ASSUME NEW S, 0 \in S, \A n \in Nat : n \in S => n + 1 \in S
  PROVE  Nat \subseteq S
<1>1. SUFFICES ASSUME Nat \ S # {} PROVE FALSE
  OBVIOUS
<1> DEFINE R == {ss \in Nat \X Nat : ss[1] < ss[2]}
           T == Nat \ S
<1>2. IsWellFoundedOn(R, Nat)
  BY NatLessThanWellFounded DEF OpToRel
<1>3. PICK n \in T : \A k \in T : ~(<<k, n>> \in R)
  <2>1. T \subseteq Nat /\ T # {}
    BY <1>1
  <2> HIDE DEF R, T
  <2> QED BY <1>2, <2>1, WFMin
<1>4. n \in Nat /\ n # 0 /\ n - 1 \in Nat /\ n - 1 + 1 = n
  BY <1>3
<1>5. <<n - 1, n>> \in R
  BY <1>4
<1>6. n - 1 \in S
  <2> HIDE DEF R
  <2> QED BY <1>3, <1>4, <1>5
<1> QED BY <1>3, <1>4, <1>6

\* Every nonempty set of natural numbers has a least one.
LEMMA LeastOf ==
  ASSUME NEW S \in SUBSET Nat, S # {}
  PROVE  \E x \in S : \A y \in S : x <= y
<1> DEFINE T == {n \in Nat : \A y \in S : n <= y}
<1>1. SUFFICES ASSUME \A x \in S : x \notin T PROVE FALSE
  OBVIOUS
<1>2. 0 \in T
  OBVIOUS
<1>3. ASSUME NEW n \in Nat, n \in T PROVE n + 1 \in T
  <2>1. n \notin S
    BY <1>1, <1>3
  <2> QED BY <1>3, <2>1
<1>4. Nat \subseteq T
  <2> HIDE DEF T
  <2> QED BY <1>2, <1>3, Induction
<1>5. PICK y \in S : TRUE
  OBVIOUS
<1>6. y + 1 \in Nat
  OBVIOUS
<1> QED BY <1>4, <1>5, <1>6

\* Induction over the subsets of a finite set.
LEMMA SubsetInduction ==
  ASSUME NEW D, IsFiniteSet(D), NEW Good,
         {} \in Good,
         \A T \in SUBSET D : T # {} /\ (\A U \in SUBSET T : U # T => U \in Good) => T \in Good
  PROVE  SUBSET D \subseteq Good
<1> DEFINE S == {n \in Nat : \A T \in SUBSET D : Cardinality(T) <= n => T \in Good}
<1>1. \A T \in SUBSET D : IsFiniteSet(T) /\ Cardinality(T) \in Nat
  BY FS_Subset, FS_CardinalityType
<1>2. 0 \in S
  <2>1. \A T \in SUBSET D : Cardinality(T) <= 0 => T = {}
    BY <1>1, FS_EmptySet
  <2> QED BY <2>1
<1>3. ASSUME NEW n \in Nat, n \in S PROVE n + 1 \in S
  <2>1. ASSUME NEW T \in SUBSET D, Cardinality(T) <= n + 1, T # {}
        PROVE  T \in Good
    <3>1. \A U \in SUBSET T : U # T => U \in SUBSET D /\ Cardinality(U) < Cardinality(T)
      BY <1>1, FS_Subset
    <3>2. \A U \in SUBSET T : U # T => U \in Good
      BY <1>1, <1>3, <2>1, <3>1
    <3> QED BY <2>1, <3>2
  <2> QED BY <2>1
<1>4. Nat \subseteq S
  <2> HIDE DEF S
  <2> QED BY <1>2, <1>3, Induction
<1> QED BY <1>1, <1>4

\* Induction over sequences, from the empty one by appending elements.
LEMMA SeqInduction ==
  ASSUME NEW X, NEW Good, <<>> \in Good,
         \A seq \in Seq(X), e \in X : seq \in Good => Append(seq, e) \in Good
  PROVE  Seq(X) \subseteq Good
<1> DEFINE S == {n \in Nat : \A seq \in Seq(X) : Len(seq) = n => seq \in Good}
<1>1. 0 \in S
  BY EmptySeq
<1>2. ASSUME NEW n \in Nat, n \in S PROVE n + 1 \in S
  <2> SUFFICES ASSUME NEW longer \in Seq(X), Len(longer) = n + 1 PROVE longer \in Good
    OBVIOUS
  <2>1. PICK seq \in Seq(X), e \in X : longer = Append(seq, e)
    BY SequenceEmptyOrAppend, EmptySeq
  <2>2. Len(seq) = n
    BY <2>1, AppendProperties
  <2> QED BY <1>2, <2>1, <2>2
<1>3. Nat \subseteq S
  <2> HIDE DEF S
  <2> QED BY <1>1, <1>2, Induction
<1> QED BY <1>3, LenProperties

\* Induction up to a bound.
LEMMA InductionUpTo ==
  ASSUME NEW n \in Nat, NEW G, 0 \in G, \A i \in 1 .. n : i - 1 \in G => i \in G
  PROVE  \A i \in 0 .. n : i \in G
<1> DEFINE S == {i \in Nat : i <= n => i \in G}
<1>1. 0 \in S
  OBVIOUS
<1>2. ASSUME NEW i \in Nat, i \in S PROVE i + 1 \in S
  <2> SUFFICES ASSUME i + 1 <= n PROVE i + 1 \in G
    OBVIOUS
  <2>1. i + 1 \in 1 .. n /\ (i + 1) - 1 = i /\ i \in G
    BY <1>2
  <2> QED BY <2>1
<1>3. Nat \subseteq S
  <2> HIDE DEF S
  <2> QED BY <1>1, <1>2, Induction
<1> QED BY <1>3

\* A function that starts with base and goes on by next.
Recursive(f, n, base, next) ==
  f = [i \in 0 .. n |-> IF i = 0 THEN base ELSE next[<<i, f[i - 1]>>]]

\* There is one, with values of a set that next does not leave.
LEMMA RecursionExists ==
  ASSUME NEW n \in Nat, NEW S, NEW base \in S, NEW next \in [(1 .. n) \X S -> S]
  PROVE  \E f \in [0 .. n -> S] : Recursive(f, n, base, next)
<1> DEFINE G == {m \in Nat : \E f \in [0 .. m -> S] : Recursive(f, m, base, next)}
<1>1. 0 \in G
  <2> DEFINE f == [i \in 0 .. 0 |-> base]
  <2>1. f \in [0 .. 0 -> S] /\ f = [i \in 0 .. 0 |-> IF i = 0 THEN base
                                                      ELSE next[<<i, f[i - 1]>>]]
    OBVIOUS
  <2> QED BY <2>1 DEF Recursive
<1>2. ASSUME NEW m \in 1 .. n, m - 1 \in G PROVE m \in G
  <2>1. PICK f \in [0 .. m - 1 -> S] : Recursive(f, m - 1, base, next)
    BY <1>2
  <2>2. \A i \in 0 .. m - 1 : f[i] = IF i = 0 THEN base ELSE next[<<i, f[i - 1]>>]
    BY <2>1 DEF Recursive
  <2> DEFINE g == [i \in 0 .. m |-> IF i = m THEN next[<<m, f[m - 1]>>] ELSE f[i]]
  <2>3. f[m - 1] \in S /\ <<m, f[m - 1]>> \in (1 .. n) \X S
    OBVIOUS
  <2>4. g \in [0 .. m -> S]
    BY <2>3
  <2>5. \A i \in 0 .. m : g[i] = IF i = 0 THEN base ELSE next[<<i, g[i - 1]>>]
    <3> TAKE i \in 0 .. m
    <3>1. CASE i = m
      <4>1. g[i] = next[<<m, f[m - 1]>>] /\ g[i - 1] = f[m - 1] /\ i # 0
        BY <3>1
      <4> QED BY <3>1, <4>1
    <3>2. CASE i # m /\ i # 0
      <4>1. i \in 0 .. m - 1 /\ i - 1 \in 0 .. m - 1 /\ i - 1 # m
        BY <3>2
      <4>2. g[i] = f[i] /\ g[i - 1] = f[i - 1]
        BY <3>2, <4>1
      <4> QED BY <2>2, <3>2, <4>1, <4>2
    <3>3. CASE i # m /\ i = 0
      <4>1. i \in 0 .. m - 1 /\ g[i] = f[i]
        BY <3>3
      <4> QED BY <2>2, <3>3, <4>1
    <3> QED BY <3>1, <3>2, <3>3
  <2>6. Recursive(g, m, base, next)
    <3>1. g = [i \in 0 .. m |-> g[i]]
      OBVIOUS
    <3> HIDE DEF g
    <3> QED BY <2>5, <3>1 DEF Recursive
  <2> QED BY <2>4, <2>6
<1>3. n \in G
  <2> HIDE DEF G
  <2> QED BY <1>1, <1>2, InductionUpTo
<1> QED BY <1>3

\* The longer part of a concatenation gets the element.
LEMMA AppendConcat ==
  ASSUME NEW X, NEW s \in Seq(X), NEW t \in Seq(X), NEW c \in X
  PROVE  s \o Append(t, c) = Append(s \o t, c)
<1>1. /\ Append(t, c) = t \o <<c>> /\ s \o t \in Seq(X) /\ <<c>> \in Seq(X)
      /\ Append(s \o t, c) = (s \o t) \o <<c>>
  BY AppendIsConcat, ConcatProperties
<1> QED BY <1>1, ConcatAssociative

\* A byte that moves over.
LEMMA MovedOver ==
  ASSUME NEW X, NEW s \in Seq(X), NEW t \in Seq(X), t # <<>>
  PROVE  Append(s, Head(t)) \o Tail(t) = s \o t
<1>1. PICK h, rest : h = Head(t) /\ rest = Tail(t)
  OBVIOUS
<1>2. h \in X /\ rest \in Seq(X) /\ <<h>> \in Seq(X) /\ t = <<h>> \o rest
  BY <1>1
<1>3. Append(s, h) = s \o <<h>>
  BY <1>2, AppendIsConcat
<1>4. (s \o <<h>>) \o rest = s \o (<<h>> \o rest)
  BY <1>2, ConcatAssociative
<1> QED BY <1>1, <1>2, <1>3, <1>4

-----------------------------------------------------------------------------
(* The recursion of a sum. *)

Chosen(s) == CHOOSE x \in s : TRUE

\* it[s] is the sum of f over s, for the subsets s of D.
Sums(f, D, it) ==
    it = [s \in SUBSET D |-> IF s = {} THEN 0 ELSE f[Chosen(s)] + it[s \ {Chosen(s)}]]

SumsOf(f, D) == CHOOSE it : Sums(f, D, it)

\* The sum is the value of such a function.
LEMMA SumIsRecursive ==
  ASSUME NEW f, NEW D PROVE SumFunctionOnSet(f, D) = SumsOf(f, D)[D]
BY DEF SumFunctionOnSet, FoldFunctionOnSet, MapThenFoldSet, SumsOf, Sums, Chosen

\* Two of them agree where both are defined.
LEMMA SumsAgree ==
  ASSUME NEW f, NEW D, NEW E, E \subseteq D, IsFiniteSet(E), NEW a, NEW b,
         Sums(f, D, a), Sums(f, E, b)
  PROVE  \A U \in SUBSET E : a[U] = b[U]
<1> DEFINE Good == {U \in SUBSET E : a[U] = b[U]}
<1>1. {} \in Good
  BY DEF Sums
<1>2. ASSUME NEW T \in SUBSET E, T # {}, \A U \in SUBSET T : U # T => U \in Good
      PROVE  T \in Good
  <2>1. Chosen(T) \in T
    BY <1>2 DEF Chosen
  <2>2. T \ {Chosen(T)} \in Good
    BY <1>2, <2>1
  <2>3. a[T] = f[Chosen(T)] + a[T \ {Chosen(T)}] /\ b[T] = f[Chosen(T)] + b[T \ {Chosen(T)}]
    BY <1>2 DEF Sums
  <2> QED BY <2>2, <2>3
<1>3. SUBSET E \subseteq Good
  <2> HIDE DEF Good
  <2> QED BY <1>1, <1>2, SubsetInduction
<1> QED BY <1>3

\* There is one for every finite set.
LEMMA SumsExist ==
  ASSUME NEW f, NEW D, IsFiniteSet(D)
  PROVE  \A T \in SUBSET D : Sums(f, T, SumsOf(f, T))
<1> DEFINE Good == {T \in SUBSET D : Sums(f, T, SumsOf(f, T))}
           Value(U) == SumsOf(f, U)[U]
           Next(U) == IF U = {} THEN 0 ELSE f[Chosen(U)] + Value(U \ {Chosen(U)})
<1>1. {} \in Good
  <2> DEFINE it == [s \in SUBSET {} |-> 0]
  <2>1. Sums(f, {}, it)
    BY DEF Sums
  <2> HIDE DEF it
  <2> QED BY <2>1 DEF SumsOf
<1>2. ASSUME NEW T \in SUBSET D, T # {}, \A U \in SUBSET T : U # T => U \in Good
      PROVE  T \in Good
  <2> DEFINE it == [s \in SUBSET T |-> Next(s)]
  <2>1. ASSUME NEW V \in SUBSET T, V # T PROVE Value(V) = Next(V)
    <3>1. Sums(f, V, SumsOf(f, V))
      BY <1>2, <2>1
    <3>2. CASE V = {}
      BY <3>1, <3>2 DEF Sums
    <3>3. CASE V # {}
      <4> DEFINE W == V \ {Chosen(V)}
      <4>1. Chosen(V) \in V /\ W \in SUBSET T /\ W # T /\ W \subseteq V
        BY <3>3 DEF Chosen
      <4>2. Sums(f, W, SumsOf(f, W)) /\ IsFiniteSet(W)
        BY <1>2, <4>1, FS_Subset
      <4>3. SumsOf(f, V)[W] = SumsOf(f, W)[W]
        <5> HIDE DEF W
        <5> QED BY <3>1, <4>1, <4>2, SumsAgree
      <4>4. SumsOf(f, V)[V] = f[Chosen(V)] + SumsOf(f, V)[W]
        BY <3>1, <3>3 DEF Sums
      <4> QED BY <3>3, <4>3, <4>4
    <3> QED BY <3>2, <3>3
  <2>2. ASSUME NEW U \in SUBSET T
        PROVE  Next(U) = IF U = {} THEN 0 ELSE f[Chosen(U)] + it[U \ {Chosen(U)}]
    <3>1. CASE U = {}
      BY <3>1
    <3>2. CASE U # {}
      <4> DEFINE V == U \ {Chosen(U)}
      <4>1. V \in SUBSET T /\ V # T
        BY <3>2 DEF Chosen
      <4>2. Value(V) = Next(V)
        BY <2>1, <4>1
      <4>3. it[V] = Next(V)
        BY <4>1
      <4>4. Next(U) = f[Chosen(U)] + Value(V)
        BY <3>2
      <4> HIDE DEF it, Next, Value
      <4> QED BY <3>2, <4>2, <4>3, <4>4
    <3> QED BY <3>1, <3>2
  <2>3. Sums(f, T, it)
    <3> HIDE DEF Next
    <3> QED BY <2>2 DEF Sums
  <2> HIDE DEF it
  <2> QED BY <2>3 DEF SumsOf
<1>3. SUBSET D \subseteq Good
  <2> HIDE DEF Good
  <2> QED BY <1>1, <1>2, SubsetInduction
<1> QED BY <1>3

\* A sum is that of the rest plus the first of its terms, in the order that the
\* definition takes them.
LEMMA SumRecursion ==
  ASSUME NEW f, NEW D, IsFiniteSet(D)
  PROVE  SumFunctionOnSet(f, D) =
           IF D = {} THEN 0 ELSE f[Chosen(D)] + SumFunctionOnSet(f, D \ {Chosen(D)})
<1>1. Sums(f, D, SumsOf(f, D))
  BY SumsExist
<1>2. CASE D = {}
  BY <1>1, <1>2, SumIsRecursive DEF Sums
<1>3. CASE D # {}
  <2> DEFINE E == D \ {Chosen(D)}
  <2>1. E \subseteq D /\ IsFiniteSet(E) /\ Sums(f, E, SumsOf(f, E))
    BY FS_Subset, SumsExist
  <2>2. SumsOf(f, D)[E] = SumsOf(f, E)[E]
    <3> HIDE DEF E
    <3> QED BY <1>1, <2>1, SumsAgree
  <2>3. SumsOf(f, D)[D] = f[Chosen(D)] + SumsOf(f, D)[E]
    BY <1>1, <1>3 DEF Sums
  <2> QED BY <1>3, <2>2, <2>3, SumIsRecursive
<1> QED BY <1>2, <1>3

-----------------------------------------------------------------------------
(* Sums of integers. *)

\* The sum of nothing.
LEMMA SumOfNone ==
  ASSUME NEW f PROVE SumFunctionOnSet(f, {}) = 0
BY SumRecursion, FS_EmptySet

\* Any of the terms may be taken first.
LEMMA SumRemove ==
  ASSUME NEW D, IsFiniteSet(D), NEW f, \A x \in D : f[x] \in Int
  PROVE  /\ SumFunctionOnSet(f, D) \in Int
         /\ \A x \in D : SumFunctionOnSet(f, D) = f[x] + SumFunctionOnSet(f, D \ {x})
<1> DEFINE S(T) == SumFunctionOnSet(f, T)
           Good == {T \in SUBSET D : /\ S(T) \in Int
                                     /\ \A x \in T : S(T) = f[x] + S(T \ {x})}
<1>1. {} \in Good
  BY SumOfNone
<1>2. ASSUME NEW T \in SUBSET D, T # {}, \A U \in SUBSET T : U # T => U \in Good
      PROVE  T \in Good
  <2>1. PICK c \in T : S(T) = f[c] + S(T \ {c})
    <3>1. Chosen(T) \in T /\ IsFiniteSet(T)
      BY <1>2, FS_Subset DEF Chosen
    <3> QED BY <1>2, <3>1, SumRecursion
  <2>2. \A x \in T : S(T \ {x}) \in Int /\ f[x] \in Int
    BY <1>2
  <2>3. S(T) \in Int
    BY <2>1, <2>2
  <2>4. ASSUME NEW x \in T, x # c PROVE S(T) = f[x] + S(T \ {x})
    <3>1. T \ {c} \in Good /\ T \ {x} \in Good /\ T \ {c, x} \in Good
      BY <1>2, <2>1, <2>4
    <3>2. (T \ {c}) \ {x} = T \ {c, x} /\ (T \ {x}) \ {c} = T \ {c, x}
      OBVIOUS
    <3>3. S(T \ {c}) = f[x] + S(T \ {c, x}) /\ S(T \ {x}) = f[c] + S(T \ {c, x})
      BY <2>1, <2>4, <3>1, <3>2
    <3>4. S(T \ {c, x}) \in Int /\ f[x] \in Int /\ f[c] \in Int
      BY <3>1, <2>2
    <3> QED BY <2>1, <3>3, <3>4
  <2>5. \A x \in T : S(T) = f[x] + S(T \ {x})
    BY <2>1, <2>4
  <2> QED BY <2>3, <2>5
<1>3. SUBSET D \subseteq Good
  <2> HIDE DEF Good
  <2> QED BY <1>1, <1>2, SubsetInduction
<1> QED BY <1>3

\* A sum depends on the terms only.
LEMMA SumEqual ==
  ASSUME NEW D, IsFiniteSet(D), NEW f, NEW g, \A x \in D : f[x] = g[x]
  PROVE  SumFunctionOnSet(f, D) = SumFunctionOnSet(g, D)
<1> DEFINE Good == {T \in SUBSET D : SumFunctionOnSet(f, T) = SumFunctionOnSet(g, T)}
<1>1. {} \in Good
  BY SumOfNone
<1>2. ASSUME NEW T \in SUBSET D, T # {}, \A U \in SUBSET T : U # T => U \in Good
      PROVE  T \in Good
  <2>1. Chosen(T) \in T /\ IsFiniteSet(T)
    BY <1>2, FS_Subset DEF Chosen
  <2>2. T \ {Chosen(T)} \in Good
    BY <1>2, <2>1
  <2>3. /\ SumFunctionOnSet(f, T) = f[Chosen(T)] + SumFunctionOnSet(f, T \ {Chosen(T)})
        /\ SumFunctionOnSet(g, T) = g[Chosen(T)] + SumFunctionOnSet(g, T \ {Chosen(T)})
    BY <1>2, <2>1, SumRecursion
  <2> QED BY <2>1, <2>2, <2>3
<1>3. SUBSET D \subseteq Good
  <2> HIDE DEF Good
  <2> QED BY <1>1, <1>2, SubsetInduction
<1> QED BY <1>3

\* The sum of natural numbers is one, and each of its terms is at most the sum.
LEMMA SumOfNaturals ==
  ASSUME NEW D, IsFiniteSet(D), NEW f, \A x \in D : f[x] \in Nat
  PROVE  /\ SumFunctionOnSet(f, D) \in Nat
         /\ \A x \in D : f[x] <= SumFunctionOnSet(f, D)
<1> DEFINE Good == {T \in SUBSET D : SumFunctionOnSet(f, T) \in Nat}
<1>1. {} \in Good
  BY SumOfNone
<1>2. ASSUME NEW T \in SUBSET D, T # {}, \A U \in SUBSET T : U # T => U \in Good
      PROVE  T \in Good
  <2>1. Chosen(T) \in T /\ IsFiniteSet(T)
    BY <1>2, FS_Subset DEF Chosen
  <2>2. T \ {Chosen(T)} \in Good
    BY <1>2, <2>1
  <2>3. SumFunctionOnSet(f, T) = f[Chosen(T)] + SumFunctionOnSet(f, T \ {Chosen(T)})
    BY <1>2, <2>1, SumRecursion
  <2> QED BY <2>1, <2>2, <2>3
<1>3. SUBSET D \subseteq Good
  <2> HIDE DEF Good
  <2> QED BY <1>1, <1>2, SubsetInduction
<1>4. ASSUME NEW x \in D PROVE f[x] <= SumFunctionOnSet(f, D)
  <2>1. SumFunctionOnSet(f, D \ {x}) \in Nat
    BY <1>3
  <2>2. SumFunctionOnSet(f, D) = f[x] + SumFunctionOnSet(f, D \ {x})
    BY SumRemove
  <2> QED BY <2>1, <2>2
<1> QED BY <1>3, <1>4

\* Nothing adds up to nothing.
LEMMA SumOfZeros ==
  ASSUME NEW D, IsFiniteSet(D), NEW f, \A x \in D : f[x] = 0
  PROVE  SumFunctionOnSet(f, D) = 0
<1> DEFINE Good == {T \in SUBSET D : SumFunctionOnSet(f, T) = 0}
<1>1. {} \in Good
  BY SumOfNone
<1>2. ASSUME NEW T \in SUBSET D, T # {}, \A U \in SUBSET T : U # T => U \in Good
      PROVE  T \in Good
  <2>1. Chosen(T) \in T /\ IsFiniteSet(T)
    BY <1>2, FS_Subset DEF Chosen
  <2>2. T \ {Chosen(T)} \in Good
    BY <1>2, <2>1
  <2>3. SumFunctionOnSet(f, T) = f[Chosen(T)] + SumFunctionOnSet(f, T \ {Chosen(T)})
    BY <1>2, <2>1, SumRecursion
  <2> QED BY <2>1, <2>2, <2>3
<1>3. SUBSET D \subseteq Good
  <2> HIDE DEF Good
  <2> QED BY <1>1, <1>2, SubsetInduction
<1> QED BY <1>3

\* One term of a function is changed.
LEMMA SumExcept ==
  ASSUME NEW D, IsFiniteSet(D), NEW f \in [D -> Int], NEW x \in D, NEW v \in Int
  PROVE  SumFunction([f EXCEPT ![x] = v]) = SumFunction(f) - f[x] + v
<1> DEFINE g == [f EXCEPT ![x] = v]
           E == D \ {x}
<1>1. DOMAIN f = D /\ DOMAIN g = D /\ g[x] = v /\ \A y \in D : f[y] \in Int /\ g[y] \in Int
  OBVIOUS
<1>2. IsFiniteSet(E) /\ \A y \in E : f[y] = g[y] /\ f[y] \in Int
  BY FS_Subset
<1> HIDE DEF g
<1>3. SumFunctionOnSet(f, D) = f[x] + SumFunctionOnSet(f, E)
  BY <1>1, SumRemove
<1>4. SumFunctionOnSet(g, D) = g[x] + SumFunctionOnSet(g, E)
  BY <1>1, SumRemove
<1>5. SumFunctionOnSet(f, E) = SumFunctionOnSet(g, E) /\ SumFunctionOnSet(f, E) \in Int
  <2> HIDE DEF E
  <2> QED BY <1>2, SumEqual, SumRemove
<1>6. SumFunctionOnSet(g, D) = SumFunctionOnSet(f, D) - f[x] + v
  <2> HIDE DEF E
  <2> QED BY <1>1, <1>3, <1>4, <1>5
<1>7. SumFunction(g) = SumFunctionOnSet(g, D) /\ SumFunction(f) = SumFunctionOnSet(f, D)
  BY <1>1 DEF SumFunction
<1> QED BY <1>6, <1>7 DEF g

-----------------------------------------------------------------------------
(* Sums of sequences. *)

\* The sum of a sequence is a number, and so is that of the empty one.
LEMMA SumOfSeq ==
  ASSUME NEW seq \in Seq(Int)
  PROVE  SumFunction(seq) \in Int /\ (seq = <<>> => SumFunction(seq) = 0)
<1>1. IsFiniteSet(DOMAIN seq) /\ \A i \in DOMAIN seq : seq[i] \in Int
  BY FS_Interval
<1>2. seq = <<>> => DOMAIN seq = {}
  OBVIOUS
<1> QED BY <1>1, <1>2, SumRemove, SumOfNone DEF SumFunction

\* A sequence of natural numbers sums to one, and to no less than any of them.
LEMMA SumOfNatSeq ==
  ASSUME NEW seq \in Seq(Nat)
  PROVE  SumFunction(seq) \in Nat /\ \A i \in DOMAIN seq : seq[i] <= SumFunction(seq)
<1>1. IsFiniteSet(DOMAIN seq) /\ \A i \in DOMAIN seq : seq[i] \in Nat
  BY FS_Interval
<1> QED BY <1>1, SumOfNaturals DEF SumFunction

\* An element at the end adds itself.
LEMMA SumAppend ==
  ASSUME NEW seq \in Seq(Int), NEW e \in Int
  PROVE  SumFunction(Append(seq, e)) = SumFunction(seq) + e
<1> DEFINE n == Len(seq)
           longer == Append(seq, e)
           D == 1 .. n + 1
           E == 1 .. n
<1>1. /\ n \in Nat /\ DOMAIN seq = E /\ DOMAIN longer = D /\ n + 1 \in D
      /\ longer[n + 1] = e /\ E = D \ {n + 1}
  OBVIOUS
<1>2. /\ IsFiniteSet(D) /\ IsFiniteSet(E) /\ \A i \in D : longer[i] \in Int
      /\ \A i \in E : longer[i] = seq[i]
  <2>1. n \in Nat /\ IsFiniteSet(1 .. n + 1) /\ IsFiniteSet(1 .. n)
    BY FS_Interval
  <2>2. longer \in Seq(Int) /\ \A i \in 1 .. n : longer[i] = seq[i]
    OBVIOUS
  <2> QED BY <2>1, <2>2, <1>1
<1> HIDE DEF n, longer, D, E
<1>3. SumFunctionOnSet(longer, D) = e + SumFunctionOnSet(longer, E)
  BY <1>1, <1>2, SumRemove
<1>4. SumFunctionOnSet(longer, E) = SumFunctionOnSet(seq, E)
  BY <1>2, SumEqual
<1>5. SumFunction(longer) = SumFunctionOnSet(longer, D) /\ SumFunction(seq) = SumFunctionOnSet(seq, E)
  BY <1>1 DEF SumFunction
<1>6. SumFunction(longer) = e + SumFunction(seq) /\ SumFunction(seq) \in Int
  BY <1>3, <1>4, <1>5, SumOfSeq
<1> QED BY <1>6 DEF longer

\* Without its first element a sequence sums to that much less.
LEMMA SumTail ==
  ASSUME NEW seq \in Seq(Int), seq # <<>>
  PROVE  SumFunction(seq) = Head(seq) + SumFunction(Tail(seq))
<1> DEFINE Fact(s) == SumFunction(s) = Head(s) + SumFunction(Tail(s))
           S == {n \in Nat : \A s \in Seq(Int) : Len(s) = n + 1 => Fact(s)}
<1>1. ASSUME NEW front \in Seq(Int), NEW last \in Int,
             front = <<>> \/ Fact(front)
      PROVE  Fact(Append(front, last))
  <2>1. SumFunction(Append(front, last)) = SumFunction(front) + last
    BY SumAppend
  <2>2. CASE front = <<>>
    <3>1. Head(Append(front, last)) = last /\ Tail(Append(front, last)) = <<>>
      BY <2>2, HeadTailAppend
    <3>2. SumFunction(<<>>) = 0
      BY <2>2, SumOfSeq
    <3> QED BY <2>1, <2>2, <3>1, <3>2
  <2>3. CASE front # <<>>
    <3>1. /\ Head(Append(front, last)) = Head(front)
          /\ Tail(Append(front, last)) = Append(Tail(front), last)
      BY <2>3, HeadTailAppend
    <3>2. Head(front) \in Int /\ Tail(front) \in Seq(Int)
      BY <2>3
    <3>3. /\ SumFunction(Append(Tail(front), last)) = SumFunction(Tail(front)) + last
          /\ SumFunction(Tail(front)) \in Int
      BY <3>2, SumAppend, SumOfSeq
    <3>4. SumFunction(front) = Head(front) + SumFunction(Tail(front))
      BY <1>1, <2>3
    <3>5. SumFunction(Append(front, last)) = Head(front) + (SumFunction(Tail(front)) + last)
      BY <2>1, <3>2, <3>3, <3>4
    <3> QED BY <3>1, <3>3, <3>5
  <2> QED BY <2>2, <2>3
<1>2. 0 \in S
  <2> SUFFICES ASSUME NEW s \in Seq(Int), Len(s) = 1 PROVE Fact(s)
    OBVIOUS
  <2> HIDE DEF S, Fact
  <2>1. PICK front \in Seq(Int), last \in Int : s = Append(front, last)
    <3>1. s # <<>>
      <4>1. Len(<<>>) = 0
        OBVIOUS
      <4>2. Len(s) # 0
        OBVIOUS
      <4> QED BY <4>1, <4>2
    <3> QED BY <3>1, SequenceEmptyOrAppend
  <2>2. front = <<>>
    BY <2>1
  <2> QED BY <1>1, <2>1, <2>2
<1>3. ASSUME NEW n \in Nat, n \in S PROVE n + 1 \in S
  <2> SUFFICES ASSUME NEW s \in Seq(Int), Len(s) = (n + 1) + 1 PROVE Fact(s)
    BY <1>3
  <2>1. PICK front \in Seq(Int), last \in Int : s = Append(front, last)
    <3>1. s # <<>>
      OBVIOUS
    <3> QED BY <3>1, SequenceEmptyOrAppend
  <2>2. Len(front) = n + 1
    BY <2>1
  <2> QED BY <1>1, <1>3, <2>1, <2>2
<1>4. Nat \subseteq S
  <2> HIDE DEF S
  <2> QED BY <1>2, <1>3, Induction
<1>5. Len(seq) - 1 \in Nat /\ Len(seq) = (Len(seq) - 1) + 1
  OBVIOUS
<1> QED BY <1>4, <1>5

-----------------------------------------------------------------------------
(* The recursion of a selection. *)

\* p[n] is what is selected of the first n elements.
Picks(seq, set, p) ==
    p = [n \in 0 .. Len(seq) |->
           IF n = 0 THEN <<>>
           ELSE IF seq[n] \in set THEN Append(p[n - 1], seq[n]) ELSE p[n - 1]]

Picked(seq, set) == CHOOSE p : Picks(seq, set, p)

\* A selection is the value of such a function.
LEMMA MembersIsRecursive ==
  ASSUME NEW seq, NEW set PROVE Members(seq, set) = Picked(seq, set)[Len(seq)]
BY DEF Members, Picked, Picks

\* The equation of such a function at one place.
LEMMA PicksAt ==
  ASSUME NEW seq, NEW set, NEW p, Picks(seq, set, p), NEW n \in 0 .. Len(seq)
  PROVE  p[n] = IF n = 0 THEN <<>>
                ELSE IF seq[n] \in set THEN Append(p[n - 1], seq[n]) ELSE p[n - 1]
BY DEF Picks

\* Those of a sequence and of a longer one agree.
LEMMA PicksAgree ==
  ASSUME NEW X, NEW seq \in Seq(X), NEW e \in X, NEW set, NEW p, NEW q,
         Picks(seq, set, p), Picks(Append(seq, e), set, q)
  PROVE  \A n \in 0 .. Len(seq) : p[n] = q[n]
<1> DEFINE longer == Append(seq, e)
           S == {n \in Nat : n <= Len(seq) => p[n] = q[n]}
<1>1. /\ Len(seq) \in Nat /\ Len(longer) = Len(seq) + 1
      /\ \A n \in 1 .. Len(seq) : longer[n] = seq[n]
  BY AppendProperties
<1> HIDE DEF longer
<1>2. \A n \in 0 .. Len(seq) :
        /\ p[n] = IF n = 0 THEN <<>>
                  ELSE IF seq[n] \in set THEN Append(p[n - 1], seq[n]) ELSE p[n - 1]
        /\ q[n] = IF n = 0 THEN <<>>
                  ELSE IF longer[n] \in set THEN Append(q[n - 1], longer[n]) ELSE q[n - 1]
  <2> TAKE n \in 0 .. Len(seq)
  <2>1. Picks(longer, set, q) /\ n \in 0 .. Len(longer)
    BY <1>1 DEF longer
  <2> QED BY <2>1, PicksAt
<1>3. 0 \in S
  BY <1>1, <1>2
<1>4. ASSUME NEW n \in Nat, n \in S PROVE n + 1 \in S
  <2>1. SUFFICES ASSUME n + 1 <= Len(seq) PROVE p[n + 1] = q[n + 1]
    OBVIOUS
  <2>2. n + 1 \in 1 .. Len(seq) /\ n + 1 \in 0 .. Len(seq) /\ n + 1 # 0 /\ (n + 1) - 1 = n
    BY <1>1, <2>1
  <2>3. p[n] = q[n] /\ longer[n + 1] = seq[n + 1]
    BY <1>1, <1>4, <2>1, <2>2
  <2> QED BY <1>2, <2>2, <2>3
<1>5. Nat \subseteq S
  <2> HIDE DEF S
  <2> QED BY <1>3, <1>4, Induction
<1> QED BY <1>1, <1>5

\* There is one for every sequence.
LEMMA PicksExist ==
  ASSUME NEW X, NEW set
  PROVE  \A seq \in Seq(X) : Picks(seq, set, Picked(seq, set))
<1> DEFINE S == {n \in Nat : \A seq \in Seq(X) :
                              Len(seq) = n => Picks(seq, set, Picked(seq, set))}
<1>1. 0 \in S
  <2> SUFFICES ASSUME NEW seq \in Seq(X), Len(seq) = 0 PROVE Picks(seq, set, Picked(seq, set))
    OBVIOUS
  <2> DEFINE p == [n \in 0 .. Len(seq) |-> <<>>]
  <2>1. Picks(seq, set, p)
    BY DEF Picks
  <2> HIDE DEF p
  <2> QED BY <2>1 DEF Picked
<1>2. ASSUME NEW k \in Nat, k \in S PROVE k + 1 \in S
  <2> SUFFICES ASSUME NEW longer \in Seq(X), Len(longer) = k + 1
               PROVE  Picks(longer, set, Picked(longer, set))
    BY <1>2
  <2>1. PICK seq \in Seq(X), e \in X : longer = Append(seq, e)
    BY SequenceEmptyOrAppend, EmptySeq
  <2>2. Len(seq) = k /\ \A n \in 1 .. k : longer[n] = seq[n]
    BY <2>1, AppendProperties
  <2> DEFINE q == Picked(seq, set)
             p == [n \in 0 .. k + 1 |->
                     IF n <= k THEN q[n]
                     ELSE IF longer[n] \in set THEN Append(q[n - 1], longer[n]) ELSE q[n - 1]]
  <2>3. Picks(seq, set, q)
    BY <1>2, <2>2
  <2>4. \A n \in 0 .. k : q[n] = IF n = 0 THEN <<>>
                                ELSE IF seq[n] \in set THEN Append(q[n - 1], seq[n])
                                ELSE q[n - 1]
    BY <2>2, <2>3 DEF Picks
  <2>5. \A n \in 0 .. k + 1 : p[n] = IF n = 0 THEN <<>>
                                    ELSE IF longer[n] \in set THEN Append(p[n - 1], longer[n])
                                    ELSE p[n - 1]
    <3> HIDE DEF q
    <3> TAKE n \in 0 .. k + 1
    <3>1. CASE n <= k
      BY <2>2, <2>4, <3>1
    <3>2. CASE n = k + 1
      BY <3>2
    <3> QED BY <3>1, <3>2
  <2>6. Picks(longer, set, p)
    <3> HIDE DEF q
    <3>1. p = [n \in 0 .. k + 1 |-> p[n]]
      OBVIOUS
    <3> HIDE DEF p
    <3> QED BY <2>5, <3>1 DEF Picks
  <2> HIDE DEF p
  <2> QED BY <2>6 DEF Picked
<1>3. Nat \subseteq S
  <2> HIDE DEF S
  <2> QED BY <1>1, <1>2, Induction
<1> QED BY <1>3

-----------------------------------------------------------------------------
(* Selections. *)

\* Nothing is selected from nothing.
LEMMA MembersEmpty ==
  ASSUME NEW set PROVE Members(<<>>, set) = <<>>
<1>1. <<>> \in Seq({}) /\ Len(<<>>) = 0
  OBVIOUS
<1>2. Picks(<<>>, set, Picked(<<>>, set))
  BY <1>1, PicksExist
<1>3. Picked(<<>>, set)[0] = <<>>
  BY <1>1, <1>2 DEF Picks
<1> QED BY <1>1, <1>3, MembersIsRecursive

\* A new element at the end comes last.
LEMMA MembersAppend ==
  ASSUME NEW X, NEW seq \in Seq(X), NEW e \in X, NEW set
  PROVE  Members(Append(seq, e), set) =
           IF e \in set THEN Append(Members(seq, set), e) ELSE Members(seq, set)
<1> DEFINE longer == Append(seq, e)
           n == Len(seq)
<1>1. /\ longer \in Seq(X) /\ Len(longer) = n + 1 /\ n \in Nat
      /\ longer[n + 1] = e
  BY AppendProperties
<1>2. Picks(seq, set, Picked(seq, set)) /\ Picks(longer, set, Picked(longer, set))
  BY <1>1, PicksExist
<1>3. Picked(longer, set)[n] = Picked(seq, set)[n]
  BY <1>1, <1>2, PicksAgree
<1> HIDE DEF longer, n
<1>4. Picked(longer, set)[n + 1] =
        IF e \in set THEN Append(Picked(longer, set)[n], e) ELSE Picked(longer, set)[n]
  <2>1. n + 1 \in 0 .. Len(longer) /\ n + 1 # 0 /\ (n + 1) - 1 = n
    BY <1>1
  <2> QED BY <1>1, <1>2, <2>1, PicksAt
<1> QED BY <1>1, <1>3, <1>4, MembersIsRecursive DEF longer, n

\* What is selected is a sequence of the members of the set.
LEMMA MembersSeq ==
  ASSUME NEW X, NEW set, NEW seq \in Seq(X) PROVE Members(seq, set) \in Seq(X \cap set)
<1> DEFINE Good == {s \in Seq(X) : Members(s, set) \in Seq(X \cap set)}
<1>1. <<>> \in Good
  <2>1. <<>> \in Seq(X) /\ <<>> \in Seq(X \cap set)
    OBVIOUS
  <2> QED BY <2>1, MembersEmpty
<1>2. ASSUME NEW s \in Seq(X), NEW e \in X, s \in Good PROVE Append(s, e) \in Good
  <2>1. Append(s, e) \in Seq(X) /\ Members(s, set) \in Seq(X \cap set)
    BY <1>2
  <2>2. e \in set => Append(Members(s, set), e) \in Seq(X \cap set)
    BY <2>1, AppendProperties
  <2>3. Members(Append(s, e), set) \in Seq(X \cap set)
    BY <2>1, <2>2, MembersAppend
  <2> QED BY <2>1, <2>3
<1>3. Seq(X) \subseteq Good
  <2> HIDE DEF Good
  <2> QED BY <1>1, <1>2, SeqInduction
<1> QED BY <1>3

\* The first element is the first that is selected, or is not selected.
LEMMA MembersTail ==
  ASSUME NEW X, NEW set, NEW seq \in Seq(X), seq # <<>>
  PROVE  /\ Head(seq) \in set =>
              /\ Members(seq, set) # <<>>
              /\ Head(Members(seq, set)) = Head(seq)
              /\ Members(Tail(seq), set) = Tail(Members(seq, set))
         /\ Head(seq) \notin set => Members(Tail(seq), set) = Members(seq, set)
<1> DEFINE M(s) == Members(s, set)
           Fact(s) == /\ Head(s) \in set => /\ M(s) # <<>>
                                            /\ Head(M(s)) = Head(s)
                                            /\ M(Tail(s)) = Tail(M(s))
                      /\ Head(s) \notin set => M(Tail(s)) = M(s)
           Good == {s \in Seq(X) : s # <<>> => Fact(s)}
<1>1. <<>> \in Good
  OBVIOUS
<1>2. ASSUME NEW s \in Seq(X), NEW e \in X, s \in Good PROVE Append(s, e) \in Good
  <2> DEFINE t == Append(s, e)
  <2>1. t \in Seq(X) /\ t # <<>>
    BY AppendProperties
  <2>2. M(<<>>) = <<>> /\ M(t) = IF e \in set THEN Append(M(s), e) ELSE M(s)
    BY MembersEmpty, MembersAppend
  <2>3. ASSUME s = <<>> PROVE Fact(t)
    <3>1. Head(t) = e /\ Tail(t) = <<>>
      BY <2>3, HeadTailAppend
    <3>2. Head(Append(<<>>, e)) = e /\ Tail(Append(<<>>, e)) = <<>> /\ Append(<<>>, e) # <<>>
      BY <2>3, HeadTailAppend, AppendProperties
    <3> HIDE DEF t, M
    <3> QED BY <2>2, <2>3, <3>1, <3>2
  <2>4. ASSUME s # <<>> PROVE Fact(t)
    <3>1. Head(t) = Head(s) /\ Tail(t) = Append(Tail(s), e) /\ Tail(s) \in Seq(X)
      BY <2>4, HeadTailAppend, HeadTailProperties
    <3>2. M(Append(Tail(s), e)) = IF e \in set THEN Append(M(Tail(s)), e) ELSE M(Tail(s))
      BY <3>1, MembersAppend
    <3>3. M(s) \in Seq(X)
      <4>1. M(s) \in Seq(X \cap set) /\ X \cap set \subseteq X
        BY MembersSeq
      <4> QED BY <4>1, SeqMonotonic
    <3>4. M(s) # <<>> => /\ Head(Append(M(s), e)) = Head(M(s))
                         /\ Tail(Append(M(s), e)) = Append(Tail(M(s)), e)
                         /\ Append(M(s), e) # <<>>
      <4> HIDE DEF M
      <4> QED BY <3>3, HeadTailAppend, AppendProperties
    <3>5. Fact(s)
      BY <1>2, <2>4
    <3> HIDE DEF t, M
    <3> QED BY <2>2, <3>1, <3>2, <3>4, <3>5
  <2>5. t \in Good
    <3> HIDE DEF t, Fact
    <3> QED BY <2>1, <2>3, <2>4
  <2> QED BY <2>5
<1>3. Seq(X) \subseteq Good
  <2> HIDE DEF Good
  <2> QED BY <1>1, <1>2, SeqInduction
<1> QED BY <1>3

\* What is picked of a sequence has its members of the set, in their order.
AllKept(picked, seq, set) ==
    \A j \in DOMAIN seq : seq[j] \in set => \E m \in DOMAIN picked : picked[m] = seq[j]

KeptInOrder(picked, seq, set) ==
    \A i, j \in DOMAIN seq : i < j /\ seq[i] \in set /\ seq[j] \in set =>
      \E k, m \in DOMAIN picked : k < m /\ picked[k] = seq[i] /\ picked[m] = seq[j]

\* Members of the set are selected, in the order in which they are in the sequence.
LEMMA MembersOrder ==
  ASSUME NEW X, NEW set, NEW seq \in Seq(X)
  PROVE  AllKept(Members(seq, set), seq, set) /\ KeptInOrder(Members(seq, set), seq, set)
<1> DEFINE M(s) == Members(s, set)
           Each(s) == \A j \in DOMAIN s : s[j] \in set => \E m \in DOMAIN M(s) : M(s)[m] = s[j]
           Both(s) == \A i, j \in DOMAIN s : i < j /\ s[i] \in set /\ s[j] \in set =>
                        \E k, m \in DOMAIN M(s) : k < m /\ M(s)[k] = s[i] /\ M(s)[m] = s[j]
           Good == {s \in Seq(X) : Each(s) /\ Both(s)}
<1>1. <<>> \in Good
  OBVIOUS
<1>2. ASSUME NEW s \in Seq(X), NEW e \in X, s \in Good PROVE Append(s, e) \in Good
  <2> DEFINE t == Append(s, e)
             n == Len(s)
             l == Len(M(s))
  <2>1. /\ t \in Seq(X) /\ n \in Nat /\ DOMAIN s = 1 .. n /\ DOMAIN t = 1 .. n + 1
        /\ t[n + 1] = e /\ \A i \in 1 .. n : t[i] = s[i]
    BY AppendProperties
  <2>2. M(s) \in Seq(X \cap set)
    BY MembersSeq
  <2>3. l \in Nat /\ DOMAIN M(s) = 1 .. l
    <3> HIDE DEF M
    <3> QED BY <2>2
  <2>4. e \in set => /\ DOMAIN M(t) = 1 .. l + 1 /\ M(t)[l + 1] = e
                     /\ \A i \in 1 .. l : M(t)[i] = M(s)[i]
    <3>1. SUFFICES ASSUME e \in set
                   PROVE  /\ DOMAIN M(t) = 1 .. l + 1 /\ M(t)[l + 1] = e
                          /\ \A i \in 1 .. l : M(t)[i] = M(s)[i]
      OBVIOUS
    <3>2. M(t) = Append(M(s), e) /\ e \in X \cap set
      BY <3>1, MembersAppend
    <3>3. Append(M(s), e) \in Seq(X \cap set) /\ Len(Append(M(s), e)) = l + 1
      <4> HIDE DEF M
      <4> QED BY <2>2, <3>2, AppendProperties
    <3> HIDE DEF M
    <3> QED BY <2>2, <3>2, <3>3, AppendProperties
  <2>5. e \notin set => M(t) = M(s)
    BY MembersAppend
  <2>6. Each(s) /\ Both(s)
    BY <1>2
  <2> HIDE DEF M, t, n, l
  <2>7. Each(t)
    BY <2>1, <2>3, <2>4, <2>5, <2>6
  <2>8. Both(t)
    <3> SUFFICES ASSUME NEW i \in DOMAIN t, NEW j \in DOMAIN t, i < j,
                        t[i] \in set, t[j] \in set
                 PROVE  \E k, m \in DOMAIN M(t) : k < m /\ M(t)[k] = t[i] /\ M(t)[m] = t[j]
      OBVIOUS
    <3>1. i \in 1 .. n /\ t[i] = s[i]
      BY <2>1
    <3>2. CASE j \in 1 .. n
      <4>1. PICK k \in DOMAIN M(s), m \in DOMAIN M(s) :
              k < m /\ M(s)[k] = s[i] /\ M(s)[m] = s[j]
        BY <2>1, <2>6, <3>1, <3>2
      <4>2. k \in 1 .. l /\ m \in 1 .. l /\ t[j] = s[j]
        BY <2>1, <2>3, <3>2, <4>1
      <4>3. k \in DOMAIN M(t) /\ m \in DOMAIN M(t) /\ M(t)[k] = M(s)[k] /\ M(t)[m] = M(s)[m]
        BY <2>3, <2>4, <2>5, <4>2
      <4> QED BY <3>1, <4>1, <4>2, <4>3
    <3>3. CASE j = n + 1
      <4>1. PICK k \in DOMAIN M(s) : M(s)[k] = s[i]
        BY <2>1, <2>6, <3>1
      <4>2. e \in set
        BY <2>1, <3>3
      <4>3. k \in DOMAIN M(t) /\ l + 1 \in DOMAIN M(t) /\ k < l + 1
        BY <2>3, <2>4, <4>1, <4>2
      <4>4. M(t)[k] = t[i] /\ M(t)[l + 1] = t[j]
        BY <2>1, <2>3, <2>4, <3>1, <3>3, <4>1, <4>2
      <4> QED BY <4>3, <4>4
    <3> QED BY <2>1, <3>2, <3>3
  <2>9. t \in Good
    BY <2>1, <2>7, <2>8
  <2> QED BY <2>9 DEF t
<1>3. Seq(X) \subseteq Good
  <2> HIDE DEF Good
  <2> QED BY <1>1, <1>2, SeqInduction
<1>4. Each(seq) /\ Both(seq)
  BY <1>3
<1> QED BY <1>4 DEF AllKept, KeptInOrder

\* A selection of two sequences in a row is the two selections in a row.
LEMMA MembersConcat ==
  ASSUME NEW X, NEW set, NEW a \in Seq(X), NEW b \in Seq(X)
  PROVE  Members(a \o b, set) = Members(a, set) \o Members(b, set)
<1> DEFINE M(s) == Members(s, set)
           Good == {s \in Seq(X) : M(a \o s) = M(a) \o M(s)}
<1>1. <<>> \in Good
  <2>1. a \o <<>> = a /\ <<>> \in Seq(X)
    OBVIOUS
  <2>2. M(a) \in Seq(X)
    <3>1. M(a) \in Seq(X \cap set) /\ X \cap set \subseteq X
      BY MembersSeq
    <3> QED BY <3>1, SeqMonotonic
  <2>3. M(a) \o <<>> = M(a) /\ M(<<>>) = <<>>
    <3>1. M(<<>>) = <<>>
      BY MembersEmpty
    <3> HIDE DEF M
    <3> QED BY <2>2, <3>1
  <2> QED BY <2>1, <2>3
<1>2. ASSUME NEW s \in Seq(X), NEW e \in X, s \in Good PROVE Append(s, e) \in Good
  <2>1. a \o Append(s, e) = Append(a \o s, e) /\ a \o s \in Seq(X) /\ Append(s, e) \in Seq(X)
    OBVIOUS
  <2>2. /\ M(Append(a \o s, e)) = IF e \in set THEN Append(M(a \o s), e) ELSE M(a \o s)
        /\ M(Append(s, e)) = IF e \in set THEN Append(M(s), e) ELSE M(s)
    BY <2>1, MembersAppend
  <2>3. M(a) \in Seq(X \cap set) /\ M(s) \in Seq(X \cap set)
    BY MembersSeq
  <2>4. e \in set => M(a) \o Append(M(s), e) = Append(M(a) \o M(s), e)
    <3> HIDE DEF M
    <3> QED BY <2>3
  <2>5. M(a \o s) = M(a) \o M(s)
    BY <1>2
  <2>6. M(a \o Append(s, e)) = M(a) \o M(Append(s, e))
    <3> HIDE DEF M
    <3> QED BY <2>1, <2>2, <2>4, <2>5
  <2> QED BY <2>1, <2>6
<1>3. Seq(X) \subseteq Good
  <2> HIDE DEF Good
  <2> QED BY <1>1, <1>2, SeqInduction
<1> QED BY <1>3

\* All are selected.
LEMMA MembersAll ==
  ASSUME NEW X, NEW set, X \subseteq set PROVE \A seq \in Seq(X) : Members(seq, set) = seq
<1> DEFINE Good == {seq \in Seq(X) : Members(seq, set) = seq}
<1>1. <<>> \in Good
  BY MembersEmpty, EmptySeq
<1>2. ASSUME NEW seq \in Seq(X), NEW e \in X, seq \in Good PROVE Append(seq, e) \in Good
  <2>1. Append(seq, e) \in Seq(X) /\ e \in set
    BY AppendProperties
  <2> QED BY <1>2, <2>1, MembersAppend
<1>3. Seq(X) \subseteq Good
  <2> HIDE DEF Good
  <2> QED BY <1>1, <1>2, SeqInduction
<1> QED BY <1>3

-----------------------------------------------------------------------------
(* Lists of the vacant slots of a slab. *)

\* The list has each vacant slot exactly once and no other.
ListsVacant(list, slots, Ids, none) ==
    /\ \A i, j \in DOMAIN list : list[i] = list[j] => i = j
    /\ \A id \in Ids : slots[id] = none <=> \E i \in DOMAIN list : list[i] = id

\* All slots are vacant, and listed from the last to the first.
LEMMA VacantAtFirst ==
  ASSUME NEW capacity \in Nat, NEW none, NEW slots, NEW list,
         slots = [id \in 0 .. capacity - 1 |-> none],
         list = [i \in 1 .. capacity |-> capacity - i]
  PROVE  list \in Seq(0 .. capacity - 1) /\ ListsVacant(list, slots, 0 .. capacity - 1, none)
<1>1. list \in [1 .. capacity -> 0 .. capacity - 1]
  OBVIOUS
<1>2. list \in Seq(0 .. capacity - 1) /\ DOMAIN list = 1 .. capacity
  BY <1>1
<1>3. \A i, j \in DOMAIN list : list[i] = list[j] => i = j
  OBVIOUS
<1>4. ASSUME NEW id \in 0 .. capacity - 1 PROVE \E i \in DOMAIN list : list[i] = id
  <2>1. capacity - id \in DOMAIN list /\ list[capacity - id] = id
    OBVIOUS
  <2> QED BY <2>1
<1> QED BY <1>2, <1>3, <1>4 DEF ListsVacant

\* The last of the list is vacant; it may be taken off the list and filled.
LEMMA VacantTaken ==
  ASSUME NEW Ids, NEW none, NEW slots, NEW list \in Seq(Ids),
         ListsVacant(list, slots, Ids, none), list # <<>>,
         NEW last, last = list[Len(list)],
         NEW after, after[last] # none, \A id \in Ids : id # last => after[id] = slots[id]
  PROVE  /\ last \in Ids /\ slots[last] = none
         /\ SubSeq(list, 1, Len(list) - 1) \in Seq(Ids)
         /\ ListsVacant(SubSeq(list, 1, Len(list) - 1), after, Ids, none)
<1> DEFINE n == Len(list)
<1>1. n \in Nat \ {0} /\ DOMAIN list = 1 .. n /\ \A i \in 1 .. n : list[i] \in Ids
  OBVIOUS
<1>2. last \in Ids /\ slots[last] = none
  BY <1>1 DEF ListsVacant
<1>3. PICK rest : rest = SubSeq(list, 1, n - 1)
  OBVIOUS
<1>4. rest \in Seq(Ids) /\ Len(rest) = n - 1 /\ \A i \in 1 .. n - 1 : rest[i] = list[i]
  <2>1. 1 \in Int /\ n - 1 \in Int /\ \A i \in 1 .. n - 1 : list[i] \in Ids
    BY <1>1
  <2>2. /\ SubSeq(list, 1, n - 1) \in Seq(Ids)
        /\ Len(SubSeq(list, 1, n - 1)) = IF 1 <= n - 1 THEN n - 1 - 1 + 1 ELSE 0
        /\ \A i \in 1 .. n - 1 - 1 + 1 : SubSeq(list, 1, n - 1)[i] = list[1 + i - 1]
    BY <2>1, SubSeqProperties
  <2> QED BY <1>1, <1>3, <2>2
<1>5. DOMAIN rest = 1 .. n - 1
  BY <1>1, <1>4
<1>6. \A i, j \in DOMAIN rest : rest[i] = rest[j] => i = j
  BY <1>1, <1>4, <1>5 DEF ListsVacant
<1>7. ASSUME NEW id \in Ids
      PROVE  after[id] = none <=> \E i \in DOMAIN rest : rest[i] = id
  <2>1. CASE id = last
    <3>1. after[id] # none
      BY <2>1
    <3>2. \A i \in 1 .. n - 1 : list[i] # id
      BY <1>1, <2>1 DEF ListsVacant
    <3>3. \A i \in DOMAIN rest : rest[i] # id
      BY <1>4, <1>5, <3>2
    <3> QED BY <3>1, <3>3
  <2>2. CASE id # last
    <3>1. after[id] = slots[id]
      BY <2>2
    <3>2. \A i \in 1 .. n : list[i] = id => i \in 1 .. n - 1
      BY <1>1, <2>2
    <3>3. slots[id] = none <=> \E i \in 1 .. n : list[i] = id
      BY <1>1 DEF ListsVacant
    <3>4. (\E i \in 1 .. n : list[i] = id) <=> \E i \in DOMAIN rest : rest[i] = id
      <4>1. \A i \in 1 .. n : list[i] = id => i \in DOMAIN rest /\ rest[i] = id
        BY <1>4, <1>5, <3>2
      <4>2. \A i \in DOMAIN rest : rest[i] = id => i \in 1 .. n /\ list[i] = id
        BY <1>1, <1>4, <1>5
      <4> QED BY <4>1, <4>2
    <3> QED BY <3>1, <3>3, <3>4
  <2> QED BY <2>1, <2>2
<1>8. ListsVacant(rest, after, Ids, none)
  BY <1>6, <1>7 DEF ListsVacant
<1> QED BY <1>2, <1>3, <1>4, <1>8

\* A slot that is not vacant may be emptied and listed.
LEMMA VacantReturned ==
  ASSUME NEW Ids, NEW none, NEW slots, DOMAIN slots = Ids, NEW list \in Seq(Ids),
         ListsVacant(list, slots, Ids, none), NEW id \in Ids, slots[id] # none
  PROVE  /\ Append(list, id) \in Seq(Ids)
         /\ ListsVacant(Append(list, id), [slots EXCEPT ![id] = none], Ids, none)
<1> DEFINE n == Len(list)
<1>1. n \in Nat /\ DOMAIN list = 1 .. n
  OBVIOUS
<1>2. PICK more, after : more = Append(list, id) /\ after = [slots EXCEPT ![id] = none]
  OBVIOUS
<1>3. /\ more \in Seq(Ids) /\ Len(more) = n + 1 /\ DOMAIN more = 1 .. n + 1
      /\ \A i \in 1 .. n : more[i] = list[i]
      /\ more[n + 1] = id
  BY <1>1, <1>2, AppendProperties, LenProperties
<1>4. \A i \in 1 .. n : list[i] # id
  BY <1>1 DEF ListsVacant
<1>5. \A i, j \in DOMAIN more : more[i] = more[j] => i = j
  BY <1>1, <1>3, <1>4 DEF ListsVacant
<1>6. ASSUME NEW k \in Ids
      PROVE  after[k] = none <=> \E i \in DOMAIN more : more[i] = k
  <2>1. CASE k = id
    BY <1>1, <1>2, <1>3, <2>1
  <2>2. CASE k # id
    <3>1. after[k] = slots[k]
      BY <1>2, <2>2
    <3> QED BY <1>1, <1>3, <2>2, <3>1 DEF ListsVacant
  <2> QED BY <2>1, <2>2
<1> QED BY <1>2, <1>3, <1>5, <1>6 DEF ListsVacant
=============================================================================
