-------------------------------- MODULE Induction --------------------------------
(***************************************************************************)
(* Induction over numbers and finite sets, for recursive functions and     *)
(* sums.  The induction theorems of the library have an operator for a     *)
(* parameter; here the property is the set of what has it.                 *)
(***************************************************************************)
EXTENDS Integers, FiniteSets, Functions, FiniteSetTheorems, WellFoundedInduction, TLAPS

Smaller == {p \in Nat \X Nat : p[1] < p[2]}

\* A set of numbers that is not empty has a least element.
LEMMA LeastElement ==
  ASSUME NEW N, N \subseteq Nat, N # {}
  PROVE  \E n \in N : \A m \in N : n <= m
<1>1. IsWellFoundedOn(Smaller, Nat)
  BY NatLessThanWellFounded DEF OpToRel, Smaller
<1>2. PICK n \in N : \A m \in N : <<m, n>> \notin Smaller
  BY <1>1, WFMin, Zenon
<1>3. ASSUME NEW m \in N PROVE n <= m
  <2>1. n \in Nat /\ m \in Nat /\ <<m, n>> \notin Smaller
    BY <1>2
  <2> QED
    BY <2>1 DEF Smaller
<1> QED
  BY <1>3

\* A set with zero and the successor of each of its numbers has them all.
LEMMA Induct ==
  ASSUME NEW N, 0 \in N, \A n \in Nat : n \in N => n + 1 \in N
  PROVE  Nat \subseteq N
<1> SUFFICES ASSUME Nat \ N # {} PROVE FALSE
  OBVIOUS
<1>1. PICK n \in Nat \ N : \A m \in Nat \ N : n <= m
  BY LeastElement, Nat \ N \subseteq Nat
<1>2. n # 0 /\ n - 1 \in Nat /\ n - 1 \notin Nat \ N /\ n = (n - 1) + 1
  BY <1>1
<1> QED
  BY <1>1, <1>2

\* Likewise for the subsets of a finite set.
LEMMA InductOnSubsets ==
  ASSUME NEW S, IsFiniteSet(S), NEW P, {} \in P,
         \A A \in SUBSET S, x \in S : A \in P /\ x \notin A => A \cup {x} \in P
  PROVE  SUBSET S \subseteq P
<1> DEFINE N == {n \in Nat : \A A \in SUBSET S : Cardinality(A) = n => A \in P}
<1>1. \A A \in SUBSET S : IsFiniteSet(A) /\ Cardinality(A) \in Nat
  BY FS_Subset, FS_CardinalityType
<1>2. 0 \in N
  BY <1>1, FS_EmptySet
<1>3. ASSUME NEW n \in Nat, n \in N PROVE n + 1 \in N
  <2> SUFFICES ASSUME NEW A \in SUBSET S, Cardinality(A) = n + 1 PROVE A \in P
    OBVIOUS
  <2>1. A # {}
    BY FS_EmptySet
  <2>2. PICK x \in A : TRUE
    BY <2>1
  <2>3. Cardinality(A \ {x}) = Cardinality(A) - 1
    BY <1>1, FS_RemoveElement
  <2>4. A \ {x} \in SUBSET S /\ A \ {x} \in P
    BY <1>3, <2>3
  <2>5. A = (A \ {x}) \cup {x} /\ x \in S /\ x \notin A \ {x}
    OBVIOUS
  <2> QED
    BY <2>4, <2>5, Zenon
<1>4. Nat \subseteq N
  <2> HIDE DEF N
  <2> QED
    BY <1>2, <1>3, Induct
<1> QED
  BY <1>1, <1>4

\* What is computed step by step from a first value.
Iterated(g, n, base, step) ==
  g[0] = base /\ \A i \in 1 .. n : g[i] = step[<<i, g[i - 1]>>]

LEMMA Iterates ==
  ASSUME NEW n \in Nat, NEW V, NEW base \in V, NEW step \in [(1 .. n) \X V -> V]
  PROVE  \E g \in [0 .. n -> V] : Iterated(g, n, base, step)
<1> DEFINE Upto(k, g) == g[0] = base /\ \A i \in 1 .. k : g[i] = step[<<i, g[i - 1]>>]
           N == {k \in Nat : k <= n => \E g \in [0 .. k -> V] : Upto(k, g)}
<1>1. 0 \in N
  <2>1. [i \in 0 .. 0 |-> base] \in [0 .. 0 -> V] /\ Upto(0, [i \in 0 .. 0 |-> base])
    OBVIOUS
  <2> QED
    BY <2>1
<1>2. ASSUME NEW k \in Nat, k \in N PROVE k + 1 \in N
  <2> SUFFICES ASSUME k + 1 <= n PROVE \E g \in [0 .. k + 1 -> V] : Upto(k + 1, g)
    OBVIOUS
  <2>1. PICK g \in [0 .. k -> V] : Upto(k, g)
    BY <1>2
  <2> DEFINE h == [i \in 0 .. k + 1 |-> IF i = k + 1 THEN step[<<k + 1, g[k]>>] ELSE g[i]]
  <2>2. h \in [0 .. k + 1 -> V]
    <3>1. <<k + 1, g[k]>> \in (1 .. n) \X V
      OBVIOUS
    <3>2. step[<<k + 1, g[k]>>] \in V
      BY <3>1
    <3> QED
      BY <3>2
  <2>3. Upto(k + 1, h)
    <3>1. h[0] = base
      BY <2>1
    <3>2. ASSUME NEW i \in 1 .. k PROVE h[i] = step[<<i, h[i - 1]>>]
      <4>1. h[i] = g[i] /\ h[i - 1] = g[i - 1]
        OBVIOUS
      <4>2. g[i] = step[<<i, g[i - 1]>>]
        BY <2>1
      <4> QED
        BY <4>1, <4>2
    <3>3. h[k + 1] = step[<<k + 1, h[(k + 1) - 1]>>]
      <4>1. (k + 1) - 1 = k /\ h[k + 1] = step[<<k + 1, g[k]>>] /\ h[k] = g[k]
        OBVIOUS
      <4> HIDE DEF h
      <4> QED
        BY <4>1
    <3> HIDE DEF h
    <3> QED
      BY <3>1, <3>2, <3>3
  <2> QED
    BY <2>2, <2>3
<1>3. Nat \subseteq N
  <2> HIDE DEF N
  <2> QED
    BY <1>1, <1>2, Induct
<1>4. \E g \in [0 .. n -> V] : Upto(n, g)
  BY <1>3
<1> QED
  BY <1>4 DEF Iterated
-------------------------------------------------------------------------------
\* Sums of the values of functions over finite sets: SumFunctionOnSet.
Chosen(A) == CHOOSE x \in A : TRUE

\* What MapThenFoldSet computes the sums of subsets with.
IsSumOn(sum, f, D) ==
  sum = [A \in D |-> IF A = {} THEN 0 ELSE f[Chosen(A)] + sum[A \ {Chosen(A)}]]

\* Two such functions agree where their summands do.
LEMMA SumsAgree ==
  ASSUME NEW s, NEW t, NEW f, NEW g, NEW A, NEW B,
         IsSumOn(s, f, SUBSET A), IsSumOn(t, g, SUBSET B),
         NEW C, IsFiniteSet(C), C \subseteq A, C \subseteq B, \A x \in C : f[x] = g[x]
  PROVE  s[C] = t[C]
<1> DEFINE N == {n \in Nat : \A D \in SUBSET C : Cardinality(D) = n => s[D] = t[D]}
<1>1. \A D \in SUBSET C : IsFiniteSet(D) /\ Cardinality(D) \in Nat
  BY FS_Subset, FS_CardinalityType
<1>2. 0 \in N
  <2> SUFFICES ASSUME NEW D \in SUBSET C, Cardinality(D) = 0 PROVE s[D] = t[D]
    OBVIOUS
  <2>1. D = {}
    BY <1>1, FS_EmptySet
  <2>2. {} \in SUBSET A /\ {} \in SUBSET B
    OBVIOUS
  <2>3. s[{}] = 0 /\ t[{}] = 0
    BY <2>2 DEF IsSumOn
  <2> QED
    BY <2>1, <2>3
<1>3. ASSUME NEW n \in Nat, n \in N PROVE n + 1 \in N
  <2> SUFFICES ASSUME NEW D \in SUBSET C, Cardinality(D) = n + 1 PROVE s[D] = t[D]
    OBVIOUS
  <2>1. D # {}
    BY FS_EmptySet
  <2>2. Chosen(D) \in D
    BY <2>1 DEF Chosen
  <2> DEFINE E == D \ {Chosen(D)}
  <2>3. Cardinality(E) = Cardinality(D) - 1
    BY <1>1, <2>2, FS_RemoveElement
  <2>4. E \in SUBSET C
    OBVIOUS
  <2>5. s[E] = t[E]
    BY <1>3, <2>3, <2>4
  <2>6. s[D] = f[Chosen(D)] + s[E] /\ t[D] = g[Chosen(D)] + t[E]
    <3>1. D \in SUBSET A /\ D \in SUBSET B
      OBVIOUS
    <3> QED
      BY <2>1, <3>1 DEF IsSumOn
  <2>7. f[Chosen(D)] = g[Chosen(D)]
    BY <2>2
  <2> HIDE DEF E
  <2> QED
    BY <2>5, <2>6, <2>7
<1>4. Nat \subseteq N
  <2> HIDE DEF N
  <2> QED
    BY <1>2, <1>3, Induct
<1> QED
  BY <1>1, <1>4

\* There is one.
LEMMA SumsExist ==
  ASSUME NEW S, IsFiniteSet(S), NEW f
  PROVE  \E sum : IsSumOn(sum, f, SUBSET S)
<1> DEFINE D(n) == {A \in SUBSET S : Cardinality(A) <= n}
           N == {n \in Nat : \E sum : IsSumOn(sum, f, D(n))}
<1>1. \A A \in SUBSET S : IsFiniteSet(A) /\ Cardinality(A) \in Nat
  BY FS_Subset, FS_CardinalityType
<1>2. 0 \in N
  <2> DEFINE sum == [A \in D(0) |-> 0]
  <2>1. \A A \in D(0) : A = {}
    BY <1>1, FS_EmptySet
  <2>2. IsSumOn(sum, f, D(0))
    BY <2>1 DEF IsSumOn
  <2> QED
    BY <2>2
<1>3. ASSUME NEW n \in Nat, n \in N PROVE n + 1 \in N
  <2>1. PICK sum : IsSumOn(sum, f, D(n))
    BY <1>3
  <2> DEFINE next == [A \in D(n + 1) |->
                       IF A = {} THEN 0 ELSE f[Chosen(A)] + sum[A \ {Chosen(A)}]]
  <2>2. ASSUME NEW A \in D(n + 1), A # {}
        PROVE  next[A \ {Chosen(A)}] = sum[A \ {Chosen(A)}]
    <3> DEFINE B == A \ {Chosen(A)}
    <3>1. Chosen(A) \in A
      BY <2>2 DEF Chosen
    <3>2. Cardinality(B) = Cardinality(A) - 1
      BY <1>1, <3>1, FS_RemoveElement
    <3>3. B \in D(n) /\ B \in D(n + 1)
      BY <1>1, <3>2
    <3> QED
      BY <2>1, <3>3 DEF IsSumOn
  <2>3. next = [A \in D(n + 1) |->
                 IF A = {} THEN 0 ELSE f[Chosen(A)] + next[A \ {Chosen(A)}]]
    <3>1. \A A \in D(n + 1) : next[A] =
            IF A = {} THEN 0 ELSE f[Chosen(A)] + next[A \ {Chosen(A)}]
      BY <2>2
    <3> QED
      BY <3>1
  <2>4. IsSumOn(next, f, D(n + 1))
    BY <2>3, Zenon DEF IsSumOn
  <2> QED
    BY <2>4
<1>4. Nat \subseteq N
  <2> HIDE DEF N
  <2> QED
    BY <1>2, <1>3, Induct
<1>5. Cardinality(S) \in Nat /\ D(Cardinality(S)) = SUBSET S
  BY <1>1, FS_Subset
<1>6. PICK sum : IsSumOn(sum, f, D(Cardinality(S)))
  BY <1>4, <1>5
<1> QED
  BY <1>5, <1>6

LEMMA SumIs ==
  ASSUME NEW S, IsFiniteSet(S), NEW f, NEW sum, IsSumOn(sum, f, SUBSET S),
         NEW A \in SUBSET S
  PROVE  SumFunctionOnSet(f, A) = sum[A]
<1> DEFINE own == CHOOSE own : IsSumOn(own, f, SUBSET A)
<1>1. IsFiniteSet(A)
  BY FS_Subset
<1>2. IsSumOn(own, f, SUBSET A)
  BY <1>1, SumsExist, Zenon
<1>3. SumFunctionOnSet(f, A) = own[A]
  BY Zenon DEF SumFunctionOnSet, FoldFunctionOnSet, MapThenFoldSet, IsSumOn, Chosen
<1> HIDE DEF own
<1>4. own[A] = sum[A]
  <2>1. A \subseteq A /\ A \subseteq S /\ \A x \in A : f[x] = f[x]
    OBVIOUS
  <2> QED
    BY <1>1, <1>2, <2>1, SumsAgree
<1> QED
  BY <1>3, <1>4

LEMMA SumEmpty == \A f : SumFunctionOnSet(f, {}) = 0
<1> SUFFICES ASSUME NEW f PROVE SumFunctionOnSet(f, {}) = 0
  OBVIOUS
<1>1. IsFiniteSet({})
  BY FS_EmptySet
<1>2. PICK sum : IsSumOn(sum, f, SUBSET {})
  BY <1>1, SumsExist
<1>3. {} \in SUBSET {}
  OBVIOUS
<1>4. sum[{}] = 0
  BY <1>2, <1>3 DEF IsSumOn
<1> QED
  BY <1>1, <1>2, <1>3, <1>4, SumIs

\* Equal summands have equal sums.
LEMMA SumSame ==
  ASSUME NEW S, IsFiniteSet(S), NEW f, NEW g, \A x \in S : f[x] = g[x]
  PROVE  SumFunctionOnSet(f, S) = SumFunctionOnSet(g, S)
<1>1. PICK s : IsSumOn(s, f, SUBSET S)
  BY SumsExist
<1>2. PICK t : IsSumOn(t, g, SUBSET S)
  BY SumsExist
<1>3. S \subseteq S /\ S \in SUBSET S
  OBVIOUS
<1>4. s[S] = t[S]
  BY <1>1, <1>2, <1>3, SumsAgree
<1>5. SumFunctionOnSet(f, S) = s[S] /\ SumFunctionOnSet(g, S) = t[S]
  BY <1>1, <1>2, <1>3, SumIs
<1> QED
  BY <1>4, <1>5

LEMMA SumChosen ==
  ASSUME NEW S, IsFiniteSet(S), S # {}, NEW f
  PROVE  /\ Chosen(S) \in S
         /\ SumFunctionOnSet(f, S) = f[Chosen(S)] + SumFunctionOnSet(f, S \ {Chosen(S)})
<1>1. Chosen(S) \in S
  BY DEF Chosen
<1>2. PICK sum : IsSumOn(sum, f, SUBSET S)
  BY SumsExist
<1>3. S \in SUBSET S /\ S \ {Chosen(S)} \in SUBSET S
  OBVIOUS
<1>4. sum[S] = f[Chosen(S)] + sum[S \ {Chosen(S)}]
  BY <1>2, <1>3 DEF IsSumOn
<1>5. SumFunctionOnSet(f, S) = sum[S] /\ SumFunctionOnSet(f, S \ {Chosen(S)}) = sum[S \ {Chosen(S)}]
  BY <1>2, <1>3, SumIs
<1> QED
  BY <1>1, <1>4, <1>5

\* A sum of natural numbers is one, and any summand may be the one taken first.
LEMMA SumNat ==
  ASSUME NEW S, IsFiniteSet(S), NEW f, \A x \in S : f[x] \in Nat
  PROVE  /\ SumFunctionOnSet(f, S) \in Nat
         /\ \A x \in S : SumFunctionOnSet(f, S) = f[x] + SumFunctionOnSet(f, S \ {x})
<1> DEFINE Holds(A) == /\ SumFunctionOnSet(f, A) \in Nat
                      /\ \A x \in A : SumFunctionOnSet(f, A) = f[x] + SumFunctionOnSet(f, A \ {x})
           N == {n \in Nat : \A A \in SUBSET S : Cardinality(A) <= n => Holds(A)}
<1>1. \A A \in SUBSET S : IsFiniteSet(A) /\ Cardinality(A) \in Nat
  BY FS_Subset, FS_CardinalityType
<1>2. 0 \in N
  <2> SUFFICES ASSUME NEW A \in SUBSET S, Cardinality(A) <= 0 PROVE Holds(A)
    OBVIOUS
  <2>1. A = {}
    BY <1>1, FS_EmptySet
  <2> QED
    BY <2>1, SumEmpty
<1>3. ASSUME NEW n \in Nat, n \in N PROVE n + 1 \in N
  <2> SUFFICES ASSUME NEW A \in SUBSET S, Cardinality(A) <= n + 1, A # {} PROVE Holds(A)
    BY SumEmpty
  <2> DEFINE c == Chosen(A)
  <2>1. c \in A /\ SumFunctionOnSet(f, A) = f[c] + SumFunctionOnSet(f, A \ {c})
    BY <1>1, SumChosen
  <2>2. \A x \in A : Holds(A \ {x})
    <3> SUFFICES ASSUME NEW x \in A PROVE Holds(A \ {x})
      OBVIOUS
    <3>1. Cardinality(A \ {x}) = Cardinality(A) - 1
      BY <1>1, FS_RemoveElement
    <3>2. A \ {x} \in SUBSET S /\ Cardinality(A \ {x}) <= n
      BY <1>1, <3>1
    <3> HIDE DEF Holds
    <3> QED
      BY <1>3, <3>2
  <2>3. SumFunctionOnSet(f, A) \in Nat
    BY <2>1, <2>2
  <2>4. ASSUME NEW x \in A, x # c PROVE SumFunctionOnSet(f, A) = f[x] + SumFunctionOnSet(f, A \ {x})
    <3>1. SumFunctionOnSet(f, A \ {c}) = f[x] + SumFunctionOnSet(f, (A \ {c}) \ {x})
      BY <2>1, <2>2, <2>4
    <3>2. SumFunctionOnSet(f, A \ {x}) = f[c] + SumFunctionOnSet(f, (A \ {x}) \ {c})
      BY <2>1, <2>2, <2>4
    <3>3. (A \ {c}) \ {x} = (A \ {x}) \ {c}
      OBVIOUS
    <3>4. SumFunctionOnSet(f, (A \ {x}) \ {c}) \in Nat
      <4>1. (A \ {x}) \ {c} \in SUBSET S
        OBVIOUS
      <4>2. Cardinality((A \ {x}) \ {c}) <= Cardinality(A \ {x})
        BY <1>1, FS_Subset
      <4>3. Cardinality(A \ {x}) = Cardinality(A) - 1
        BY <1>1, FS_RemoveElement
      <4>4. Cardinality((A \ {x}) \ {c}) <= n
        BY <1>1, <4>1, <4>2, <4>3
      <4>5. Holds((A \ {x}) \ {c})
        <5> HIDE DEF Holds
        <5> QED
          BY <1>3, <4>1, <4>4
      <4> QED
        BY <4>5
    <3>5. f[x] \in Nat /\ f[c] \in Nat
      BY <2>1
    <3> HIDE DEF c
    <3> QED
      BY <2>1, <3>1, <3>2, <3>3, <3>4, <3>5
  <2> QED
    BY <2>1, <2>3, <2>4
<1>4. Nat \subseteq N
  <2> HIDE DEF N
  <2> QED
    BY <1>2, <1>3, Induct
<1> QED
  BY <1>1, <1>4

LEMMA SumAdd ==
  ASSUME NEW S, IsFiniteSet(S), NEW x, x \notin S, NEW f,
         f[x] \in Nat, \A y \in S : f[y] \in Nat
  PROVE  SumFunctionOnSet(f, S \cup {x}) = f[x] + SumFunctionOnSet(f, S)
<1>1. IsFiniteSet(S \cup {x})
  BY FS_AddElement
<1>2. \A y \in S \cup {x} : f[y] \in Nat
  OBVIOUS
<1>3. SumFunctionOnSet(f, S \cup {x}) = f[x] + SumFunctionOnSet(f, (S \cup {x}) \ {x})
  BY <1>1, <1>2, SumNat
<1>4. (S \cup {x}) \ {x} = S
  OBVIOUS
<1> QED
  BY <1>3, <1>4

\* Who sums fewer gets no more.
LEMMA SumMonotone ==
  ASSUME NEW S, IsFiniteSet(S), NEW f, \A x \in S : f[x] \in Nat, NEW A \in SUBSET S
  PROVE  SumFunctionOnSet(f, A) <= SumFunctionOnSet(f, S)
<1> DEFINE P == {B \in SUBSET S : SumFunctionOnSet(f, A) <= SumFunctionOnSet(f, A \cup B)}
<1>1. IsFiniteSet(A) /\ \A B \in SUBSET S : IsFiniteSet(A \cup B)
  BY FS_Subset
<1>2. {} \in P
  <2>1. A \cup {} = A /\ SumFunctionOnSet(f, A) \in Nat
    BY <1>1, SumNat
  <2> QED
    BY <2>1
<1>3. ASSUME NEW B \in SUBSET S, NEW x \in S, B \in P, x \notin B
      PROVE  B \cup {x} \in P
  <2>1. CASE x \in A
    <3>1. A \cup (B \cup {x}) = A \cup B
      BY <2>1
    <3> QED
      BY <1>3, <3>1
  <2>2. CASE x \notin A
    <3>1. A \cup (B \cup {x}) = (A \cup B) \cup {x} /\ x \notin A \cup B
      BY <1>3, <2>2
    <3>2. SumFunctionOnSet(f, (A \cup B) \cup {x}) = f[x] + SumFunctionOnSet(f, A \cup B)
      BY <1>1, <3>1, SumAdd
    <3>3. SumFunctionOnSet(f, A) \in Nat /\ SumFunctionOnSet(f, A \cup B) \in Nat
      BY <1>1, SumNat
    <3>4. SumFunctionOnSet(f, A) <= SumFunctionOnSet(f, A \cup B) /\ f[x] \in Nat
      BY <1>3
    <3>5. SumFunctionOnSet(f, A) <= SumFunctionOnSet(f, (A \cup B) \cup {x})
      BY <3>2, <3>3, <3>4
    <3> QED
      BY <3>1, <3>5
  <2> QED
    BY <2>1, <2>2
<1>4. SUBSET S \subseteq P
  <2> HIDE DEF P
  <2> QED
    BY <1>2, <1>3, InductOnSubsets
<1>5. S \in P
  BY <1>4
<1> QED
  BY <1>5, A \cup S = S

\* What has one summand that is larger by one is larger by one.
LEMMA SumIncrement ==
  ASSUME NEW S, IsFiniteSet(S), NEW f, \A x \in S : f[x] \in Nat,
         NEW y \in S, NEW g, g[y] = f[y] + 1, \A x \in S \ {y} : g[x] = f[x]
  PROVE  SumFunctionOnSet(g, S) = SumFunctionOnSet(f, S) + 1
<1>1. IsFiniteSet(S \ {y})
  BY FS_RemoveElement
<1>2. SumFunctionOnSet(g, S \ {y}) = SumFunctionOnSet(f, S \ {y})
  BY <1>1, SumSame
<1>3. \A x \in S : g[x] \in Nat
  OBVIOUS
<1>4. SumFunctionOnSet(g, S) = g[y] + SumFunctionOnSet(g, S \ {y}) /\ SumFunctionOnSet(f, S) = f[y] + SumFunctionOnSet(f, S \ {y})
  BY <1>3, SumNat
<1>5. SumFunctionOnSet(f, S \ {y}) \in Nat
  BY <1>1, SumNat
<1> QED
  BY <1>2, <1>4, <1>5

\* The numbers of elements of sets that have none in common add up to that of their
\* union.
LEMMA SumOfCounts ==
  ASSUME NEW S, IsFiniteSet(S), NEW U, IsFiniteSet(U), NEW parts \in [S -> SUBSET U],
         \A x, y \in S : x # y => parts[x] \cap parts[y] = {},
         NEW f, \A x \in S : f[x] = Cardinality(parts[x])
  PROVE  SumFunctionOnSet(f, S) = Cardinality(UNION {parts[x] : x \in S})
<1> DEFINE Parts(A) == UNION {parts[x] : x \in A}
           P == {A \in SUBSET S : SumFunctionOnSet(f, A) = Cardinality(Parts(A))}
<1>1. \A A \in SUBSET S : IsFiniteSet(A) /\ Parts(A) \in SUBSET U
  BY FS_Subset
<1>2. \A B \in SUBSET U : IsFiniteSet(B) /\ Cardinality(B) \in Nat
  BY FS_Subset, FS_CardinalityType
<1>3. \A x \in S : f[x] \in Nat
  BY <1>2
<1>4. {} \in P
  <2>1. Parts({}) = {}
    OBVIOUS
  <2> QED
    BY <2>1, SumEmpty, FS_EmptySet
<1>5. ASSUME NEW A \in SUBSET S, NEW x \in S, A \in P, x \notin A
      PROVE  A \cup {x} \in P
  <2>1. Parts(A \cup {x}) = Parts(A) \cup parts[x]
    OBVIOUS
  <2>2. Parts(A) \cap parts[x] = {}
    BY <1>5
  <2>3. Cardinality(Parts(A) \cup parts[x]) = Cardinality(Parts(A)) + Cardinality(parts[x])
    <3>1. IsFiniteSet(Parts(A)) /\ IsFiniteSet(parts[x])
      BY <1>1, <1>2
    <3>2. Cardinality(Parts(A) \cup parts[x])
            = Cardinality(Parts(A)) + Cardinality(parts[x]) - Cardinality(Parts(A) \cap parts[x])
      BY <3>1, FS_Union
    <3>3. Cardinality(Parts(A) \cap parts[x]) = 0
      BY <2>2, FS_EmptySet
    <3>4. Cardinality(Parts(A)) \in Nat /\ Cardinality(parts[x]) \in Nat
      BY <1>1, <1>2
    <3> QED
      BY <3>2, <3>3, <3>4
  <2>4. SumFunctionOnSet(f, A \cup {x}) = f[x] + SumFunctionOnSet(f, A)
    BY <1>1, <1>3, <1>5, SumAdd
  <2>5. Cardinality(Parts(A)) \in Nat /\ Cardinality(parts[x]) \in Nat
    BY <1>1, <1>2
  <2>6. SumFunctionOnSet(f, A) = Cardinality(Parts(A)) /\ f[x] = Cardinality(parts[x])
    BY <1>5
  <2>7. SumFunctionOnSet(f, A \cup {x}) = Cardinality(Parts(A \cup {x}))
    <3>1. Cardinality(Parts(A \cup {x})) = Cardinality(Parts(A) \cup parts[x])
      BY <2>1, Zenon
    <3> HIDE DEF Parts
    <3> QED
      BY <2>3, <2>4, <2>5, <2>6, <3>1
  <2> QED
    BY <2>7
<1>6. SUBSET S \subseteq P
  <2> HIDE DEF P
  <2> QED
    BY <1>4, <1>5, InductOnSubsets
<1>7. S \in P
  BY <1>6
<1> QED
  BY <1>7
===============================================================================
