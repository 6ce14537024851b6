----------------------------- MODULE SpanTreeProofs -----------------------------
(***************************************************************************)
(* The properties of SpanTree, for any runs and jobs with any steps,       *)
(* delivered in any order and more than once.                              *)
(*                                                                         *)
(* The texts come first: strconv.Atoi undoes %d, and a text tells its run, *)
(* its job and its step but for near runs and near jobs.  Then the         *)
(* archive: the names of its files tell the same.                          *)
(* Inductive is that spans come of jobs (Known), all spans of a job at the *)
(* same time (Whole), root spans of runs and records of archives that were *)
(* converted (KnownRuns).                                                  *)
(***************************************************************************)
EXTENDS SpanTree, Induction, SequenceTheorems, TLAPS

\* The body of Digits, and a function that is Digits up to n.
DigitsOf(d, n) == IF n < 10 THEN <<n>> ELSE Append(d[n \div 10], n % 10)
DigitsUpto(d, n) == d = [k \in 0 .. n |-> DigitsOf(d, k)]

LEMMA Tenth ==
  ASSUME NEW n \in Nat, n >= 10
  PROVE  /\ n \div 10 \in Nat /\ n \div 10 < n /\ n % 10 \in 0 .. 9
         /\ n = 10 * (n \div 10) + (n % 10)
  OBVIOUS

LEMMA DigitsAgree ==
  ASSUME NEW d, NEW e, NEW m \in Nat, NEW n \in Nat, DigitsUpto(d, m), DigitsUpto(e, n)
  PROVE  \A k \in Nat : k <= m /\ k <= n => d[k] = e[k]
<1> DEFINE Bad == {k \in Nat : k <= m /\ k <= n /\ d[k] # e[k]}
<1> SUFFICES ASSUME Bad # {} PROVE FALSE
  OBVIOUS
<1>1. PICK k \in Bad : \A i \in Bad : k <= i
  BY LeastElement, Bad \subseteq Nat
<1>2. k \in 0 .. m /\ k \in 0 .. n /\ d[k] # e[k]
  OBVIOUS
<1>3. d[k] = DigitsOf(d, k) /\ e[k] = DigitsOf(e, k)
  BY <1>2 DEF DigitsUpto
<1>4. CASE k < 10
  BY <1>2, <1>3, <1>4 DEF DigitsOf
<1>5. CASE k >= 10
  <2>1. k \div 10 \in Nat /\ k \div 10 < k
    BY <1>5, Tenth
  <2>2. d[k \div 10] = e[k \div 10]
    BY <1>1, <2>1
  <2> QED
    BY <1>2, <1>3, <1>5, <2>2 DEF DigitsOf
<1> QED
  BY <1>2, <1>4, <1>5

LEMMA DigitsExist == \A n \in Nat : \E d : DigitsUpto(d, n)
<1> DEFINE N == {n \in Nat : \E d : DigitsUpto(d, n)}
<1>1. 0 \in N
  <2>1. DigitsUpto([k \in 0 .. 0 |-> <<0>>], 0)
    BY DEF DigitsUpto, DigitsOf
  <2> QED
    BY <2>1
<1>2. ASSUME NEW n \in Nat, n \in N PROVE n + 1 \in N
  <2>1. PICK d : DigitsUpto(d, n)
    BY <1>2
  <2> DEFINE e == [k \in 0 .. n + 1 |-> DigitsOf(d, k)]
  <2>2. \A k \in 0 .. n : e[k] = d[k]
    BY <2>1 DEF DigitsUpto
  <2>3. \A k \in 0 .. n + 1 : DigitsOf(d, k) = DigitsOf(e, k)
    <3> SUFFICES ASSUME NEW k \in 0 .. n + 1, k >= 10 PROVE DigitsOf(d, k) = DigitsOf(e, k)
      <4>1. \A k \in 0 .. n + 1 : k < 10 => DigitsOf(d, k) = DigitsOf(e, k)
        BY DEF DigitsOf
      <4>2. \A k \in 0 .. n + 1 : k < 10 \/ k >= 10
        OBVIOUS
      <4> HIDE DEF e
      <4> QED
        BY <4>1, <4>2
    <3>1. k \div 10 \in 0 .. n
      BY Tenth
    <3>2. e[k \div 10] = d[k \div 10]
      BY <2>2, <3>1
    <3> HIDE DEF e
    <3> QED
      BY <3>2 DEF DigitsOf
  <2>4. DigitsUpto(e, n + 1)
    BY <2>3 DEF DigitsUpto
  <2> QED
    BY <2>4
<1>3. Nat \subseteq N
  <2> HIDE DEF N
  <2> QED
    BY <1>1, <1>2, Induct
<1> QED
  BY <1>3

\* Digits is what its definition says of it, for every number.
LEMMA DigitsDef == \A n \in Nat : Digits[n] = DigitsOf(Digits, n)
<1> DEFINE part(n) == CHOOSE d : DigitsUpto(d, n)
           all == [n \in Nat |-> part(n)[n]]
<1>1. \A n \in Nat : DigitsUpto(part(n), n)
  BY DigitsExist, Zenon
<1>2. ASSUME NEW n \in Nat PROVE all[n] = DigitsOf(all, n)
  <2> HIDE DEF part
  <2>1. part(n)[n] = DigitsOf(part(n), n)
    BY <1>1 DEF DigitsUpto
  <2>2. CASE n < 10
    BY <2>1, <2>2 DEF DigitsOf
  <2>3. CASE n >= 10
    <3> DEFINE m == n \div 10
    <3>1. m \in Nat /\ m < n
      BY <2>3, Tenth
    <3>2. part(n)[m] = part(m)[m]
      <4> HIDE DEF m
      <4> QED
        BY <1>1, <3>1, DigitsAgree
    <3>3. all[m] = part(m)[m]
      BY <3>1
    <3> QED
      BY <2>1, <2>3, <3>2, <3>3 DEF DigitsOf
  <2> QED
    BY <2>2, <2>3
<1>3. all = [n \in Nat |-> DigitsOf(all, n)]
  <2> HIDE DEF part
  <2> QED
    BY <1>2
<1>4. \E d : d = [n \in Nat |-> DigitsOf(d, n)]
  <2> HIDE DEF all
  <2> QED
    BY <1>3
<1>5. Digits = [n \in Nat |-> DigitsOf(Digits, n)]
  BY <1>4, Zenon DEF Digits, DigitsOf
<1> QED
  <2> HIDE DEF Digits
  <2> QED
    BY <1>5, Zenon
LEMMA DigitsCases ==
  ASSUME NEW n \in Nat
  PROVE  /\ n < 10 => Digits[n] = <<n>>
         /\ n >= 10 => Digits[n] = Append(Digits[n \div 10], n % 10)
<1>1. Digits[n] = DigitsOf(Digits, n)
  BY DigitsDef
<1>2. CASE n < 10
  BY <1>1, <1>2 DEF DigitsOf
<1>3. CASE n >= 10
  <2>1. ~ (n < 10)
    BY <1>3
  <2> QED
    BY <1>1, <2>1, Zenon DEF DigitsOf
<1> QED
  BY <1>2, <1>3

LEMMA DigitsType == \A n \in Nat : Digits[n] \in Seq(0 .. 9) /\ Digits[n] # <<>>
<1> DEFINE Bad == {n \in Nat : ~ (Digits[n] \in Seq(0 .. 9) /\ Digits[n] # <<>>)}
<1> SUFFICES ASSUME Bad # {} PROVE FALSE
  OBVIOUS
<1>1. PICK n \in Bad : \A m \in Bad : n <= m
  BY LeastElement, Bad \subseteq Nat
<1> n \in Nat /\ ~ (Digits[n] \in Seq(0 .. 9) /\ Digits[n] # <<>>)
  OBVIOUS
<1> HIDE DEF Digits
<1>2. CASE n < 10
  <2>1. Digits[n] = <<n>> /\ n \in 0 .. 9
    BY <1>2, DigitsCases
  <2>2. <<n>> \in Seq(0 .. 9) /\ <<n>> # <<>>
    BY <2>1
  <2> QED
    BY <2>1, <2>2, Zenon
<1>3. CASE n >= 10
  <2>1. n \div 10 \in Nat /\ n \div 10 < n /\ n % 10 \in 0 .. 9
    BY <1>3, Tenth
  <2>2. Digits[n \div 10] \in Seq(0 .. 9)
    BY <1>1, <2>1
  <2>3. Digits[n] = Append(Digits[n \div 10], n % 10)
    BY <1>3, DigitsCases
  <2>4. Digits[n] \in Seq(0 .. 9) /\ Len(Digits[n]) = Len(Digits[n \div 10]) + 1
    BY <2>1, <2>2, <2>3, AppendProperties
  <2>5. Digits[n] # <<>>
    BY <2>2, <2>4
  <2> QED
    BY <2>4, <2>5
<1> QED
  BY <1>2, <1>3

\* How Value reads a text from left to right.
Reads(v, text) ==
  /\ v \in [0 .. Len(text) -> Nat] /\ v[0] = 0
  /\ \A i \in 1 .. Len(text) : v[i] = 10 * v[i - 1] + text[i]

LEMMA ValueReads ==
  ASSUME NEW text \in Seq(Nat)
  PROVE  \E v : Reads(v, text) /\ Value(text) = v[Len(text)]
<1> DEFINE n == Len(text)
           step == [p \in (1 .. n) \X Nat |-> 10 * p[2] + text[p[1]]]
           Same(v) == v = [i \in 0 .. n |-> IF i = 0 THEN 0 ELSE 10 * v[i - 1] + text[i]]
           value == CHOOSE v : Same(v)
<1>1. n \in Nat /\ step \in [(1 .. n) \X Nat -> Nat]
  OBVIOUS
<1>2. PICK v \in [0 .. n -> Nat] : Iterated(v, n, 0, step)
  <2>1. 0 \in Nat
    OBVIOUS
  <2> HIDE DEF step, n
  <2> QED
    BY <1>1, <2>1, Iterates, Zenon
<1>3. \A i \in 1 .. n : v[i] = 10 * v[i - 1] + text[i]
  <2> SUFFICES ASSUME NEW i \in 1 .. n PROVE v[i] = 10 * v[i - 1] + text[i]
    OBVIOUS
  <2>1. i - 1 \in 0 .. n /\ v[i - 1] \in Nat
    OBVIOUS
  <2>2. step[<<i, v[i - 1]>>] = 10 * v[i - 1] + text[i]
    BY <2>1
  <2>3. v[i] = step[<<i, v[i - 1]>>]
    BY <1>2 DEF Iterated
  <2> QED
    BY <2>2, <2>3
<1>4. Same(v)
  <2>1. v[0] = 0
    BY <1>2 DEF Iterated
  <2> QED
    BY <1>2, <1>3, <2>1
<1>5. \A w : Same(w) => Reads(w, text)
  <2> SUFFICES ASSUME NEW w, Same(w) PROVE Reads(w, text)
    OBVIOUS
  <2> DEFINE N == {i \in Nat : i <= n => w[i] \in Nat}
  <2>1. w[0] = 0 /\ \A i \in 1 .. n : w[i] = 10 * w[i - 1] + text[i]
    <3>1. \A i \in 0 .. n : w[i] = IF i = 0 THEN 0 ELSE 10 * w[i - 1] + text[i]
      OBVIOUS
    <3> QED
      BY <3>1
  <2>2. 0 \in N
    BY <2>1
  <2>3. ASSUME NEW i \in Nat, i \in N PROVE i + 1 \in N
    <3> SUFFICES ASSUME i + 1 <= n PROVE w[i + 1] \in Nat
      OBVIOUS
    <3>1. w[i + 1] = 10 * w[(i + 1) - 1] + text[i + 1] /\ (i + 1) - 1 = i
      BY <2>1
    <3>2. w[i] \in Nat /\ text[i + 1] \in Nat
      BY <2>3
    <3> QED
      BY <3>1, <3>2
  <2>4. Nat \subseteq N
    <3> HIDE DEF N
    <3> QED
      BY <2>2, <2>3, Induct
  <2>5. w \in [0 .. n -> Nat]
    BY <2>4
  <2> QED
    BY <2>1, <2>5 DEF Reads
<1>6. Same(value)
  BY <1>4, Zenon
<1>7. Value(text) = value[n]
  BY DEF Value
<1> QED
  BY <1>5, <1>6, <1>7, Zenon

LEMMA ReadsAgree ==
  ASSUME NEW t \in Seq(Nat), NEW u \in Seq(Nat), NEW v, NEW w, Reads(v, t), Reads(w, u),
         Len(t) <= Len(u), \A i \in 1 .. Len(t) : t[i] = u[i]
  PROVE  v[Len(t)] = w[Len(t)]
<1> DEFINE N == {i \in Nat : i <= Len(t) => v[i] = w[i]}
<1>1. 0 \in N
  BY DEF Reads
<1>2. ASSUME NEW i \in Nat, i \in N PROVE i + 1 \in N
  <2> SUFFICES ASSUME i + 1 <= Len(t) PROVE v[i + 1] = w[i + 1]
    OBVIOUS
  <2>1. (i + 1) - 1 = i /\ v[i] = w[i] /\ t[i + 1] = u[i + 1]
    BY <1>2
  <2>2. v[i + 1] = 10 * v[(i + 1) - 1] + t[i + 1] /\ w[i + 1] = 10 * w[(i + 1) - 1] + u[i + 1]
    <3>1. i + 1 \in 1 .. Len(t) /\ i + 1 \in 1 .. Len(u)
      <4>1. Len(t) \in Nat /\ Len(u) \in Nat
        BY LenProperties
      <4> QED
        BY <4>1
    <3>2. /\ \A k \in 1 .. Len(t) : v[k] = 10 * v[k - 1] + t[k]
          /\ \A k \in 1 .. Len(u) : w[k] = 10 * w[k - 1] + u[k]
      BY DEF Reads
    <3> QED
      BY <3>1, <3>2, Zenon
  <2> QED
    BY <2>1, <2>2
<1>3. Nat \subseteq N
  <2> HIDE DEF N
  <2> QED
    BY <1>1, <1>2, Induct
<1> QED
  BY <1>3

LEMMA ValueAppend ==
  ASSUME NEW t \in Seq(Nat), NEW x \in Nat
  PROVE  Value(Append(t, x)) = 10 * Value(t) + x
<1> DEFINE u == Append(t, x)
<1>1. /\ u \in Seq(Nat) /\ Len(u) = Len(t) + 1 /\ u[Len(t) + 1] = x
      /\ \A i \in 1 .. Len(t) : t[i] = u[i]
  BY AppendProperties
<1>2. PICK v : Reads(v, t) /\ Value(t) = v[Len(t)]
  BY ValueReads
<1> HIDE DEF u
<1>3. PICK w : Reads(w, u) /\ Value(u) = w[Len(u)]
  BY <1>1, ValueReads
<1>4. v[Len(t)] = w[Len(t)]
  BY <1>1, <1>2, <1>3, ReadsAgree
<1>5. Len(t) \in Nat /\ Len(u) - 1 = Len(t) /\ Len(u) \in 1 .. Len(u)
  BY <1>1
<1>6. w[Len(u)] = 10 * w[Len(u) - 1] + u[Len(u)]
  BY <1>3, <1>5 DEF Reads
<1>7. Value(u) = 10 * Value(t) + x
  BY <1>1, <1>2, <1>3, <1>4, <1>6, <1>5
<1> QED
  BY <1>7 DEF u

LEMMA DigitsAreNats == \A t \in Seq(0 .. 9) : t \in Seq(Nat)
<1> TAKE t \in Seq(0 .. 9)
<1>1. Len(t) \in Nat /\ t = [i \in 1 .. Len(t) |-> t[i]] /\ \A i \in 1 .. Len(t) : t[i] \in Nat
  OBVIOUS
<1> QED
  BY <1>1

\* strconv.Atoi undoes %d, so that different numbers have different texts.
LEMMA ValueOfDigits == \A n \in Nat : Value(Digits[n]) = n
<1> DEFINE Bad == {n \in Nat : Value(Digits[n]) # n}
<1> SUFFICES ASSUME Bad # {} PROVE FALSE
  OBVIOUS
<1>1. PICK n \in Bad : \A m \in Bad : n <= m
  BY LeastElement, Bad \subseteq Nat
<1> n \in Nat /\ Value(Digits[n]) # n
  OBVIOUS
<1>2. CASE n < 10
  <2>1. Digits[n] = <<n>> /\ <<n>> = Append(<<>>, n) /\ <<>> \in Seq(Nat)
    BY <1>2, DigitsCases
  <2>2. Value(<<>>) = 0
    <3>1. PICK v : Reads(v, <<>>) /\ Value(<<>>) = v[Len(<<>>)]
      BY <2>1, ValueReads
    <3> QED
      BY <3>1 DEF Reads
  <2>3. Value(Append(<<>>, n)) = 10 * Value(<<>>) + n
    BY <2>1, ValueAppend
  <2> QED
    BY <2>1, <2>2, <2>3
<1>3. CASE n >= 10
  <2> DEFINE m == n \div 10
  <2>1. m \in Nat /\ m < n /\ n % 10 \in Nat /\ n = 10 * m + (n % 10)
    BY <1>3, Tenth
  <2>2. Digits[n] = Append(Digits[m], n % 10)
    BY <1>3, DigitsCases
  <2> HIDE DEF m
  <2>3. Value(Digits[m]) = m
    BY <1>1, <2>1
  <2>4. Digits[m] \in Seq(Nat)
    BY <2>1, DigitsType, DigitsAreNats
  <2>5. Value(Digits[n]) = 10 * m + (n % 10)
    BY <2>1, <2>2, <2>3, <2>4, ValueAppend
  <2> QED
    BY <2>1, <2>5
<1> QED
  BY <1>2, <1>3

LEMMA DigitsInjective == \A m, n \in Nat : Digits[m] = Digits[n] => m = n
  BY ValueOfDigits

LEMMA DigitsText ==
  ASSUME NEW n \in Nat
  PROVE  /\ Digits[n] \in Seq(Nat) /\ Len(Digits[n]) \in Nat \ {0}
         /\ \A i \in 1 .. Len(Digits[n]) : Digits[n][i] \in 0 .. 9
<1>1. Digits[n] \in Seq(0 .. 9) /\ Digits[n] # <<>>
  BY DigitsType
<1>2. Digits[n] \in Seq(Nat)
  BY <1>1, DigitsAreNats
<1> QED
  BY <1>1, <1>2, EmptySeq, LenProperties, ElementOfSeq

\* Of two texts that begin one text, the longer begins with the shorter.
LEMMA LongerStarts ==
  ASSUME NEW s \in Seq(Nat), NEW t \in Seq(Nat), NEW x \in Seq(Nat), NEW y \in Seq(Nat),
         s \o x = t \o y, Len(s) <= Len(t)
  PROVE  /\ StartsWith(t, s)
         /\ \A i \in Len(s) + 1 .. Len(t) : i - Len(s) \in 1 .. Len(x) /\ t[i] = x[i - Len(s)]
         /\ Len(s) + Len(x) = Len(t) + Len(y)
<1>1. /\ Len(s \o x) = Len(s) + Len(x) /\ Len(t \o y) = Len(t) + Len(y)
      /\ Len(s) \in Nat /\ Len(t) \in Nat /\ Len(x) \in Nat /\ Len(y) \in Nat
  BY ConcatProperties, LenProperties
<1>2. /\ \A i \in 1 .. Len(s) + Len(x) :
           (s \o x)[i] = IF i <= Len(s) THEN s[i] ELSE x[i - Len(s)]
      /\ \A i \in 1 .. Len(t) + Len(y) :
           (t \o y)[i] = IF i <= Len(t) THEN t[i] ELSE y[i - Len(t)]
  BY ConcatProperties
<1>3. Len(s) + Len(x) = Len(t) + Len(y)
  BY <1>1
<1>4. ASSUME NEW i \in 1 .. Len(s) PROVE t[i] = s[i]
  <2>1. /\ i \in 1 .. Len(s) + Len(x) /\ i \in 1 .. Len(t) + Len(y)
        /\ i <= Len(s) /\ i <= Len(t)
    BY <1>1, <1>3
  <2>2. (s \o x)[i] = s[i] /\ (t \o y)[i] = t[i]
    BY <1>2, <2>1, Zenon
  <2> QED
    BY <2>2
<1>5. ASSUME NEW i \in Len(s) + 1 .. Len(t)
      PROVE  i - Len(s) \in 1 .. Len(x) /\ t[i] = x[i - Len(s)]
  <2>1. /\ i \in 1 .. Len(s) + Len(x) /\ i \in 1 .. Len(t) + Len(y)
        /\ i \in Int /\ ~ (i <= Len(s)) /\ i <= Len(t) /\ i - Len(s) \in 1 .. Len(x)
    BY <1>1, <1>3
  <2>2. (s \o x)[i] = x[i - Len(s)] /\ (t \o y)[i] = t[i]
    BY <1>2, <2>1, Zenon
  <2> QED
    BY <2>1, <2>2
<1>6. DOMAIN s = 1 .. Len(s)
  BY LenProperties
<1>7. StartsWith(t, s)
  BY <1>4, <1>6 DEF StartsWith
<1> QED
  BY <1>3, <1>5, <1>7

LEMMA SameStart ==
  ASSUME NEW s \in Seq(Nat), NEW x \in Seq(Nat), NEW y \in Seq(Nat), s \o x = s \o y
  PROVE  x = y
BY ConcatSimplifications, Zenon

LEMMA SameEnd ==
  ASSUME NEW s \in Seq(Nat), NEW t \in Seq(Nat), NEW x \in Seq(Nat), s \o x = t \o x
  PROVE  s = t
BY ConcatSimplifications, Zenon

LEMMA JobFields ==
  ASSUME NEW j \in Jobs
  PROVE  /\ j.run \in Nat /\ j.run \in RunIds /\ j.attempt \in Nat /\ j.name \in Seq(Nat)
         /\ j.steps \in Seq(Step) /\ j.started \in Nat /\ j.completed \in Nat
         /\ DOMAIN j.steps = 1 .. Len(j.steps) /\ Len(j.steps) \in Nat
         /\ \A i \in DOMAIN j.steps :
              /\ j.steps[i] \in Step /\ j.steps[i].number \in Nat /\ j.steps[i].number # 0
              /\ j.steps[i].started \in Nat /\ j.steps[i].completed \in Nat
<1>1. j \in JobType
  BY SpanAssumption
<1>2. j.run \in Nat /\ j.attempt \in Nat /\ j.name \in Seq(Nat)
      /\ j.steps \in Seq(Step) /\ j.started \in Nat /\ j.completed \in Nat
  BY <1>1 DEF JobType
<1>3. DOMAIN j.steps = 1 .. Len(j.steps) /\ Len(j.steps) \in Nat
  BY <1>2, LenProperties
<1>4. \A i \in DOMAIN j.steps : j.steps[i] \in Step
  BY <1>2, <1>3, ElementOfSeq
<1>5. \A i \in DOMAIN j.steps : j.steps[i].number \in Nat
         /\ j.steps[i].started \in Nat /\ j.steps[i].completed \in Nat
  BY <1>4 DEF Step
<1> QED
  BY <1>2, <1>3, <1>4, <1>5, JobAssumption DEF RunIds

LEMMA RunFields ==
  ASSUME NEW r \in Runs
  PROVE  r.id \in Nat /\ r.id \in RunIds /\ r.attempt \in Nat \ {0}
BY SpanAssumption DEF RunIds, RunType

LEMMA RunTextType ==
  ASSUME NEW id \in Nat, NEW attempt \in Nat
  PROVE  RunText(id, attempt) \in Seq(Nat)
BY DigitsText, ConcatProperties DEF RunText

\* Two runs whose texts are the same are near, if they are not the same.
LEMMA RunsTold ==
  ASSUME NEW m \in Nat, NEW n \in Nat, m # n,
         NEW x \in Seq(Nat), NEW y \in Seq(Nat), Digits[m] \o x = Digits[n] \o y
  PROVE  NearRuns(m, n)
<1>1. Digits[m] \in Seq(Nat) /\ Digits[n] \in Seq(Nat)
  BY DigitsText
<1>2. CASE Len(Digits[m]) <= Len(Digits[n])
  <2>1. StartsWith(Digits[n], Digits[m])
    BY <1>1, <1>2, LongerStarts
  <2> QED
    BY <2>1 DEF NearRuns
<1>3. CASE Len(Digits[n]) <= Len(Digits[m])
  <2>1. StartsWith(Digits[m], Digits[n])
    BY <1>1, <1>3, LongerStarts
  <2> QED
    BY <2>1 DEF NearRuns
<1>4. Len(Digits[m]) \in Nat /\ Len(Digits[n]) \in Nat
  BY DigitsText
<1> QED
  BY <1>2, <1>3, <1>4

\* Traces tell attempts apart, but for those of near runs.
LEMMA TracesTold ==
  ASSUME NEW m \in Nat, NEW n \in Nat, ~NearRuns(m, n),
         NEW a \in Nat, NEW b \in Nat, TraceId(m, a) = TraceId(n, b)
  PROVE  m = n /\ a = b
<1>1. /\ Digits[m] \in Seq(Nat) /\ Digits[n] \in Seq(Nat)
      /\ Digits[a] \in Seq(Nat) /\ Digits[b] \in Seq(Nat)
  BY DigitsText
<1>2. <<T>> \in Seq(Nat) /\ RunText(m, a) \in Seq(Nat) /\ RunText(n, b) \in Seq(Nat)
  <2>1. T \in Nat
    BY SpanAssumption
  <2> QED
    BY <2>1, RunTextType
<1>3. RunText(m, a) \o <<T>> = RunText(n, b) \o <<T>>
  BY DEF TraceId, Trace
<1>4. Digits[m] \o Digits[a] = Digits[n] \o Digits[b]
  BY <1>2, <1>3, SameEnd, Zenon DEF RunText
<1>5. m = n
  BY <1>1, <1>4, RunsTold
<1>6. Digits[a] = Digits[b]
  BY <1>1, <1>4, <1>5, SameStart
<1> QED
  BY <1>5, <1>6, DigitsInjective

\* What a span's text has after the name of its job; 0 stands for no step.
Suffix(number) == IF number = 0 THEN <<>> ELSE Digits[number]

LEMMA SuffixType ==
  ASSUME NEW n \in Nat
  PROVE  /\ Suffix(n) \in Seq(Nat) /\ Len(Suffix(n)) \in Nat
         /\ \A i \in 1 .. Len(Suffix(n)) : Suffix(n)[i] \in 0 .. 9
         /\ Suffix(n) = <<>> <=> n = 0
<1>1. CASE n = 0
  BY <1>1, EmptySeq DEF Suffix
<1>2. CASE n # 0
  <2>1. Suffix(n) = Digits[n]
    BY <1>2 DEF Suffix
  <2>2. Digits[n] # <<>>
    BY DigitsType
  <2> QED
    BY <1>2, <2>1, <2>2, DigitsText
<1> QED
  BY <1>1, <1>2

\* Of two names whose texts with numbers are the same, the longer is the shorter with
\* digits after it.
LEMMA NamesNested ==
  ASSUME NEW s \in Seq(Nat), NEW t \in Seq(Nat), NEW m \in Nat, NEW n \in Nat,
         s \o Suffix(m) = t \o Suffix(n), Len(s) <= Len(t)
  PROVE  Extends(t, s)
<1>1. Suffix(m) \in Seq(Nat) /\ Suffix(n) \in Seq(Nat)
  BY SuffixType
<1>2. /\ StartsWith(t, s)
      /\ \A i \in Len(s) + 1 .. Len(t) :
           i - Len(s) \in 1 .. Len(Suffix(m)) /\ t[i] = Suffix(m)[i - Len(s)]
  BY <1>1, LongerStarts
<1> QED
  BY <1>2, SuffixType DEF Extends

NameText(j, number) == j.name \o Suffix(number)

\* The text of a span, its run aside, tells its job and its number, but for near jobs.
LEMMA SpansTold ==
  ASSUME NEW j \in Jobs, NEW k \in Jobs, ~NearJobs(j, k),
         j.run = k.run, j.attempt = k.attempt, NEW m \in Nat, NEW n \in Nat,
         NameText(j, m) = NameText(k, n)
  PROVE  j = k /\ m = n
<1>0. j.name \o Suffix(m) = k.name \o Suffix(n)
  BY DEF NameText
<1>1. j.name \in Seq(Nat) /\ k.name \in Seq(Nat) /\ Len(j.name) \in Nat /\ Len(k.name) \in Nat
  BY JobFields, LenProperties
<1>2. ASSUME Len(j.name) <= Len(k.name) PROVE Extends(k.name, j.name)
  BY <1>0, <1>1, <1>2, NamesNested
<1>3. ASSUME Len(k.name) <= Len(j.name) PROVE Extends(j.name, k.name)
  BY <1>0, <1>1, <1>3, NamesNested
<1>4. j = k
  <2>1. Len(j.name) <= Len(k.name) \/ Len(k.name) <= Len(j.name)
    BY <1>1
  <2> QED
    BY <1>2, <1>3, <2>1 DEF NearJobs, SameAttemptOf
<1>5. Suffix(m) = Suffix(n)
  BY <1>0, <1>1, <1>4, SuffixType, SameStart
<1>6. m = n
  BY <1>5, SuffixType, DigitsInjective DEF Suffix
<1> QED
  BY <1>4, <1>6

\* No step has the text of a root span, and no job but one called s.
LEMMA RootTold ==
  ASSUME NEW j \in Jobs, NEW n \in Nat, NameText(j, n) = <<S>>
  PROVE  n = 0 /\ j.name = <<S>>
<1>0. j.name \o Suffix(n) = <<S>>
  BY DEF NameText
<1>1. j.name \in Seq(Nat) /\ Suffix(n) \in Seq(Nat) /\ S \in Nat /\ S \notin 0 .. 9
  BY JobFields, SuffixType, SpanAssumption
<1>2. CASE n = 0
  <2>1. j.name \o Suffix(n) = j.name
    BY <1>1, <1>2, SuffixType, ConcatEmptySeq
  <2> QED
    BY <1>0, <1>2, <2>1
<1>3. ASSUME n # 0 PROVE FALSE
  <2>1. Len(Suffix(n)) \in Nat /\ Len(Suffix(n)) # 0 /\ Len(j.name) \in Nat
    BY <1>1, <1>3, SuffixType, EmptySeq, LenProperties
  <2>2. Len(j.name \o Suffix(n)) = Len(j.name) + Len(Suffix(n))
    BY <1>1, ConcatProperties
  <2>3. Len(<<S>>) = 1
    OBVIOUS
  <2>4. Len(j.name) + Len(Suffix(n)) = 1
    BY <1>0, <2>2, <2>3
  <2>5. Len(j.name) = 0 /\ Len(Suffix(n)) = 1
    <3> DEFINE p == Len(j.name)
               q == Len(Suffix(n))
    <3>1. p \in Nat /\ q \in Nat /\ q # 0 /\ p + q = 1
      BY <2>1, <2>4, Zenon
    <3> HIDE DEF p, q
    <3>2. p = 0 /\ q = 1
      BY <3>1
    <3> QED
      BY <3>2 DEF p, q
  <2>6. (j.name \o Suffix(n))[1] = Suffix(n)[1]
    <3>1. \A i \in 1 .. Len(j.name) + Len(Suffix(n)) : (j.name \o Suffix(n))[i]
            = IF i <= Len(j.name) THEN j.name[i] ELSE Suffix(n)[i - Len(j.name)]
      BY <1>1, ConcatProperties
    <3>2. 1 \in 1 .. Len(j.name) + Len(Suffix(n)) /\ ~ (1 <= Len(j.name)) /\ 1 - Len(j.name) = 1
      BY <2>5
    <3>3. (j.name \o Suffix(n))[1]
            = IF 1 <= Len(j.name) THEN j.name[1] ELSE Suffix(n)[1 - Len(j.name)]
      BY <3>1, <3>2, Zenon
    <3>4. (j.name \o Suffix(n))[1] = Suffix(n)[1 - Len(j.name)]
      BY <3>2, <3>3, Zenon
    <3> QED
      BY <3>2, <3>4, Zenon
  <2>7. <<S>>[1] = S
    OBVIOUS
  <2>8. Suffix(n)[1] = S
    BY <1>0, <2>6, <2>7
  <2>9. Suffix(n)[1] \in 0 .. 9
    <3>1. 1 \in 1 .. Len(Suffix(n))
      BY <2>5
    <3> QED
      BY <3>1, SuffixType
  <2> QED
    BY <1>1, <2>8, <2>9
<1> QED
  BY <1>2, <1>3
-------------------------------------------------------------------------------
\* The text of the span of a job, or of a step of it.
SpanText(j, number) == RunText(j.run, j.attempt) \o NameText(j, number)

LEMMA Regroup == \A s, t, u \in Seq(Nat) : (s \o t) \o u = s \o (t \o u)
BY ConcatAssociative

LEMMA SpanTextType ==
  ASSUME NEW j \in Jobs, NEW n \in Nat
  PROVE  /\ RunText(j.run, j.attempt) \in Seq(Nat) /\ j.name \in Seq(Nat)
         /\ Suffix(n) \in Seq(Nat) /\ NameText(j, n) \in Seq(Nat)
         /\ SpanText(j, n) \in Seq(Nat)
<1>1. RunText(j.run, j.attempt) \in Seq(Nat) /\ j.name \in Seq(Nat)
  BY JobFields, RunTextType
<1>2. Suffix(n) \in Seq(Nat)
  BY SuffixType
<1>3. NameText(j, n) \in Seq(Nat)
  BY <1>1, <1>2, ConcatProperties DEF NameText
<1> QED
  BY <1>1, <1>2, <1>3, ConcatProperties DEF SpanText

LEMMA SpanTextTold ==
  ASSUME NEW j \in Jobs, NEW k \in Jobs, NEW m \in Nat, NEW n \in Nat,
         ~NearRuns(j.run, k.run), ~NearJobs(j, k),
         TraceId(j.run, j.attempt) = TraceId(k.run, k.attempt),
         Span(SpanText(j, m)) = Span(SpanText(k, n))
  PROVE  j = k /\ m = n
<1>1. j.run = k.run /\ j.attempt = k.attempt
  BY JobFields, TracesTold
<1>2. SpanText(j, m) = SpanText(k, n)
  BY DEF Span
<1>3. RunText(j.run, j.attempt) \o NameText(j, m)
        = RunText(j.run, j.attempt) \o NameText(k, n)
  BY <1>1, <1>2 DEF SpanText
<1>4. NameText(j, m) = NameText(k, n)
  BY <1>3, SpanTextType, SameStart
<1> QED
  BY <1>1, <1>4, SpansTold

\* The spans of jobs of one name only are alike.
LEMMA JobTextTold ==
  ASSUME RunsApart, NamesApart, NEW j \in Jobs, NEW k \in Jobs,
         TraceId(j.run, j.attempt) = TraceId(k.run, k.attempt),
         Span(SpanText(j, 0)) = Span(SpanText(k, 0))
  PROVE  j = k
<1>1. j.run = k.run /\ j.attempt = k.attempt
  BY JobFields, TracesTold DEF RunsApart
<1>2. SpanText(j, 0) = SpanText(k, 0)
  BY DEF Span
<1>3. RunText(j.run, j.attempt) \o NameText(j, 0)
        = RunText(j.run, j.attempt) \o NameText(k, 0)
  BY <1>1, <1>2 DEF SpanText
<1>4. NameText(j, 0) = NameText(k, 0)
  BY <1>3, SpanTextType, SameStart
<1>5. NameText(j, 0) = j.name /\ NameText(k, 0) = k.name
  BY JobFields, ConcatEmptySeq DEF Suffix, NameText
<1> QED
  BY <1>1, <1>4, <1>5 DEF NamesApart, SameAttemptOf

LEMMA JobIdIs ==
  ASSUME NEW j \in Jobs
  PROVE  JobId(j.run, j.attempt, j.name) = Span(SpanText(j, 0))
<1>1. NameText(j, 0) = j.name
  BY JobFields, ConcatEmptySeq DEF Suffix, NameText
<1> QED
  BY <1>1 DEF JobId, SpanText

LEMMA StepIdIs ==
  ASSUME NEW j \in Jobs, NEW n \in Nat, n # 0
  PROVE  StepId(j.run, j.attempt, j.name, n) = Span(SpanText(j, n))
<1>1. Suffix(n) = Digits[n]
  BY DEF Suffix
<1>2. RunText(j.run, j.attempt) \o j.name \o Suffix(n) = SpanText(j, n)
  <2>1. /\ RunText(j.run, j.attempt) \in Seq(Nat) /\ j.name \in Seq(Nat)
        /\ Suffix(n) \in Seq(Nat)
    BY SpanTextType
  <2> QED
    BY <2>1, Regroup, Zenon DEF SpanText, NameText
<1> QED
  BY <1>1, <1>2 DEF StepId

LEMMA JobSpanLinks ==
  ASSUME NEW j \in Jobs
  PROVE  /\ JobSpan(j).trace = TraceId(j.run, j.attempt)
         /\ JobSpan(j).id = Span(SpanText(j, 0))
         /\ JobSpan(j).parent = ParentId(j.run, j.attempt)
         /\ JobSpan(j).start = JobStart(j) /\ JobSpan(j).end = JobEnd(j)
BY JobIdIs DEF JobSpan, JobParent

LEMMA StepSpanLinks ==
  ASSUME NEW j \in Jobs, NEW i \in DOMAIN j.steps
  PROVE  /\ StepSpan(j, j.steps[i]).trace = TraceId(j.run, j.attempt)
         /\ StepSpan(j, j.steps[i]).id = Span(SpanText(j, j.steps[i].number))
         /\ StepSpan(j, j.steps[i]).parent = Span(SpanText(j, 0))
         /\ StepSpan(j, j.steps[i]).start = j.steps[i].started
         /\ StepSpan(j, j.steps[i]).end = StepEnd(j.steps[i])
BY JobIdIs, StepIdIs, JobFields DEF StepSpan

LEMMA RootSpanFields ==
  ASSUME NEW r
  PROVE  /\ RootSpan(r).run = r.id /\ RootSpan(r).attempt = r.attempt
         /\ RootSpan(r).trace = TraceId(r.id, r.attempt)
         /\ RootSpan(r).id = ParentId(r.id, r.attempt)
         /\ RootSpan(r).links = IF r.previous /\ r.attempt > 1
                                  THEN {TraceId(r.id, PreviousAttempt(r))} ELSE {}
BY DEF RootSpan
-------------------------------------------------------------------------------
LEMMA IndexIs ==
  ASSUME NEW text, NEW c, NEW n \in DOMAIN text, DOMAIN text \subseteq Nat \ {0},
         text[n] = c, \A k \in 1 .. n - 1 : text[k] # c
  PROVE  IndexOf(text, c) = n
<1>1. \A i \in DOMAIN text : text[i] = c /\ (\A k \in 1 .. i - 1 : text[k] # c) => i = n
  <2> SUFFICES ASSUME NEW i \in DOMAIN text, text[i] = c, \A k \in 1 .. i - 1 : text[k] # c
               PROVE  i = n
    OBVIOUS
  <2>1. i \in Nat \ {0} /\ n \in Nat \ {0}
    OBVIOUS
  <2>2. ~ (i < n)
    BY <2>1
  <2>3. ~ (n < i)
    BY <2>1
  <2> QED
    BY <2>1, <2>2, <2>3
<1>2. (CHOOSE i \in DOMAIN text : text[i] = c /\ \A k \in 1 .. i - 1 : text[k] # c) = n
  BY <1>1
<1> QED
  BY <1>2 DEF IndexOf

LEMMA InDirectory ==
  ASSUME NEW f, NEW name \in Seq(Nat), NEW base \in Seq(Nat),
         f.name = name \o <<Slash>> \o base, \A i \in DOMAIN name : name[i] # Slash
  PROVE  IndexOf(f.name, Slash) = Len(name) + 1 /\ JobDir(f) = name /\ BaseName(f) = base
<1> DEFINE p == Len(name)
           q == Len(base)
           dir == name \o <<Slash>>
           text == f.name
<1>1. p \in Nat /\ q \in Nat /\ DOMAIN name = 1 .. p /\ Slash \in Nat
  BY LenProperties, SpanAssumption
<1>2. <<Slash>> \in Seq(Nat) /\ Len(<<Slash>>) = 1 /\ <<Slash>>[1] = Slash
  BY <1>1
<1>3. /\ dir \in Seq(Nat) /\ Len(dir) = p + 1
      /\ \A i \in 1 .. p + 1 : dir[i] = IF i <= p THEN name[i] ELSE <<Slash>>[i - p]
  BY <1>2, ConcatProperties
<1>4. /\ text \in Seq(Nat) /\ Len(text) = p + 1 + q
      /\ \A i \in 1 .. p + 1 + q : text[i] = IF i <= p + 1 THEN dir[i] ELSE base[i - (p + 1)]
  BY <1>3, ConcatProperties
<1> HIDE DEF p, q, dir, text
<1>5. \A i \in 1 .. p : text[i] = name[i]
  <2> TAKE i \in 1 .. p
  <2>1. i \in 1 .. p + 1 /\ i \in 1 .. p + 1 + q /\ i <= p /\ i <= p + 1
    BY <1>1
  <2> QED
    BY <1>3, <1>4, <2>1, Zenon
<1>6. text[p + 1] = Slash
  <2>1. p + 1 \in 1 .. p + 1 /\ p + 1 \in 1 .. p + 1 + q /\ ~ (p + 1 <= p) /\ p + 1 <= p + 1
        /\ (p + 1) - p = 1
    BY <1>1
  <2>2. text[p + 1] = dir[p + 1] /\ dir[p + 1] = <<Slash>>[(p + 1) - p]
    BY <1>3, <1>4, <2>1, Zenon
  <2> QED
    BY <1>2, <2>1, <2>2
<1>7. \A i \in 1 .. q : text[p + 1 + i] = base[i]
  <2> TAKE i \in 1 .. q
  <2>1. p + 1 + i \in 1 .. p + 1 + q /\ ~ (p + 1 + i <= p + 1) /\ (p + 1 + i) - (p + 1) = i
    BY <1>1
  <2>2. text[p + 1 + i] = base[(p + 1 + i) - (p + 1)]
    BY <1>4, <2>1, Zenon
  <2> QED
    BY <2>1, <2>2
<1>8. DOMAIN text = 1 .. p + 1 + q
  BY <1>4, LenProperties
<1>9. IndexOf(text, Slash) = p + 1
  <2>1. p + 1 \in DOMAIN text /\ DOMAIN text \subseteq Nat \ {0}
    BY <1>1, <1>8
  <2>2. \A k \in 1 .. (p + 1) - 1 : text[k] # Slash
    <3>1. (p + 1) - 1 = p
      BY <1>1
    <3>2. \A k \in 1 .. p : text[k] # Slash
      BY <1>1, <1>5, Zenon
    <3> QED
      BY <3>1, <3>2, Zenon
  <2> QED
    BY <1>6, <2>1, <2>2, IndexIs
<1>10. JobDir(f) = name
  <2>1. \A i \in 1 .. p : text[i] \in Nat
    BY <1>5, <1>1, ElementOfSeq DEF p
  <2>2. /\ SubSeq(text, 1, p) \in Seq(Nat)
        /\ Len(SubSeq(text, 1, p)) = IF 1 <= p THEN p - 1 + 1 ELSE 0
        /\ \A i \in 1 .. p - 1 + 1 : SubSeq(text, 1, p)[i] = text[1 + i - 1]
    BY <1>1, <2>1, SubSeqProperties
  <2>3. Len(SubSeq(text, 1, p)) = p /\ \A i \in 1 .. p : SubSeq(text, 1, p)[i] = name[i]
    BY <1>1, <1>5, <2>2
  <2>4. SubSeq(text, 1, p) = name
    BY <2>2, <2>3, SeqEqual DEF p
  <2>5. (p + 1) - 1 = p
    BY <1>1
  <2> QED
    BY <1>9, <2>4, <2>5, Zenon DEF JobDir, text
<1>11. BaseName(f) = base
  <2>1. \A i \in p + 2 .. p + 1 + q : text[i] \in Nat
    BY <1>4, <1>1, ElementOfSeq
  <2>2. /\ SubSeq(text, p + 2, p + 1 + q) \in Seq(Nat)
        /\ Len(SubSeq(text, p + 2, p + 1 + q))
             = IF p + 2 <= p + 1 + q THEN (p + 1 + q) - (p + 2) + 1 ELSE 0
        /\ \A i \in 1 .. (p + 1 + q) - (p + 2) + 1 :
             SubSeq(text, p + 2, p + 1 + q)[i] = text[(p + 2) + i - 1]
    BY <1>1, <2>1, SubSeqProperties
  <2>3. Len(SubSeq(text, p + 2, p + 1 + q)) = q
    BY <1>1, <2>2
  <2>4. \A i \in 1 .. q : SubSeq(text, p + 2, p + 1 + q)[i] = base[i]
    <3> TAKE i \in 1 .. q
    <3>1. i \in 1 .. (p + 1 + q) - (p + 2) + 1 /\ (p + 2) + i - 1 = p + 1 + i
      BY <1>1
    <3> QED
      BY <1>7, <2>2, <3>1
  <2>5. SubSeq(text, p + 2, p + 1 + q) = base
    BY <2>2, <2>3, <2>4, SeqEqual DEF q
  <2> QED
    BY <1>4, <1>10, <2>5, Zenon DEF BaseName, text, p
<1> QED
  BY <1>9, <1>10, <1>11 DEF text, p

\* The file of a step: its number is found again.
LEMMA StepFile ==
  ASSUME NEW f, NEW n \in Nat, BaseName(f) = Digits[n] \o <<Underscore, T>>
  PROVE  Numbered(f) /\ Value(NumberText(f)) = n
<1> DEFINE d == Digits[n]
           p == Len(d)
           end == <<Underscore, T>>
           base == d \o end
<1>1. /\ d \in Seq(Nat) /\ p \in Nat /\ p # 0 /\ p = Len(d)
      /\ \A i \in 1 .. p : d[i] \in 0 .. 9
  BY DigitsText
<1>2. /\ {S, Underscore, T} \subseteq Nat /\ S \notin 0 .. 9 /\ Underscore \notin 0 .. 9
  BY SpanAssumption
<1>3. end \in Seq(Nat) /\ Len(end) = 2 /\ end[1] = Underscore
  BY <1>2
<1> HIDE DEF end, d, p
<1>4. /\ base \in Seq(Nat) /\ Len(base) = p + 2
      /\ \A i \in 1 .. p + 2 : base[i] = IF i <= p THEN d[i] ELSE end[i - p]
  <2>1. /\ d \o end \in Seq(Nat) /\ Len(d \o end) = Len(d) + Len(end)
        /\ \A i \in 1 .. Len(d) + Len(end) :
             (d \o end)[i] = IF i <= Len(d) THEN d[i] ELSE end[i - Len(d)]
    BY <1>1, <1>3, ConcatProperties
  <2> QED
    BY <1>1, <1>3, <2>1, Zenon
<1> HIDE DEF base
<1>5. \A i \in 1 .. p : base[i] = d[i]
  <2> TAKE i \in 1 .. p
  <2>1. i \in 1 .. p + 2 /\ i <= p
    BY <1>1
  <2> QED
    BY <1>4, <2>1, Zenon
<1>6. base[p + 1] = Underscore
  <2>1. p + 1 \in 1 .. p + 2 /\ ~ (p + 1 <= p) /\ (p + 1) - p = 1
    BY <1>1
  <2>2. base[p + 1] = end[(p + 1) - p]
    BY <1>4, <2>1, Zenon
  <2> QED
    BY <1>3, <2>1, <2>2
<1>7. DOMAIN base = 1 .. p + 2
  BY <1>4, LenProperties
<1>8. IndexOf(base, Underscore) = p + 1
  <2>1. p + 1 \in DOMAIN base /\ DOMAIN base \subseteq Nat \ {0}
    BY <1>1, <1>7
  <2>2. (p + 1) - 1 = p
    BY <1>1
  <2>3. \A k \in 1 .. p : base[k] # Underscore
    BY <1>1, <1>2, <1>5, Zenon
  <2>4. \A k \in 1 .. (p + 1) - 1 : base[k] # Underscore
    BY <2>2, <2>3, Zenon
  <2> QED
    BY <1>6, <2>1, <2>4, IndexIs
<1>9. BaseName(f) = base
  BY DEF base, d, end
<1>10. NumberText(f) = d
  <2>1. /\ SubSeq(base, 1, p) \in Seq(Nat)
        /\ Len(SubSeq(base, 1, p)) = IF 1 <= p THEN p - 1 + 1 ELSE 0
        /\ \A i \in 1 .. p - 1 + 1 : SubSeq(base, 1, p)[i] = base[1 + i - 1]
    <3>1. \A i \in 1 .. p : base[i] \in Nat
      <4>1. 0 .. 9 \subseteq Nat
        OBVIOUS
      <4> QED
        BY <1>1, <1>5, <4>1, Zenon
    <3> QED
      BY <1>1, <3>1, SubSeqProperties
  <2>2. Len(SubSeq(base, 1, p)) = p /\ \A i \in 1 .. p : SubSeq(base, 1, p)[i] = d[i]
    BY <1>1, <1>5, <2>1
  <2>3. SubSeq(base, 1, p) = d
    BY <1>1, <2>1, <2>2, SeqEqual DEF p
  <2>4. (p + 1) - 1 = p /\ p + 1 # 0
    BY <1>1
  <2> QED
    BY <1>8, <1>9, <2>3, <2>4, Zenon DEF NumberText
<1>11. base # <<>> /\ base # System
  <2>1. 1 \in 1 .. p
    BY <1>1
  <2>2. base[1] \in 0 .. 9
    BY <1>1, <1>5, <2>1
  <2>3. System[1] = S
    BY DEF System
  <2>4. base # <<>>
    BY <1>1, <1>4
  <2> QED
    BY <1>2, <2>2, <2>3, <2>4
<1>12. d # <<>> /\ \A i \in DOMAIN d : d[i] \in 0 .. 9
  <2>1. d # <<>>
    BY <1>1 DEF p
  <2>2. DOMAIN d = 1 .. p
    BY <1>1, LenProperties DEF p
  <2> QED
    BY <1>1, <2>1, <2>2
<1>13. Value(d) = n
  BY ValueOfDigits DEF d
<1>14. Numbered(f)
  BY <1>9, <1>10, <1>11, <1>12 DEF Numbered
<1> QED
  BY <1>10, <1>13, <1>14

\* The files of the archive, by who wrote them.
WholeLog(j) == [dir |-> FALSE, name |-> <<0, Underscore>> \o j.name, job |-> j.job, number |-> 0]
Directory(j) == [dir |-> TRUE, name |-> j.name \o <<Slash>> \o <<>>, job |-> j.job, number |-> 0]
SystemLog(j) == [dir |-> FALSE, name |-> j.name \o <<Slash>> \o System, job |-> j.job, number |-> 0]
StepLog(j, i) ==
  [dir |-> FALSE, name |-> j.name \o <<Slash>> \o (Digits[j.steps[i].number] \o <<Underscore, T>>),
   job |-> j.job, number |-> j.steps[i].number]
StepLogs(j) == {StepLog(j, i) : i \in Logged(j)}
FilesOf(j) == {WholeLog(j), Directory(j), SystemLog(j)} \cup StepLogs(j)

LEMMA LoggedSteps == \A j : Logged(j) \subseteq DOMAIN j.steps
BY DEF Logged

LEMMA ArchiveIs == \A r : Archive(r) = UNION {FilesOf(j) : j \in JobsOf(r)}
BY Zenon DEF Archive, FilesOf, WholeLog, Directory, SystemLog, StepLog, StepLogs

LEMMA StepLogNamed ==
  ASSUME NEW j \in Jobs, NEW i \in DOMAIN j.steps
  PROVE  /\ IndexOf(StepLog(j, i).name, Slash) = Len(j.name) + 1
         /\ JobDir(StepLog(j, i)) = j.name
         /\ BaseName(StepLog(j, i)) = Digits[j.steps[i].number] \o <<Underscore, T>>
<1> DEFINE base == Digits[j.steps[i].number] \o <<Underscore, T>>
<1>1. base \in Seq(Nat)
  <2>1. Digits[j.steps[i].number] \in Seq(Nat)
    BY JobFields, DigitsText
  <2>2. <<Underscore, T>> \in Seq(Nat)
    BY SpanAssumption
  <2> QED
    BY <2>1, <2>2, ConcatProperties
<1>2. StepLog(j, i).name = j.name \o <<Slash>> \o base
  BY DEF StepLog
<1> HIDE DEF base
<1>3. /\ IndexOf(StepLog(j, i).name, Slash) = Len(j.name) + 1
      /\ JobDir(StepLog(j, i)) = j.name /\ BaseName(StepLog(j, i)) = base
  BY <1>1, <1>2, JobFields, JobAssumption, InDirectory
<1> QED
  BY <1>3 DEF base

LEMMA OnlyStepLogs ==
  ASSUME NEW r \in Runs
  PROVE  {g \in JobFiles(Archive(r)) : Numbered(g)} = UNION {StepLogs(j) : j \in JobsOf(r)}
<1>1. ASSUME NEW j \in Jobs PROVE IndexOf(WholeLog(j).name, Slash) = 0
  <2> DEFINE text == <<0, Underscore>> \o j.name
  <2>1. j.name \in Seq(Nat) /\ Len(j.name) \in Nat /\ DOMAIN j.name = 1 .. Len(j.name)
    BY JobFields, LenProperties
  <2>2. 0 # Slash /\ Underscore # Slash /\ Underscore \in Nat
    BY SpanAssumption
  <2>3. <<0, Underscore>> \in Seq(Nat) /\ Len(<<0, Underscore>>) = 2
        /\ <<0, Underscore>>[1] = 0 /\ <<0, Underscore>>[2] = Underscore
    BY <2>2
  <2>4. /\ text \in Seq(Nat) /\ Len(text) = 2 + Len(j.name)
        /\ \A i \in 1 .. 2 + Len(j.name) :
             text[i] = IF i <= 2 THEN <<0, Underscore>>[i] ELSE j.name[i - 2]
    BY <2>1, <2>3, ConcatProperties
  <2> HIDE DEF text
  <2>5. DOMAIN text = 1 .. 2 + Len(j.name)
    BY <2>4, LenProperties
  <2>6. ASSUME NEW i \in 1 .. 2 + Len(j.name) PROVE text[i] # Slash
    <3>1. text[i] = IF i <= 2 THEN <<0, Underscore>>[i] ELSE j.name[i - 2]
      BY <2>4, Zenon
    <3>2. CASE i <= 2
      <4>1. i = 1 \/ i = 2
        BY <3>2
      <4>2. text[i] = <<0, Underscore>>[i]
        BY <3>1, <3>2, Zenon
      <4> QED
        BY <2>2, <2>3, <4>1, <4>2
    <3>3. CASE ~ (i <= 2)
      <4>1. i - 2 \in 1 .. Len(j.name)
        BY <2>1, <3>3
      <4>2. text[i] = j.name[i - 2]
        BY <3>1, <3>3, Zenon
      <4>3. j.name[i - 2] # Slash
        BY <2>1, <4>1, JobAssumption
      <4> QED
        BY <4>2, <4>3
    <3> QED
      BY <3>2, <3>3
  <2>7. IndexOf(text, Slash) = 0
    BY <2>5, <2>6 DEF IndexOf
  <2>8. WholeLog(j).name = text
    BY DEF WholeLog, text
  <2> QED
    BY <2>7, <2>8
<1>2. \A j \in Jobs : Directory(j).dir
  BY DEF Directory
<1>3. ASSUME NEW j \in Jobs PROVE ~ Numbered(SystemLog(j))
  <2>1. SystemLog(j).name = j.name \o <<Slash>> \o System
    BY DEF SystemLog
  <2>2. System \in Seq(Nat)
    BY SpanAssumption DEF System
  <2>3. BaseName(SystemLog(j)) = System
    BY <2>1, <2>2, JobFields, JobAssumption, InDirectory
  <2> QED
    BY <2>3 DEF Numbered
<1>4. ASSUME NEW j \in Jobs, NEW i \in DOMAIN j.steps
      PROVE  /\ ~ StepLog(j, i).dir /\ IndexOf(StepLog(j, i).name, Slash) # 0
             /\ Numbered(StepLog(j, i))
  <2>1. /\ IndexOf(StepLog(j, i).name, Slash) = Len(j.name) + 1
        /\ BaseName(StepLog(j, i)) = Digits[j.steps[i].number] \o <<Underscore, T>>
    BY StepLogNamed
  <2>2. Len(j.name) + 1 # 0
    BY JobFields, LenProperties
  <2>3. Numbered(StepLog(j, i))
    BY <2>1, StepFile, JobFields
  <2>4. ~ StepLog(j, i).dir
    BY DEF StepLog
  <2> QED
    BY <2>1, <2>2, <2>3, <2>4
<1>5. JobsOf(r) \subseteq Jobs
  BY DEF JobsOf
<1> QED
  BY <1>1, <1>2, <1>3, <1>4, <1>5, ArchiveIs, LoggedSteps DEF JobFiles, FilesOf, StepLogs

\* The records of a step that ran in an attempt.
RecordsOf(r, j, n) ==
  [run |-> r.id, attempt |-> r.attempt, job |-> j.job, number |-> n,
   trace |-> TraceId(r.id, r.attempt), span |-> StepId(r.id, r.attempt, j.name, n)]

LEMMA RunLogsAre ==
  ASSUME NEW r \in Runs
  PROVE  RunLogs(r) = UNION {{RecordsOf(r, j, j.steps[i].number) : i \in Logged(j)} :
                               j \in JobsOf(r)}
<1> DEFINE Group(f) ==
      [run |-> r.id, attempt |-> r.attempt, job |-> f.job, number |-> f.number,
       trace |-> TraceId(r.id, r.attempt), span |-> LogSpanId(r, f)]
<1>1. RunLogs(r) = {Group(f) : f \in UNION {StepLogs(j) : j \in JobsOf(r)}}
  BY OnlyStepLogs, Zenon DEF RunLogs
<1>2. ASSUME NEW j \in JobsOf(r), NEW i \in Logged(j)
      PROVE  Group(StepLog(j, i)) = RecordsOf(r, j, j.steps[i].number)
  <2>1. j \in Jobs /\ i \in DOMAIN j.steps
    BY LoggedSteps DEF JobsOf
  <2>2. /\ JobDir(StepLog(j, i)) = j.name
        /\ BaseName(StepLog(j, i)) = Digits[j.steps[i].number] \o <<Underscore, T>>
    BY <2>1, StepLogNamed
  <2>3. Value(NumberText(StepLog(j, i))) = j.steps[i].number
    BY <2>1, <2>2, StepFile, JobFields
  <2>4. StepLog(j, i).job = j.job /\ StepLog(j, i).number = j.steps[i].number
    BY DEF StepLog
  <2> QED
    BY <2>2, <2>3, <2>4 DEF RecordsOf, LogSpanId
<1> HIDE DEF Group
<1> QED
  BY <1>1, <1>2 DEF StepLogs
-------------------------------------------------------------------------------
Known ==
  \A s \in spans : \E j \in Jobs :
    s = JobSpan(j) \/ \E i \in DOMAIN j.steps : s = StepSpan(j, j.steps[i])

Whole == \A j \in Jobs : JobSpan(j) \in spans => StepSpans(j) \subseteq spans

\* What the proof needs of a job span and of a step span.
LEMMA JobSpanFields ==
  ASSUME NEW j
  PROVE  /\ JobSpan(j).run = j.run /\ JobSpan(j).attempt = j.attempt
         /\ JobSpan(j).job = j.job /\ JobSpan(j).number = 0
         /\ JobSpan(j).status = JobStatus(j)
BY DEF JobSpan

LEMMA StepSpanFields ==
  ASSUME NEW j, NEW s
  PROVE  /\ StepSpan(j, s).run = j.run /\ StepSpan(j, s).attempt = j.attempt
         /\ StepSpan(j, s).job = j.job /\ StepSpan(j, s).number = s.number
         /\ StepSpan(j, s).status = StepStatus(s)
BY DEF StepSpan

LEMMA StepStatusIs ==
  ASSUME NEW s
  PROVE  /\ StepStatus(s) = "error" <=> s.conclusion = "failure"
         /\ s.conclusion = "success" => StepStatus(s) = "ok"
<1>1. CASE s.conclusion = "success"
  BY <1>1 DEF StepStatus
<1>2. CASE s.conclusion = "failure"
  BY <1>2 DEF StepStatus
<1>3. CASE s.conclusion \notin {"success", "failure"}
  BY <1>3 DEF StepStatus
<1> QED
  BY <1>1, <1>2, <1>3

\* Numbers tell the spans of steps from those of jobs.
LEMMA TakenSpans ==
  ASSUME Known
  PROVE  /\ \A a \in JobSpansTaken : \E j \in Jobs : a = JobSpan(j)
         /\ \A b \in StepSpansTaken : \E j \in Jobs : \E i \in DOMAIN j.steps :
              b = StepSpan(j, j.steps[i])
BY JobAssumption, JobSpanFields, StepSpanFields DEF Known, JobSpansTaken, StepSpansTaken

\* The spans of a job's steps are those of the steps of the job itself.
LEMMA StepsOfJob ==
  ASSUME Known, Whole, NEW j \in Jobs, JobSpan(j) \in spans
  PROVE  {b \in StepSpansTaken : SameJobAs(JobSpan(j), b)} = StepSpans(j)
<1> DEFINE steps == {b \in StepSpansTaken : SameJobAs(JobSpan(j), b)}
<1>1. ASSUME NEW b \in steps PROVE b \in StepSpans(j)
  <2>1. PICK k \in Jobs : \E i \in DOMAIN k.steps : b = StepSpan(k, k.steps[i])
    BY TakenSpans
  <2>2. PICK i \in DOMAIN k.steps : b = StepSpan(k, k.steps[i])
    BY <2>1
  <2>3. k.run = j.run /\ k.attempt = j.attempt /\ k.job = j.job
    BY <2>2, JobSpanFields, StepSpanFields DEF SameJobAs, SameAttemptOf
  <2>4. k = j
    BY <2>3, JobAssumption
  <2> QED
    BY <2>2, <2>4 DEF StepSpans
<1>2. ASSUME NEW b \in StepSpans(j) PROVE b \in steps
  <2>1. PICK i \in DOMAIN j.steps : b = StepSpan(j, j.steps[i])
    BY DEF StepSpans
  <2>2. b \in spans
    BY DEF Whole
  <2>3. b.number # 0 /\ b.run = j.run /\ b.attempt = j.attempt /\ b.job = j.job
    BY <2>1, JobAssumption, StepSpanFields
  <2> QED
    BY <2>2, <2>3, JobSpanFields DEF StepSpansTaken, SameJobAs, SameAttemptOf
<1> QED
  BY <1>1, <1>2

LEMMA KnownAlways == Spec => [](Known /\ Whole)
<1>1. Init => Known /\ Whole
  BY DEF Init, Known, Whole
<1>2. Known /\ Whole /\ [Next]_vars => (Known /\ Whole)'
  <2> SUFFICES ASSUME Known, Whole, [Next]_vars PROVE Known' /\ Whole'
    OBVIOUS
  <2>1. CASE spans' = spans
    BY <2>1 DEF Known, Whole
  <2>2. ASSUME NEW j \in Jobs, DeliverJob(j) PROVE Known' /\ Whole'
    <3>1. spans' = spans \cup {JobSpan(j)} \cup StepSpans(j)
      BY <2>2 DEF DeliverJob
    <3>2. Known'
      BY <3>1 DEF Known, StepSpans
    <3>3. ASSUME NEW k \in Jobs, JobSpan(k) \in spans' PROVE StepSpans(k) \subseteq spans'
      <4>1. CASE JobSpan(k) \in spans
        BY <4>1, <3>1 DEF Whole
      <4>2. CASE JobSpan(k) = JobSpan(j)
        <5>1. k = j
          BY <4>2, JobSpanFields, JobAssumption
        <5> QED
          BY <5>1, <3>1
      <4>3. CASE JobSpan(k) \in StepSpans(j)
        BY <4>3, JobSpanFields, StepSpanFields, JobAssumption DEF StepSpans
      <4> QED
        BY <3>1, <3>3, <4>1, <4>2, <4>3
    <3> QED
      BY <3>2, <3>3 DEF Whole
  <2>3. CASE \E r \in Runs : DeliverRun(r) \/ DeliverLogs(r)
    BY <2>3, <2>1 DEF DeliverRun, DeliverLogs
  <2> QED
    BY <2>1, <2>2, <2>3 DEF Next, vars
<1> QED
  BY <1>1, <1>2, PTL DEF Spec

\* A job failed if a step did, and succeeded only if all of its steps did: the loop
\* of createParentSpan and the status of createSpan agree.
THEOREM StatusesAgree == Spec => []JobStatusFromSteps
<1>1. Known /\ Whole => JobStatusFromSteps
  <2> SUFFICES ASSUME Known, Whole, NEW a \in JobSpansTaken
               PROVE  LET steps == {b \in StepSpansTaken : SameJobAs(a, b)}
                      IN  /\ a.status = "error" <=> \E b \in steps : b.status = "error"
                          /\ a.status = "ok" => \A b \in steps : b.status = "ok"
    BY DEF JobStatusFromSteps
  <2>1. PICK j \in Jobs : a = JobSpan(j)
    BY TakenSpans
  <2>2. {b \in StepSpansTaken : SameJobAs(a, b)} = StepSpans(j)
    BY <2>1, StepsOfJob DEF JobSpansTaken
  <2>3. a.status = JobStatus(j)
    BY <2>1, JobSpanFields
  <2>4. JobStatus(j) = "error" <=> \E b \in StepSpans(j) : b.status = "error"
    <3>1. JobStatus(j) = "error" <=> \E i \in DOMAIN j.steps : j.steps[i].conclusion = "failure"
      BY DEF JobStatus, Conclusions
    <3> QED
      BY <3>1, StepSpanFields, StepStatusIs DEF StepSpans
  <2>5. JobStatus(j) = "ok" => \A b \in StepSpans(j) : b.status = "ok"
    <3>1. JobStatus(j) = "ok" => \A i \in DOMAIN j.steps : j.steps[i].conclusion = "success"
      BY DEF JobStatus, AllSuccessful
    <3> QED
      BY <3>1, StepSpanFields, StepStatusIs DEF StepSpans
  <2> QED
    BY <2>2, <2>3, <2>4, <2>5
<1> QED
  BY <1>1, KnownAlways, PTL

\* Root spans come of runs, and logs of the attempts whose archive was converted.
KnownRuns ==
  /\ roots \subseteq {RootSpan(r) : r \in Runs}
  /\ fetched \subseteq Runs /\ \A r \in fetched : RunLogs(r) \subseteq logs
  /\ \A l \in logs : \E r \in fetched : l \in RunLogs(r)

LEMMA KnownRunsAlways == Spec => []KnownRuns
<1>1. Init => KnownRuns
  BY DEF Init, KnownRuns
<1>2. KnownRuns /\ [Next]_vars => KnownRuns'
  <2> SUFFICES ASSUME KnownRuns, [Next]_vars PROVE KnownRuns'
    OBVIOUS
  <2>1. ASSUME NEW j \in Jobs, DeliverJob(j) PROVE KnownRuns'
    BY <2>1 DEF KnownRuns, DeliverJob
  <2>2. ASSUME NEW r \in Runs, DeliverRun(r) PROVE KnownRuns'
    BY <2>2 DEF KnownRuns, DeliverRun
  <2>3. ASSUME NEW r \in Runs, DeliverLogs(r) PROVE KnownRuns'
    <3>1. fetched' = fetched \cup {r} /\ roots' = roots /\ logs' = logs \cup RunLogs(r)
      BY <2>3 DEF DeliverLogs
    <3> QED
      BY <3>1 DEF KnownRuns
  <2>4. CASE UNCHANGED vars
    BY <2>4 DEF KnownRuns, vars
  <2> QED
    BY <2>1, <2>2, <2>3, <2>4 DEF Next
<1> QED
  BY <1>1, <1>2, PTL DEF Spec

\* s is the span of job j, or of its step of that number.
SpanOf(s, j, number) ==
  /\ s.run = j.run /\ s.attempt = j.attempt /\ s.job = j.job /\ s.number = number
  /\ s.trace = TraceId(j.run, j.attempt) /\ s.id = Span(SpanText(j, number))

LEMMA SpansAre ==
  ASSUME Known, NEW s \in spans
  PROVE  \E j \in Jobs : \E n \in Nat : SpanOf(s, j, n)
<1>1. PICK j \in Jobs : s = JobSpan(j) \/ \E i \in DOMAIN j.steps : s = StepSpan(j, j.steps[i])
  BY DEF Known
<1>2. CASE s = JobSpan(j)
  <2>1. SpanOf(s, j, 0)
    BY <1>2, JobSpanFields, JobSpanLinks DEF SpanOf
  <2> QED
    BY <2>1
<1>3. ASSUME NEW i \in DOMAIN j.steps, s = StepSpan(j, j.steps[i])
      PROVE  \E n \in Nat : SpanOf(s, j, n)
  <2>1. SpanOf(s, j, j.steps[i].number)
    BY <1>3, StepSpanFields, StepSpanLinks DEF SpanOf
  <2> QED
    BY <2>1, JobFields
<1> QED
  BY <1>1, <1>2, <1>3

LEMMA RootParent ==
  ASSUME NEW m \in Nat, NEW a \in Nat, NEW t \in Seq(Nat),
         Span(RunText(m, a) \o t) = ParentId(m, a)
  PROVE  t = <<S>>
<1>1. RunText(m, a) \o t = RunText(m, a) \o <<S>>
  BY DEF ParentId, Span
<1>2. RunText(m, a) \in Seq(Nat) /\ <<S>> \in Seq(Nat)
  <2>1. S \in Nat
    BY SpanAssumption
  <2> QED
    BY <2>1, RunTextType
<1> QED
  BY <1>1, <1>2, SameStart

\* Two spans share a trace and an identifier only if they are of one job or step, or of
\* runs or jobs whose IDs or names differ by digits at their end: generateTraceID and
\* the generate*SpanID functions separate the parts of their texts by nothing, and that
\* is all there is to lose.
THEOREM AlikeIsConfusable == Spec => []AlikeOnlyIfConfusable
<1>1. Known /\ KnownRuns => AlikeOnlyIfConfusable
  <2> SUFFICES ASSUME Known, KnownRuns PROVE AlikeOnlyIfConfusable
    OBVIOUS
  <2>1. ASSUME NEW a \in spans, NEW b \in spans, a.trace = b.trace, a.id = b.id,
               ~Confusable(a, b)
        PROVE  SameStepAs(a, b)
    <3>1. PICK j \in Jobs : \E m \in Nat : SpanOf(a, j, m)
      BY SpansAre
    <3>2. PICK m \in Nat : SpanOf(a, j, m)
      BY <3>1
    <3>3. PICK k \in Jobs : \E n \in Nat : SpanOf(b, k, n)
      BY SpansAre
    <3>4. PICK n \in Nat : SpanOf(b, k, n)
      BY <3>3
    <3>5. TraceId(j.run, j.attempt) = TraceId(k.run, k.attempt)
          /\ Span(SpanText(j, m)) = Span(SpanText(k, n))
      BY <2>1, <3>2, <3>4 DEF SpanOf
    <3>6. ~NearRuns(j.run, k.run) /\ ~NearJobs(j, k)
      BY <2>1, <3>2, <3>4 DEF Confusable, SpanOf, SameJobAs, SameAttemptOf
    <3>7. j = k /\ m = n
      BY <3>5, <3>6, SpanTextTold
    <3> QED
      BY <3>2, <3>4, <3>7 DEF SpanOf, SameStepAs, SameJobAs, SameAttemptOf
  <2>2. ASSUME NEW r \in roots, NEW a \in spans, r.trace = a.trace, r.id = a.id,
               ~NearRuns(r.run, a.run)
        PROVE  a.number = 0 /\ \E j \in Jobs : SameJobAs(a, j) /\ j.name = <<S>>
    <3>1. PICK q \in Runs : r = RootSpan(q)
      BY DEF KnownRuns
    <3>2. PICK j \in Jobs : \E m \in Nat : SpanOf(a, j, m)
      BY SpansAre
    <3>3. PICK m \in Nat : SpanOf(a, j, m)
      BY <3>2
    <3>4. TraceId(q.id, q.attempt) = TraceId(j.run, j.attempt)
          /\ ParentId(q.id, q.attempt) = Span(SpanText(j, m)) /\ ~NearRuns(q.id, j.run)
      BY <2>2, <3>1, <3>3, RootSpanFields DEF SpanOf
    <3>5. q.id = j.run /\ q.attempt = j.attempt
      BY <3>4, RunFields, JobFields, TracesTold
    <3>6. Span(RunText(j.run, j.attempt) \o NameText(j, m)) = ParentId(j.run, j.attempt)
      BY <3>4, <3>5 DEF SpanText
    <3>7. NameText(j, m) = <<S>>
      BY <3>6, RootParent, SpanTextType, JobFields
    <3>8. m = 0 /\ j.name = <<S>>
      BY <3>7, RootTold
    <3> QED
      BY <3>3, <3>8 DEF SpanOf, SameJobAs, SameAttemptOf
  <2>3. ASSUME NEW q \in roots, NEW r \in roots, q.trace = r.trace, ~NearRuns(q.run, r.run)
        PROVE  SameAttemptOf(q, r)
    <3>1. PICK p \in Runs : q = RootSpan(p)
      BY DEF KnownRuns
    <3>2. PICK o \in Runs : r = RootSpan(o)
      BY DEF KnownRuns
    <3>3. TraceId(p.id, p.attempt) = TraceId(o.id, o.attempt) /\ ~NearRuns(p.id, o.id)
      BY <2>3, <3>1, <3>2, RootSpanFields
    <3>4. p.id = o.id /\ p.attempt = o.attempt
      BY <3>3, RunFields, TracesTold
    <3> QED
      BY <3>1, <3>2, <3>4, RootSpanFields DEF SameAttemptOf
  <2> QED
    BY <2>1, <2>2, <2>3 DEF AlikeOnlyIfConfusable
<1> QED
  BY <1>1, KnownAlways, KnownRunsAlways, PTL

\* The spans of an attempt are one tree, whichever of its deliveries came first and
\* however often: createRootSpan, createParentSpan and createSpan derive the same
\* identifiers, of nothing else.  The IDs of runs and the names of an attempt's jobs are
\* to be different (RunsApart, NamesApart); a name may be another one with digits.
THEOREM SpansAreOneTree == ASSUME RunsApart, NamesApart PROVE Spec => []OneTree
<1>1. Known /\ KnownRuns => OneTree
  <2> SUFFICES ASSUME Known, KnownRuns PROVE OneTree
    OBVIOUS
  <2>1. ASSUME NEW a \in JobSpansTaken, NEW r \in roots
        PROVE  a.trace = r.trace /\ a.parent = r.id <=> SameAttemptOf(a, r)
    <3>1. PICK j \in Jobs : a = JobSpan(j)
      BY TakenSpans
    <3>2. PICK q \in Runs : r = RootSpan(q)
      BY DEF KnownRuns
    <3>3. /\ a.run = j.run /\ a.attempt = j.attempt
          /\ a.trace = TraceId(j.run, j.attempt) /\ a.parent = ParentId(j.run, j.attempt)
      BY <3>1, JobSpanFields, JobSpanLinks
    <3>4. /\ r.run = q.id /\ r.attempt = q.attempt
          /\ r.trace = TraceId(q.id, q.attempt) /\ r.id = ParentId(q.id, q.attempt)
      BY <3>2, RootSpanFields
    <3>5. TraceId(j.run, j.attempt) = TraceId(q.id, q.attempt)
            => j.run = q.id /\ j.attempt = q.attempt
      BY RunFields, JobFields, TracesTold DEF RunsApart
    <3> QED
      BY <3>3, <3>4, <3>5 DEF SameAttemptOf
  <2>2. ASSUME NEW a \in StepSpansTaken, NEW b \in JobSpansTaken
        PROVE  a.trace = b.trace /\ a.parent = b.id <=> SameJobAs(a, b)
    <3>1. PICK j \in Jobs : \E i \in DOMAIN j.steps : a = StepSpan(j, j.steps[i])
      BY TakenSpans
    <3>2. PICK k \in Jobs : b = JobSpan(k)
      BY TakenSpans
    <3>3. /\ a.run = j.run /\ a.attempt = j.attempt /\ a.job = j.job
          /\ a.trace = TraceId(j.run, j.attempt) /\ a.parent = Span(SpanText(j, 0))
      BY <3>1, StepSpanFields, StepSpanLinks
    <3>4. /\ b.run = k.run /\ b.attempt = k.attempt /\ b.job = k.job
          /\ b.trace = TraceId(k.run, k.attempt) /\ b.id = Span(SpanText(k, 0))
      BY <3>2, JobSpanFields, JobSpanLinks
    <3>5. ASSUME a.trace = b.trace, a.parent = b.id PROVE j = k
      <4>1. TraceId(j.run, j.attempt) = TraceId(k.run, k.attempt)
            /\ Span(SpanText(j, 0)) = Span(SpanText(k, 0)) /\ 0 \in Nat
        BY <3>3, <3>4, <3>5
      <4> QED
        BY <4>1, JobTextTold
    <3>6. ASSUME SameJobAs(a, b) PROVE j = k
      BY <3>3, <3>4, <3>6, JobAssumption DEF SameJobAs, SameAttemptOf
    <3> QED
      BY <3>3, <3>4, <3>5, <3>6 DEF SameJobAs, SameAttemptOf
  <2> QED
    BY <2>1, <2>2 DEF OneTree
<1> QED
  BY <1>1, KnownAlways, KnownRunsAlways, PTL

\* The root span of an attempt links to the trace of the attempt before it, and to no
\* trace of any other attempt: the link of createRootSpan.
THEOREM LinksToPreviousAttempt == ASSUME RunsApart PROVE Spec => []PreviousAttemptLinked
<1>1. KnownRuns => PreviousAttemptLinked
  <2> SUFFICES ASSUME KnownRuns, NEW a \in roots, NEW b \in roots
               PROVE  b.trace \in a.links <=>
                        /\ a.run = b.run /\ a.attempt = b.attempt + 1
                        /\ \E r \in Runs : r.id = a.run /\ r.attempt = a.attempt /\ r.previous
    BY DEF PreviousAttemptLinked
  <2>1. PICK p \in Runs : a = RootSpan(p)
    BY DEF KnownRuns
  <2>2. PICK q \in Runs : b = RootSpan(q)
    BY DEF KnownRuns
  <2>3. /\ a.run = p.id /\ a.attempt = p.attempt
        /\ a.links = IF p.previous /\ p.attempt > 1
                       THEN {TraceId(p.id, PreviousAttempt(p))} ELSE {}
        /\ b.run = q.id /\ b.attempt = q.attempt /\ b.trace = TraceId(q.id, q.attempt)
    BY <2>1, <2>2, RootSpanFields
  <2>4. /\ p.id \in RunIds /\ p.id \in Nat /\ p.attempt \in Nat \ {0}
        /\ q.id \in RunIds /\ q.id \in Nat /\ q.attempt \in Nat \ {0}
    BY RunFields
  <2>5. PreviousAttempt(p) = p.attempt - 1
    BY DEF PreviousAttempt
  <2>6. (\E r \in Runs : r.id = a.run /\ r.attempt = a.attempt /\ r.previous) <=> p.previous
    BY <2>3, JobAssumption
  <2>7. ASSUME b.trace \in a.links
        PROVE  a.run = b.run /\ a.attempt = b.attempt + 1 /\ p.previous
    <3>1. p.previous /\ b.trace = TraceId(p.id, PreviousAttempt(p))
      BY <2>3, <2>7
    <3>2. TraceId(p.id, p.attempt - 1) = TraceId(q.id, q.attempt)
      BY <2>3, <2>5, <3>1
    <3>3. p.id = q.id /\ p.attempt - 1 = q.attempt
      BY <2>4, <3>2, TracesTold DEF RunsApart
    <3> QED
      BY <2>3, <2>4, <3>1, <3>3
  <2>8. ASSUME a.run = b.run, a.attempt = b.attempt + 1, p.previous
        PROVE  b.trace \in a.links
    <3>1. p.attempt > 1 /\ PreviousAttempt(p) = q.attempt /\ p.id = q.id
      BY <2>3, <2>4, <2>5, <2>8
    <3> QED
      BY <2>3, <2>8, <3>1
  <2> QED
    BY <2>6, <2>7, <2>8
<1> QED
  BY <1>1, KnownRunsAlways, PTL

\* Records point at the span of the step they were written by, and at another only if
\* the texts cannot tell the two apart, and the logs of an attempt are those of the steps
\* the archive has files for, whichever these are: extractJobsAndFilesFromZip and
\* extractStepNumberFromFileName find the job and the number of every file again.
THEOREM LogsAreOfSteps == Spec => []LogsFindTheirStep
<1>1. Known /\ KnownRuns => LogsFindTheirStep
  <2> SUFFICES ASSUME Known, KnownRuns PROVE LogsFindTheirStep
    OBVIOUS
  <2>1. ASSUME NEW l \in logs
        PROVE  \E r \in fetched : \E j \in JobsOf(r) : \E i \in Logged(j) :
                 l = RecordsOf(r, j, j.steps[i].number)
    <3>1. PICK r \in fetched : l \in RunLogs(r)
      BY DEF KnownRuns
    <3> QED
      BY <3>1, RunLogsAre DEF KnownRuns
  <2>2. ASSUME NEW l \in logs, NEW s \in spans
        PROVE  /\ SameStepAs(l, s) => l.trace = s.trace /\ l.span = s.id
               /\ l.trace = s.trace /\ l.span = s.id => SameStepAs(l, s) \/ Confusable(l, s)
    <3>1. PICK r \in fetched : \E j \in JobsOf(r) : \E i \in Logged(j) :
            l = RecordsOf(r, j, j.steps[i].number)
      BY <2>1
    <3>2. PICK j \in JobsOf(r) : \E i \in Logged(j) : l = RecordsOf(r, j, j.steps[i].number)
      BY <3>1
    <3>3. PICK i \in Logged(j) : l = RecordsOf(r, j, j.steps[i].number)
      BY <3>2
    <3> DEFINE m == j.steps[i].number
    <3>4. j \in Jobs /\ j.run = r.id /\ j.attempt = r.attempt /\ m \in Nat /\ m # 0
      BY JobFields, LoggedSteps DEF JobsOf
    <3> HIDE DEF m
    <3>5. /\ l.run = j.run /\ l.attempt = j.attempt /\ l.job = j.job /\ l.number = m
          /\ l.trace = TraceId(j.run, j.attempt) /\ l.span = Span(SpanText(j, m))
      BY <3>3, <3>4, StepIdIs DEF RecordsOf, m
    <3>6. PICK k \in Jobs : \E n \in Nat : SpanOf(s, k, n)
      BY SpansAre
    <3>7. PICK n \in Nat : SpanOf(s, k, n)
      BY <3>6
    <3>8. ASSUME l.trace = s.trace, l.span = s.id, ~Confusable(l, s) PROVE j = k /\ m = n
      <4>1. TraceId(j.run, j.attempt) = TraceId(k.run, k.attempt)
            /\ Span(SpanText(j, m)) = Span(SpanText(k, n))
        BY <3>5, <3>7, <3>8 DEF SpanOf
      <4>2. ~NearRuns(j.run, k.run) /\ ~NearJobs(j, k)
        BY <3>4, <3>5, <3>7, <3>8 DEF Confusable, SpanOf, SameJobAs, SameAttemptOf
      <4> QED
        BY <3>4, <4>1, <4>2, SpanTextTold
    <3>9. ASSUME SameStepAs(l, s) PROVE j = k /\ m = n
      BY <3>4, <3>5, <3>7, <3>9, JobAssumption DEF SpanOf, SameStepAs, SameJobAs, SameAttemptOf
    <3> QED
      BY <3>5, <3>7, <3>8, <3>9 DEF SpanOf, SameStepAs, SameJobAs, SameAttemptOf
  <2>3. ASSUME NEW r \in fetched, NEW j \in JobsOf(r)
        PROVE  {l.number : l \in {k \in logs : SameAttemptOf(k, j) /\ k.job = j.job}}
                 = {j.steps[i].number : i \in Logged(j)}
    <3> DEFINE own == {k \in logs : SameAttemptOf(k, j) /\ k.job = j.job}
    <3>1. j \in Jobs /\ r \in Runs /\ j.run = r.id /\ j.attempt = r.attempt
      BY DEF JobsOf, KnownRuns
    <3>2. ASSUME NEW i \in Logged(j)
          PROVE  \E l \in own : l.number = j.steps[i].number
      <4> DEFINE l == RecordsOf(r, j, j.steps[i].number)
      <4>1. l \in RunLogs(r)
        BY <3>1, RunLogsAre
      <4>2. l \in logs
        BY <4>1 DEF KnownRuns
      <4>3. l.run = j.run /\ l.attempt = j.attempt /\ l.job = j.job /\ l.number = j.steps[i].number
        BY <3>1 DEF RecordsOf
      <4> QED
        BY <4>2, <4>3 DEF SameAttemptOf
    <3>3. ASSUME NEW l \in own PROVE \E i \in Logged(j) : l.number = j.steps[i].number
      <4>1. PICK q \in fetched : \E k \in JobsOf(q) : \E i \in Logged(k) :
              l = RecordsOf(q, k, k.steps[i].number)
        BY <2>1
      <4>2. PICK k \in JobsOf(q) : \E i \in Logged(k) : l = RecordsOf(q, k, k.steps[i].number)
        BY <4>1
      <4>3. PICK i \in Logged(k) : l = RecordsOf(q, k, k.steps[i].number)
        BY <4>2
      <4>4. k \in Jobs /\ k.run = l.run /\ k.attempt = l.attempt /\ k.job = l.job
            /\ l.number = k.steps[i].number
        BY <4>3 DEF RecordsOf, JobsOf
      <4>5. k = j
        BY <3>1, <4>4, JobAssumption DEF SameAttemptOf
      <4> QED
        BY <4>4, <4>5
    <3> QED
      BY <3>2, <3>3
  <2> QED
    BY <2>2, <2>3 DEF LogsFindTheirStep
<1> QED
  BY <1>1, KnownAlways, KnownRunsAlways, PTL

\* What is so of a step and of the one after it is so of any two.
LEMMA StepsOrdered ==
  ASSUME StepsInTurn, NEW j \in Jobs, NEW i \in DOMAIN j.steps, NEW k \in DOMAIN j.steps, i <= k
  PROVE  /\ j.steps[i].started <= j.steps[k].started
         /\ StepEnd(j.steps[i]) <= StepEnd(j.steps[k])
<1> DEFINE s == j.steps
           N == {n \in Nat : i + n <= Len(s) =>
                   /\ s[i].started <= s[i + n].started
                   /\ StepEnd(s[i]) <= StepEnd(s[i + n])}
<1>1. /\ DOMAIN s = 1 .. Len(s) /\ Len(s) \in Nat
      /\ \A n \in 1 .. Len(s) : s[n].started \in Nat /\ StepEnd(s[n]) \in Nat
  <2>1. DOMAIN s = 1 .. Len(s) /\ Len(s) \in Nat
    BY JobFields
  <2>2. \A n \in DOMAIN s : s[n].started \in Nat /\ s[n].completed \in Nat
    BY JobFields
  <2> QED
    BY <2>1, <2>2 DEF StepEnd
<1>2. /\ \A n \in 1 .. Len(s) : s[n].started <= StepEnd(s[n])
      /\ \A n \in 2 .. Len(s) : StepEnd(s[n - 1]) <= s[n].started
  BY <1>1 DEF StepsInTurn
<1> HIDE DEF s
<1>3. 0 \in N
  <2>1. i + 0 = i /\ i \in 1 .. Len(s)
    BY <1>1 DEF s
  <2> QED
    BY <1>1, <2>1
<1>4. ASSUME NEW n \in Nat, n \in N PROVE n + 1 \in N
  <2> SUFFICES ASSUME i + (n + 1) <= Len(s)
               PROVE  /\ s[i].started <= s[i + (n + 1)].started
                      /\ StepEnd(s[i]) <= StepEnd(s[i + (n + 1)])
    OBVIOUS
  <2>1. /\ i \in 1 .. Len(s) /\ i + n \in 1 .. Len(s) /\ i + (n + 1) \in 2 .. Len(s)
        /\ i + (n + 1) \in 1 .. Len(s) /\ (i + (n + 1)) - 1 = i + n
    BY <1>1 DEF s
  <2>2. s[i].started <= s[i + n].started /\ StepEnd(s[i]) <= StepEnd(s[i + n])
    BY <1>4, <2>1
  <2>3. /\ s[i + n].started <= StepEnd(s[i + n]) /\ StepEnd(s[i + n]) <= s[i + (n + 1)].started
        /\ s[i + (n + 1)].started <= StepEnd(s[i + (n + 1)])
    BY <1>2, <2>1
  <2> QED
    BY <1>1, <2>1, <2>2, <2>3
<1>5. k - i \in N
  <2>1. Nat \subseteq N
    <3> HIDE DEF N
    <3> QED
      BY <1>3, <1>4, Induct
  <2>2. k - i \in Nat
    BY <1>1 DEF s
  <2> QED
    BY <2>1, <2>2
<1>6. i + (k - i) = k /\ k <= Len(s)
  BY <1>1 DEF s
<1> QED
  BY <1>5, <1>6 DEF s

\* The span of a job begins and ends around the spans of its steps, unless the last was
\* sent without a completion time; then it ends at the zero time: createParentSpan takes
\* the times of the first and the last step, and createSpan corrects that of the last
\* after it.  GitHub runs the steps of a job one after the other (StepsInTurn).
THEOREM JobsCoverSteps == ASSUME StepsInTurn PROVE Spec => []JobCoversSteps
<1>1. Known => JobCoversSteps
  <2> SUFFICES ASSUME Known, NEW a \in JobSpansTaken, NEW b \in StepSpansTaken, SameJobAs(a, b)
               PROVE  /\ a.start <= b.start
                      /\ IF LastStepOpen(a) THEN a.end = Zero ELSE b.end <= a.end
    BY DEF JobCoversSteps
  <2>1. PICK j \in Jobs : a = JobSpan(j)
    BY TakenSpans
  <2>2. PICK k \in Jobs : \E i \in DOMAIN k.steps : b = StepSpan(k, k.steps[i])
    BY TakenSpans
  <2>3. PICK i \in DOMAIN k.steps : b = StepSpan(k, k.steps[i])
    BY <2>2
  <2>4. k = j
    BY <2>1, <2>3, JobSpanFields, StepSpanFields, JobAssumption DEF SameJobAs, SameAttemptOf
  <2> DEFINE s == j.steps
             n == Len(s)
  <2>5. i \in DOMAIN s /\ 1 \in DOMAIN s /\ n \in DOMAIN s /\ 1 <= i /\ i <= n /\ s # <<>>
    BY <2>4, JobFields
  <2>6. a.start = s[1].started /\ a.end = s[n].completed
    BY <2>1, <2>5, JobSpanLinks DEF JobStart, JobEnd
  <2>7. b.start = s[i].started /\ b.end = StepEnd(s[i])
    BY <2>3, <2>4, StepSpanLinks
  <2>8. LastStepOpen(a) <=> s[n].completed = Zero
    <3>1. ASSUME NEW q \in Jobs, SameJobAs(a, q) PROVE q = j
      BY <2>1, <3>1, JobSpanFields, JobAssumption DEF SameJobAs, SameAttemptOf
    <3>2. SameJobAs(a, j)
      BY <2>1, JobSpanFields DEF SameJobAs, SameAttemptOf
    <3> QED
      BY <2>5, <3>1, <3>2 DEF LastStepOpen
  <2>9. s[1].started <= s[i].started /\ StepEnd(s[i]) <= StepEnd(s[n])
    BY <2>5, StepsOrdered
  <2> QED
    BY <2>6, <2>7, <2>8, <2>9 DEF StepEnd
<1> QED
  BY <1>1, KnownAlways, PTL

LEMMA IdsAre ==
  ASSUME NEW t \in Seq(Nat)
  PROVE  Trace(t) \in Id(0) /\ Span(t) \in Id(16)
BY DEF Trace, Span, Id

LEMMA RootIds ==
  ASSUME NEW id \in Nat, NEW attempt \in Nat
  PROVE  TraceId(id, attempt) \in Id(0) /\ ParentId(id, attempt) \in Id(16)
<1>1. <<T>> \in Seq(Nat) /\ <<S>> \in Seq(Nat)
  <2>1. S \in Nat /\ T \in Nat
    BY SpanAssumption
  <2> QED
    BY <2>1
<1>2. RunText(id, attempt) \in Seq(Nat)
  BY RunTextType
<1>3. RunText(id, attempt) \o <<T>> \in Seq(Nat) /\ RunText(id, attempt) \o <<S>> \in Seq(Nat)
  BY <1>1, <1>2, ConcatProperties
<1> QED
  BY <1>3, IdsAre DEF TraceId, ParentId

\* The identifiers of spans and records are cut from texts where generateTraceID and
\* the generate*SpanID functions cut them, and the times of spans are there.
THEOREM SpanTypes == Spec => []TypeOK
<1>1. Known /\ KnownRuns => TypeOK
  <2> SUFFICES ASSUME Known, KnownRuns PROVE TypeOK
    OBVIOUS
  <2>1. ASSUME NEW r \in roots
        PROVE  r.trace \in Id(0) /\ r.id \in Id(16) /\ \A l \in r.links : l \in Id(0)
    <3>1. PICK q \in Runs : r = RootSpan(q)
      BY DEF KnownRuns
    <3>2. q.id \in Nat /\ q.attempt \in Nat /\ PreviousAttempt(q) \in Nat
      BY RunFields DEF PreviousAttempt
    <3>3. \A l \in r.links : l = TraceId(q.id, PreviousAttempt(q))
      BY <3>1, RootSpanFields
    <3> QED
      BY <3>1, <3>2, <3>3, RootSpanFields, RootIds
  <2>2. ASSUME NEW s \in spans
        PROVE  /\ s.trace \in Id(0) /\ s.id \in Id(16) /\ s.parent \in Id(16)
               /\ s.start \in Nat /\ s.end \in Nat /\ s.status \in {"ok", "error", "unset"}
    <3>1. PICK j \in Jobs : s = JobSpan(j) \/ \E i \in DOMAIN j.steps : s = StepSpan(j, j.steps[i])
      BY DEF Known
    <3>2. /\ TraceId(j.run, j.attempt) \in Id(0) /\ ParentId(j.run, j.attempt) \in Id(16)
          /\ \A n \in Nat : Span(SpanText(j, n)) \in Id(16)
      BY JobFields, RootIds, SpanTextType, IdsAre
    <3>3. CASE s = JobSpan(j)
      <4>1. j.steps # <<>> => 1 \in DOMAIN j.steps /\ Len(j.steps) \in DOMAIN j.steps
        BY JobFields
      <4>2. JobStart(j) \in Nat /\ JobEnd(j) \in Nat
        BY <4>1, JobFields DEF JobStart, JobEnd
      <4>3. JobStatus(j) \in {"ok", "error", "unset"}
        BY DEF JobStatus
      <4> QED
        BY <3>2, <3>3, <4>2, <4>3, JobSpanFields, JobSpanLinks
    <3>4. ASSUME NEW i \in DOMAIN j.steps, s = StepSpan(j, j.steps[i])
          PROVE  /\ s.trace \in Id(0) /\ s.id \in Id(16) /\ s.parent \in Id(16)
                 /\ s.start \in Nat /\ s.end \in Nat /\ s.status \in {"ok", "error", "unset"}
      <4>1. j.steps[i].started \in Nat /\ StepEnd(j.steps[i]) \in Nat /\ j.steps[i].number \in Nat
        BY JobFields DEF StepEnd
      <4>2. StepStatus(j.steps[i]) \in {"ok", "error", "unset"}
        BY DEF StepStatus
      <4> QED
        BY <3>2, <3>4, <4>1, <4>2, StepSpanFields, StepSpanLinks
    <3> QED
      BY <3>1, <3>3, <3>4
  <2>3. ASSUME NEW l \in logs PROVE l.trace \in Id(0) /\ l.span \in Id(16)
    <3>1. PICK r \in fetched : l \in RunLogs(r)
      BY DEF KnownRuns
    <3>2. r \in Runs
      BY DEF KnownRuns
    <3>3. PICK j \in JobsOf(r) : \E i \in Logged(j) : l = RecordsOf(r, j, j.steps[i].number)
      BY <3>1, <3>2, RunLogsAre
    <3>4. PICK i \in Logged(j) : l = RecordsOf(r, j, j.steps[i].number)
      BY <3>3
    <3>5. j \in Jobs /\ j.run = r.id /\ j.attempt = r.attempt
      BY DEF JobsOf
    <3>6. j.steps[i].number \in Nat /\ j.steps[i].number # 0
      BY <3>5, JobFields, LoggedSteps
    <3>7. /\ l.trace = TraceId(j.run, j.attempt)
          /\ l.span = Span(SpanText(j, j.steps[i].number))
      BY <3>4, <3>5, <3>6, StepIdIs DEF RecordsOf
    <3> QED
      BY <3>5, <3>6, <3>7, JobFields, RootIds, SpanTextType, IdsAre
  <2> QED
    BY <2>1, <2>2, <2>3 DEF TypeOK
<1> QED
  BY <1>1, KnownAlways, KnownRunsAlways, PTL
===============================================================================
