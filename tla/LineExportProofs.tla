--------------------------- MODULE LineExportProofs ---------------------------
(***************************************************************************)
(* What LineExport's runs check on two lines, for every response.          *)
(*                                                                         *)
(* Samples is a FlattenSeq, a recursive function, so something has to be   *)
(* shown by induction.  The library's induction theorems take an operator, *)
(* which the provers cannot instantiate; SetInduction takes a set instead  *)
(* and rests on WFMin, the existence of minimal elements.                  *)
(***************************************************************************)
EXTENDS LineExport, FiniteSetTheorems, SequenceTheorems, WellFoundedInduction, TLAPS

-----------------------------------------------------------------------------
(* Induction over a set of numbers, and what FlattenSeq computes            *)

LEMMA SetInduction ==
    ASSUME NEW G, 0 \in G, \A n \in Nat : n \in G => n + 1 \in G
    PROVE  Nat \subseteq G
<1> DEFINE R == OpToRel(<, Nat)
           T == {n \in Nat : n \notin G}
<1>1. IsWellFoundedOn(R, Nat)
  BY NatLessThanWellFounded, Zenon
<1>2. \A x, y \in Nat : y < x => <<y, x>> \in R
  BY DEF OpToRel
<1> HIDE DEF R
<1>3. SUFFICES ASSUME T # {} PROVE FALSE
  OBVIOUS
<1>4. T \subseteq Nat
  OBVIOUS
<1>5. PICK x \in T : \A y \in T : ~ (<<y, x>> \in R)
  BY <1>1, <1>3, <1>4, WFMin
<1>6. x \in Nat /\ x # 0 /\ x - 1 \in Nat /\ x - 1 < x
  BY <1>4, <1>5
<1>7. x - 1 \in G
  BY <1>2, <1>5, <1>6
<1>8. QED
  BY <1>5, <1>6, <1>7

\* What the recursive function inside FlattenSeq has to satisfy on the first n sequences.
Flattens(f, seqs, n) ==
    \A i \in 1 .. n : f[i] = IF i = 1 THEN seqs[i] ELSE f[i - 1] \o seqs[i]

LEMMA FlattensAt ==
    ASSUME NEW f, NEW seqs, NEW n \in Nat, Flattens(f, seqs, n), NEW i \in 1 .. n
    PROVE  f[i] = IF i = 1 THEN seqs[i] ELSE f[i - 1] \o seqs[i]
BY DEF Flattens

LEMMA FlattensLess ==
    ASSUME NEW f, NEW seqs, NEW n \in Nat, Flattens(f, seqs, n + 1)
    PROVE  Flattens(f, seqs, n)
BY DEF Flattens

\* There is a function that flattens, it is the only one on 1 .. n, and so it is the one
\* that FlattenSeq chooses.
LEMMA FlattensExists ==
    ASSUME NEW S, NEW seqs \in Seq(Seq(S)), NEW n \in Nat, n <= Len(seqs)
    PROVE  \E f \in [1 .. n -> Seq(S)] : Flattens(f, seqs, n)
<1> DEFINE Has(m) == \E f \in [1 .. m -> Seq(S)] : Flattens(f, seqs, m)
           G == {m \in Nat : m <= Len(seqs) => Has(m)}
<1>0. Len(seqs) \in Nat /\ \A i \in 1 .. Len(seqs) : seqs[i] \in Seq(S)
  OBVIOUS
<1>1. Has(0)
  <2> DEFINE f == [i \in 1 .. 0 |-> <<>>]
  <2>1. f \in [1 .. 0 -> Seq(S)]
    BY EmptySeq
  <2>2. Flattens(f, seqs, 0)
    BY DEF Flattens
  <2> HIDE DEF f
  <2>3. QED
    BY <2>1, <2>2
<1>2. ASSUME NEW m \in Nat, m \in G PROVE m + 1 \in G
  <2> SUFFICES ASSUME m + 1 <= Len(seqs) PROVE Has(m + 1)
    OBVIOUS
  <2>1. PICK f \in [1 .. m -> Seq(S)] : Flattens(f, seqs, m)
    BY <1>0, <1>2
  <2> DEFINE e == IF m = 0 THEN seqs[1] ELSE f[m] \o seqs[m + 1]
             g == [i \in 1 .. m + 1 |-> IF i = m + 1 THEN e ELSE f[i]]
  <2>2. e \in Seq(S)
    <3>1. CASE m = 0
      BY <3>1, <1>0
    <3>2. CASE m # 0
      <4>1. f[m] \in Seq(S) /\ seqs[m + 1] \in Seq(S)
        BY <1>0, <2>1, <3>2
      <4>2. QED
        BY <3>2, <4>1, ConcatProperties
    <3>3. QED
      BY <3>1, <3>2
  <2> HIDE DEF e
  <2>3. g \in [1 .. m + 1 -> Seq(S)]
    BY <2>1, <2>2
  <2>4. Flattens(g, seqs, m + 1)
    <3> SUFFICES ASSUME NEW i \in 1 .. m + 1
                 PROVE  g[i] = IF i = 1 THEN seqs[i] ELSE g[i - 1] \o seqs[i]
      BY DEF Flattens
    <3>1. CASE i = m + 1
      <4>1. i # 1 => g[i - 1] = f[m] /\ m # 0
        BY <3>1
      <4>2. i = 1 <=> m = 0
        BY <3>1
      <4>3. g[i] = e
        BY <3>1
      <4>4. QED
        BY <3>1, <4>1, <4>2, <4>3 DEF e
    <3>2. CASE i # m + 1
      <4>1. i \in 1 .. m /\ g[i] = f[i] /\ (i # 1 => g[i - 1] = f[i - 1])
        BY <3>2
      <4>2. QED
        BY <2>1, <4>1 DEF Flattens
    <3>3. QED
      BY <3>1, <3>2
  <2>5. QED
    BY <2>3, <2>4
<1>3. Nat \subseteq G
  <2>1. 0 \in G
    BY <1>1
  <2> HIDE DEF G
  <2>2. QED
    BY <1>2, <2>1, SetInduction
<1>4. QED
  BY <1>3

LEMMA FlattensUnique ==
    ASSUME NEW s, NEW t, NEW n \in Nat, \A i \in 1 .. n : s[i] = t[i],
           NEW f, NEW g, Flattens(f, s, n), Flattens(g, t, n)
    PROVE  \A i \in 1 .. n : f[i] = g[i]
<1> DEFINE G == {i \in Nat : i \in 1 .. n => f[i] = g[i]}
<1>1. 0 \in G
  OBVIOUS
<1>2. ASSUME NEW i \in Nat, i \in G PROVE i + 1 \in G
  <2> SUFFICES ASSUME i + 1 \in 1 .. n PROVE f[i + 1] = g[i + 1]
    OBVIOUS
  <2>1. /\ f[i + 1] = IF i + 1 = 1 THEN s[i + 1] ELSE f[(i + 1) - 1] \o s[i + 1]
        /\ g[i + 1] = IF i + 1 = 1 THEN t[i + 1] ELSE g[(i + 1) - 1] \o t[i + 1]
    BY DEF Flattens
  <2>2. s[i + 1] = t[i + 1] /\ (i + 1) - 1 = i
    OBVIOUS
  <2>3. i # 0 => f[i] = g[i]
    BY <1>2
  <2>4. QED
    BY <2>1, <2>2, <2>3
<1>3. Nat \subseteq G
  <2> HIDE DEF G
  <2>1. QED
    BY <1>1, <1>2, SetInduction
<1>4. QED
  BY <1>3

\* a is what FlattenSeq returns for the first n of some sequences.
Flattened(a, seqs, n) == \E f : Flattens(f, seqs, n) /\ a = f[n]

Agree(s, t, n) == \A i \in 1 .. n : s[i] = t[i]

LEMMA FlattensMore ==
    ASSUME NEW s, NEW t, NEW n \in Nat, n # 0, NEW m, m = n + 1, Agree(s, t, n),
           NEW a, Flattened(a, s, n), NEW b, Flattened(b, t, m)
    PROVE  b = a \o t[m]
<1>1. PICK f : Flattens(f, s, n) /\ a = f[n]
  BY DEF Flattened
<1>2. PICK g : Flattens(g, t, n + 1) /\ b = g[n + 1]
  BY DEF Flattened
<1>3. Flattens(g, t, n)
  BY <1>2, FlattensLess
<1>4. \A i \in 1 .. n : f[i] = g[i]
  BY <1>1, <1>3, FlattensUnique DEF Agree
<1>5. n \in 1 .. n /\ n + 1 \in 1 .. n + 1 /\ n + 1 # 1 /\ (n + 1) - 1 = n
  OBVIOUS
<1>6. f[n] = g[n]
  BY <1>4, <1>5
<1>7. g[n + 1] = g[(n + 1) - 1] \o t[n + 1]
  BY <1>2, <1>5 DEF Flattens
<1>8. QED
  BY <1>1, <1>2, <1>5, <1>6, <1>7

LEMMA FlattenDefined ==
    ASSUME NEW S, NEW seqs \in Seq(Seq(S)), Len(seqs) # 0
    PROVE  /\ Flattened(FlattenSeq(seqs), seqs, Len(seqs))
           /\ FlattenSeq(seqs) \in Seq(S)
<1> DEFINE n == Len(seqs)
           Body(f) == [i \in 1 .. n |-> IF i = 1 THEN seqs[i] ELSE f[i - 1] \o seqs[i]]
           F == CHOOSE f : f = Body(f)
<1>0. n \in Nat /\ n <= Len(seqs)
  OBVIOUS
<1>1. PICK f \in [1 .. n -> Seq(S)] : Flattens(f, seqs, n)
  <2> HIDE DEF n
  <2>1. QED
    BY <1>0, FlattensExists
<1>2. f = Body(f)
  <2>1. f = [i \in 1 .. n |-> f[i]]
    BY <1>1
  <2>2. QED
    BY <1>1, <2>1 DEF Flattens
<1>3. F = Body(F)
  BY <1>2
<1>4. Flattens(F, seqs, n)
  <2> HIDE DEF F
  <2>1. \A i \in 1 .. n : Body(F)[i] = IF i = 1 THEN seqs[i] ELSE F[i - 1] \o seqs[i]
    OBVIOUS
  <2>2. QED
    BY <1>3, <2>1 DEF Flattens
<1>5. \A i \in 1 .. n : F[i] = f[i]
  <2> HIDE DEF F, n
  <2>1. QED
    BY <1>0, <1>1, <1>4, FlattensUnique
<1>6. FlattenSeq(seqs) = F[n]
  BY DEF FlattenSeq
<1>7. n \in 1 .. n
  BY <1>0
<1>8. F[n] \in Seq(S)
  BY <1>1, <1>5, <1>7
<1> HIDE DEF F
<1>9. QED
  BY <1>4, <1>6, <1>8 DEF Flattened

\* One more sequence is concatenated at the end.
LEMMA FlattenStep ==
    ASSUME NEW S, NEW s \in Seq(Seq(S)), NEW t \in Seq(Seq(S)), Len(t) = Len(s) + 1,
           Agree(s, t, Len(s))
    PROVE  FlattenSeq(t) = FlattenSeq(s) \o t[Len(t)] /\ FlattenSeq(s) \in Seq(S)
<1>1. Len(s) \in Nat /\ Len(t) # 0 /\ t[Len(t)] \in Seq(S)
  BY ElementOfSeq
<1>2. Flattened(FlattenSeq(t), t, Len(t))
  BY <1>1, FlattenDefined
<1>3. CASE Len(s) = 0
  <2>1. PICK g : Flattens(g, t, 1) /\ FlattenSeq(t) = g[1]
    BY <1>2, <1>3 DEF Flattened
  <2>2. g[1] = t[1]
    BY <2>1 DEF Flattens
  <2>3. s = <<>>
    BY <1>3, EmptySeq
  <2>4. FlattenSeq(<<>>) = <<>>
    BY DEF FlattenSeq
  <2>5. <<>> \o t[1] = t[1] /\ <<>> \in Seq(S)
    BY <1>1, <1>3, ConcatEmptySeq
  <2>6. QED
    <3>1. FlattenSeq(t) = t[1] /\ FlattenSeq(s) = <<>> /\ Len(t) = 1
      BY <1>3, <2>1, <2>2, <2>3, <2>4
    <3>2. QED
      BY <2>5, <3>1, Zenon
<1>4. CASE Len(s) # 0
  <2>1. Flattened(FlattenSeq(s), s, Len(s)) /\ FlattenSeq(s) \in Seq(S)
    BY <1>4, FlattenDefined
  <2>2. FlattenSeq(t) = FlattenSeq(s) \o t[Len(t)]
    <3> DEFINE n == Len(s)
               m == Len(t)
               a == FlattenSeq(s)
               b == FlattenSeq(t)
    <3>1. n \in Nat /\ n # 0 /\ m = n + 1 /\ Agree(s, t, n)
      BY <1>1, <1>4
    <3>2. Flattened(a, s, n) /\ Flattened(b, t, m)
      BY <1>2, <2>1
    <3> HIDE DEF n, m, a, b
    <3>3. b = a \o t[m]
      BY <3>1, <3>2, FlattensMore
    <3>4. QED
      BY <3>3 DEF m, a, b
  <2>3. QED
    BY <2>1, <2>2
<1>5. QED
  BY <1>3, <1>4

-----------------------------------------------------------------------------
(* Sequences whose elements have no type *)

LEMMA SequenceOf ==
    ASSUME NEW S, NEW s \in Seq(S)
    PROVE  IsSequence(s) /\ Len(s) \in Nat /\ DOMAIN s = 1 .. Len(s)
<1>1. Len(s) \in Nat /\ DOMAIN s = 1 .. Len(s) /\ s = [i \in 1 .. Len(s) |-> s[i]]
  BY LenProperties
<1>2. \A i \in 1 .. Len(s) : s[i] \in ToSet(s)
  BY <1>1 DEF ToSet
<1> HIDE DEF ToSet
<1>3. s \in [1 .. Len(s) -> ToSet(s)]
  BY <1>1, <1>2
<1>4. s \in Seq(ToSet(s))
  BY <1>1, <1>3, SeqDef
<1>5. QED
  BY <1>1, <1>4 DEF IsSequence

LEMMA Together ==
    ASSUME NEW s, NEW t, IsSequence(s), IsSequence(t)
    PROVE  \E S : s \in Seq(S) /\ t \in Seq(S)
<1> DEFINE S == ToSet(s) \cup ToSet(t)
<1>1. ToSet(s) \subseteq S /\ ToSet(t) \subseteq S
  OBVIOUS
<1>2. s \in Seq(ToSet(s)) /\ t \in Seq(ToSet(t))
  BY DEF IsSequence
<1> HIDE DEF S
<1>3. s \in Seq(S) /\ t \in Seq(S)
  BY <1>1, <1>2, SeqMonotonic
<1>4. QED
  BY <1>3

LEMMA SequenceLength ==
    ASSUME NEW s, IsSequence(s)
    PROVE  Len(s) \in Nat /\ DOMAIN s = 1 .. Len(s)
<1>1. s \in Seq(ToSet(s))
  BY DEF IsSequence
<1>2. QED
  BY <1>1, SequenceOf

LEMMA Joined ==
    ASSUME NEW s, NEW t, IsSequence(s), IsSequence(t)
    PROVE  /\ IsSequence(s \o t) /\ Len(s \o t) = Len(s) + Len(t)
           /\ \A i \in 1 .. Len(s) + Len(t) :
                  (s \o t)[i] = IF i <= Len(s) THEN s[i] ELSE t[i - Len(s)]
           /\ s \o <<>> = s
<1>1. PICK S : s \in Seq(S) /\ t \in Seq(S)
  BY Together
<1>2. s \o t \in Seq(S)
  BY <1>1, ConcatProperties
<1>3. /\ Len(s \o t) = Len(s) + Len(t)
      /\ \A i \in 1 .. Len(s) + Len(t) :
             (s \o t)[i] = IF i <= Len(s) THEN s[i] ELSE t[i - Len(s)]
  BY <1>1, ConcatProperties
<1>4. s \o <<>> = s
  BY <1>1, ConcatEmptySeq
<1>5. QED
  BY <1>2, <1>3, <1>4, SequenceOf

\* Appending the first of the due rows leaves the rows appended and due together the same.
LEMMA MoveHead ==
    ASSUME NEW s, NEW t, IsSequence(s), IsSequence(t), t # <<>>
    PROVE  /\ IsSequence(Append(s, Head(t))) /\ IsSequence(Tail(t))
           /\ Append(s, Head(t)) \o Tail(t) = s \o t
<1>1. PICK S : s \in Seq(S) /\ t \in Seq(S)
  BY Together
<1> DEFINE h == Head(t)
           r == Tail(t)
<1>2. h \in S /\ r \in Seq(S)
  BY <1>1, HeadTailProperties
<1>3. t = <<h>> \o r
  <2>1. Len(t) \in Nat /\ Len(t) # 0
    BY <1>1, EmptySeq
  <2>2. t = SubSeq(t, 1, Len(t)) /\ r = SubSeq(t, 2, Len(t)) /\ h = t[1]
    BY <1>1, SubSeqFull, TailIsSubSeq
  <2>3. 1 \in 1 .. Len(t) /\ Len(t) \in 1 .. Len(t)
    BY <2>1
  <2>4. SubSeq(t, 1, Len(t)) = <<t[1]>> \o SubSeq(t, 1 + 1, Len(t))
    BY <1>1, <2>3, SubSeqRecursiveFirst
  <2>5. QED
    BY <2>2, <2>4
<1> HIDE DEF h, r
<1>4. Append(s, h) = s \o <<h>> /\ Append(s, h) \in Seq(S) /\ <<h>> \in Seq(S)
  BY <1>1, <1>2, AppendIsConcat, AppendProperties
<1>5. (s \o <<h>>) \o r = s \o (<<h>> \o r)
  BY <1>1, <1>2, <1>4, ConcatAssociative
<1>6. QED
  BY <1>2, <1>3, <1>4, <1>5, SequenceOf DEF h, r

\* A sequence given element by element.
LEMMA Enumerated ==
    ASSUME NEW n \in Nat, NEW s, s = [i \in 1 .. n |-> s[i]]
    PROVE  IsSequence(s) /\ Len(s) = n
<1>1. \A i \in 1 .. n : s[i] \in ToSet(s)
  BY DEF ToSet
<1> HIDE DEF ToSet
<1>2. s \in [1 .. n -> ToSet(s)]
  BY <1>1
<1>3. s \in Seq(ToSet(s))
  BY <1>2, SeqDef
<1>4. QED
  BY <1>2, <1>3 DEF IsSequence

-----------------------------------------------------------------------------
(* The samples that a response holds *)

Answered == table \in {"metrics", "logs"} /\ response \in Responses[table]

\* The samples of line k.
Block(k) == [j \in 1 .. Worth(response[k]) |-> [line |-> k, nth |-> j]]

Blocks(n) == [k \in 1 .. n |-> Block(k)]

Sample == [line : Nat, nth : Nat]

LEMMA TwoIntervals ==
    ASSUME NEW a \in Nat, NEW b \in Nat
    PROVE  /\ Cardinality((1 .. a) \cap (1 .. b)) \in Nat
           /\ (1 .. a) \cap (1 .. b) = 1 .. Cardinality((1 .. a) \cap (1 .. b))
<1> DEFINE c == IF a <= b THEN a ELSE b
<1>1. (1 .. a) \cap (1 .. b) = 1 .. c /\ c \in Nat
  OBVIOUS
<1> HIDE DEF c
<1>2. Cardinality(1 .. c) = c
  BY <1>1, FS_Interval
<1>3. QED
  BY <1>1, <1>2

LEMMA LinesRead ==
    ASSUME Answered
    PROVE  /\ IsSequence(response) /\ Len(response) \in Nat
           /\ \A k \in 1 .. Len(response) :
                  /\ response[k].object \in BOOLEAN
                  /\ table = "metrics" =>
                         \A a \in {"values", "timestamps"} \cap DOMAIN response[k].keys :
                             IsSequence(response[k].keys[a])
<1>1. /\ IsSequence(response)
      /\ \A k \in DOMAIN response :
             /\ response[k].object \in BOOLEAN
             /\ table = "metrics" =>
                    \A a \in {"values", "timestamps"} \cap DOMAIN response[k].keys :
                        IsSequence(response[k].keys[a])
  BY ResponsesAreLines DEF Answered, ResponsesAssumption
<1>2. QED
  BY <1>1, SequenceLength

Pairs(keys) == DOMAIN Get(keys, "values", <<>>) \cap DOMAIN Get(keys, "timestamps", <<>>)

\* The arrays of a series, absent or not, are paired from the first element on.
LEMMA PairsOfSeries ==
    ASSUME Answered, table = "metrics", NEW k \in 1 .. Len(response)
    PROVE  /\ Cardinality(Pairs(response[k].keys)) \in Nat
           /\ Pairs(response[k].keys) = 1 .. Cardinality(Pairs(response[k].keys))
<1> DEFINE keys == response[k].keys
           V == Get(keys, "values", <<>>)
           T == Get(keys, "timestamps", <<>>)
<1>1. \A a \in {"values", "timestamps"} \cap DOMAIN keys : IsSequence(keys[a])
  BY LinesRead
<1>2. IsSequence(<<>>)
  <2>1. <<>> \in Seq({})
    BY EmptySeq
  <2>2. QED
    BY <2>1, SequenceOf
<1> HIDE DEF keys
<1>3. IsSequence(V) /\ IsSequence(T)
  BY <1>1, <1>2 DEF Get
<1>4. Pairs(keys) = DOMAIN V \cap DOMAIN T
  BY DEF Pairs
<1> HIDE DEF V, T
<1>5. /\ Len(V) \in Nat /\ DOMAIN V = 1 .. Len(V)
      /\ Len(T) \in Nat /\ DOMAIN T = 1 .. Len(T)
  BY <1>3, SequenceLength
<1>6. /\ Cardinality(Pairs(keys)) \in Nat
      /\ Pairs(keys) = 1 .. Cardinality(Pairs(keys))
  <2>1. PICK a \in Nat, b \in Nat : DOMAIN V = 1 .. a /\ DOMAIN T = 1 .. b
    BY <1>5
  <2>2. Pairs(keys) = (1 .. a) \cap (1 .. b)
    BY <1>4, <2>1
  <2> DEFINE c == (1 .. a) \cap (1 .. b)
  <2>3. Cardinality(c) \in Nat /\ c = 1 .. Cardinality(c)
    BY TwoIntervals
  <2> HIDE DEF c
  <2>4. Pairs(keys) = c
    BY <2>2 DEF c
  <2>5. QED
    BY <2>3, <2>4
<1>7. QED
  BY <1>6 DEF keys

LEMMA WorthOfLine ==
    ASSUME Answered, NEW k \in 1 .. Len(response)
    PROVE  /\ Worth(response[k]) \in Nat
           /\ ~ Accepts(response[k]) => Worth(response[k]) = 0
           /\ Accepts(response[k]) /\ table = "logs" => Worth(response[k]) = 1
           /\ Accepts(response[k]) /\ table = "metrics" =>
                  1 .. Worth(response[k]) = Pairs(response[k].keys)
<1>1. table \in {"metrics", "logs"} /\ response[k].object \in BOOLEAN
  BY LinesRead DEF Answered
<1>2. CASE table = "metrics"
  <2> DEFINE c == Cardinality(Pairs(response[k].keys))
  <2>1. c \in Nat /\ Pairs(response[k].keys) = 1 .. c
    BY <1>2, PairsOfSeries
  <2>2. Worth(response[k]) = IF ~ response[k].object THEN 0
                             ELSE IF SeriesDecodes(response[k].keys) THEN c ELSE 0
    BY <1>2 DEF Worth, Pairs
  <2>3. Accepts(response[k]) <=> response[k].object /\ SeriesDecodes(response[k].keys)
    BY <1>1, <1>2 DEF Accepts
  <2> HIDE DEF c
  <2>4. QED
    BY <1>2, <2>1, <2>2, <2>3
<1>3. CASE table = "logs"
  BY <1>1, <1>3 DEF Worth, Accepts
<1>4. QED
  BY <1>1, <1>2, <1>3

LEMMA BlockOfLine ==
    ASSUME Answered, NEW k \in 1 .. Len(response)
    PROVE  /\ Block(k) \in Seq(Sample) /\ Len(Block(k)) = Worth(response[k])
           /\ \A j \in 1 .. Worth(response[k]) : Block(k)[j] = [line |-> k, nth |-> j]
<1> DEFINE w == Worth(response[k])
<1>1. w \in Nat /\ k \in Nat
  BY WorthOfLine, LinesRead
<1> HIDE DEF w
<1>2. Block(k) = [j \in 1 .. w |-> [line |-> k, nth |-> j]]
  BY DEF Block, w
<1>3. Block(k) \in [1 .. w -> Sample]
  BY <1>1, <1>2 DEF Sample
<1>4. Block(k) \in Seq(Sample) /\ Len(Block(k)) = w
  BY <1>1, <1>3, SeqDef
<1>5. QED
  BY <1>2, <1>4 DEF w

LEMMA BlocksOfLines ==
    ASSUME Answered, NEW n \in 0 .. Len(response)
    PROVE  /\ Blocks(n) \in Seq(Seq(Sample)) /\ Len(Blocks(n)) = n
           /\ \A k \in 1 .. n : Blocks(n)[k] = Block(k)
           /\ Samples(n) = FlattenSeq(Blocks(n))
<1>1. n \in Nat /\ \A k \in 1 .. n : k \in 1 .. Len(response)
  BY LinesRead
<1>2. \A k \in 1 .. n : Block(k) \in Seq(Sample)
  BY <1>1, BlockOfLine
<1>3. Blocks(n) = [k \in 1 .. n |-> Block(k)]
  BY DEF Blocks
<1>4. Samples(n) = FlattenSeq(Blocks(n))
  BY DEF Samples, Blocks, Block
<1>5. Blocks(n) \in [1 .. n -> Seq(Sample)]
  BY <1>2, <1>3
<1>6. Blocks(n) \in Seq(Seq(Sample)) /\ Len(Blocks(n)) = n
  BY <1>1, <1>5, SeqDef
<1>7. QED
  BY <1>3, <1>4, <1>6

\* One more line adds its own samples at the end.
LEMMA SamplesStep ==
    ASSUME Answered, NEW n \in 0 .. Len(response), n + 1 <= Len(response)
    PROVE  /\ Samples(n) \in Seq(Sample) /\ Samples(n + 1) \in Seq(Sample)
           /\ Samples(n + 1) = Samples(n) \o Block(n + 1)
<1> DEFINE s == Blocks(n)
           t == Blocks(n + 1)
<1>1. n \in Nat /\ n + 1 \in 0 .. Len(response) /\ n + 1 \in 1 .. Len(response)
  BY LinesRead
<1>2. s \in Seq(Seq(Sample)) /\ Len(s) = n /\ Samples(n) = FlattenSeq(s)
  BY BlocksOfLines
<1>3. /\ t \in Seq(Seq(Sample)) /\ Len(t) = n + 1 /\ t[n + 1] = Block(n + 1)
      /\ Samples(n + 1) = FlattenSeq(t)
  BY <1>1, BlocksOfLines
<1>4. Agree(s, t, Len(s))
  BY <1>1, <1>2, BlocksOfLines DEF Agree
<1> HIDE DEF s, t
<1>5. FlattenSeq(t) = FlattenSeq(s) \o t[Len(t)] /\ FlattenSeq(s) \in Seq(Sample)
  BY <1>2, <1>3, <1>4, FlattenStep
<1>6. FlattenSeq(s) \o Block(n + 1) \in Seq(Sample)
  BY <1>1, <1>5, BlockOfLine, ConcatProperties
<1>7. QED
  BY <1>2, <1>3, <1>5, <1>6

LEMMA NoSamples == Samples(0) = <<>>
<1>1. Blocks(0) = <<>>
  BY DEF Blocks
<1>2. QED
  BY <1>1 DEF Samples, FlattenSeq, Blocks, Block

\* The samples of fewer lines come first.
Starts(s, t) == Len(s) <= Len(t) /\ \A i \in 1 .. Len(s) : s[i] = t[i]

LEMMA SamplesGrow ==
    ASSUME Answered, NEW m \in 0 .. Len(response), NEW n \in m .. Len(response)
    PROVE  Samples(m) \in Seq(Sample) /\ Samples(n) \in Seq(Sample) /\ Starts(Samples(m), Samples(n))
<1>1. Len(response) \in Nat
  BY LinesRead
<1>2. \A k \in 0 .. Len(response) : Samples(k) \in Seq(Sample)
  <2> SUFFICES ASSUME NEW k \in 0 .. Len(response) PROVE Samples(k) \in Seq(Sample)
    OBVIOUS
  <2>1. CASE k = 0
    BY <2>1, NoSamples, EmptySeq
  <2>2. CASE k # 0
    <3>1. k - 1 \in 0 .. Len(response) /\ (k - 1) + 1 <= Len(response) /\ (k - 1) + 1 = k
      BY <1>1, <2>2
    <3>2. Samples((k - 1) + 1) \in Seq(Sample)
      BY <3>1, SamplesStep
    <3>3. QED
      BY <3>1, <3>2
  <2>3. QED
    BY <2>1, <2>2
<1> DEFINE G == {d \in Nat : m + d <= Len(response) => Starts(Samples(m), Samples(m + d))}
<1>3. 0 \in G
  <2>1. Starts(Samples(m), Samples(m))
    <3>1. Len(Samples(m)) \in Nat
      BY <1>2, LenProperties
    <3>2. QED
      BY <3>1 DEF Starts
  <2>2. m + 0 = m
    BY <1>1
  <2>3. QED
    BY <2>1, <2>2
<1>4. ASSUME NEW d \in Nat, d \in G PROVE d + 1 \in G
  <2> SUFFICES ASSUME m + (d + 1) <= Len(response)
               PROVE  Starts(Samples(m), Samples(m + (d + 1)))
    OBVIOUS
  <2> DEFINE k == m + d
             a == Samples(m)
             b == Samples(k)
             c == Block(k + 1)
  <2>1. /\ k \in 0 .. Len(response) /\ k + 1 <= Len(response) /\ m + (d + 1) = k + 1
        /\ k + 1 \in 1 .. Len(response)
    BY <1>1
  <2>2. Starts(a, b)
    BY <1>4, <2>1
  <2>3. a \in Seq(Sample) /\ b \in Seq(Sample) /\ c \in Seq(Sample)
    BY <1>2, <2>1, BlockOfLine
  <2>4. Samples(k + 1) = b \o c
    BY <2>1, SamplesStep
  <2> HIDE DEF k, a, b, c
  <2>5. /\ Len(b \o c) = Len(b) + Len(c)
        /\ \A i \in 1 .. Len(b) + Len(c) : (b \o c)[i] = IF i <= Len(b) THEN b[i] ELSE c[i - Len(b)]
    BY <2>3, ConcatProperties
  <2>6. Len(a) \in Nat /\ Len(b) \in Nat /\ Len(c) \in Nat
    BY <2>3, LenProperties
  <2>7. Starts(a, b \o c)
    BY <2>2, <2>5, <2>6 DEF Starts
  <2>8. QED
    BY <2>1, <2>4, <2>7 DEF a
<1>5. Nat \subseteq G
  <2> HIDE DEF G
  <2>1. QED
    BY <1>3, <1>4, SetInduction
<1>6. n - m \in Nat /\ m + (n - m) = n
  BY <1>1
<1>7. Starts(Samples(m), Samples(n))
  <2> DEFINE d == n - m
  <2>1. d \in Nat /\ m + d = n /\ m + d <= Len(response)
    BY <1>1, <1>6
  <2> HIDE DEF d
  <2>2. QED
    BY <1>5, <2>1
<1>8. n \in 0 .. Len(response)
  BY <1>1
<1>9. QED
  BY <1>2, <1>7, <1>8

-----------------------------------------------------------------------------
(* The invariant: the rows appended and due are the samples of the lines    *)
(* read so far, each row faithful to its own.                               *)

TypeInv ==
    /\ Answered
    /\ whole \in 0 .. Len(response)
    /\ ending \in {"end", "error", "eof", "long"}
    /\ pc \in {"scan", "flush", "done", "failed"}
    /\ next \in 1 .. Len(Arrived) + 1
    /\ IsSequence(rows) /\ IsSequence(due)

\* How many whole lines are read.
ReadUpTo(n) == IF n - 1 <= whole THEN n - 1 ELSE whole

Faithful(r, s) ==
    /\ r.at = s.line
    /\ table = "metrics" => IsPair(r, response[r.at].keys, s.nth)
    /\ table = "logs" => IsEntry(r, response[r.at].keys)

Matches(rs, samples) ==
    Len(rs) = Len(samples) /\ \A i \in 1 .. Len(rs) : Faithful(rs[i], samples[i])

RowsInv == Matches(rows \o due, Samples(ReadUpTo(next)))

EndInv == pc \in {"flush", "done"} => due = <<>> /\ next > Len(Arrived) /\ EndIsGood

RowsIInv == TypeInv /\ RowsInv /\ EndInv

LEMMA MatchesConcat ==
    ASSUME NEW a, NEW b, IsSequence(a), IsSequence(b), NEW s \in Seq(Sample), NEW t \in Seq(Sample),
           Matches(a, s), Matches(b, t)
    PROVE  Matches(a \o b, s \o t)
<1>1. Len(a) \in Nat /\ Len(b) \in Nat /\ Len(a) = Len(s) /\ Len(b) = Len(t)
  BY SequenceLength DEF Matches
<1>2. /\ Len(a \o b) = Len(a) + Len(b)
      /\ \A i \in 1 .. Len(a) + Len(b) : (a \o b)[i] = IF i <= Len(a) THEN a[i] ELSE b[i - Len(a)]
  BY Joined
<1>3. /\ Len(s \o t) = Len(s) + Len(t)
      /\ \A i \in 1 .. Len(s) + Len(t) : (s \o t)[i] = IF i <= Len(s) THEN s[i] ELSE t[i - Len(s)]
  BY ConcatProperties
<1>4. ASSUME NEW i \in 1 .. Len(a) + Len(b) PROVE Faithful((a \o b)[i], (s \o t)[i])
  <2>1. CASE i <= Len(a)
    <3>1. (a \o b)[i] = a[i] /\ (s \o t)[i] = s[i] /\ i \in 1 .. Len(a)
      BY <1>1, <1>2, <1>3, <2>1
    <3>2. Faithful(a[i], s[i])
      BY <3>1 DEF Matches
    <3>3. QED
      BY <3>1, <3>2
  <2>2. CASE ~ (i <= Len(a))
    <3>1. (a \o b)[i] = b[i - Len(a)] /\ (s \o t)[i] = t[i - Len(a)] /\ i - Len(a) \in 1 .. Len(b)
      BY <1>1, <1>2, <1>3, <2>2
    <3>2. Faithful(b[i - Len(a)], t[i - Len(a)])
      BY <3>1 DEF Matches
    <3>3. QED
      BY <3>1, <3>2
  <2>3. QED
    BY <2>1, <2>2
<1>5. QED
  BY <1>1, <1>2, <1>3, <1>4 DEF Matches

\* The rows of a series are its pairs.
LEMMA RowsOfSeries ==
    ASSUME Answered, table = "metrics", next \in 1 .. Len(response), Accepts(response[next])
    PROVE  LET rs == MetricRows(Decoded(response[next].keys))
           IN  IsSequence(rs) /\ Matches(rs, Block(next))
<1> DEFINE keys == response[next].keys
           s == Decoded(keys)
           rs == MetricRows(s)
           w == Worth(response[next])
           labels == Get(keys, "metric", NoKeys)
<1>1. SeriesDecodes(keys)
  BY DEF Accepts
<1>2. w \in Nat /\ 1 .. w = Pairs(keys)
  BY WorthOfLine
<1>3. /\ DOMAIN s.metric = DOMAIN labels
      /\ \A k \in DOMAIN labels : s.metric[k] = Unmarshal(labels[k], "")
  BY DEF Decoded, Fill, ZeroLine, NoKeys
<1>4. /\ DOMAIN s.values = DOMAIN Get(keys, "values", <<>>)
      /\ \A i \in DOMAIN s.values : s.values[i] = Unmarshal(keys.values[i], "0")
  BY DEF Decoded, Fill, ZeroLine, Get
<1>5. /\ DOMAIN s.timestamps = DOMAIN Get(keys, "timestamps", <<>>)
      /\ \A i \in DOMAIN s.timestamps : s.timestamps[i] = Unmarshal(keys.timestamps[i], "0")
  BY DEF Decoded, Fill, ZeroLine, Get
<1>6. \A k \in DOMAIN labels : labels[k].type \in {"text", "null"}
  BY <1>1 DEF SeriesDecodes, Get, NoKeys
<1> HIDE DEF s, labels
<1>7. DOMAIN s.values \cap DOMAIN s.timestamps = 1 .. w
  BY <1>2, <1>4, <1>5 DEF Pairs
<1>8. rs = [i \in 1 .. w |->
              [at |-> next, time |-> s.timestamps[i], value |-> s.values[i],
               name |-> Get(s.metric, "__name__", ""),
               labels |-> [k \in DOMAIN s.metric \ {"__name__"} |-> s.metric[k]]]]
  BY <1>7 DEF MetricRows
<1> HIDE DEF w, rs, keys
<1>9. IsSequence(rs) /\ Len(rs) = w
  BY <1>2, <1>8, Enumerated
<1>10. ASSUME NEW j \in 1 .. w PROVE rs[j].at = next /\ IsPair(rs[j], keys, j)
  <2> DEFINE r == rs[j]
  <2>1. /\ r.at = next /\ r.time = s.timestamps[j] /\ r.value = s.values[j]
        /\ r.name = Get(s.metric, "__name__", "")
        /\ r.labels = [k \in DOMAIN s.metric \ {"__name__"} |-> s.metric[k]]
    BY <1>8
  <2> HIDE DEF r
  <2>2. \A k \in DOMAIN labels : s.metric[k] = Text(labels, k)
    BY <1>3, <1>6 DEF Unmarshal, Text, Get
  <2>3. r.name = Text(labels, "__name__")
    BY <1>3, <2>1, <2>2 DEF Get, Text
  <2>4. /\ DOMAIN r.labels = DOMAIN labels \ {"__name__"}
        /\ \A k \in DOMAIN r.labels : r.labels[k] = Text(labels, k)
    BY <1>3, <2>1, <2>2
  <2>5. r.time = Number(keys.timestamps[j]) /\ r.value = Number(keys.values[j])
    BY <1>4, <1>5, <1>7, <2>1 DEF Unmarshal, Number
  <2>6. IsPair(r, keys, j)
    BY <2>1, <2>3, <2>4, <2>5 DEF IsPair, labels
  <2>7. QED
    BY <2>1, <2>6 DEF r
<1>11. Len(Block(next)) = w /\ \A j \in 1 .. w : Block(next)[j] = [line |-> next, nth |-> j]
  BY BlockOfLine DEF w
<1>12. \A j \in 1 .. w : Faithful(rs[j], Block(next)[j])
  BY <1>10, <1>11 DEF Faithful, keys
<1>13. Matches(rs, Block(next))
  BY <1>9, <1>11, <1>12 DEF Matches
<1>14. QED
  BY <1>9, <1>13 DEF rs, s, keys

\* The severity keys that have a text, by position, and the first of them.
Found(keys) == {p \in DOMAIN severityKeys : Text(keys, severityKeys[p]) # ""}
IsFirst(p, keys) == p \in Found(keys) /\ \A q \in Found(keys) : p <= q

LEMMA FirstSeverity ==
    ASSUME NEW keys
    PROVE  \/ Found(keys) = {} /\ Severities(keys) = {}
           \/ \E p \in DOMAIN severityKeys :
                  IsFirst(p, keys) /\ Severities(keys) = {severityKeys[p]}
<1> DEFINE Picked == {p \in DOMAIN severityKeys :
                          /\ Text(keys, severityKeys[p]) # ""
                          /\ \A q \in 1 .. p - 1 : Text(keys, severityKeys[q]) = ""}
<1>1. DOMAIN severityKeys = 1 .. 3
  BY DEF severityKeys
<1>2. Severities(keys) = {severityKeys[p] : p \in Picked}
  BY DEF Severities
<1>3. \A p \in 1 .. 3 : p \in Picked <=> IsFirst(p, keys)
  <2> SUFFICES ASSUME NEW p \in 1 .. 3 PROVE p \in Picked <=> IsFirst(p, keys)
    OBVIOUS
  <2>1. 1 .. p - 1 = {q \in 1 .. 3 : q < p}
    OBVIOUS
  <2>2. \A q \in 1 .. 3 : q \in Found(keys) <=> Text(keys, severityKeys[q]) # ""
    BY <1>1 DEF Found
  <2>3. p \in Picked <=> p \in Found(keys) /\ \A q \in 1 .. 3 : q < p => q \notin Found(keys)
    BY <1>1, <2>1, <2>2
  <2>4. Found(keys) \subseteq 1 .. 3
    BY <1>1 DEF Found
  <2> HIDE DEF Picked
  <2>5. QED
    BY <2>3, <2>4 DEF IsFirst
<1>4. Picked \subseteq 1 .. 3
  BY <1>1
<1> HIDE DEF Picked
<1>5. CASE Found(keys) = {}
  <2>1. Picked = {}
    BY <1>3, <1>4, <1>5 DEF IsFirst
  <2>2. QED
    BY <1>2, <1>5, <2>1
<1>6. CASE Found(keys) # {}
  <2>0. Found(keys) \subseteq 1 .. 3
    BY <1>1 DEF Found
  <2>1. PICK p \in 1 .. 3 : IsFirst(p, keys)
    <3>1. 1 \in Found(keys) => IsFirst(1, keys)
      BY <2>0 DEF IsFirst
    <3>2. 1 \notin Found(keys) /\ 2 \in Found(keys) => IsFirst(2, keys)
      BY <2>0 DEF IsFirst
    <3>3. 1 \notin Found(keys) /\ 2 \notin Found(keys) => IsFirst(3, keys)
      BY <1>6, <2>0 DEF IsFirst
    <3>4. QED
      BY <3>1, <3>2, <3>3
  <2>2. \A q \in 1 .. 3 : IsFirst(q, keys) => q = p
    BY <2>0, <2>1 DEF IsFirst
  <2>3. Picked = {p}
    BY <1>3, <1>4, <2>1, <2>2
  <2>4. QED
    BY <1>1, <1>2, <2>1, <2>3
<1>7. QED
  BY <1>5, <1>6

\* The row of an entry says what the entry does.
LEMMA RowOfLogEntry ==
    ASSUME Answered, table = "logs", next \in 1 .. Len(response), Accepts(response[next])
    PROVE  LET rs == <<LogRow(response[next].keys)>>
           IN  IsSequence(rs) /\ Matches(rs, Block(next))
<1> DEFINE keys == response[next].keys
           r == LogRow(keys)
           rest == DOMAIN keys \ {"_msg", "_time", "_stream"}
<1>1. /\ r.at = next /\ r.time = Text(keys, "_time") /\ r.message = Text(keys, "_msg")
      /\ r.stream = nilIfEmpty(Text(keys, "_stream"))
      /\ r.fields = [k \in rest \ Severities(keys) |-> keys[k].text]
      /\ r.severity = IF Severities(keys) = {} THEN "NULL"
                      ELSE Text(keys, CHOOSE k \in Severities(keys) : TRUE)
  <2>1. DOMAIN keys \ (SystemKeys \cup Severities(keys)) = rest \ Severities(keys)
    BY DEF SystemKeys
  <2>2. QED
    BY <2>1 DEF LogRow, SystemKeys
<1>2. r.stream = IF Text(keys, "_stream") = "" THEN "NULL" ELSE Text(keys, "_stream")
  BY <1>1 DEF nilIfEmpty
<1> HIDE DEF r
<1>3. ASSUME Found(keys) = {}, Severities(keys) = {} PROVE IsEntry(r, keys)
  <2>1. r.severity = "NULL" /\ r.fields = [k \in rest \ {} |-> keys[k].text]
    BY <1>1, <1>3
  <2>2. QED
    BY <1>1, <1>2, <1>3, <2>1 DEF IsEntry, Found
<1>4. ASSUME NEW p \in DOMAIN severityKeys, IsFirst(p, keys), Severities(keys) = {severityKeys[p]}
      PROVE  IsEntry(r, keys)
  <2>1. (CHOOSE k \in Severities(keys) : TRUE) = severityKeys[p]
    BY <1>4
  <2>2. /\ r.severity = Text(keys, severityKeys[p])
        /\ r.fields = [k \in rest \ {severityKeys[p]} |-> keys[k].text]
    BY <1>1, <1>4, <2>1
  <2>3. p \in Found(keys) /\ \A q \in Found(keys) : p <= q
    BY <1>4 DEF IsFirst
  <2>4. QED
    BY <1>1, <1>2, <2>2, <2>3 DEF IsEntry, Found
<1>5. IsEntry(r, keys)
  BY <1>3, <1>4, FirstSeverity
<1> HIDE DEF keys, rest
<1>6. Len(Block(next)) = 1 /\ Block(next)[1].line = next
  <2>1. Worth(response[next]) = 1
    BY WorthOfLine
  <2>2. 1 \in 1 .. Worth(response[next])
    BY <2>1
  <2>3. /\ Len(Block(next)) = Worth(response[next])
        /\ Block(next)[1] = [line |-> next, nth |-> 1]
    BY <2>2, BlockOfLine
  <2>4. QED
    BY <2>1, <2>3
<1>7. Faithful(r, Block(next)[1])
  BY <1>1, <1>5, <1>6 DEF Faithful, keys
<1>8. IsSequence(<<r>>) /\ Len(<<r>>) = 1 /\ <<r>>[1] = r
  <2>1. <<r>> \in Seq({r})
    OBVIOUS
  <2>2. QED
    BY <2>1, SequenceOf
<1>9. Matches(<<r>>, Block(next))
  BY <1>6, <1>7, <1>8 DEF Matches
<1>10. QED
  BY <1>8, <1>9 DEF r, keys

LEMMA ArrivedLines ==
    ASSUME Answered, whole \in 0 .. Len(response)
    PROVE  /\ Len(Arrived) \in {whole, whole + 1}
           /\ \A k \in 1 .. whole : Arrived[k] = response[k]
           /\ \A k \in 1 .. Len(Arrived) : k > whole => Arrived[k] = Malformed
<1> DEFINE front == SubSeq(response, 1, whole)
<1>1. Len(response) \in Nat /\ whole \in Nat /\ response \in Seq(ToSet(response))
  BY LinesRead DEF IsSequence
<1>2. \A i \in 1 .. whole : response[i] \in ToSet(response)
  BY <1>1, ElementOfSeq
<1>3. /\ front \in Seq(ToSet(response)) /\ Len(front) = whole
      /\ \A k \in 1 .. whole : front[k] = response[k]
  BY <1>1, <1>2, SubSeqProperties
<1>4. IsSequence(front)
  BY <1>3, SequenceOf
<1> HIDE DEF front
<1>5. /\ IsSequence(Torn) /\ Len(Torn) \in {0, 1}
      /\ \A k \in 1 .. Len(Torn) : Torn[k] = Malformed
  <2>1. <<>> \in Seq({Malformed}) /\ <<Malformed>> \in Seq({Malformed})
    OBVIOUS
  <2>2. IsSequence(<<>>) /\ IsSequence(<<Malformed>>)
    BY <2>1, SequenceOf
  <2>3. QED
    BY <2>2 DEF Torn
<1>6. Arrived = front \o Torn
  BY DEF Arrived, front
<1>7. /\ Len(Arrived) = whole + Len(Torn)
      /\ \A k \in 1 .. whole + Len(Torn) :
             Arrived[k] = IF k <= whole THEN front[k] ELSE Torn[k - whole]
  BY <1>3, <1>4, <1>5, <1>6, Joined
<1>8. QED
  BY <1>1, <1>3, <1>5, <1>7

LEMMA RowsInit == Init => RowsIInv
<1> SUFFICES ASSUME Init PROVE RowsIInv
  OBVIOUS
<1>1. Answered /\ whole \in 0 .. Len(response)
  BY DEF Init, Answered
<1>2. IsSequence(<<>>)
  BY EmptySeq, SequenceOf
<1>3. /\ rows = <<>> /\ due = <<>> /\ next = 1 /\ pc = "scan"
      /\ ending \in {"end", "error", "eof", "long"}
  BY DEF Init
<1>4. TypeInv
  <2>1. Len(Arrived) \in Nat
    BY <1>1, ArrivedLines, LinesRead
  <2>2. QED
    BY <1>1, <1>2, <1>3, <2>1 DEF TypeInv
<1>5. RowsInv
  <2>1. ReadUpTo(next) = 0
    BY <1>1, <1>3, LinesRead DEF ReadUpTo
  <2>2. rows \o due = <<>>
    BY <1>2, <1>3, Joined
  <2>3. Samples(ReadUpTo(next)) = <<>>
    BY <2>1, NoSamples
  <2>4. Matches(<<>>, <<>>)
    BY DEF Matches
  <2>5. QED
    BY <2>2, <2>3, <2>4 DEF RowsInv
<1>6. QED
  BY <1>3, <1>4, <1>5 DEF RowsIInv, EndInv

\* The response and where it breaks off are chosen once.
Fixed == UNCHANGED <<table, response, whole, ending>>

LEMMA StepFixed == [Next]_vars => Fixed
BY DEF Next, vars, ReadLine, AppendRow, AppendFails, ScanEnds, Flush, Leave, Fixed

LEMMA FixedKeeps ==
    ASSUME Fixed
    PROVE  /\ Answered' = Answered /\ Arrived' = Arrived /\ EndIsGood' = EndIsGood
BY DEF Fixed, Answered, Arrived, Torn, EndIsGood

LEMMA FixedRows ==
    ASSUME Fixed, Matches(rows' \o due', Samples(ReadUpTo(next')))
    PROVE  RowsInv'
<1>1. Samples(ReadUpTo(next))' = Samples(ReadUpTo(next'))
  BY DEF Fixed, Samples, Worth, ReadUpTo
<1> DEFINE a == rows' \o due'
           b == Samples(ReadUpTo(next'))
<1>2. Len(a) = Len(b) /\ \A i \in 1 .. Len(a) : Faithful(a[i], b[i])
  BY DEF Matches
<1>3. \A i \in 1 .. Len(a) :
          /\ a[i].at = b[i].line
          /\ table' = "metrics" => IsPair(a[i], response'[a[i].at].keys, b[i].nth)
          /\ table' = "logs" => IsEntry(a[i], response'[a[i].at].keys)
  BY <1>2 DEF Fixed, Faithful
<1>4. QED
  BY <1>1, <1>2, <1>3 DEF RowsInv, Matches, Faithful

LEMMA AcceptedIsWhole ==
    ASSUME TypeInv, next <= Len(Arrived), Accepts(Arrived[next])
    PROVE  next <= whole /\ next \in 1 .. Len(response) /\ Arrived[next] = response[next] /\ Answered
<1>1. /\ Answered /\ whole \in 0 .. Len(response) /\ next \in 1 .. Len(Arrived) + 1
      /\ Len(response) \in Nat /\ Len(Arrived) \in Nat
  BY ArrivedLines, LinesRead DEF TypeInv
<1>2. ~ Accepts(Malformed)
  BY DEF Accepts, Malformed
<1>3. ~ (next > whole)
  BY <1>1, <1>2, ArrivedLines
<1>4. next \in 1 .. whole
  BY <1>1, <1>3
<1>5. QED
  BY <1>1, <1>4, ArrivedLines

LEMMA TypeStep ==
    ASSUME RowsIInv, [Next]_vars
    PROVE  TypeInv'
<1>1. Fixed
  BY StepFixed
<1>2. Answered' /\ (whole \in 0 .. Len(response))' /\ Arrived' = Arrived
  BY <1>1, FixedKeeps DEF RowsIInv, TypeInv, Fixed
<1>3. (ending \in {"end", "error", "eof", "long"})'
  BY <1>1 DEF RowsIInv, TypeInv, Fixed
<1>4. (pc \in {"scan", "flush", "done", "failed"})'
  BY DEF RowsIInv, TypeInv, Next, vars, ReadLine, AppendRow, AppendFails, ScanEnds, Flush, Leave
<1>5. next' \in 1 .. Len(Arrived) + 1
  <2>1. Len(Arrived) \in Nat
    BY ArrivedLines, LinesRead DEF RowsIInv, TypeInv
  <2>2. next \in 1 .. Len(Arrived) + 1
    BY DEF RowsIInv, TypeInv
  <2>3. next' = next \/ (next <= Len(Arrived) /\ next' = next + 1)
    BY DEF Next, vars, ReadLine, AppendRow, AppendFails, ScanEnds, Flush, Leave
  <2>4. QED
    BY <2>1, <2>2, <2>3
<1>6. IsSequence(rows') /\ IsSequence(due')
  <2>1. CASE ReadLine
    <3>1. rows' = rows /\ IsSequence(rows) /\ IsSequence(due)
      BY <2>1 DEF ReadLine, RowsIInv, TypeInv
    <3>2. CASE due' = due
      BY <3>1, <3>2
    <3>3. CASE due' # due
      <4>1. /\ Accepts(Arrived[next]) /\ next <= Len(Arrived)
            /\ \/ table = "metrics" /\ due' = MetricRows(Decoded(Arrived[next].keys))
               \/ table = "logs" /\ due' = <<LogRow(Arrived[next].keys)>>
        BY <2>1, <3>3 DEF ReadLine
      <4>2. next \in 1 .. Len(response) /\ Arrived[next] = response[next] /\ Answered
        BY <4>1, AcceptedIsWhole DEF RowsIInv
      <4>3. QED
        BY <3>1, <4>1, <4>2, RowsOfSeries, RowOfLogEntry
    <3>4. QED
      BY <3>2, <3>3
  <2>2. CASE AppendRow
    BY <2>2, MoveHead DEF AppendRow, RowsIInv, TypeInv
  <2>3. CASE AppendFails \/ ScanEnds \/ Flush \/ UNCHANGED vars
    BY <2>3 DEF AppendFails, ScanEnds, Flush, Leave, vars, RowsIInv, TypeInv
  <2>4. QED
    BY <2>1, <2>2, <2>3 DEF Next
<1>7. QED
  BY <1>2, <1>3, <1>4, <1>5, <1>6 DEF TypeInv

LEMMA RowsStep ==
    ASSUME RowsIInv, [Next]_vars
    PROVE  RowsInv'
<1>1. Fixed
  BY StepFixed
<1>2. Matches(rows \o due, Samples(ReadUpTo(next)))
  BY DEF RowsIInv, RowsInv
<1>3. IsSequence(rows) /\ IsSequence(due) /\ Answered /\ whole \in 0 .. Len(response)
  BY DEF RowsIInv, TypeInv
<1>4. Len(response) \in Nat
  BY <1>3, LinesRead
<1>5. CASE ReadLine
  <2>1. /\ due = <<>> /\ rows' = rows /\ next' = next + 1 /\ next <= Len(Arrived)
    BY <1>5 DEF ReadLine
  <2>2. next \in 1 .. Len(Arrived) + 1
    BY DEF RowsIInv, TypeInv
  <2>3. rows \o due = rows
    BY <1>3, <2>1, Joined
  <2>4. CASE next > whole
    <3>1. ~ Accepts(Arrived[next])
      BY <1>3, <2>1, <2>2, <2>4, AcceptedIsWhole DEF RowsIInv
    <3>2. due' = due
      BY <1>5, <3>1 DEF ReadLine
    <3>3. ReadUpTo(next') = ReadUpTo(next)
      BY <1>3, <1>4, <2>1, <2>2, <2>4, ArrivedLines DEF ReadUpTo
    <3>4. QED
      BY <1>1, <1>2, <2>1, <3>2, <3>3, FixedRows
  <2>5. CASE next <= whole
    <3> DEFINE n == next - 1
    <3>1. /\ next \in 1 .. Len(response) /\ n \in 0 .. Len(response) /\ n + 1 <= Len(response)
          /\ n + 1 = next
      BY <1>3, <1>4, <2>1, <2>2, <2>5, ArrivedLines
    <3>2. Arrived[next] = response[next]
      BY <1>3, <1>4, <2>2, <2>5, ArrivedLines
    <3>3. ReadUpTo(next) = n /\ ReadUpTo(next') = n + 1
      BY <1>3, <1>4, <2>1, <2>5, <3>1 DEF ReadUpTo
    <3> HIDE DEF n
    <3>4. /\ Samples(n) \in Seq(Sample) /\ Block(next) \in Seq(Sample)
          /\ Samples(n + 1) = Samples(n) \o Block(next)
      BY <1>3, <3>1, SamplesStep, BlockOfLine
    <3>5. Matches(rows, Samples(n))
      BY <1>2, <2>3, <3>3
    <3>6. IsSequence(due') /\ Matches(due', Block(next))
      <4>1. CASE ~ Accepts(response[next])
        <5>1. due' = <<>>
          BY <1>5, <2>1, <3>2, <4>1 DEF ReadLine
        <5>2. Len(Block(next)) = 0
          BY <1>3, <3>1, <4>1, WorthOfLine, BlockOfLine
        <5>3. Matches(<<>>, Block(next))
          BY <5>2 DEF Matches
        <5>4. QED
          BY <1>3, <2>1, <5>1, <5>3
      <4>2. CASE Accepts(response[next])
        <5>1. \/ table = "metrics" /\ due' = MetricRows(Decoded(response[next].keys))
              \/ table = "logs" /\ due' = <<LogRow(response[next].keys)>>
          BY <1>5, <3>2, <4>2 DEF ReadLine
        <5>2. QED
          BY <1>3, <3>1, <4>2, <5>1, RowsOfSeries, RowOfLogEntry
      <4>3. QED
        BY <4>1, <4>2
    <3>7. Matches(rows \o due', Samples(n + 1))
      BY <1>3, <3>4, <3>5, <3>6, MatchesConcat
    <3>8. QED
      BY <1>1, <2>1, <3>3, <3>7, FixedRows
  <2>6. QED
    BY <1>3, <1>4, <2>2, <2>4, <2>5, ArrivedLines
<1>6. CASE AppendRow
  <2>1. rows' \o due' = rows \o due /\ next' = next
    BY <1>3, <1>6, MoveHead DEF AppendRow
  <2>2. QED
    BY <1>1, <1>2, <2>1, FixedRows
<1>7. CASE AppendFails \/ ScanEnds \/ Flush \/ UNCHANGED vars
  <2>1. rows' = rows /\ due' = due /\ next' = next
    BY <1>7 DEF AppendFails, ScanEnds, Flush, Leave, vars
  <2>2. QED
    BY <1>1, <1>2, <2>1, FixedRows
<1>8. QED
  BY <1>5, <1>6, <1>7 DEF Next

LEMMA EndStep ==
    ASSUME RowsIInv, [Next]_vars
    PROVE  EndInv'
<1>1. Arrived' = Arrived /\ EndIsGood' = EndIsGood
  BY StepFixed, FixedKeeps
<1>2. EndInv
  BY DEF RowsIInv
<1>3. CASE ReadLine \/ AppendRow \/ AppendFails
  <2>1. pc' \in {"scan", "failed"}
    BY <1>3 DEF ReadLine, AppendRow, AppendFails, Leave
  <2>2. QED
    BY <2>1 DEF EndInv
<1>4. CASE ScanEnds
  BY <1>1, <1>4 DEF ScanEnds, Leave, EndInv
<1>5. CASE Flush \/ UNCHANGED vars
  BY <1>1, <1>2, <1>5 DEF Flush, Leave, vars, EndInv
<1>6. QED
  BY <1>3, <1>4, <1>5 DEF Next

LEMMA RowsHold == Spec => []RowsIInv
<1>1. RowsIInv /\ [Next]_vars => RowsIInv'
  BY TypeStep, RowsStep, EndStep DEF RowsIInv
<1>2. QED
  BY <1>1, RowsInit, PTL DEF Spec

\* What the invariant says of the rows appended.
LEMMA RowsAreSamples ==
    ASSUME RowsIInv
    PROVE  /\ DOMAIN rows = 1 .. Len(rows) /\ Len(rows) \in Nat
           /\ Samples(whole) \in Seq(Sample) /\ Len(rows) <= Len(Samples(whole))
           /\ \A i \in 1 .. Len(rows) : Faithful(rows[i], Samples(whole)[i])
           /\ pc = "done" => Len(rows) = Len(Samples(whole))
<1> DEFINE m == ReadUpTo(next)
           a == Samples(m)
           b == Samples(whole)
<1>1. /\ IsSequence(rows) /\ IsSequence(due) /\ Answered /\ whole \in 0 .. Len(response)
      /\ next \in 1 .. Len(Arrived) + 1 /\ Len(response) \in Nat
  BY LinesRead DEF RowsIInv, TypeInv
<1>2. m \in 0 .. Len(response) /\ whole \in m .. Len(response)
  BY <1>1, ArrivedLines DEF ReadUpTo
<1>3. a \in Seq(Sample) /\ b \in Seq(Sample) /\ Starts(a, b)
  BY <1>1, <1>2, SamplesGrow
<1>4. Matches(rows \o due, a)
  BY DEF RowsIInv, RowsInv
<1>5. pc = "done" => due = <<>> /\ m = whole
  BY <1>1, ArrivedLines DEF RowsIInv, EndInv, ReadUpTo
<1> HIDE DEF m, a, b
<1>6. /\ DOMAIN rows = 1 .. Len(rows) /\ Len(rows) \in Nat /\ Len(due) \in Nat
      /\ Len(a) \in Nat /\ Len(b) \in Nat
  BY <1>1, <1>3, SequenceLength, LenProperties
<1>7. /\ Len(rows) + Len(due) = Len(a)
      /\ \A i \in 1 .. Len(rows) : (rows \o due)[i] = rows[i]
  BY <1>1, <1>4, <1>6, Joined DEF Matches
<1>8. Len(rows) <= Len(b)
  BY <1>3, <1>6, <1>7 DEF Starts
<1>9. ASSUME NEW i \in 1 .. Len(rows) PROVE Faithful(rows[i], b[i])
  <2>1. i \in 1 .. Len(a) /\ a[i] = b[i] /\ (rows \o due)[i] = rows[i]
    BY <1>3, <1>6, <1>7 DEF Starts
  <2>2. i \in 1 .. Len(rows \o due)
    BY <1>4, <2>1 DEF Matches
  <2>3. Faithful((rows \o due)[i], a[i])
    BY <1>4, <2>2 DEF Matches
  <2>4. QED
    BY <2>1, <2>3
<1>10. pc = "done" => Len(rows) = Len(b)
  <2>1. Len(<<>>) = 0
    OBVIOUS
  <2>2. QED
    BY <1>5, <1>6, <1>7, <2>1 DEF a, b
<1>11. QED
  BY <1>3, <1>6, <1>8, <1>9, <1>10 DEF b

\* s lists n elements.
Lists(s, n) == s = [i \in 1 .. n |-> s[i]]

LEMMA PrefixOf ==
    ASSUME NEW n \in Nat, NEW m \in Nat, n <= m, NEW o, NEW l,
           Lists(o, n), Lists(l, m), Agree(o, l, n)
    PROVE  IsPrefix(o, l) /\ (n = m => o = l)
<1>1. IsSequence(o) /\ Len(o) = n /\ IsSequence(l) /\ Len(l) = m
  BY Enumerated DEF Lists
<1>2. PICK S : o \in Seq(S) /\ l \in Seq(S)
  BY <1>1, Together
<1>3. SubSeq(o, 1, Len(o)) = o
  BY <1>2, SubSeqFull
<1>4. SubSeq(l, 1, Len(o)) = o
  <2> DEFINE c == SubSeq(l, 1, n)
  <2>1. \A i \in 1 .. n : l[i] \in S
    BY <1>1, <1>2, ElementOfSeq
  <2>2. c \in Seq(S) /\ Len(c) = n /\ \A i \in 1 .. n : c[i] = l[i]
    BY <2>1, SubSeqProperties
  <2> HIDE DEF c
  <2>3. c = o
    BY <1>1, <1>2, <2>2, SeqEqual DEF Agree
  <2>4. QED
    BY <1>1, <2>3 DEF c
<1>5. SubSeq(l, 1, Len(l)) = l
  BY <1>2, SubSeqFull
<1>6. n = m => o = l
  BY <1>1, <1>4, <1>5
<1>7. QED
  BY <1>1, <1>3, <1>4, <1>6 DEF IsPrefix

LEMMA OriginsAreLines ==
    ASSUME RowsIInv
    PROVE  IsPrefix(OriginOf, LinesOf(Samples(whole)))
           /\ (pc = "done" => OriginOf = LinesOf(Samples(whole)))
<1> DEFINE b == Samples(whole)
           n == Len(rows)
           m == Len(b)
           o == OriginOf
           l == LinesOf(b)
<1>1. /\ DOMAIN rows = 1 .. n /\ n \in Nat /\ b \in Seq(Sample)
      /\ n <= m /\ (pc = "done" => n = m)
      /\ \A i \in 1 .. n : rows[i].at = b[i].line
  BY RowsAreSamples DEF Faithful
<1>2. m \in Nat /\ DOMAIN b = 1 .. m
  BY <1>1, LenProperties
<1>3. o = [i \in 1 .. n |-> rows[i].at]
  BY <1>1 DEF OriginOf
<1>4. l = [i \in 1 .. m |-> b[i].line]
  BY <1>2 DEF LinesOf
<1> HIDE DEF n, m, o, l, b
<1>5. Lists(o, n) /\ Lists(l, m)
  BY <1>3, <1>4 DEF Lists
<1>6. Agree(o, l, n)
  BY <1>1, <1>2, <1>3, <1>4 DEF Agree
<1>7. IsPrefix(o, l) /\ (n = m => o = l)
  BY <1>1, <1>2, <1>5, <1>6, PrefixOf
<1>8. QED
  BY <1>1, <1>7 DEF b, o, l

\* Whatever the backend answers and however its body breaks off, the table holds the rows
\* of whole lines in their order, none skipped and none twice.
THEOREM TableFollowsTheStream == Spec => []RowsFollowTheStream
<1>1. RowsIInv => RowsFollowTheStream
  BY OriginsAreLines DEF RowsFollowTheStream
<1>2. QED
  BY <1>1, RowsHold, PTL

\* An exporter that returns nil has every row of every line that it received in the table,
\* and was told of no error.
THEOREM NilMeansAllHolds == Spec => []NilMeansAll
<1>1. RowsIInv => NilMeansAll
  BY OriginsAreLines DEF NilMeansAll, RowsIInv, EndInv, EndIsGood
<1>2. QED
  BY <1>1, RowsHold, PTL

\* Each row of metrics holds the pair, the name and the labels of its own place in its own
\* line, for every response.
THEOREM SamplesAreKept == Spec => []SeriesKeepTheirSamples
<1>1. RowsIInv => SeriesKeepTheirSamples
  BY RowsAreSamples DEF SeriesKeepTheirSamples, Faithful
<1>2. QED
  BY <1>1, RowsHold, PTL

\* Each row of logs holds its own line's entry, for every response: the time, the message
\* and the stream, the first severity with a text taken out of the fields, and in the fields
\* every other key.
THEOREM EntriesAreKept == Spec => []LogEntryKept
<1>1. RowsIInv => LogEntryKept
  BY RowsAreSamples DEF LogEntryKept, Faithful
<1>2. QED
  BY <1>1, RowsHold, PTL
=============================================================================
