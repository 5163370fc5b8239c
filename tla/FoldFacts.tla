------------------------------ MODULE FoldFacts ------------------------------
(***************************************************************************)
(* Facts about loops over a sequence that the model writes as folds. The   *)
(* library's induction rules take a predicate as a parameter; here a set   *)
(* of numbers takes its place, and the rule follows from WFMin, which      *)
(* takes none.                                                             *)
(***************************************************************************)
EXTENDS SequencesExt, WellFoundedInduction, FiniteSetTheorems, SequenceTheorems, TLAPS

-----------------------------------------------------------------------------
(* Induction *)

\* A nonempty set of numbers has a least one.
LEMMA LeastNumber ==
  ASSUME NEW S \in SUBSET Nat, S # {}
  PROVE  \E n \in S : \A m \in S : n <= m
<1>1. \E n \in S : \A m \in S : <<m, n>> \notin OpToRel(<, Nat)
  BY NatLessThanWellFounded, WFMin
<1>2. PICK n \in S : \A m \in S : <<m, n>> \notin OpToRel(<, Nat)
  BY <1>1
<1>3. ASSUME NEW m \in S PROVE ~(m < n)
  <2>1. m \in Nat /\ n \in Nat
    OBVIOUS
  <2>2. m < n => <<m, n>> \in OpToRel(<, Nat)
    BY <2>1 DEF OpToRel
  <2>3. QED
    BY <2>2, <1>2
<1>4. QED
  BY <1>3

\* A set with 0 and with the successor of each of its numbers has them all.
LEMMA NumberInduction ==
  ASSUME NEW S, 0 \in S, \A n \in Nat : n \in S => n + 1 \in S
  PROVE  Nat \subseteq S
<1> SUFFICES ASSUME ~(Nat \subseteq S) PROVE FALSE
  OBVIOUS
<1> DEFINE T == Nat \ S
<1>1. T \in SUBSET Nat /\ T # {}
  OBVIOUS
<1> HIDE DEF T
<1>2. PICK n \in T : \A m \in T : n <= m
  BY <1>1, LeastNumber
<1>3. n \in Nat /\ n \notin S /\ n # 0
  BY DEF T
<1>4. n - 1 \in Nat /\ n - 1 \notin T
  BY <1>1, <1>2, <1>3
<1>5. n - 1 \in S
  BY <1>4 DEF T
<1>6. (n - 1) + 1 = n
  BY <1>3
<1>7. QED
  BY <1>3, <1>4, <1>5, <1>6

\* Max of a nonempty set of indices is its largest.
LEMMA LargestNumber ==
  ASSUME NEW n \in Nat, NEW s \in SUBSET (1..n), s # {}
  PROVE  Max(s) \in s /\ \A y \in s : y <= Max(s)
<1> DEFINE T == {b \in Nat : \A y \in s : y <= b}
<1>1. T \in SUBSET Nat /\ n \in T
  OBVIOUS
<1> HIDE DEF T
<1>2. PICK b \in T : \A m \in T : b <= m
  BY <1>1, LeastNumber
<1>3. b \in Nat /\ \A y \in s : y <= b
  BY DEF T
<1>4. b \in s
  <2> SUFFICES ASSUME b \notin s PROVE FALSE
    OBVIOUS
  <2>1. b \in Nat \ {0}
    <3>1. PICK y \in s : TRUE
      OBVIOUS
    <3>2. y \in 1..n /\ y <= b
      BY <1>3, <3>1
    <3>3. QED
      BY <1>3, <3>2
  <2>2. ASSUME NEW y \in s PROVE y <= b - 1
    <3>1. y \in Nat /\ y <= b /\ y # b
      BY <1>3
    <3>2. QED
      BY <2>1, <3>1
  <2>3. b - 1 \in Nat /\ b - 1 \in T
    BY <2>1, <2>2 DEF T
  <2>4. QED
    BY <1>2, <1>3, <2>3
<1>5. QED
  BY <1>3, <1>4 DEF Max

-----------------------------------------------------------------------------
(* Folds *)

\* g gives each set of indices of seq the fold over them, with the step F.
FoldsWith(F, base, seq, g) ==
  \A s \in SUBSET DOMAIN seq :
    g[s] = IF s = {} THEN base ELSE F[<<g[s \ {Max(s)}], seq[Max(s)]>>]

\* The recursive function that FoldLeft chooses exists when the step, as a function
\* F, stays in a set X.
LEMMA FoldExists ==
  ASSUME NEW X, NEW base \in X, NEW Y, NEW seq \in Seq(Y), NEW F \in [X \X Y -> X]
  PROVE  \E g \in [SUBSET DOMAIN seq -> X] : FoldsWith(F, base, seq, g)
<1> DEFINE Is(n, g) == \A s \in SUBSET (1..n) :
              g[s] = IF s = {} THEN base ELSE F[<<g[s \ {Max(s)}], seq[Max(s)]>>]
           Made(n) == n <= Len(seq) => \E g \in [SUBSET (1..n) -> X] : Is(n, g)
           S == {n \in Nat : Made(n)}
<1> HIDE DEF Is, Made
<1>1. 0 \in S
  <2>1. [s \in SUBSET (1..0) |-> base] \in [SUBSET (1..0) -> X]
    BY Zenon
  <2>2. \A s \in SUBSET (1..0) : s = {}
    OBVIOUS
  <2>3. Is(0, [s \in SUBSET (1..0) |-> base])
    BY <2>2 DEF Is
  <2>4. Made(0)
    BY <2>1, <2>3, Zenon DEF Made
  <2>5. QED
    BY <2>4
<1>2. ASSUME NEW n \in Nat, n \in S PROVE n + 1 \in S
  <2> SUFFICES ASSUME n + 1 <= Len(seq)
               PROVE  \E g \in [SUBSET (1..n+1) -> X] : Is(n + 1, g)
    <3>1. ASSUME n + 1 <= Len(seq) => \E g \in [SUBSET (1..n+1) -> X] : Is(n + 1, g)
          PROVE  n + 1 \in S
      <4>1. Made(n + 1)
        BY <3>1, Zenon DEF Made
      <4>2. QED
        BY <4>1
    <3>2. QED
      BY <3>1, Zenon
  <2>1. PICK g \in [SUBSET (1..n) -> X] : Is(n, g)
    <3>1. Made(n) /\ n <= Len(seq)
      BY <1>2
    <3>2. QED
      BY <3>1, Zenon DEF Made
  <2> DEFINE h == [s \in SUBSET (1..n+1) |->
                     IF n + 1 \in s THEN F[<<g[s \ {n + 1}], seq[n + 1]>>] ELSE g[s]]
  <2>2. ASSUME NEW s \in SUBSET (1..n+1)
        PROVE  /\ n + 1 \notin s => s \in SUBSET (1..n)
               /\ s \ {n + 1} \in SUBSET (1..n)
               /\ h[s] \in X
               /\ s # {} => Max(s) \in s /\ (n + 1 \in s => Max(s) = n + 1)
    <3>1. /\ n + 1 \notin s => s \in SUBSET (1..n)
          /\ s \ {n + 1} \in SUBSET (1..n)
      OBVIOUS
    <3>2. seq[n + 1] \in Y
      OBVIOUS
    <3>3. h[s] \in X
      BY <3>1, <3>2
    <3>4. s # {} => Max(s) \in s /\ \A y \in s : y <= Max(s)
      <4>1. n + 1 \in Nat
        OBVIOUS
      <4>2. QED
        BY <4>1, LargestNumber, Zenon
    <3>5. ASSUME s # {}, n + 1 \in s PROVE Max(s) = n + 1
      <4>1. Max(s) \in 1..n+1 /\ n + 1 <= Max(s)
        BY <3>4, <3>5
      <4>2. QED
        BY <4>1
    <3>6. QED
      BY <3>1, <3>3, <3>4, <3>5, Zenon
  <2>3. h \in [SUBSET (1..n+1) -> X]
    BY <2>2
  <2>4. Is(n + 1, h)
    <3> SUFFICES ASSUME NEW s \in SUBSET (1..n+1)
                 PROVE  h[s] = IF s = {} THEN base ELSE F[<<h[s \ {Max(s)}], seq[Max(s)]>>]
      BY DEF Is
    <3>1. CASE n + 1 \in s
      <4>1. Max(s) = n + 1 /\ s # {} /\ s \ {n + 1} \in SUBSET (1..n)
        BY <2>2, <3>1
      <4>2. s \ {n + 1} \in SUBSET (1..n+1) /\ n + 1 \notin s \ {n + 1}
        OBVIOUS
      <4>3. h[s \ {n + 1}] = g[s \ {n + 1}]
        BY <4>2, Zenon
      <4>4. h[s] = F[<<g[s \ {n + 1}], seq[n + 1]>>]
        BY <3>1, Zenon
      <4>5. QED
        BY <4>1, <4>3, <4>4, Zenon
    <3>2. CASE n + 1 \notin s
      <4>1. s \in SUBSET (1..n) /\ h[s] = g[s]
        BY <2>2, <3>2, Zenon
      <4>2. s \ {Max(s)} \in SUBSET (1..n) /\ s \ {Max(s)} \in SUBSET (1..n+1)
            /\ n + 1 \notin s \ {Max(s)}
        BY <4>1, <3>2, Zenon
      <4>3. h[s \ {Max(s)}] = g[s \ {Max(s)}]
        BY <4>2, Zenon
      <4>4. g[s] = IF s = {} THEN base ELSE F[<<g[s \ {Max(s)}], seq[Max(s)]>>]
        BY <2>1, <4>1, Zenon DEF Is
      <4>5. QED
        BY <4>1, <4>3, <4>4, Zenon
    <3>3. QED
      BY <3>1, <3>2
  <2>5. QED
    BY <2>3, <2>4
<1> HIDE DEF S
<1>3. Len(seq) \in S
  BY <1>1, <1>2, NumberInduction
<1>4. PICK g \in [SUBSET (1..Len(seq)) -> X] : Is(Len(seq), g)
  <2>1. Made(Len(seq)) /\ Len(seq) <= Len(seq)
    BY <1>3 DEF S
  <2>2. QED
    BY <2>1, Zenon DEF Made
<1>5. DOMAIN seq = 1..Len(seq)
  OBVIOUS
<1>6. QED
  BY <1>4, <1>5, Zenon DEF Is, FoldsWith

\* FoldLeft takes the last index first: the fold over a prefix of the sequence is
\* one step after the fold over the prefix that is one shorter.
LEMMA PrefixMax ==
  ASSUME NEW n \in Nat
  PROVE  Max(1..n+1) = n + 1 /\ (1..n+1) \ {n + 1} = 1..n
<1>1. Max(1..n+1) \in 1..n+1 /\ \A y \in 1..n+1 : y <= Max(1..n+1)
  <2>1. n + 1 \in Nat /\ 1..n+1 \in SUBSET (1..n+1) /\ 1..n+1 # {}
    OBVIOUS
  <2>2. QED
    BY <2>1, LargestNumber, Zenon
<1>2. n + 1 \in 1..n+1
  OBVIOUS
<1>3. QED
  BY <1>1, <1>2

\* The prefixes of a sequence and their lengths.
LEMMA PrefixFacts ==
  ASSUME NEW Y, NEW seq \in Seq(Y), NEW n \in 0..Len(seq) - 1
  PROVE  /\ n \in Nat /\ n \in 0..Len(seq) /\ n + 1 \in 0..Len(seq)
         /\ 1..n+1 \in SUBSET DOMAIN seq /\ 1..n+1 # {}
         /\ seq[n + 1] \in Y
<1>1. n \in Nat /\ Len(seq) \in Nat /\ n + 1 <= Len(seq) /\ DOMAIN seq = 1..Len(seq)
  OBVIOUS
<1>2. n \in 0..Len(seq) /\ n + 1 \in 0..Len(seq) /\ n + 1 \in 1..Len(seq)
  BY <1>1
<1>3. 1..n+1 \in SUBSET DOMAIN seq /\ n + 1 \in 1..n+1
  BY <1>1
<1>4. seq[n + 1] \in Y
  BY <1>1, <1>2
<1>5. QED
  BY <1>1, <1>2, <1>3, <1>4

-----------------------------------------------------------------------------
(* Sequences and enumerations *)

\* The elements of a concatenation are those of both parts, at their places.
LEMMA ConcatElements ==
  ASSUME NEW S, NEW s \in Seq(S), NEW t \in Seq(S)
  PROVE  /\ \A i \in DOMAIN s : i \in DOMAIN (s \o t) /\ (s \o t)[i] = s[i]
         /\ \A i \in DOMAIN t : Len(s) + i \in DOMAIN (s \o t) /\ (s \o t)[Len(s) + i] = t[i]
         /\ \A i \in DOMAIN (s \o t) :
              \/ i \in DOMAIN s
              \/ i - Len(s) \in DOMAIN t /\ (s \o t)[i] = t[i - Len(s)] /\ Len(s) + (i - Len(s)) = i
         /\ ToSet(s \o t) = ToSet(s) \cup ToSet(t)
<1>1. \A i \in DOMAIN s : i \in DOMAIN (s \o t) /\ (s \o t)[i] = s[i]
  OBVIOUS
<1>2. \A i \in DOMAIN t : Len(s) + i \in DOMAIN (s \o t) /\ (s \o t)[Len(s) + i] = t[i]
  OBVIOUS
<1>3. \A i \in DOMAIN (s \o t) :
        \/ i \in DOMAIN s
        \/ i - Len(s) \in DOMAIN t /\ (s \o t)[i] = t[i - Len(s)] /\ Len(s) + (i - Len(s)) = i
  OBVIOUS
<1>4. ToSet(s \o t) = ToSet(s) \cup ToSet(t)
  <2>1. ASSUME NEW x \in ToSet(s) PROVE x \in ToSet(s \o t)
    BY <1>1 DEF ToSet
  <2>2. ASSUME NEW x \in ToSet(t) PROVE x \in ToSet(s \o t)
    BY <1>2 DEF ToSet
  <2>3. ASSUME NEW x \in ToSet(s \o t) PROVE x \in ToSet(s) \cup ToSet(t)
    <3>1. PICK i \in DOMAIN (s \o t) : x = (s \o t)[i]
      BY DEF ToSet
    <3>2. QED
      BY <1>1, <1>3, <3>1 DEF ToSet
  <2>4. QED
    BY <2>1, <2>2, <2>3
<1>5. QED
  BY <1>1, <1>2, <1>3, <1>4

\* The recursive function behind FlattenSeq, on the sequences up to n.
Flattens(seqs, n, f) ==
  \A i \in 1..n : f[i] = IF i = 1 THEN seqs[i] ELSE f[i - 1] \o seqs[i]

LEMMA FlattenExists ==
  ASSUME NEW S, NEW seqs \in Seq(Seq(S))
  PROVE  \E f \in [1..Len(seqs) -> Seq(S)] : Flattens(seqs, Len(seqs), f)
<1> DEFINE Made(n) == n <= Len(seqs) => \E f \in [1..n -> Seq(S)] : Flattens(seqs, n, f)
           T == {n \in Nat : Made(n)}
<1> HIDE DEF Made
<1>1. 0 \in T
  <2>1. Flattens(seqs, 0, [i \in 1..0 |-> <<>>]) /\ [i \in 1..0 |-> <<>>] \in [1..0 -> Seq(S)]
    BY DEF Flattens
  <2>2. Made(0)
    BY <2>1, Zenon DEF Made
  <2>3. QED
    BY <2>2
<1>2. ASSUME NEW n \in Nat, n \in T PROVE n + 1 \in T
  <2>1. ASSUME n + 1 <= Len(seqs) PROVE \E f \in [1..n+1 -> Seq(S)] : Flattens(seqs, n + 1, f)
    <3>1. PICK f \in [1..n -> Seq(S)] : Flattens(seqs, n, f)
      <4>1. Made(n) /\ n <= Len(seqs)
        BY <1>2, <2>1
      <4>2. QED
        BY <4>1, Zenon DEF Made
    <3> DEFINE last == IF n + 1 = 1 THEN seqs[n + 1] ELSE f[n] \o seqs[n + 1]
               g == [i \in 1..n+1 |-> IF i = n + 1 THEN last ELSE f[i]]
    <3>2. seqs[n + 1] \in Seq(S)
      BY <2>1
    <3>3. last \in Seq(S)
      <4>1. n # 0 => f[n] \in Seq(S)
        OBVIOUS
      <4>2. QED
        BY <3>2, <4>1
    <3> HIDE DEF last
    <3>4. g \in [1..n+1 -> Seq(S)]
      BY <3>3
    <3>5. ASSUME NEW i \in 1..n+1 PROVE g[i] = IF i = 1 THEN seqs[i] ELSE g[i - 1] \o seqs[i]
      <4>1. CASE i = n + 1
        <5>1. g[i] = last
          BY <4>1, Zenon
        <5>2. i # 1 => i - 1 = n /\ i - 1 \in 1..n+1 /\ i - 1 # n + 1
          BY <4>1
        <5>3. i # 1 => g[i - 1] = f[n]
          BY <5>2, Zenon
        <5>4. QED
          BY <4>1, <5>1, <5>3, Zenon DEF last
      <4>2. CASE i # n + 1
        <5>1. i \in 1..n /\ (i # 1 => i - 1 \in 1..n+1 /\ i - 1 # n + 1)
          BY <4>2
        <5>2. g[i] = f[i] /\ (i # 1 => g[i - 1] = f[i - 1])
          BY <4>2, <5>1, Zenon
        <5>3. QED
          BY <3>1, <5>1, <5>2, Zenon DEF Flattens
      <4>3. QED
        BY <4>1, <4>2
    <3> HIDE DEF g
    <3>6. QED
      BY <3>4, <3>5, Zenon DEF Flattens
  <2>2. Made(n + 1)
    BY <2>1, Zenon DEF Made
  <2>3. QED
    BY <2>2
<1> HIDE DEF T
<1>3. Len(seqs) \in T /\ Len(seqs) <= Len(seqs)
  BY <1>1, <1>2, NumberInduction
<1>4. QED
  BY <1>3, Zenon DEF T, Made

LEMMA FlattenIs ==
  ASSUME NEW S, NEW seqs \in Seq(Seq(S)), seqs # <<>>
  PROVE  \E f : Flattens(seqs, Len(seqs), f) /\ FlattenSeq(seqs) = f[Len(seqs)]
<1> DEFINE Is(f) == f = [i \in 1..Len(seqs) |-> IF i = 1 THEN seqs[i] ELSE f[i - 1] \o seqs[i]]
           flat == CHOOSE f : Is(f)
<1>1. \E f : Is(f)
  <2>1. PICK f \in [1..Len(seqs) -> Seq(S)] : Flattens(seqs, Len(seqs), f)
    BY FlattenExists
  <2>2. Is(f)
    BY <2>1, Zenon DEF Flattens
  <2>3. QED
    BY <2>2
<1>2. Is(flat)
  BY <1>1, Zenon
<1>3. FlattenSeq(seqs) = flat[Len(seqs)]
  <2>1. Len(seqs) # 0
    OBVIOUS
  <2>2. QED
    BY <2>1, Zenon DEF FlattenSeq
<1> HIDE DEF flat
<1>4. Flattens(seqs, Len(seqs), flat)
  BY <1>2, Zenon DEF Flattens
<1>5. QED
  BY <1>3, <1>4

\* Flattening is a step per sequence.
LEMMA FlattenAppend ==
  ASSUME NEW S, NEW seqs \in Seq(Seq(S)), NEW x \in Seq(S)
  PROVE  /\ FlattenSeq(seqs) \in Seq(S)
         /\ FlattenSeq(Append(seqs, x)) = FlattenSeq(seqs) \o x
<1> DEFINE more == Append(seqs, x)
           n == Len(seqs)
<1>1. /\ n \in Nat /\ more \in Seq(Seq(S)) /\ more # <<>> /\ Len(more) = n + 1
      /\ more[n + 1] = x
      /\ \A i \in 1..n : more[i] = seqs[i]
  <2>1. n \in Nat /\ more \in Seq(Seq(S)) /\ Len(more) = n + 1 /\ more[n + 1] = x
    OBVIOUS
  <2>2. \A i \in 1..n : more[i] = seqs[i]
    OBVIOUS
  <2>3. more # <<>>
    BY AppendProperties
  <2>4. QED
    BY <2>1, <2>2, <2>3
<1> HIDE DEF more
<1>2. PICK g : Flattens(more, n + 1, g) /\ FlattenSeq(more) = g[n + 1]
  BY <1>1, FlattenIs, Zenon
<1>3. CASE n = 0
  <2>1. seqs = <<>>
    BY <1>3
  <2>2. FlattenSeq(seqs) = <<>>
    BY <2>1 DEF FlattenSeq
  <2>3. g[n + 1] = x
    <3>1. n + 1 = 1 /\ n + 1 \in 1..n+1
      BY <1>3
    <3>2. QED
      BY <1>1, <1>2, <3>1, Zenon DEF Flattens
  <2>4. QED
    BY <1>2, <2>2, <2>3 DEF more
<1>4. CASE n # 0
  <2>1. seqs # <<>>
    BY <1>4
  <2>2. PICK f : Flattens(seqs, n, f) /\ FlattenSeq(seqs) = f[n]
    BY <2>1, FlattenIs
  <2> DEFINE T == {i \in Nat : i \in 1..n => f[i] = g[i] /\ f[i] \in Seq(S)}
  <2>3. 0 \in T
    OBVIOUS
  <2>4. ASSUME NEW i \in Nat, i \in T PROVE i + 1 \in T
    <3> SUFFICES ASSUME i + 1 \in 1..n PROVE f[i + 1] = g[i + 1] /\ f[i + 1] \in Seq(S)
      OBVIOUS
    <3>1. seqs[i + 1] \in Seq(S) /\ more[i + 1] = seqs[i + 1] /\ i + 1 \in 1..n+1
      BY <1>1
    <3>2. (i + 1) - 1 = i /\ (i + 1 # 1 => i \in 1..n)
      OBVIOUS
    <3>3. /\ f[i + 1] = IF i + 1 = 1 THEN seqs[i + 1] ELSE f[i] \o seqs[i + 1]
          /\ g[i + 1] = IF i + 1 = 1 THEN more[i + 1] ELSE g[i] \o more[i + 1]
      BY <1>2, <2>2, <3>1, <3>2, Zenon DEF Flattens
    <3>4. CASE i + 1 = 1
      BY <3>1, <3>3, <3>4, Zenon
    <3>5. CASE i + 1 # 1
      <4>1. f[i] = g[i] /\ f[i] \in Seq(S)
        BY <2>4, <3>2, <3>5
      <4>2. f[i] \o seqs[i + 1] \in Seq(S)
        BY <3>1, <4>1
      <4>3. QED
        BY <3>1, <3>3, <3>5, <4>1, <4>2, Zenon
    <3>6. QED
      BY <3>4, <3>5
  <2> HIDE DEF T
  <2>5. n \in T
    BY <1>1, <2>3, <2>4, NumberInduction
  <2>6. f[n] = g[n] /\ f[n] \in Seq(S)
    <3>1. n \in 1..n
      BY <1>1, <1>4
    <3>2. QED
      BY <2>5, <3>1 DEF T
  <2>7. g[n + 1] = g[n] \o x
    <3>1. n + 1 # 1 /\ n + 1 \in 1..n+1 /\ (n + 1) - 1 = n
      BY <1>1, <1>4
    <3>2. QED
      BY <1>1, <1>2, <3>1, Zenon DEF Flattens
  <2>8. QED
    BY <1>2, <2>2, <2>6, <2>7, Zenon DEF more
<1>5. QED
  BY <1>3, <1>4

\* A set of m elements is a sequence of m different ones.
LEMMA Enumerated ==
  ASSUME NEW S, NEW m \in Nat, NEW e \in [1..m -> S],
         \A i, j \in 1..m : e[i] = e[j] => i = j,
         \A x \in S : \E i \in 1..m : e[i] = x
  PROVE  IsFiniteSet(S) /\ Cardinality(S) = m
<1>1. e \in Bijection(1..m, S)
  BY DEF Bijection, Injection, IsInjective, Surjection
<1>2. ExistsBijection(1..m, S)
  BY <1>1 DEF ExistsBijection
<1>3. QED
  BY <1>2, FS_CountingElements, FS_NatBijection

\* A sequence without repetitions has as many elements as places.
LEMMA ElementsCounted ==
  ASSUME NEW S, NEW s \in Seq(S), \A i, j \in DOMAIN s : s[i] = s[j] => i = j
  PROVE  IsFiniteSet(ToSet(s)) /\ Cardinality(ToSet(s)) = Len(s)
<1>1. Len(s) \in Nat /\ DOMAIN s = 1..Len(s) /\ s \in [1..Len(s) -> ToSet(s)]
  BY DEF ToSet
<1>2. \A x \in ToSet(s) : \E i \in 1..Len(s) : s[i] = x
  BY <1>1 DEF ToSet
<1>3. \A i, j \in 1..Len(s) : s[i] = s[j] => i = j
  BY <1>1, Zenon
<1>4. QED
  BY <1>1, <1>2, <1>3, Enumerated, Zenon

\* e puts the m numbers of S in ascending order.
Ascends(e, m, S) ==
  /\ e \in [1..m -> S]
  /\ \A i, j \in 1..m : i < j => e[i] < e[j]
  /\ \A x \in S : \E i \in 1..m : e[i] = x

\* The k-th of them has k that are not above it.
LEMMA Ascending ==
  ASSUME NEW m \in Nat, NEW S \in SUBSET Nat, NEW e, Ascends(e, m, S)
  PROVE  /\ \A i, j \in 1..m : e[i] = e[j] => i = j
         /\ IsFiniteSet(S) /\ Cardinality(S) = m
         /\ \A k \in 1..m : Cardinality({x \in S : x <= e[k]}) = k
<1> USE DEF Ascends
<1>1. \A i \in 1..m : e[i] \in Nat
  OBVIOUS
<1>2. ASSUME NEW i \in 1..m, NEW j \in 1..m, e[i] = e[j]
      PROVE  i = j
  <2>1. ~(i < j) /\ ~(j < i)
    BY <1>1, <1>2
  <2>2. QED
    BY <2>1
<1>3. IsFiniteSet(S) /\ Cardinality(S) = m
  BY <1>2, Enumerated
<1>4. ASSUME NEW k \in 1..m
      PROVE  Cardinality({x \in S : x <= e[k]}) = k
  <2> DEFINE T == {x \in S : x <= e[k]}
             d == [i \in 1..k |-> e[i]]
  <2>1. \A i \in 1..k : i \in 1..m /\ d[i] = e[i]
    OBVIOUS
  <2>2. d \in [1..k -> T]
    <3>1. ASSUME NEW i \in 1..k PROVE e[i] <= e[k]
      <4>1. i \in 1..m /\ (i = k \/ i < k)
        OBVIOUS
      <4>2. QED
        BY <1>1, <4>1
    <3>2. \A i \in 1..k : e[i] \in T
      BY <2>1, <3>1
    <3>3. QED
      BY <3>2
  <2>3. \A i, j \in 1..k : d[i] = d[j] => i = j
    BY <1>2, <2>1
  <2>4. \A x \in T : \E i \in 1..k : d[i] = x
    <3>1. TAKE x \in T
    <3>2. PICK i \in 1..m : e[i] = x
      OBVIOUS
    <3>3. ~(k < i)
      <4>1. e[i] <= e[k] /\ e[i] \in Nat /\ e[k] \in Nat
        BY <1>1, <3>2
      <4>2. k < i => e[k] < e[i]
        OBVIOUS
      <4>3. QED
        BY <4>1, <4>2
    <3>4. i \in 1..k
      BY <3>3
    <3>5. QED
      BY <2>1, <3>2, <3>4
  <2> HIDE DEF T, d
  <2>5. Cardinality(T) = k
    <3>1. k \in Nat
      OBVIOUS
    <3>2. QED
      BY <3>1, <2>2, <2>3, <2>4, Enumerated, Zenon
  <2>6. QED
    BY <2>5 DEF T
<1>5. QED
  BY <1>2, <1>3, <1>4
=============================================================================
