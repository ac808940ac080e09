-------------------------- MODULE SurgeonGraphProofs --------------------------
(***************************************************************************)
(* Theorems on the graph of the surgeon, for graphs of any size and any    *)
(* sequence of edits.                                                      *)
(***************************************************************************)
EXTENDS SurgeonGraph, SequenceTheorems, FiniteSetTheorems, WellFoundedInduction, TLAPS

-------------------------------------------------------------------------------
(* Finite sets, numbers and loops.                                         *)

LEMMA SmallestSet ==
  ASSUME NEW T, IsFiniteSet(T), NEW Bad, Bad \subseteq SUBSET T, Bad # {}
  PROVE  \E S \in Bad : \A U \in Bad : U \subseteq S => U = S
<1>1. IsWellFoundedOn(StrictSubsetOrdering(T), FiniteSubsetsOf(T))
  BY FS_StrictSubsetOrderingWellFounded
<1>2. Bad \subseteq FiniteSubsetsOf(T)
  BY FS_FiniteSubsetsOfFinite
<1>3. PICK S \in Bad : \A U \in Bad : ~ (<<U, S>> \in StrictSubsetOrdering(T))
  BY <1>1, <1>2, WFMin
<1> QED
  BY <1>3 DEF StrictSubsetOrdering

LEMMA Least ==
  ASSUME NEW n \in Nat, NEW S, S \subseteq 0..n, S # {}
  PROVE  \E c \in S : \A d \in S : c <= d
<1> DEFINE T == 0..n
           Bad == {V \in SUBSET T : \E c \in S : V = 0..c}
<1>1. \A c \in S : c \in Nat /\ 0..c \in Bad
  OBVIOUS
<1>2. IsFiniteSet(T)
  BY FS_Interval
<1>3. PICK U \in Bad : \A V \in Bad : V \subseteq U => V = U
  <2>1. Bad \subseteq SUBSET T /\ Bad # {}
    BY <1>1
  <2> HIDE DEF Bad, T
  <2> QED
    BY ONLY <1>2, <2>1, SmallestSet
<1>4. PICK c \in S : U = 0..c
  BY <1>3
<1>5. ASSUME NEW d \in S, d < c PROVE FALSE
  <2>1. c \in Nat /\ d \in Nat /\ 0..d \in Bad /\ 0..d \subseteq U
    BY <1>1, <1>4, <1>5
  <2>2. c \in 0..d
    BY <1>1, <1>3, <1>4, <2>1
  <2> QED
    BY <1>5, <2>1, <2>2
<1> QED
  BY <1>1, <1>5

(* Induction over the rounds of a loop.                                    *)
LEMMA UpTo ==
  ASSUME NEW k \in Nat, NEW S, 0 \in S, \A i \in 1..k : i - 1 \in S => i \in S
  PROVE  \A i \in 0..k : i \in S
<1> DEFINE Bad == {i \in 0..k : i \notin S}
<1>1. SUFFICES ASSUME Bad # {} PROVE FALSE
  OBVIOUS
<1>2. PICK c \in Bad : \A d \in Bad : c <= d
  <2>1. Bad \subseteq 0..k
    OBVIOUS
  <2> HIDE DEF Bad
  <2> QED
    BY <1>1, <2>1, Least
<1>3. c \in 1..k /\ c - 1 \in 0..k /\ c - 1 \notin Bad
  BY <1>2
<1> QED
  BY <1>2, <1>3

(* What a loop of k rounds computes.                                       *)
Rounds(b, k, D, f) ==
  f = [i \in 0..k |-> IF i = 0 THEN b ELSE D[<<f[i - 1], i>>]]

LEMMA Loop ==
  ASSUME NEW A, NEW b \in A, NEW k \in Nat, NEW D,
         \A v \in A, i \in 1..k : D[<<v, i>>] \in A
  PROVE  \E f \in [0..k -> A] : Rounds(b, k, D, f)
<1> DEFINE Good(i, f) == f \in [0..i -> A] /\ Rounds(b, i, D, f)
           S == {i \in 0..k : \E f : Good(i, f)}
<1>1. 0 \in S
  <2> DEFINE f == [j \in 0..0 |-> b]
  <2>1. Good(0, f)
    BY DEF Rounds
  <2>2. \E e : Good(0, e)
    BY <2>1
  <2> HIDE DEF Good
  <2> QED
    BY <2>2
<1>2. ASSUME NEW i \in 1..k, i - 1 \in S PROVE i \in S
  <2>1. PICK f : Good(i - 1, f)
    <3> HIDE DEF Good
    <3> QED
      BY <1>2
  <2> DEFINE h == [j \in 0..i |-> IF j = i THEN D[<<f[i - 1], i>>] ELSE f[j]]
  <2>2. i - 1 \in 0..(i - 1) /\ f[i - 1] \in A /\ h[i] \in A
    BY <2>1
  <2>3. h \in [0..i -> A]
    BY <2>1, <2>2
  <2>4. ASSUME NEW j \in 0..i PROVE h[j] = IF j = 0 THEN b ELSE D[<<h[j - 1], j>>]
    <3>1. CASE j = i
      BY <3>1
    <3>2. CASE j # i
      <4>1. j \in 0..(i - 1) /\ h[j] = f[j]
        BY <3>2
      <4>2. j # 0 => j - 1 \in 0..(i - 1) /\ h[j - 1] = f[j - 1]
        BY <3>2
      <4>3. f[j] = IF j = 0 THEN b ELSE D[<<f[j - 1], j>>]
        BY <2>1, <4>1 DEF Rounds
      <4> QED
        BY <4>1, <4>2, <4>3
    <3> QED
      BY <3>1, <3>2
  <2>5. h = [j \in 0..i |-> h[j]]
    OBVIOUS
  <2> HIDE DEF h
  <2>6. Good(i, h)
    BY <2>3, <2>4, <2>5 DEF Rounds
  <2> HIDE DEF Good
  <2> QED
    BY <2>6
<1>3. k \in S
  <2> HIDE DEF S
  <2> QED
    BY <1>1, <1>2, UpTo
<1> QED
  BY <1>3

-------------------------------------------------------------------------------
(* Lists.                                                                  *)

LEMMA SeqRange ==
  ASSUME NEW T, NEW s \in Seq(T)
  PROVE  /\ DOMAIN s = 1..Len(s) /\ Len(s) \in Nat
         /\ \A i \in 1..Len(s) : s[i] \in T /\ s[i] \in Range(s)
         /\ \A x \in Range(s) : \E i \in 1..Len(s) : s[i] = x
         /\ Range(s) \subseteq T
BY DEF Range

LEMMA AppendRange ==
  ASSUME NEW T, NEW s \in Seq(T), NEW x \in T
  PROVE  /\ Append(s, x) \in Seq(T) /\ Len(Append(s, x)) = Len(s) + 1
         /\ Range(Append(s, x)) = Range(s) \cup {x}
         /\ IsInjective(s) /\ x \notin Range(s) => IsInjective(Append(s, x))
<1> DEFINE w == Append(s, x)
<1>1. /\ w \in Seq(T) /\ Len(w) = Len(s) + 1 /\ w[Len(s) + 1] = x
      /\ \A j \in 1..Len(s) : w[j] = s[j]
  OBVIOUS
<1> HIDE DEF w
<1>2. Range(w) = Range(s) \cup {x}
  BY <1>1 DEF Range
<1>3. IsInjective(s) /\ x \notin Range(s) => IsInjective(w)
  BY <1>1 DEF Range, IsInjective
<1> QED
  BY <1>1, <1>2, <1>3 DEF w

LEMMA OnlyLoop ==
  ASSUME NEW T, NEW s \in Seq(T), NEW S
  PROVE  \E f : /\ f[0] = << >>
                /\ \A i \in 1..Len(s) :
                     f[i] = IF s[i] \in S THEN Append(f[i - 1], s[i]) ELSE f[i - 1]
                /\ Only(s, S) = f[Len(s)]
<1> DEFINE A == Seq(T)
           k == Len(s)
           step(v, i) == IF s[i] \in S THEN Append(v, s[i]) ELSE v
           D == [p \in A \X (1..k) |-> step(p[1], p[2])]
           empty == << >>
           Is(f) == f = [i \in 0..k |-> IF i = 0 THEN empty ELSE step(f[i - 1], i)]
<1>1. \A v \in A, i \in 1..k : step(v, i) \in A
  OBVIOUS
<1>2. empty \in A /\ k \in Nat /\ Only(s, S) = (CHOOSE f : Is(f))[k]
  BY DEF Only
<1> HIDE DEF A, k, step, empty
<1>3. \A v \in A, i \in 1..k : D[<<v, i>>] = step(v, i)
  OBVIOUS
<1>4. PICK h \in [0..k -> A] : Rounds(empty, k, D, h)
  <2>1. \A v \in A, i \in 1..k : D[<<v, i>>] \in A
    BY <1>1, <1>3
  <2> HIDE DEF D
  <2> QED
    BY <1>2, <2>1, Loop
<1>5. Is(h)
  <2>1. ASSUME NEW i \in 0..k
        PROVE  h[i] = IF i = 0 THEN empty ELSE step(h[i - 1], i)
    <3>1. h[i] = IF i = 0 THEN empty ELSE D[<<h[i - 1], i>>]
      BY <1>4 DEF Rounds
    <3>2. i # 0 => i \in 1..k /\ h[i - 1] \in A
      BY <1>2, <1>4
    <3> QED
      BY <1>3, <3>1, <3>2
  <2> QED
    BY <2>1
<1> DEFINE f == CHOOSE f : Is(f)
<1>6. Is(f)
  BY <1>5
<1> HIDE DEF f
<1>7. f[0] = empty /\ \A i \in 1..k : f[i] = step(f[i - 1], i)
  BY <1>2, <1>6
<1> QED
  BY <1>2, <1>7 DEF k, step, empty, f

LEMMA OnlyProps ==
  ASSUME NEW T, NEW s \in Seq(T), NEW S
  PROVE  /\ Only(s, S) \in Seq(T)
         /\ Range(Only(s, S)) = Range(s) \cap S
         /\ IsInjective(s) => IsInjective(Only(s, S))
<1>1. PICK f : /\ f[0] = << >>
               /\ \A i \in 1..Len(s) :
                    f[i] = IF s[i] \in S THEN Append(f[i - 1], s[i]) ELSE f[i - 1]
               /\ Only(s, S) = f[Len(s)]
  BY OnlyLoop
<1> DEFINE Seen(i) == {s[j] : j \in 1..i}
           J == {i \in 0..Len(s) :
                   /\ f[i] \in Seq(T)
                   /\ Range(f[i]) = Seen(i) \cap S
                   /\ IsInjective(s) => IsInjective(f[i])}
<1>2. 0 \in J
  <2>1. Seen(0) = {} /\ Range(<< >>) = {} /\ IsInjective(<< >>) /\ << >> \in Seq(T)
    BY DEF Range, IsInjective
  <2> HIDE DEF Seen
  <2>2. f[0] \in Seq(T) /\ Range(f[0]) = Seen(0) \cap S /\ IsInjective(f[0])
    BY <1>1, <2>1
  <2>3. 0 \in 0..Len(s)
    OBVIOUS
  <2> QED
    BY <2>2, <2>3
<1>3. ASSUME NEW i \in 1..Len(s), i - 1 \in J PROVE i \in J
  <2>1. Seen(i) = Seen(i - 1) \cup {s[i]} /\ s[i] \in T
    <3>1. 1..i = 1..(i - 1) \cup {i}
      OBVIOUS
    <3> QED
      BY <3>1
  <2>2. IsInjective(s) => s[i] \notin Seen(i - 1)
    BY DEF IsInjective
  <2> HIDE DEF Seen
  <2>3. CASE s[i] \notin S
    BY <1>1, <1>3, <2>1, <2>3
  <2>4. CASE s[i] \in S
    <3> DEFINE v == f[i - 1]
               w == Append(v, s[i])
    <3>1. v \in Seq(T) /\ Range(v) = Seen(i - 1) \cap S /\ (IsInjective(s) => IsInjective(v))
      BY <1>3
    <3>2. /\ w \in Seq(T) /\ Range(w) = Range(v) \cup {s[i]}
          /\ IsInjective(v) /\ s[i] \notin Range(v) => IsInjective(w)
      BY <2>1, <3>1, AppendRange
    <3>5. f[i] = w
      BY <1>1, <2>4
    <3> HIDE DEF w
    <3> QED
      BY <2>1, <2>2, <2>4, <3>1, <3>2, <3>5
  <2> QED
    BY <2>3, <2>4
<1>4. Len(s) \in J
  <2>1. Len(s) \in Nat
    OBVIOUS
  <2> HIDE DEF J
  <2>2. \A i \in 0..Len(s) : i \in J
    BY <1>2, <1>3, <2>1, UpTo
  <2> QED
    BY <2>1, <2>2
<1>5. Seen(Len(s)) = Range(s)
  BY DEF Range
<1> QED
  BY <1>1, <1>4, <1>5

LEMMA IndexInProps ==
  ASSUME NEW T, NEW s \in Seq(T), NEW x \in Range(s)
  PROVE  /\ IndexIn(s, x) \in 1..Len(s) /\ s[IndexIn(s, x)] = x
         /\ \A j \in 1..Len(s) : s[j] = x => IndexIn(s, x) <= j
<1> DEFINE I == {i \in 1..Len(s) : s[i] = x}
<1>1. I # {} /\ I \subseteq 0..Len(s) /\ Len(s) \in Nat
  BY DEF Range
<1>2. \E c \in I : \A d \in I : c <= d
  <2> HIDE DEF I
  <2> QED
    BY <1>1, Least
<1>3. IndexIn(s, x) = Min(I)
  BY <1>1 DEF IndexIn, SelectInSeq
<1>4. IndexIn(s, x) \in I /\ \A d \in I : IndexIn(s, x) <= d
  <2> HIDE DEF I
  <2> QED
    BY <1>2, <1>3 DEF Min
<1> QED
  BY <1>4

LEMMA RemoveFirstProps ==
  ASSUME NEW T, NEW s \in Seq(T), NEW x
  PROVE  /\ RemoveFirst(s, x) \in Seq(T)
         /\ Range(RemoveFirst(s, x)) \subseteq Range(s)
         /\ Range(s) \ {x} \subseteq Range(RemoveFirst(s, x))
         /\ IsInjective(s) => /\ IsInjective(RemoveFirst(s, x))
                              /\ x \notin Range(RemoveFirst(s, x))
<1>1. CASE x \notin Range(s)
  <2>1. RemoveFirst(s, x) = s
    BY <1>1 DEF RemoveFirst, Range
  <2> QED
    BY <1>1, <2>1
<1>2. CASE x \in Range(s)
  <2> DEFINE i == IndexIn(s, x)
             w == RemoveFirst(s, x)
  <2>1. i \in 1..Len(s) /\ s[i] = x
    BY <1>2, IndexInProps
  <2>2. w = SubSeq(s, 1, i - 1) \o SubSeq(s, i + 1, Len(s))
    <3>1. \E j \in 1..Len(s) : s[j] = x
      BY <1>2 DEF Range
    <3> QED
      BY <3>1 DEF RemoveFirst, RemoveAt, IndexIn, SelectInSeq
  <2> HIDE DEF i
  <2>3. /\ w \in Seq(T) /\ Len(w) = Len(s) - 1
        /\ \A j \in 1..Len(w) : w[j] = IF j < i THEN s[j] ELSE s[j + 1]
    <3> DEFINE u == SubSeq(s, 1, i - 1)
               v == SubSeq(s, i + 1, Len(s))
    <3>1. /\ u \in Seq(T) /\ Len(u) = i - 1 /\ \A j \in 1..i - 1 : u[j] = s[j]
          /\ v \in Seq(T) /\ Len(v) = Len(s) - i /\ \A j \in 1..Len(s) - i : v[j] = s[i + j]
      BY <2>1
    <3> HIDE DEF u, v
    <3>2. /\ u \o v \in Seq(T) /\ Len(u \o v) = Len(s) - 1
          /\ \A j \in 1..Len(s) - 1 : (u \o v)[j] = IF j <= i - 1 THEN u[j] ELSE v[j - (i - 1)]
      <4>1. Len(u) + Len(v) = Len(s) - 1 /\ Len(u) = i - 1
        BY <2>1, <3>1
      <4> QED
        BY <3>1, <4>1, ConcatProperties
    <3>3. \A j \in 1..Len(s) - 1 : (u \o v)[j] = IF j < i THEN s[j] ELSE s[j + 1]
      <4> TAKE j \in 1..Len(s) - 1
      <4>1. CASE j < i
        <5>1. j <= i - 1 /\ j \in 1..i - 1
          BY <2>1, <4>1
        <5> QED
          BY <3>1, <3>2, <4>1, <5>1
      <4>2. CASE ~(j < i)
        <5>1. ~(j <= i - 1) /\ j - (i - 1) \in 1..Len(s) - i /\ i + (j - (i - 1)) = j + 1
          BY <2>1, <4>2
        <5> QED
          BY <3>1, <3>2, <4>2, <5>1
      <4> QED
        BY <4>1, <4>2
    <3> QED
      BY <2>2, <3>2, <3>3 DEF u, v
  <2> HIDE DEF w
  <2>4. /\ DOMAIN w = 1..Len(w) /\ Len(w) \in Nat /\ DOMAIN s = 1..Len(s) /\ Len(s) \in Nat
    BY <2>3
  <2>5. Range(w) \subseteq Range(s)
    BY <2>1, <2>3, <2>4 DEF Range
  <2>6. ASSUME NEW y \in Range(s), y # x PROVE y \in Range(w)
    <3>1. PICK j \in 1..Len(s) : s[j] = y
      BY DEF Range
    <3>2. CASE j < i
      <4>1. j \in 1..Len(w) /\ w[j] = y
        BY <2>1, <2>3, <2>4, <3>1, <3>2
      <4> QED
        BY <2>4, <4>1 DEF Range
    <3>3. CASE i < j
      <4>1. j - 1 \in 1..Len(w) /\ w[j - 1] = y
        BY <2>1, <2>3, <2>4, <3>1, <3>3
      <4> QED
        BY <2>4, <4>1 DEF Range
    <3> QED
      BY <2>1, <2>6, <3>1, <3>2, <3>3
  <2>7. ASSUME IsInjective(s) PROVE IsInjective(w) /\ x \notin Range(w)
    <3>1. \A j \in 1..Len(w) : w[j] # x
      BY <2>1, <2>3, <2>4, <2>7 DEF IsInjective
    <3>2. ASSUME NEW a \in 1..Len(w), NEW b \in 1..Len(w), w[a] = w[b] PROVE a = b
      BY <2>1, <2>3, <2>4, <2>7, <3>2, SMTT(30) DEF IsInjective
    <3> QED
      BY <2>4, <3>1, <3>2 DEF IsInjective, Range
  <2> QED
    BY <2>3, <2>5, <2>6, <2>7 DEF w
<1> QED
  BY <1>1, <1>2

LEMMA ReplaceAllProps ==
  ASSUME NEW T, NEW s \in Seq(T), NEW x, NEW y \in T
  PROVE  /\ ReplaceAll(s, x, y) \in Seq(T) /\ Len(ReplaceAll(s, x, y)) = Len(s)
         /\ Range(ReplaceAll(s, x, y)) =
              (Range(s) \ {x}) \cup (IF x \in Range(s) THEN {y} ELSE {})
<1> DEFINE w == ReplaceAll(s, x, y)
<1>1. w \in Seq(T) /\ Len(w) = Len(s) /\ \A i \in 1..Len(s) : w[i] = IF s[i] = x THEN y ELSE s[i]
  BY DEF ReplaceAll
<1> HIDE DEF w
<1>2. Range(w) = (Range(s) \ {x}) \cup (IF x \in Range(s) THEN {y} ELSE {})
  <2>1. \A z \in Range(w) : z \in (Range(s) \ {x}) \cup (IF x \in Range(s) THEN {y} ELSE {})
    BY <1>1 DEF Range
  <2>2. \A z \in Range(s) \ {x} : z \in Range(w)
    BY <1>1 DEF Range
  <2>3. x \in Range(s) => y \in Range(w)
    BY <1>1 DEF Range
  <2> QED
    BY <2>1, <2>2, <2>3
<1> QED
  BY <1>1, <1>2 DEF w

(* In a list without repetition an element is found once.                  *)
LEMMA CountOnce ==
  ASSUME NEW T, NEW s \in Seq(T), NEW x, IsInjective(s)
  PROVE  Count(s, x) = IF x \in Range(s) THEN 1 ELSE 0
<1> DEFINE I == {i \in DOMAIN s : s[i] = x}
<1>1. CASE x \in Range(s)
  <2>1. PICK i \in DOMAIN s : s[i] = x
    BY <1>1 DEF Range
  <2>2. I = {i}
    BY <2>1 DEF IsInjective
  <2>3. Cardinality({i}) = 1
    BY FS_Singleton
  <2> QED
    BY <1>1, <2>2, <2>3 DEF Count
<1>2. CASE x \notin Range(s)
  <2>1. I = {}
    BY <1>2 DEF Range
  <2> QED
    BY <1>2, <2>1, FS_EmptySet DEF Count
<1> QED
  BY <1>1, <1>2

-------------------------------------------------------------------------------
(* Graphs over the nodes D.                                                *)

Labels == Given \cup Added

Partial(S, T) == UNION {[R -> T] : R \in SUBSET S}

Graphs(D) ==
  {h \in [nodes : Seq(D), ins : [D -> Seq(Labels)], outs : [D -> Seq(Labels)],
          inputs : SUBSET Labels, outputs : SUBSET Labels, inits : SUBSET Labels,
          prev : Partial(Labels, D), next : Partial(Labels, Seq(D))] :
     IsInjective(h.nodes)}

LEMMA PartialProps ==
  ASSUME NEW S, NEW T, NEW f \in Partial(S, T)
  PROVE  /\ f = [x \in DOMAIN f |-> f[x]] /\ DOMAIN f \subseteq S
         /\ \A x \in DOMAIN f : f[x] \in T
BY DEF Partial

LEMMA PartialIntro ==
  ASSUME NEW S, NEW T, NEW R \in SUBSET S, NEW f \in [R -> T]
  PROVE  f \in Partial(S, T)
BY DEF Partial

LEMMA WithType ==
  ASSUME NEW S, NEW T, NEW f \in Partial(S, T), NEW e \in S, NEW v \in T,
         NEW w, w = With(f, e, v)
  PROVE  w \in Partial(S, T)
<1>1. DOMAIN f \subseteq S /\ \A x \in DOMAIN f : f[x] \in T
  BY PartialProps
<1>2. w \in [DOMAIN f \cup {e} -> T]
  BY <1>1 DEF With
<1>3. DOMAIN f \cup {e} \in SUBSET S
  BY <1>1
<1> QED
  BY <1>2, <1>3, PartialIntro

LEMMA WithAt ==
  ASSUME NEW f, NEW e, NEW v
  PROVE  /\ \A d : At(With(f, e, v), e, d) = v
         /\ \A x, d : x # e => At(With(f, e, v), x, d) = At(f, x, d)
BY DEF With, At

LEMMA WithoutProps ==
  ASSUME NEW S, NEW T, NEW f \in Partial(S, T), NEW R
  PROVE  [x \in DOMAIN f \ R |-> f[x]] \in Partial(S, T)
<1>1. DOMAIN f \subseteq S /\ \A x \in DOMAIN f : f[x] \in T
  BY PartialProps
<1>2. [x \in DOMAIN f \ R |-> f[x]] \in [DOMAIN f \ R -> T]
  BY <1>1
<1> QED
  BY <1>1, <1>2, PartialIntro

LEMMA GraphParts ==
  ASSUME NEW D, NEW h \in Graphs(D)
  PROVE  /\ h.nodes \in Seq(D) /\ IsInjective(h.nodes)
         /\ h.ins \in [D -> Seq(Labels)] /\ h.outs \in [D -> Seq(Labels)]
         /\ h.inputs \subseteq Labels /\ h.outputs \subseteq Labels /\ h.inits \subseteq Labels
         /\ h.prev \in Partial(Labels, D) /\ h.next \in Partial(Labels, Seq(D))
         /\ Objects(h) = D /\ NodesOf(h) \subseteq D
         /\ \A m \in D : Reads(h, m) \subseteq Labels /\ Writes(h, m) \subseteq Labels
         /\ \A e : Prev(h, e) \in D \cup {NoNode} /\ Readers(h, e) \in Seq(D)
<1>1. /\ h.nodes \in Seq(D) /\ IsInjective(h.nodes)
      /\ h.ins \in [D -> Seq(Labels)] /\ h.outs \in [D -> Seq(Labels)]
      /\ h.inputs \subseteq Labels /\ h.outputs \subseteq Labels /\ h.inits \subseteq Labels
      /\ h.prev \in Partial(Labels, D) /\ h.next \in Partial(Labels, Seq(D))
  BY DEF Graphs
<1>2. Objects(h) = D /\ NodesOf(h) \subseteq D
  BY <1>1, SeqRange DEF Objects, NodesOf
<1>3. \A m \in D : Reads(h, m) \subseteq Labels /\ Writes(h, m) \subseteq Labels
  BY <1>1, SeqRange DEF Reads, Writes
<1>4. ASSUME NEW e PROVE Prev(h, e) \in D \cup {NoNode} /\ Readers(h, e) \in Seq(D)
  BY <1>1, PartialProps DEF Prev, Readers, At
<1> QED
  BY <1>1, <1>2, <1>3, <1>4

(* The maps that update_map builds.                                        *)
LEMMA UpdateMapIs ==
  ASSUME NEW D, NEW h \in Graphs(D)
  PROVE  /\ UpdateMap(h) \in Graphs(D)
         /\ UpdateMap(h).nodes = h.nodes /\ UpdateMap(h).ins = h.ins /\ UpdateMap(h).outs = h.outs
         /\ UpdateMap(h).inputs = h.inputs \ h.inits /\ UpdateMap(h).inits = h.inits
         /\ UpdateMap(h).outputs = h.outputs \ h.inits
         /\ DOMAIN UpdateMap(h).prev = Produced(h) /\ DOMAIN UpdateMap(h).next = Consumed(h)
         /\ \A e \in Produced(h) : Prev(UpdateMap(h), e) \in WritersOf(h, e)
         /\ \A e : e \notin Produced(h) => Prev(UpdateMap(h), e) = NoNode
         /\ \A e : Range(Readers(UpdateMap(h), e)) = ReadersIn(h, e)
         /\ \A e : IsInjective(Readers(UpdateMap(h), e))
<1> DEFINE u == UpdateMap(h)
           P == [e \in Produced(h) |-> Head(Only(h.nodes, WritersOf(h, e)))]
           X == [e \in Consumed(h) |-> Only(h.nodes, ReadersIn(h, e))]
<1>1. u = [h EXCEPT !.inputs = @ \ h.inits, !.outputs = @ \ h.inits, !.prev = P, !.next = X]
  BY DEF UpdateMap
<1>2. /\ h.nodes \in Seq(D) /\ IsInjective(h.nodes) /\ NodesOf(h) \subseteq D
      /\ \A m \in D : Reads(h, m) \subseteq Labels /\ Writes(h, m) \subseteq Labels
  BY GraphParts
<1>3. ASSUME NEW e \in Produced(h) PROVE P[e] \in D /\ P[e] \in WritersOf(h, e)
  <2> DEFINE w == Only(h.nodes, WritersOf(h, e))
  <2>1. WritersOf(h, e) # {} /\ WritersOf(h, e) \subseteq Range(h.nodes)
    BY <1>3 DEF Produced, WritersOf, NodesOf
  <2>2. w \in Seq(D) /\ Range(w) = WritersOf(h, e)
    <3> DEFINE W == WritersOf(h, e)
               s == h.nodes
    <3>1. Range(s) \cap W = W /\ s \in Seq(D)
      BY <1>2, <2>1
    <3> HIDE DEF W, s
    <3>2. Only(s, W) \in Seq(D) /\ Range(Only(s, W)) = W
      BY <3>1, OnlyProps
    <3> QED
      BY <3>2 DEF W, s
  <2> HIDE DEF w
  <2>3. w # << >>
    BY <2>1, <2>2 DEF Range
  <2>4. Head(w) \in D /\ Head(w) \in Range(w)
    BY <2>2, <2>3, SeqRange
  <2> QED
    BY <1>3, <2>2, <2>4 DEF w
<1>4. ASSUME NEW e PROVE /\ Only(h.nodes, ReadersIn(h, e)) \in Seq(D)
                         /\ Range(Only(h.nodes, ReadersIn(h, e))) = ReadersIn(h, e)
                         /\ IsInjective(Only(h.nodes, ReadersIn(h, e)))
  <2>1. ReadersIn(h, e) \subseteq Range(h.nodes)
    BY DEF ReadersIn, NodesOf
  <2> DEFINE R == ReadersIn(h, e)
             s == h.nodes
  <2>2. Range(s) \cap R = R /\ s \in Seq(D) /\ IsInjective(s)
    BY <1>2, <2>1
  <2> HIDE DEF R, s
  <2>3. Only(s, R) \in Seq(D) /\ Range(Only(s, R)) = R /\ IsInjective(Only(s, R))
    BY <2>2, OnlyProps
  <2> QED
    BY <2>3 DEF R, s
<1>5. Produced(h) \subseteq Labels /\ Consumed(h) \subseteq Labels
  BY <1>2 DEF Produced, Consumed
<1>6. P \in Partial(Labels, D) /\ X \in Partial(Labels, Seq(D))
  <2>1. P \in [Produced(h) -> D] /\ X \in [Consumed(h) -> Seq(D)]
    BY <1>3, <1>4
  <2> HIDE DEF P, X
  <2> QED
    BY <1>5, <2>1, PartialIntro
<1>7. ASSUME NEW e PROVE /\ e \in Produced(h) => Prev(u, e) \in WritersOf(h, e)
                         /\ e \notin Produced(h) => Prev(u, e) = NoNode
  <2>1. u.prev = P
    BY <1>1 DEF Graphs
  <2> HIDE DEF u
  <2> QED
    BY <1>3, <2>1 DEF Prev, At
<1>8. ASSUME NEW e PROVE /\ Range(Readers(u, e)) = ReadersIn(h, e)
                         /\ IsInjective(Readers(u, e))
  <2>1. u.next = X
    BY <1>1 DEF Graphs
  <2>2. CASE e \in Consumed(h)
    <3> HIDE DEF u
    <3> QED
      BY <1>4, <2>1, <2>2 DEF Readers, At
  <2>3. CASE e \notin Consumed(h)
    <3>1. ReadersIn(h, e) = {}
      BY <2>3 DEF ReadersIn, Consumed
    <3> HIDE DEF u
    <3>2. Readers(u, e) = << >>
      BY <2>1, <2>3 DEF Readers, At
    <3> QED
      BY <3>1, <3>2 DEF Range, IsInjective
  <2> QED
    BY <2>2, <2>3
<1>9. /\ u \in Graphs(D)
      /\ u.nodes = h.nodes /\ u.ins = h.ins /\ u.outs = h.outs
      /\ u.inputs = h.inputs \ h.inits /\ u.inits = h.inits /\ u.outputs = h.outputs \ h.inits
      /\ u.prev = P /\ u.next = X
  <2> HIDE DEF P, X
  <2> QED
    BY <1>1, <1>6 DEF Graphs
<1> QED
  BY <1>7, <1>8, <1>9

-------------------------------------------------------------------------------
(* Which names of edges are in use, and by which nodes: an insertion gives *)
(* an edge the names of two nodes, one of which had no edge before.        *)

Idle(h, m) == h.ins[m] = << >> /\ h.outs[m] = << >>

Used(h) ==
  Sources(h) \cup h.outputs \cup DOMAIN h.prev \cup DOMAIN h.next
    \cup UNION {Reads(h, m) \cup Writes(h, m) : m \in Objects(h)}

NamesTaken(h) ==
  \A x, y : <<x, y>> \in Used(h) \cap Added =>
    /\ x \in Objects(h) /\ y \in Objects(h)
    /\ \A m \in NodesOf(h) : Idle(h, m) => m # x /\ m # y

(* From h to i no name is taken but those in X, and no node gets idle.     *)
Follows(h, i, X) ==
  /\ NodesOf(i) \subseteq NodesOf(h)
  /\ Used(i) \subseteq Used(h) \cup X
  /\ \A m \in NodesOf(i) : Idle(i, m) => Idle(h, m)

LEMMA FollowsOn ==
  ASSUME NEW h, NEW i, NEW j, NEW X, Follows(h, i, X), Follows(i, j, X)
  PROVE  Follows(h, j, X)
BY DEF Follows

LEMMA UsedParts ==
  ASSUME NEW D, NEW h \in Graphs(D)
  PROVE  /\ Sources(h) \subseteq Used(h) /\ h.outputs \subseteq Used(h)
         /\ \A e : Prev(h, e) # NoNode \/ Readers(h, e) # << >> => e \in Used(h)
         /\ \A m \in D : Reads(h, m) \subseteq Used(h) /\ Writes(h, m) \subseteq Used(h)
         /\ Used(h) \subseteq Labels
<1>1. Objects(h) = D
  BY GraphParts
<1>2. Sources(h) \subseteq Used(h) /\ h.outputs \subseteq Used(h)
  BY DEF Used
<1>3. \A e : Prev(h, e) # NoNode \/ Readers(h, e) # << >> => e \in Used(h)
  BY DEF Used, Prev, Readers, At
<1>4. \A m \in D : Reads(h, m) \subseteq Used(h) /\ Writes(h, m) \subseteq Used(h)
  BY <1>1 DEF Used
<1>5. Used(h) \subseteq Labels
  <2>1. Sources(h) \subseteq Labels /\ h.outputs \subseteq Labels
    BY GraphParts DEF Sources
  <2>2. DOMAIN h.prev \subseteq Labels /\ DOMAIN h.next \subseteq Labels
    BY GraphParts, PartialProps
  <2>3. \A m \in Objects(h) : Reads(h, m) \cup Writes(h, m) \subseteq Labels
    BY GraphParts
  <2> QED
    BY <2>1, <2>2, <2>3 DEF Used
<1> QED
  BY <1>2, <1>3, <1>4, <1>5

(* Changes of single parts of a graph.                                     *)
LEMMA SetReadersIs ==
  ASSUME NEW D, NEW h \in Graphs(D), NEW e \in Labels, NEW s \in Seq(D)
  PROVE  /\ SetReaders(h, e, s) \in Graphs(D)
         /\ SetReaders(h, e, s) = [h EXCEPT !.next = With(h.next, e, s)]
         /\ Readers(SetReaders(h, e, s), e) = s
         /\ \A x : x # e => Readers(SetReaders(h, e, s), x) = Readers(h, x)
         /\ \A x : Prev(SetReaders(h, e, s), x) = Prev(h, x)
         /\ \A X : e \in X => Follows(h, SetReaders(h, e, s), X)
<1> DEFINE i == SetReaders(h, e, s)
           f == With(h.next, e, s)
<1>1. i = [h EXCEPT !.next = f]
  BY DEF SetReaders
<1>2. /\ f \in Partial(Labels, Seq(D)) /\ DOMAIN f = DOMAIN h.next \cup {e}
      /\ \A d : At(f, e, d) = s
      /\ \A x, d : x # e => At(f, x, d) = At(h.next, x, d)
  <2> DEFINE q == h.next
             V == Seq(D)
  <2>1. q \in Partial(Labels, V) /\ s \in V /\ f = With(q, e, s)
    BY GraphParts
  <2> HIDE DEF q, V, f
  <2>2. f \in Partial(Labels, V)
    BY <2>1, WithType
  <2>3. /\ DOMAIN f = DOMAIN q \cup {e} /\ \A d : At(f, e, d) = s
        /\ \A x, d : x # e => At(f, x, d) = At(q, x, d)
    BY <2>1 DEF With, At
  <2> QED
    BY <2>2, <2>3 DEF q, V
<1> HIDE DEF f
<1>4. /\ i \in Graphs(D) /\ i.next = f /\ i.prev = h.prev /\ i.nodes = h.nodes
      /\ i.ins = h.ins /\ i.outs = h.outs
      /\ i.inputs = h.inputs /\ i.outputs = h.outputs /\ i.inits = h.inits
  BY <1>1, <1>2 DEF Graphs
<1> HIDE DEF i
<1>5. ASSUME NEW X, e \in X PROVE Follows(h, i, X)
  BY <1>2, <1>4, <1>5 DEF Follows, Used, NodesOf, Idle, Sources, Reads, Writes, Objects
<1> QED
  BY <1>1, <1>2, <1>4, <1>5 DEF Readers, Prev, i, f

LEMMA SetPrevIs ==
  ASSUME NEW D, NEW h \in Graphs(D), NEW e \in Labels, NEW p \in D
  PROVE  /\ SetPrev(h, e, p) \in Graphs(D)
         /\ SetPrev(h, e, p) = [h EXCEPT !.prev = With(h.prev, e, p)]
         /\ Prev(SetPrev(h, e, p), e) = p
         /\ \A x : x # e => Prev(SetPrev(h, e, p), x) = Prev(h, x)
         /\ \A x : Readers(SetPrev(h, e, p), x) = Readers(h, x)
         /\ \A X : e \in X => Follows(h, SetPrev(h, e, p), X)
<1> DEFINE i == SetPrev(h, e, p)
           f == With(h.prev, e, p)
<1>1. i = [h EXCEPT !.prev = f]
  BY DEF SetPrev
<1>2. /\ f \in Partial(Labels, D) /\ DOMAIN f = DOMAIN h.prev \cup {e}
      /\ \A d : At(f, e, d) = p
      /\ \A x, d : x # e => At(f, x, d) = At(h.prev, x, d)
  <2> DEFINE q == h.prev
             V == D
  <2>1. q \in Partial(Labels, V) /\ p \in V /\ f = With(q, e, p)
    BY GraphParts
  <2> HIDE DEF q, V, f
  <2>2. f \in Partial(Labels, V)
    BY <2>1, WithType
  <2>3. /\ DOMAIN f = DOMAIN q \cup {e} /\ \A d : At(f, e, d) = p
        /\ \A x, d : x # e => At(f, x, d) = At(q, x, d)
    BY <2>1 DEF With, At
  <2> QED
    BY <2>2, <2>3 DEF q, V
<1> HIDE DEF f
<1>4. /\ i \in Graphs(D) /\ i.prev = f /\ i.next = h.next /\ i.nodes = h.nodes
      /\ i.ins = h.ins /\ i.outs = h.outs
      /\ i.inputs = h.inputs /\ i.outputs = h.outputs /\ i.inits = h.inits
  BY <1>1, <1>2 DEF Graphs
<1> HIDE DEF i
<1>5. ASSUME NEW X, e \in X PROVE Follows(h, i, X)
  BY <1>2, <1>4, <1>5 DEF Follows, Used, NodesOf, Idle, Sources, Reads, Writes, Objects
<1> QED
  BY <1>1, <1>2, <1>4, <1>5 DEF Readers, Prev, i, f

(* Nodes that read and write as many edges as before, or more.             *)
LEMMA EdgesSet ==
  ASSUME NEW D, NEW h \in Graphs(D), NEW X,
         NEW ins \in [D -> Seq(Labels)], NEW outs \in [D -> Seq(Labels)],
         \A m \in D : /\ Range(ins[m]) \subseteq Used(h) \cup X
                      /\ Range(outs[m]) \subseteq Used(h) \cup X,
         \A m \in NodesOf(h) : ins[m] = << >> /\ outs[m] = << >> => Idle(h, m)
  PROVE  /\ [h EXCEPT !.ins = ins, !.outs = outs] \in Graphs(D)
         /\ Follows(h, [h EXCEPT !.ins = ins, !.outs = outs], X)
         /\ \A x : Readers([h EXCEPT !.ins = ins, !.outs = outs], x) = Readers(h, x)
         /\ \A x : Prev([h EXCEPT !.ins = ins, !.outs = outs], x) = Prev(h, x)
<1> DEFINE i == [h EXCEPT !.ins = ins, !.outs = outs]
<1>1. /\ i \in Graphs(D) /\ i.next = h.next /\ i.prev = h.prev /\ i.nodes = h.nodes
      /\ i.ins = ins /\ i.outs = outs
      /\ i.inputs = h.inputs /\ i.outputs = h.outputs /\ i.inits = h.inits
  BY DEF Graphs
<1> HIDE DEF i
<1>2. Follows(h, i, X)
  <2>1. NodesOf(i) = NodesOf(h) /\ Objects(i) = D /\ Sources(i) = Sources(h)
    BY <1>1, GraphParts DEF NodesOf, Objects, Sources
  <2>2. \A m \in D : Reads(i, m) \subseteq Used(h) \cup X /\ Writes(i, m) \subseteq Used(h) \cup X
    BY <1>1 DEF Reads, Writes
  <2>3. UNION {Reads(i, m) \cup Writes(i, m) : m \in Objects(i)} \subseteq Used(h) \cup X
    BY <2>1, <2>2
  <2>4. Used(i) \subseteq Used(h) \cup X
    BY <1>1, <2>1, <2>3 DEF Used
  <2>5. \A m \in NodesOf(h) : Idle(i, m) => Idle(h, m)
    BY <1>1 DEF Idle
  <2> QED
    BY <2>1, <2>4, <2>5 DEF Follows
<1> QED
  BY <1>1, <1>2 DEF Readers, Prev, i

(* The edges that are read after Reroute.                                  *)
Rerouted(h, ms, old, new) == Reroute(h, ms, old, new).ins

LEMMA RerouteIs ==
  ASSUME NEW D, NEW h \in Graphs(D), NEW ms \in Seq(D), NEW old, NEW new \in Labels
  PROVE  /\ Reroute(h, ms, old, new) \in Graphs(D)
         /\ Reroute(h, ms, old, new) = [h EXCEPT !.ins = Rerouted(h, ms, old, new)]
         /\ Rerouted(h, ms, old, new) \in [D -> Seq(Labels)]
         /\ \A m \in D :
              /\ Len(Rerouted(h, ms, old, new)[m]) = Len(h.ins[m])
              /\ Range(Rerouted(h, ms, old, new)[m]) \subseteq Reads(h, m) \cup {new}
         /\ \A x : Readers(Reroute(h, ms, old, new), x) = Readers(h, x)
         /\ \A x : Prev(Reroute(h, ms, old, new), x) = Prev(h, x)
         /\ \A X : new \in X => Follows(h, Reroute(h, ms, old, new), X)
<1> DEFINE i == Reroute(h, ms, old, new)
           moves(m, j) == /\ h.ins[m][j] = old
                          /\ Cardinality({l \in 1..j : h.ins[m][l] = old}) <= Count(ms, m)
           row(m) == [j \in DOMAIN h.ins[m] |-> IF moves(m, j) THEN new ELSE h.ins[m][j]]
           I == [m \in D |-> row(m)]
<1>1. /\ Objects(h) = D /\ h.ins \in [D -> Seq(Labels)] /\ h.outs \in [D -> Seq(Labels)]
      /\ \A m \in D : Reads(h, m) \subseteq Used(h) /\ Writes(h, m) \subseteq Used(h)
  BY GraphParts, UsedParts
<1>2. i = [h EXCEPT !.ins = I]
  BY <1>1 DEF Reroute
<1>3. ASSUME NEW m \in D
      PROVE  /\ I[m] \in Seq(Labels) /\ Len(I[m]) = Len(h.ins[m])
             /\ Range(I[m]) \subseteq Reads(h, m) \cup {new}
  <2> DEFINE s == h.ins[m]
             w == row(m)
  <2>1. s \in Seq(Labels)
    BY <1>1
  <2>2. DOMAIN w = DOMAIN s /\ \A j \in DOMAIN s : w[j] = s[j] \/ w[j] = new
    OBVIOUS
  <2>3. I[m] = w /\ Reads(h, m) = Range(s)
    BY DEF Reads
  <2>4. w = [j \in 1..Len(s) |-> w[j]]
    BY <2>1
  <2> HIDE DEF s, w, I
  <2>5. w \in Seq(Labels) /\ Len(w) = Len(s)
    <3>1. \A j \in 1..Len(s) : w[j] \in Labels /\ DOMAIN s = 1..Len(s) /\ Len(s) \in Nat
      BY <2>1, <2>2, SeqRange
    <3>2. w \in [1..Len(s) -> Labels] /\ Len(s) \in Nat
      BY <2>1, <2>4, <3>1
    <3> QED
      BY <3>2
  <2>6. Range(w) \subseteq Range(s) \cup {new}
    BY <2>2 DEF Range
  <2> QED
    BY <2>3, <2>5, <2>6 DEF s
<1>4. I \in [D -> Seq(Labels)]
  <2>1. I = [m \in D |-> I[m]]
    OBVIOUS
  <2> HIDE DEF I
  <2> QED
    BY <1>3, <2>1
<1> HIDE DEF I
<1>5. [h EXCEPT !.ins = I] = [h EXCEPT !.ins = I, !.outs = h.outs]
  BY DEF Graphs
<1>6. ASSUME NEW X, new \in X PROVE Follows(h, i, X)
  <2>1. \A m \in D : /\ Range(I[m]) \subseteq Used(h) \cup X
                     /\ Range(h.outs[m]) \subseteq Used(h) \cup X
    BY <1>1, <1>3, <1>6 DEF Writes
  <2>2. \A m \in NodesOf(h) : I[m] = << >> /\ h.outs[m] = << >> => Idle(h, m)
    BY <1>1, <1>3, GraphParts DEF Idle
  <2> DEFINE O == h.outs
  <2>3. /\ O \in [D -> Seq(Labels)]
        /\ \A m \in D : Range(I[m]) \subseteq Used(h) \cup X /\ Range(O[m]) \subseteq Used(h) \cup X
        /\ \A m \in NodesOf(h) : I[m] = << >> /\ O[m] = << >> => Idle(h, m)
        /\ i = [h EXCEPT !.ins = I, !.outs = O]
    BY <1>1, <1>2, <1>5, <2>1, <2>2
  <2> HIDE DEF O, i
  <2>4. Follows(h, [h EXCEPT !.ins = I, !.outs = O], X)
    BY <1>4, <2>3, EdgesSet
  <2> QED
    BY <2>3, <2>4
<1>7. i \in Graphs(D) /\ i.ins = I /\ i.next = h.next /\ i.prev = h.prev
  BY <1>2, <1>4 DEF Graphs
<1> HIDE DEF i
<1>8. \A x : Readers(i, x) = Readers(h, x) /\ Prev(i, x) = Prev(h, x)
  BY <1>7 DEF Readers, Prev
<1>9. Rerouted(h, ms, old, new) = I
  BY <1>7 DEF Rerouted, i
<1> QED
  BY <1>2, <1>3, <1>4, <1>6, <1>7, <1>8, <1>9 DEF i

-------------------------------------------------------------------------------
(* Each operation leads from a graph to a graph, and to no name of an edge *)
(* that an insertion could give again.                                     *)

LEMMA TakenKept ==
  ASSUME NEW h, NEW i, NamesTaken(h), Objects(i) = Objects(h), Follows(h, i, {})
  PROVE  NamesTaken(i)
BY DEF NamesTaken, Follows

LEMMA TakenMore ==
  ASSUME NEW h, NEW i, NEW r \in Objects(h), NEW n \in Objects(h),
         NamesTaken(h), Objects(i) = Objects(h), Follows(h, i, {<<r, n>>}),
         \A m \in NodesOf(i) : Idle(i, m) => m # r /\ m # n
  PROVE  NamesTaken(i)
<1> SUFFICES ASSUME NEW x, NEW y, <<x, y>> \in Used(i) \cap Added
             PROVE  /\ x \in Objects(h) /\ y \in Objects(h)
                    /\ \A m \in NodesOf(i) : Idle(i, m) => m # x /\ m # y
  BY DEF NamesTaken
<1>1. CASE <<x, y>> = <<r, n>>
  BY <1>1
<1>2. CASE <<x, y>> \in Used(h)
  <2>1. x \in Objects(h) /\ y \in Objects(h) /\ \A m \in NodesOf(h) : Idle(h, m) => m # x /\ m # y
    BY <1>2 DEF NamesTaken
  <2> QED
    BY <2>1 DEF Follows
<1> QED
  BY <1>1, <1>2 DEF Follows

LEMMA AddNodeType ==
  ASSUME NEW D, NEW h \in Graphs(D), NEW n, n \notin D, NamesTaken(h)
  PROVE  /\ AddNode(h, n) \in Graphs(D \cup {n})
         /\ NamesTaken(AddNode(h, n))
<1> DEFINE u == UpdateMap(h)
           C == D \cup {n}
           N == Append(h.nodes, n)
           I == With(h.ins, n, << >>)
           O == With(h.outs, n, << >>)
           i == AddNode(h, n)
<1>1. /\ u \in Graphs(D) /\ u.nodes = h.nodes /\ u.ins = h.ins /\ u.outs = h.outs
      /\ u.inputs = h.inputs \ h.inits /\ u.inits = h.inits /\ u.outputs = h.outputs \ h.inits
      /\ DOMAIN u.prev = Produced(h) /\ DOMAIN u.next = Consumed(h)
  BY UpdateMapIs
<1>2. i = [u EXCEPT !.nodes = N, !.ins = I, !.outs = O]
  BY <1>1 DEF AddNode
<1>3. /\ h.nodes \in Seq(D) /\ IsInjective(h.nodes) /\ NodesOf(h) \subseteq D /\ Objects(h) = D
      /\ h.ins \in [D -> Seq(Labels)] /\ h.outs \in [D -> Seq(Labels)]
  BY GraphParts
<1>4. N \in Seq(C) /\ IsInjective(N) /\ Range(N) = NodesOf(h) \cup {n}
  <2> DEFINE s == h.nodes
  <2>1. s \in Seq(C) /\ n \in C /\ n \notin Range(s) /\ IsInjective(s)
    BY <1>3 DEF NodesOf
  <2> HIDE DEF s, C
  <2>2. Append(s, n) \in Seq(C) /\ Range(Append(s, n)) = Range(s) \cup {n} /\ IsInjective(Append(s, n))
    BY <2>1, AppendRange
  <2> QED
    BY <2>2 DEF s, NodesOf
<1>5. /\ I \in [C -> Seq(Labels)] /\ O \in [C -> Seq(Labels)] /\ I[n] = << >> /\ O[n] = << >>
      /\ \A m \in D : I[m] = h.ins[m] /\ O[m] = h.outs[m]
  <2>1. << >> \in Seq(Labels)
    OBVIOUS
  <2> QED
    BY <1>3, <2>1 DEF With
<1>6. u.prev \in Partial(Labels, C) /\ u.next \in Partial(Labels, Seq(C))
  <2>1. Seq(D) \subseteq Seq(C)
    BY SeqMonotonic
  <2>2. u.prev \in Partial(Labels, D) /\ u.next \in Partial(Labels, Seq(D))
    BY <1>1, GraphParts
  <2>3. u.prev \in Partial(Labels, C)
    BY <2>2 DEF Partial
  <2>4. u.next \in Partial(Labels, Seq(C))
    <3> DEFINE S == Seq(D)
               T == Seq(C)
    <3>1. S \subseteq T /\ u.next \in Partial(Labels, S)
      BY <2>1, <2>2
    <3> HIDE DEF S, T, u, C
    <3>2. u.next \in Partial(Labels, T)
      BY <3>1 DEF Partial
    <3> QED
      BY <3>2 DEF T
  <2> QED
    BY <2>3, <2>4
<1> HIDE DEF N, I, O, C
<1>7. /\ i \in Graphs(C) /\ i.nodes = N /\ i.ins = I /\ i.outs = O
      /\ i.inputs = u.inputs /\ i.outputs = u.outputs /\ i.inits = u.inits
      /\ i.prev = u.prev /\ i.next = u.next
  BY <1>1, <1>2, <1>4, <1>5, <1>6, ZenonT(40) DEF Graphs
<1> HIDE DEF i
<1>8. Objects(i) = C /\ NodesOf(i) = NodesOf(h) \cup {n}
  BY <1>4, <1>7, GraphParts DEF NodesOf
<1>9. Used(i) \subseteq Used(h)
  <2>1. Sources(i) \subseteq Used(h) /\ i.outputs \subseteq Used(h)
    BY <1>1, <1>7 DEF Sources, Used
  <2>2. \A m \in D : Reads(h, m) \subseteq Used(h) /\ Writes(h, m) \subseteq Used(h)
    BY UsedParts
  <2>3. DOMAIN i.prev \subseteq Used(h) /\ DOMAIN i.next \subseteq Used(h)
    BY <1>1, <1>3, <1>7, <2>2 DEF Produced, Consumed
  <2>4. ASSUME NEW m \in C PROVE Reads(i, m) \subseteq Used(h) /\ Writes(i, m) \subseteq Used(h)
    <3>1. CASE m \in D
      BY <1>5, <1>7, <2>2, <3>1 DEF Reads, Writes
    <3>2. CASE m = n
      BY <1>5, <1>7, <3>2 DEF Reads, Writes, Range
    <3> QED
      BY <3>1, <3>2 DEF C
  <2>5. UNION {Reads(i, m) \cup Writes(i, m) : m \in Objects(i)} \subseteq Used(h)
    BY <1>8, <2>4
  <2> QED
    BY <2>1, <2>3, <2>5 DEF Used
<1>10. NamesTaken(i)
  <2> SUFFICES ASSUME NEW x, NEW y, <<x, y>> \in Used(i) \cap Added
               PROVE  /\ x \in Objects(i) /\ y \in Objects(i)
                      /\ \A m \in NodesOf(i) : Idle(i, m) => m # x /\ m # y
    BY DEF NamesTaken
  <2>1. x \in D /\ y \in D /\ \A m \in NodesOf(h) : Idle(h, m) => m # x /\ m # y
    BY <1>3, <1>9 DEF NamesTaken
  <2>2. \A m \in NodesOf(h) : Idle(i, m) => Idle(h, m)
    BY <1>3, <1>5, <1>7 DEF Idle
  <2> QED
    BY <1>8, <2>1, <2>2 DEF C
<1> QED
  BY <1>7, <1>10 DEF i, C

LEMMA ConcatIn ==
  ASSUME NEW T, NEW s \in Seq(T), NEW t \in Seq(T)
  PROVE  s \o t \in Seq(T)
OBVIOUS

(* The edges as an insertion changes them first.                           *)
LEMMA WiringStep ==
  ASSUME NEW D, NEW h \in Graphs(D), NEW n \in D, NEW new \in Labels, NEW old \in Used(h),
         NEW ins \in [D -> Seq(Labels)], NEW outs \in [D -> Seq(Labels)],
         \A m \in D :
           \/ ins[m] = h.ins[m]
           \/ Range(ins[m]) \subseteq Reads(h, m) \cup {old, new} /\ ins[m] # << >>,
         \A m \in D :
           \/ outs[m] = h.outs[m]
           \/ Range(outs[m]) \subseteq Writes(h, m) \cup {old, new} /\ outs[m] # << >>
  PROVE  /\ [h EXCEPT !.ins = ins, !.outs = outs] \in Graphs(D)
         /\ Follows(h, [h EXCEPT !.ins = ins, !.outs = outs], {new})
<1>1. /\ NodesOf(h) \subseteq D /\ h.ins \in [D -> Seq(Labels)] /\ h.outs \in [D -> Seq(Labels)]
      /\ \A m \in D : Reads(h, m) \subseteq Used(h) /\ Writes(h, m) \subseteq Used(h)
  BY GraphParts, UsedParts
<1>2. \A m \in D : /\ Range(ins[m]) \subseteq Used(h) \cup {new}
                   /\ Range(outs[m]) \subseteq Used(h) \cup {new}
  BY <1>1 DEF Reads, Writes
<1>3. ASSUME NEW m \in NodesOf(h), ins[m] = << >>, outs[m] = << >> PROVE Idle(h, m)
  BY <1>1, <1>3 DEF Idle
<1> QED
  BY <1>2, <1>3, EdgesSet

(* The edges after insert_node has set those of the two nodes: n reads old *)
(* or new, and writes the other.                                           *)
Single(x) == <<x>>
Put(s, k, y) == [s EXCEPT ![k] = y]
AfterIns(h, n, new) == [h.ins EXCEPT ![n] = Single(new)]
AfterOuts(h, r, k, n, new, old) == [[h.outs EXCEPT ![r] = Put(@, k, new)] EXCEPT ![n] = Single(old)]
BeforeIns(h, r, k, n, new, old) == [[h.ins EXCEPT ![r] = Put(@, k, new)] EXCEPT ![n] = Single(old)]
BeforeOuts(h, n, new) == [h.outs EXCEPT ![n] = Single(new)]

LEMMA SingleIs ==
  ASSUME NEW T, NEW x \in T
  PROVE  /\ Single(x) \in Seq(T) /\ Len(Single(x)) = 1 /\ Single(x) # << >> /\ Single(x)[1] = x
         /\ Range(Single(x)) = {x} /\ IsInjective(Single(x))
BY DEF Single, Range, IsInjective

LEMMA ChangeOne ==
  ASSUME NEW T, NEW s \in Seq(T), NEW k \in 1..Len(s), NEW y \in T, NEW w, w = Put(s, k, y)
  PROVE  /\ w \in Seq(T) /\ Len(w) = Len(s) /\ w # << >>
         /\ Range(w) \subseteq Range(s) \cup {y} /\ y \in Range(w)
         /\ \A x \in Range(s) : x # s[k] => x \in Range(w)
         /\ IsInjective(s) /\ s[k] # y => s[k] \notin Range(w)
         /\ IsInjective(s) /\ y \notin Range(s) => IsInjective(w)
<1>1. w \in Seq(T) /\ Len(w) = Len(s) /\ \A j \in 1..Len(s) : w[j] = IF j = k THEN y ELSE s[j]
  BY DEF Put
<1>2. DOMAIN s = 1..Len(s) /\ DOMAIN w = 1..Len(s) /\ Len(s) \in Nat /\ w # << >>
  BY <1>1
<1>3. \A x \in Range(w) : \E j \in 1..Len(s) : w[j] = x
  BY <1>2 DEF Range
<1>4. \A j \in 1..Len(s) : w[j] \in Range(w) /\ s[j] \in Range(s)
  BY <1>2 DEF Range
<1>5. Range(w) \subseteq Range(s) \cup {y} /\ y \in Range(w)
  <2>1. w[k] = y
    BY <1>1
  <2>2. ASSUME NEW x \in Range(w) PROVE x \in Range(s) \cup {y}
    <3>1. PICK j \in 1..Len(s) : w[j] = x
      BY <1>3
    <3> QED
      BY ONLY <1>1, <1>4, <3>1
  <2> QED
    BY <1>4, <2>1, <2>2
<1>6. \A x \in Range(s) : x # s[k] => x \in Range(w)
  BY <1>1, <1>2, <1>4 DEF Range
<1>7. IsInjective(s) /\ s[k] # y => s[k] \notin Range(w)
  BY <1>1, <1>2, <1>3 DEF IsInjective
<1>8. IsInjective(s) /\ y \notin Range(s) => IsInjective(w)
  BY <1>1, <1>2, <1>4 DEF IsInjective
<1> QED
  BY <1>1, <1>2, <1>5, <1>6, <1>7, <1>8

LEMMA AfterShape ==
  ASSUME NEW D, NEW h \in Graphs(D), NEW r \in D, NEW n \in D, NEW k \in DOMAIN h.outs[r],
         Idle(h, n), NEW new \in Labels, NEW old, old = h.outs[r][k]
  PROVE  /\ r # n /\ old \in Writes(h, r)
         /\ AfterIns(h, n, new) \in [D -> Seq(Labels)]
         /\ AfterIns(h, n, new)[n] = Single(new)
         /\ \A m \in D : m # n => AfterIns(h, n, new)[m] = h.ins[m]
         /\ AfterOuts(h, r, k, n, new, old) \in [D -> Seq(Labels)]
         /\ AfterOuts(h, r, k, n, new, old)[n] = Single(old)
         /\ AfterOuts(h, r, k, n, new, old)[r] = Put(h.outs[r], k, new)
         /\ \A m \in D : m # n /\ m # r => AfterOuts(h, r, k, n, new, old)[m] = h.outs[m]
<1>1. h.ins \in [D -> Seq(Labels)] /\ h.outs \in [D -> Seq(Labels)] /\ r # n
  BY GraphParts DEF Idle
<1>2. h.outs[r] \in Seq(Labels) /\ k \in 1..Len(h.outs[r])
  BY <1>1, SeqRange
<1>3. old \in Writes(h, r) /\ old \in Labels
  BY <1>2, SeqRange DEF Writes
<1>4. Put(h.outs[r], k, new) \in Seq(Labels) /\ Single(new) \in Seq(Labels) /\ Single(old) \in Seq(Labels)
  BY <1>2, <1>3 DEF Put, Single
<1> QED
  BY <1>1, <1>3, <1>4 DEF AfterIns, AfterOuts

LEMMA BeforeShape ==
  ASSUME NEW D, NEW h \in Graphs(D), NEW r \in D, NEW n \in D, NEW k \in DOMAIN h.ins[r],
         Idle(h, n), NEW new \in Labels, NEW old, old = h.ins[r][k]
  PROVE  /\ r # n /\ old \in Reads(h, r)
         /\ BeforeOuts(h, n, new) \in [D -> Seq(Labels)]
         /\ BeforeOuts(h, n, new)[n] = Single(new)
         /\ \A m \in D : m # n => BeforeOuts(h, n, new)[m] = h.outs[m]
         /\ BeforeIns(h, r, k, n, new, old) \in [D -> Seq(Labels)]
         /\ BeforeIns(h, r, k, n, new, old)[n] = Single(old)
         /\ BeforeIns(h, r, k, n, new, old)[r] = Put(h.ins[r], k, new)
         /\ \A m \in D : m # n /\ m # r => BeforeIns(h, r, k, n, new, old)[m] = h.ins[m]
<1>1. h.ins \in [D -> Seq(Labels)] /\ h.outs \in [D -> Seq(Labels)] /\ r # n
  BY GraphParts DEF Idle
<1>2. h.ins[r] \in Seq(Labels) /\ k \in 1..Len(h.ins[r])
  BY <1>1, SeqRange
<1>3. old \in Reads(h, r) /\ old \in Labels
  BY <1>2, SeqRange DEF Reads
<1>4. Put(h.ins[r], k, new) \in Seq(Labels) /\ Single(new) \in Seq(Labels) /\ Single(old) \in Seq(Labels)
  BY <1>2, <1>3 DEF Put, Single
<1> QED
  BY <1>1, <1>3, <1>4 DEF BeforeIns, BeforeOuts

LEMMA InsertAfterType ==
  ASSUME NEW D, NEW h \in Graphs(D), D \subseteq Names, NEW r \in D, NEW n \in D,
         NEW k \in DOMAIN h.outs[r], Idle(h, n), NEW isOutput
  PROVE  /\ InsertAfter(h, r, k, n, isOutput).graph \in Graphs(D)
         /\ Follows(h, InsertAfter(h, r, k, n, isOutput).graph, {<<r, n>>})
         /\ \A m \in NodesOf(InsertAfter(h, r, k, n, isOutput).graph) :
              Idle(InsertAfter(h, r, k, n, isOutput).graph, m) => m # r /\ m # n
<1> DEFINE out == h.outs[r][k]
           new == <<r, n>>
           X == {new}
           readers == IF isOutput THEN Readers(h, out) ELSE << >>
           ins == AfterIns(h, n, new)
           outs == AfterOuts(h, r, k, n, new, out)
           set == [h EXCEPT !.ins = ins, !.outs = outs]
           one == SetPrev(set, new, r)
           wired == SetPrev(one, out, n)
           moved == Reroute(wired, readers, out, new)
           noted == SetReaders(moved, new, <<n>> \o readers)
           last == SetReaders(noted, out, << >>)
           i == InsertAfter(h, r, k, n, isOutput).graph
<1>1. new \in Labels
  BY DEF Labels, Added
<1>2. out \in Used(h) /\ out \in Labels
  <2>1. h.outs[r] \in Seq(Labels) /\ k \in 1..Len(h.outs[r])
    BY GraphParts, SeqRange
  <2>2. out \in Writes(h, r)
    BY <2>1, SeqRange DEF Writes
  <2> QED
    BY <2>2, GraphParts, UsedParts
<1>3. [h EXCEPT !.outs[r][k] = new, !.ins[n] = <<new>>, !.outs[n] = <<out>>] = set
  BY GraphParts DEF AfterIns, AfterOuts, Graphs, Single, Put
<1>4. i \in {wired, noted, last}
  BY <1>3 DEF InsertAfter, Raise, Done
<1>5. /\ ins \in [D -> Seq(Labels)] /\ ins[n] = Single(new)
      /\ \A m \in D : m # n => ins[m] = h.ins[m]
      /\ outs \in [D -> Seq(Labels)] /\ outs[n] = Single(out)
      /\ outs[r] = Put(h.outs[r], k, new)
      /\ \A m \in D : m # n /\ m # r => outs[m] = h.outs[m]
  <2> HIDE DEF new, out, ins, outs
  <2>1. out = h.outs[r][k] /\ ins = AfterIns(h, n, new) /\ outs = AfterOuts(h, r, k, n, new, out)
    BY DEF out, ins, outs
  <2> QED
    BY <1>1, <2>1, AfterShape
<1>6. outs[r] # << >> /\ Range(outs[r]) \subseteq Writes(h, r) \cup {out, new}
  <2> DEFINE s == h.outs[r]
             w == outs[r]
  <2>1. s \in Seq(Labels) /\ k \in 1..Len(s) /\ w = Put(s, k, new) /\ Writes(h, r) = Range(s)
    BY <1>5, GraphParts, SeqRange DEF Writes
  <2> HIDE DEF s, w, new, out
  <2>2. w # << >> /\ Range(w) \subseteq Range(s) \cup {new}
    BY <1>1, <2>1, ChangeOne
  <2> QED
    BY <2>1, <2>2 DEF w
<1>7. set \in Graphs(D) /\ Follows(h, set, X) /\ set.ins = ins /\ set.outs = outs
  <2>1. set.ins = ins /\ set.outs = outs
    BY DEF Graphs
  <2>2. \A m \in D : \/ ins[m] = h.ins[m]
                     \/ Range(ins[m]) \subseteq Reads(h, m) \cup {out, new} /\ ins[m] # << >>
    <3>1. ins[n] # << >> /\ Range(ins[n]) \subseteq {new}
      BY <1>1, <1>5, SingleIs
    <3> QED
      BY <1>5, <3>1
  <2>3. \A m \in D : \/ outs[m] = h.outs[m]
                     \/ Range(outs[m]) \subseteq Writes(h, m) \cup {out, new} /\ outs[m] # << >>
    <3>1. outs[n] # << >> /\ Range(outs[n]) \subseteq {out}
      BY <1>2, <1>5, SingleIs
    <3> QED
      BY <1>5, <1>6, <3>1
  <2> HIDE DEF ins, outs, out, new
  <2>4. set \in Graphs(D) /\ Follows(h, set, {new})
    BY <1>1, <1>2, <1>5, <2>2, <2>3, WiringStep
  <2> QED
    BY <2>1, <2>4
<1> DEFINE Y == X \cup Used(h)
<1>8. ~Idle(set, n) /\ ~Idle(set, r)
  <2>1. ins[n] # << >>
    BY <1>1, <1>5, SingleIs
  <2> HIDE DEF ins, outs, set
  <2> QED
    BY <1>6, <1>7, <2>1 DEF Idle
<1>9. readers \in Seq(D) /\ << >> \in Seq(D) /\ <<n>> \o readers \in Seq(D)
  <2>1. readers \in Seq(D) /\ << >> \in Seq(D) /\ <<n>> \in Seq(D)
    BY GraphParts
  <2> HIDE DEF readers
  <2> QED
    BY <2>1, ConcatIn
<1> HIDE DEF out, new, readers, ins, outs, set, i, X
<1> DEFINE Ok(j) == j \in Graphs(D) /\ Follows(set, j, Y)
<1>10. Ok(wired)
  <2>1. one \in Graphs(D) /\ Follows(set, one, Y)
    BY <1>1, <1>2, <1>7, SetPrevIs DEF X
  <2> HIDE DEF one
  <2>2. wired \in Graphs(D) /\ Follows(one, wired, Y)
    BY <1>2, <2>1, SetPrevIs
  <2> HIDE DEF wired, Y
  <2> QED
    BY <2>1, <2>2, FollowsOn
<1> HIDE DEF wired
<1>11. Ok(noted)
  <2>1. moved \in Graphs(D) /\ Follows(wired, moved, Y)
    BY <1>1, <1>2, <1>9, <1>10, RerouteIs DEF X
  <2> HIDE DEF moved
  <2>2. noted \in Graphs(D) /\ Follows(moved, noted, Y)
    BY <1>1, <1>2, <1>9, <2>1, SetReadersIs DEF X
  <2> HIDE DEF noted, Y
  <2> QED
    BY <1>10, <2>1, <2>2, FollowsOn
<1> HIDE DEF noted
<1>12. Ok(last)
  <2>1. last \in Graphs(D) /\ Follows(noted, last, Y)
    BY <1>1, <1>2, <1>9, <1>11, SetReadersIs
  <2> HIDE DEF last, Y
  <2> QED
    BY <1>11, <2>1, FollowsOn
<1>13. Ok(i)
  BY <1>4, <1>10, <1>11, <1>12
<1> HIDE DEF last
<1>14. Follows(h, i, X)
  BY <1>7, <1>13 DEF Follows
<1>15. \A m \in NodesOf(i) : Idle(i, m) => m # r /\ m # n
  BY <1>8, <1>13 DEF Follows
<1> QED
  BY <1>13, <1>14, <1>15 DEF i, X, new

LEMMA InsertBeforeType ==
  ASSUME NEW D, NEW h \in Graphs(D), D \subseteq Names, NEW r \in D, NEW n \in D,
         NEW k \in DOMAIN h.ins[r], Idle(h, n), NEW isInput
  PROVE  /\ InsertBefore(h, r, k, n, isInput).graph \in Graphs(D)
         /\ Follows(h, InsertBefore(h, r, k, n, isInput).graph, {<<n, r>>})
         /\ \A m \in NodesOf(InsertBefore(h, r, k, n, isInput).graph) :
              Idle(InsertBefore(h, r, k, n, isInput).graph, m) => m # r /\ m # n
<1> DEFINE in == h.ins[r][k]
           new == <<n, r>>
           X == {new}
           ins == BeforeIns(h, r, k, n, new, in)
           outs == BeforeOuts(h, n, new)
           set == [h EXCEPT !.ins = ins, !.outs = outs]
           wired == SetPrev(set, new, n)
           readers == RemoveFirst(Append(Readers(h, in), n), r)
           others == Only(readers, Range(readers) \ {n})
           moved == Reroute(wired, others, in, new)
           along == SetReaders(moved, new, <<r>> \o others)
           lastAlong == SetReaders(along, in, <<n>>)
           alone == SetReaders(wired, new, <<r>>)
           last == SetReaders(alone, in, readers)
           i == InsertBefore(h, r, k, n, isInput).graph
<1>1. new \in Labels
  BY DEF Labels, Added
<1>2. in \in Used(h) /\ in \in Labels
  <2>1. h.ins[r] \in Seq(Labels) /\ k \in 1..Len(h.ins[r])
    BY GraphParts, SeqRange
  <2>2. in \in Reads(h, r)
    BY <2>1, SeqRange DEF Reads
  <2> QED
    BY <2>2, GraphParts, UsedParts
<1>3. [h EXCEPT !.ins[r][k] = new, !.ins[n] = <<in>>, !.outs[n] = <<new>>] = set
  BY GraphParts DEF BeforeIns, BeforeOuts, Graphs, Single, Put
<1>4. i \in {wired, lastAlong, last}
  BY <1>3 DEF InsertBefore, Raise, Done
<1>5. /\ outs \in [D -> Seq(Labels)] /\ outs[n] = Single(new)
      /\ \A m \in D : m # n => outs[m] = h.outs[m]
      /\ ins \in [D -> Seq(Labels)] /\ ins[n] = Single(in)
      /\ ins[r] = Put(h.ins[r], k, new)
      /\ \A m \in D : m # n /\ m # r => ins[m] = h.ins[m]
  <2> HIDE DEF new, in, ins, outs
  <2>1. in = h.ins[r][k] /\ ins = BeforeIns(h, r, k, n, new, in) /\ outs = BeforeOuts(h, n, new)
    BY DEF in, ins, outs
  <2> QED
    BY <1>1, <2>1, BeforeShape
<1>6. ins[r] # << >> /\ Range(ins[r]) \subseteq Reads(h, r) \cup {in, new}
  <2> DEFINE s == h.ins[r]
             w == ins[r]
  <2>1. s \in Seq(Labels) /\ k \in 1..Len(s) /\ w = Put(s, k, new) /\ Reads(h, r) = Range(s)
    BY <1>5, GraphParts, SeqRange DEF Reads
  <2> HIDE DEF s, w, new, in
  <2>2. w # << >> /\ Range(w) \subseteq Range(s) \cup {new}
    BY <1>1, <2>1, ChangeOne
  <2> QED
    BY <2>1, <2>2 DEF w
<1>7. set \in Graphs(D) /\ Follows(h, set, X) /\ set.ins = ins /\ set.outs = outs
  <2>1. set.ins = ins /\ set.outs = outs
    BY DEF Graphs
  <2>2. \A m \in D : \/ outs[m] = h.outs[m]
                     \/ Range(outs[m]) \subseteq Writes(h, m) \cup {in, new} /\ outs[m] # << >>
    <3>1. outs[n] # << >> /\ Range(outs[n]) \subseteq {new}
      BY <1>1, <1>5, SingleIs
    <3> QED
      BY <1>5, <3>1
  <2>3. \A m \in D : \/ ins[m] = h.ins[m]
                     \/ Range(ins[m]) \subseteq Reads(h, m) \cup {in, new} /\ ins[m] # << >>
    <3>1. ins[n] # << >> /\ Range(ins[n]) \subseteq {in}
      BY <1>2, <1>5, SingleIs
    <3> QED
      BY <1>5, <1>6, <3>1
  <2> HIDE DEF ins, outs, in, new
  <2>4. set \in Graphs(D) /\ Follows(h, set, {new})
    BY <1>1, <1>2, <1>5, <2>2, <2>3, WiringStep
  <2> QED
    BY <2>1, <2>4
<1> DEFINE Y == X \cup Used(h)
<1>8. ~Idle(set, n) /\ ~Idle(set, r)
  <2>1. ins[n] # << >>
    BY <1>2, <1>5, SingleIs
  <2> HIDE DEF ins, outs, set
  <2> QED
    BY <1>6, <1>7, <2>1 DEF Idle
<1>9. /\ readers \in Seq(D) /\ others \in Seq(D)
      /\ <<n>> \in Seq(D) /\ <<r>> \in Seq(D) /\ <<r>> \o others \in Seq(D)
  <2> DEFINE s == Append(Readers(h, in), n)
  <2>1. s \in Seq(D)
    BY GraphParts
  <2> HIDE DEF s
  <2>2. readers \in Seq(D)
    BY <2>1, RemoveFirstProps DEF s
  <2> DEFINE S == Range(readers) \ {n}
  <2> HIDE DEF readers, S
  <2>3. others \in Seq(D)
    BY <2>2, OnlyProps DEF S
  <2> HIDE DEF others
  <2>4. <<r>> \in Seq(D) /\ <<n>> \in Seq(D)
    OBVIOUS
  <2> QED
    BY <2>2, <2>3, <2>4, ConcatIn
<1> HIDE DEF in, new, readers, others, ins, outs, set, i, X
<1> DEFINE Ok(j) == j \in Graphs(D) /\ Follows(set, j, Y)
<1>10. Ok(wired)
  BY <1>1, <1>7, SetPrevIs DEF X
<1> HIDE DEF wired
<1>11. Ok(lastAlong)
  <2>1. moved \in Graphs(D) /\ Follows(wired, moved, Y)
    BY <1>1, <1>9, <1>10, RerouteIs DEF X
  <2> HIDE DEF moved
  <2>2. along \in Graphs(D) /\ Follows(moved, along, Y)
    BY <1>1, <1>9, <2>1, SetReadersIs DEF X
  <2> HIDE DEF along
  <2>3. lastAlong \in Graphs(D) /\ Follows(along, lastAlong, Y)
    BY <1>2, <1>9, <2>2, SetReadersIs
  <2> HIDE DEF lastAlong, Y
  <2> QED
    BY <1>10, <2>1, <2>2, <2>3, FollowsOn
<1>12. Ok(last)
  <2>1. alone \in Graphs(D) /\ Follows(wired, alone, Y)
    BY <1>1, <1>9, <1>10, SetReadersIs DEF X
  <2> HIDE DEF alone
  <2>2. last \in Graphs(D) /\ Follows(alone, last, Y)
    BY <1>2, <1>9, <2>1, SetReadersIs
  <2> HIDE DEF last, Y
  <2> QED
    BY <1>10, <2>1, <2>2, FollowsOn
<1> HIDE DEF last, lastAlong
<1>13. Ok(i)
  BY <1>4, <1>10, <1>11, <1>12
<1>14. Follows(h, i, X)
  BY <1>7, <1>13 DEF Follows
<1>15. \A m \in NodesOf(i) : Idle(i, m) => m # r /\ m # n
  BY <1>8, <1>13 DEF Follows
<1> QED
  BY <1>13, <1>14, <1>15 DEF i, X, new

(* What an operation on a graph over D leaves.                             *)
Typed(D, i) == i \in Graphs(D) /\ NamesTaken(i)

LEMMA AfterTyped ==
  ASSUME NEW D, NEW h, Typed(D, h), D \subseteq Names, NEW r \in D, NEW n \in D,
         NEW k \in DOMAIN h.outs[r], Idle(h, n), NEW isOutput
  PROVE  Typed(D, InsertAfter(h, r, k, n, isOutput).graph)
<1> DEFINE i == InsertAfter(h, r, k, n, isOutput).graph
<1>1. h \in Graphs(D) /\ NamesTaken(h) /\ Objects(h) = D
  BY GraphParts DEF Typed
<1>2. /\ i \in Graphs(D) /\ Follows(h, i, {<<r, n>>})
      /\ \A m \in NodesOf(i) : Idle(i, m) => m # r /\ m # n
  BY <1>1, InsertAfterType
<1>3. Objects(i) = D
  BY <1>2, GraphParts
<1> HIDE DEF i
<1> QED
  BY <1>1, <1>2, <1>3, TakenMore DEF Typed, i

LEMMA BeforeTyped ==
  ASSUME NEW D, NEW h, Typed(D, h), D \subseteq Names, NEW r \in D, NEW n \in D,
         NEW k \in DOMAIN h.ins[r], Idle(h, n), NEW isInput
  PROVE  Typed(D, InsertBefore(h, r, k, n, isInput).graph)
<1> DEFINE i == InsertBefore(h, r, k, n, isInput).graph
<1>1. h \in Graphs(D) /\ NamesTaken(h) /\ Objects(h) = D
  BY GraphParts DEF Typed
<1>2. /\ i \in Graphs(D) /\ Follows(h, i, {<<n, r>>})
      /\ \A m \in NodesOf(i) : Idle(i, m) => m # n /\ m # r
  BY <1>1, InsertBeforeType
<1>3. Objects(i) = D
  BY <1>2, GraphParts
<1> HIDE DEF i
<1> QED
  BY <1>1, <1>2, <1>3, TakenMore DEF Typed, i

(* The first node that reads x, and where.                                 *)
LEMMA FirstReader ==
  ASSUME NEW D, NEW h \in Graphs(D), NEW x, Readers(h, x) # << >>,
         x \in Reads(h, Readers(h, x)[1])
  PROVE  /\ Readers(h, x)[1] \in D
         /\ IndexIn(h.ins[Readers(h, x)[1]], x) \in DOMAIN h.ins[Readers(h, x)[1]]
         /\ h.ins[Readers(h, x)[1]][IndexIn(h.ins[Readers(h, x)[1]], x)] = x
<1> DEFINE r == Readers(h, x)[1]
           s == h.ins[r]
<1>1. r \in D
  BY GraphParts
<1>2. s \in Seq(Labels) /\ x \in Range(s)
  BY <1>1, GraphParts DEF Reads
<1>3. IndexIn(s, x) \in 1..Len(s) /\ s[IndexIn(s, x)] = x /\ DOMAIN s = 1..Len(s)
  <2> HIDE DEF s
  <2> QED
    BY <1>2, IndexInProps, SeqRange
<1> QED
  BY <1>1, <1>3

LEMMA AtInputTyped ==
  ASSUME NEW D, NEW h, Typed(D, h), D \subseteq Names, NEW n \in D, Idle(h, n), NEW x
  PROVE  Typed(D, InsertAtInput(h, x, n).graph)
<1> DEFINE r == Readers(h, x)[1]
           k == IndexIn(h.ins[r], x)
<1>1. CASE Readers(h, x) = << >> \/ x \notin Reads(h, r)
  BY <1>1 DEF InsertAtInput, Raise
<1>2. CASE ~(Readers(h, x) = << >> \/ x \notin Reads(h, r))
  <2>1. h \in Graphs(D)
    BY DEF Typed
  <2>2. r \in D /\ k \in DOMAIN h.ins[r]
    BY <1>2, <2>1, FirstReader
  <2>3. InsertAtInput(h, x, n) = InsertBefore(h, r, k, n, TRUE)
    BY <1>2 DEF InsertAtInput
  <2> HIDE DEF r, k
  <2> QED
    BY <2>2, <2>3, BeforeTyped
<1> QED
  BY <1>1, <1>2

LEMMA AtOutputTyped ==
  ASSUME NEW D, NEW h, Typed(D, h), D \subseteq Names, NEW n \in D, Idle(h, n), NEW y
  PROVE  Typed(D, InsertAtOutput(h, y, n).graph)
<1> DEFINE r == Prev(h, y)
           k == IndexIn(h.outs[r], y)
<1>1. CASE r = NoNode \/ y \notin Writes(h, r)
  BY <1>1 DEF InsertAtOutput, Raise
<1>2. CASE ~(r = NoNode \/ y \notin Writes(h, r))
  <2>1. r \in D /\ h.outs[r] \in Seq(Labels)
    BY <1>2, GraphParts DEF Typed
  <2>2. k \in DOMAIN h.outs[r]
    <3> DEFINE s == h.outs[r]
    <3>1. s \in Seq(Labels) /\ y \in Range(s)
      BY <1>2, <2>1 DEF Writes
    <3> HIDE DEF s
    <3>2. IndexIn(s, y) \in DOMAIN s
      BY <3>1, IndexInProps, SeqRange
    <3> QED
      BY <3>2 DEF s
  <2>3. InsertAtOutput(h, y, n) = InsertAfter(h, r, k, n, TRUE)
    BY <1>2 DEF InsertAtOutput
  <2> HIDE DEF r, k
  <2> QED
    BY <2>1, <2>2, <2>3, AfterTyped
<1> QED
  BY <1>1, <1>2

-------------------------------------------------------------------------------
(* remove *)

(* A step of remove for the node n, which is out of the list already.      *)
Cuts(D, n, h, i) ==
  /\ i \in Graphs(D) /\ Follows(h, i, {}) /\ NodesOf(i) = NodesOf(h)
  /\ Len(i.ins[n]) = Len(h.ins[n])

LEMMA ReadersSet ==
  ASSUME NEW D, NEW h \in Graphs(D), NEW n \in D, NEW e \in Used(h), NEW s \in Seq(D)
  PROVE  Cuts(D, n, h, SetReaders(h, e, s))
<1> DEFINE i == SetReaders(h, e, s)
<1>1. e \in Labels
  BY UsedParts
<1>2. /\ i \in Graphs(D) /\ Follows(h, i, Used(h))
      /\ i = [h EXCEPT !.next = With(h.next, e, s)]
  BY <1>1, SetReadersIs
<1>3. i.nodes = h.nodes /\ i.ins = h.ins
  BY <1>2 DEF Graphs
<1> HIDE DEF i
<1> QED
  BY <1>2, <1>3 DEF Cuts, Follows, NodesOf, i

(* What the nodes read after PassOn.                                       *)
PassIns(h, out, e) ==
  [m \in Objects(h) |->
     IF m \in Range(Readers(h, out)) THEN ReplaceAll(h.ins[m], out, e) ELSE h.ins[m]]

LEMMA PassOnIs ==
  ASSUME NEW D, NEW h \in Graphs(D), NEW out, NEW e \in Labels
  PROVE  /\ PassIns(h, out, e) \in [D -> Seq(Labels)]
         /\ \A m \in D : /\ Len(PassIns(h, out, e)[m]) = Len(h.ins[m])
                         /\ Range(PassIns(h, out, e)[m]) \subseteq Reads(h, m) \cup {e}
         /\ PassOn(h, out, e) =
              SetReaders([h EXCEPT !.ins = PassIns(h, out, e), !.outs = h.outs],
                         e, Readers(h, e) \o Readers(h, out))
<1> DEFINE ms == Range(Readers(h, out))
           I == [m \in D |-> IF m \in ms THEN ReplaceAll(h.ins[m], out, e) ELSE h.ins[m]]
<1>1. ASSUME NEW m \in D
      PROVE  /\ I[m] \in Seq(Labels) /\ Len(I[m]) = Len(h.ins[m])
             /\ Range(I[m]) \subseteq Reads(h, m) \cup {e}
  <2> DEFINE s == h.ins[m]
             w == ReplaceAll(s, out, e)
  <2>1. s \in Seq(Labels) /\ Reads(h, m) = Range(s)
    BY GraphParts DEF Reads
  <2>2. I[m] = IF m \in ms THEN w ELSE s
    OBVIOUS
  <2> HIDE DEF s, I, ms
  <2>3. w \in Seq(Labels) /\ Len(w) = Len(s) /\ Range(w) \subseteq Range(s) \cup {e}
    BY <2>1, ReplaceAllProps
  <2> QED
    BY <2>1, <2>2, <2>3 DEF s
<1>2. I \in [D -> Seq(Labels)]
  <2>1. I = [m \in D |-> I[m]]
    OBVIOUS
  <2> HIDE DEF I
  <2> QED
    BY <1>1, <2>1
<1>3. PassOn(h, out, e) =
        SetReaders([h EXCEPT !.ins = I, !.outs = h.outs], e, Readers(h, e) \o Readers(h, out))
  BY GraphParts DEF PassOn, Graphs
<1>4. PassIns(h, out, e) = I
  BY GraphParts DEF PassIns
<1> HIDE DEF I
<1> QED
  BY <1>1, <1>2, <1>3, <1>4

LEMMA PassOnCuts ==
  ASSUME NEW D, NEW h \in Graphs(D), NEW n \in D, NEW out \in Used(h), NEW e \in Used(h)
  PROVE  Cuts(D, n, h, PassOn(h, out, e))
<1> DEFINE I == PassIns(h, out, e)
           O == h.outs
           set == [h EXCEPT !.ins = I, !.outs = O]
           s == Readers(h, e) \o Readers(h, out)
           i == SetReaders(set, e, s)
<1>1. e \in Labels
  BY UsedParts
<1>2. /\ I \in [D -> Seq(Labels)]
      /\ \A m \in D : Len(I[m]) = Len(h.ins[m]) /\ Range(I[m]) \subseteq Reads(h, m) \cup {e}
      /\ PassOn(h, out, e) = i
  <2>1. I \in [D -> Seq(Labels)]
    BY <1>1, PassOnIs
  <2>2. ASSUME NEW m \in D PROVE Len(I[m]) = Len(h.ins[m]) /\ Range(I[m]) \subseteq Reads(h, m) \cup {e}
    BY <1>1, PassOnIs
  <2>3. PassOn(h, out, e) = i
    BY GraphParts DEF PassOn, Graphs, PassIns
  <2> HIDE DEF I, i
  <2> QED
    BY <2>1, <2>2, <2>3
<1>3. /\ O \in [D -> Seq(Labels)] /\ NodesOf(h) \subseteq D
      /\ \A m \in D : Reads(h, m) \subseteq Used(h) /\ Range(O[m]) \subseteq Used(h)
  BY GraphParts, UsedParts DEF Writes
<1>4. s \in Seq(D)
  <2>1. Readers(h, e) \in Seq(D) /\ Readers(h, out) \in Seq(D)
    BY GraphParts
  <2> QED
    BY <2>1, ConcatIn
<1>5. set.ins = I /\ set.nodes = h.nodes
  BY DEF Graphs
<1>6. \A m \in NodesOf(h) : I[m] = << >> /\ O[m] = << >> => Idle(h, m)
  <2> HIDE DEF I
  <2> QED
    BY <1>2, <1>3, GraphParts DEF Idle
<1> HIDE DEF I, O, s
<1>7. set \in Graphs(D) /\ Follows(h, set, {e})
  BY <1>2, <1>3, <1>6, EdgesSet
<1> HIDE DEF set
<1>8. i \in Graphs(D) /\ Follows(set, i, {e}) /\ i = [set EXCEPT !.next = With(set.next, e, s)]
  BY <1>1, <1>4, <1>7, SetReadersIs
<1>9. i.ins = set.ins /\ i.nodes = set.nodes
  BY <1>7, <1>8 DEF Graphs
<1> HIDE DEF i
<1>10. Follows(h, i, {e})
  BY <1>7, <1>8, FollowsOn
<1> QED
  BY <1>2, <1>5, <1>8, <1>9, <1>10 DEF Cuts, Follows, NodesOf

Rewired(h, ins, outs) == [h EXCEPT !.ins = ins, !.outs = outs]

(* What the nodes write after WriteOutput.                                 *)
WriteOuts(h, n, out, e) ==
  LET p == Prev(h, e)
      f == [h.outs EXCEPT ![p] = Put(@, IndexIn(h.outs[p], e), out)]
  IN  [f EXCEPT ![n] = RemoveFirst(@, out)]

LEMMA WriteOutputIs ==
  ASSUME NEW D, NEW h \in Graphs(D), NEW n \in D, NEW out \in Labels, NEW e,
         Prev(h, e) # NoNode, e \in Writes(h, Prev(h, e))
  PROVE  /\ Prev(h, e) \in D
         /\ IndexIn(h.outs[Prev(h, e)], e) \in 1..Len(h.outs[Prev(h, e)])
         /\ h.outs[Prev(h, e)][IndexIn(h.outs[Prev(h, e)], e)] = e
         /\ WriteOuts(h, n, out, e) \in [D -> Seq(Labels)]
         /\ \A m \in D : Range(WriteOuts(h, n, out, e)[m]) \subseteq Writes(h, m) \cup {out}
         /\ \A m \in D : m # n /\ WriteOuts(h, n, out, e)[m] = << >> => h.outs[m] = << >>
         /\ WriteOutput(h, n, out, e) =
              Rewired(h, Rerouted(h, Readers(h, e), e, out), WriteOuts(h, n, out, e))
<1> DEFINE p == Prev(h, e)
           s == h.outs[p]
           j == IndexIn(s, e)
           w == Put(s, j, out)
           f == [h.outs EXCEPT ![p] = w]
           O == [f EXCEPT ![n] = RemoveFirst(@, out)]
<1>1. p \in D /\ h.outs \in [D -> Seq(Labels)]
  BY GraphParts
<1>2. s \in Seq(Labels) /\ e \in Range(s)
  BY <1>1 DEF Writes
<1>3. j \in 1..Len(s) /\ s[j] = e
  <2> HIDE DEF s
  <2> QED
    BY <1>2, IndexInProps
<1>4. w \in Seq(Labels) /\ w # << >> /\ Range(w) \subseteq Range(s) \cup {out}
  <2> HIDE DEF s, j, w
  <2>1. w = Put(s, j, out)
    BY DEF w
  <2> QED
    BY <1>2, <1>3, <2>1, ChangeOne
<1> HIDE DEF w
<1>5. /\ f \in [D -> Seq(Labels)] /\ f[p] = w /\ \A m \in D : m # p => f[m] = h.outs[m]
  BY <1>1, <1>4
<1>6. \A m \in D : Range(f[m]) \subseteq Writes(h, m) \cup {out}
  <2> HIDE DEF f
  <2>1. Range(f[p]) \subseteq Writes(h, p) \cup {out}
    BY <1>4, <1>5 DEF Writes
  <2> QED
    BY <1>5, <2>1 DEF Writes
<1> HIDE DEF f
<1>7. RemoveFirst(f[n], out) \in Seq(Labels) /\ Range(RemoveFirst(f[n], out)) \subseteq Range(f[n])
  <2> DEFINE v == f[n]
  <2>1. v \in Seq(Labels)
    BY <1>5
  <2> HIDE DEF v
  <2> QED
    BY <2>1, RemoveFirstProps DEF v
<1> DEFINE v == RemoveFirst(f[n], out)
<1>8. O = [f EXCEPT ![n] = v]
  OBVIOUS
<1> HIDE DEF v, O
<1>9. O \in [D -> Seq(Labels)] /\ O[n] = v /\ \A m \in D : m # n => O[m] = f[m]
  BY <1>5, <1>7, <1>8 DEF v
<1>10. \A m \in D : Range(O[m]) \subseteq Writes(h, m) \cup {out}
  BY <1>6, <1>7, <1>9 DEF v
<1>11. \A m \in D : m # n /\ O[m] = << >> => h.outs[m] = << >>
  BY <1>4, <1>5, <1>9
<1>12. WriteOuts(h, n, out, e) = O
  BY DEF WriteOuts, O, f, w
<1>13. WriteOutput(h, n, out, e) =
         Rewired(h, Rerouted(h, Readers(h, e), e, out), O)
  <2> DEFINE moved == Reroute(h, Readers(h, e), e, out)
             I == Rerouted(h, Readers(h, e), e, out)
  <2>1. moved = [h EXCEPT !.ins = I]
    BY GraphParts, RerouteIs
  <2>2. moved.outs = h.outs /\ [moved EXCEPT !.outs = O] = [h EXCEPT !.ins = I, !.outs = O]
    <3> HIDE DEF I, moved
    <3> QED
      BY <2>1 DEF Graphs
  <2>3. [h.outs EXCEPT ![p][IndexIn(h.outs[p], e)] = out] = f
    BY <1>1 DEF f, w, Put
  <2>4. WriteOutput(h, n, out, e) =
          [moved EXCEPT !.outs = [[h.outs EXCEPT ![p][IndexIn(h.outs[p], e)] = out]
                                    EXCEPT ![n] = RemoveFirst(@, out)]]
    BY DEF WriteOutput
  <2>5. WriteOutput(h, n, out, e) = [moved EXCEPT !.outs = O]
    BY <2>3, <2>4 DEF O
  <2> QED
    BY <2>2, <2>5 DEF Rewired
<1> QED
  BY <1>1, <1>3, <1>9, <1>10, <1>11, <1>12, <1>13

LEMMA WriteOutputCuts ==
  ASSUME NEW D, NEW h \in Graphs(D), NEW n \in D, n \notin NodesOf(h), NEW out \in Used(h), NEW e,
         Prev(h, e) # NoNode, e \in Writes(h, Prev(h, e))
  PROVE  Cuts(D, n, h, WriteOutput(h, n, out, e))
<1> DEFINE I == Rerouted(h, Readers(h, e), e, out)
           O == WriteOuts(h, n, out, e)
           i == WriteOutput(h, n, out, e)
           ms == Readers(h, e)
<1>1. out \in Labels /\ ms \in Seq(D)
  BY UsedParts, GraphParts
<1>2. /\ O \in [D -> Seq(Labels)] /\ i = [h EXCEPT !.ins = I, !.outs = O]
      /\ \A m \in D : Range(O[m]) \subseteq Writes(h, m) \cup {out}
      /\ \A m \in D : m # n /\ O[m] = << >> => h.outs[m] = << >>
  <2>1. i = [h EXCEPT !.ins = I, !.outs = O]
    <3>1. i = Rewired(h, I, O)
      BY <1>1, WriteOutputIs
    <3> QED
      BY <3>1 DEF Rewired
  <2> HIDE DEF i, I
  <2>2. /\ O \in [D -> Seq(Labels)]
        /\ \A m \in D : Range(O[m]) \subseteq Writes(h, m) \cup {out}
        /\ \A m \in D : m # n /\ O[m] = << >> => h.outs[m] = << >>
    BY <1>1, WriteOutputIs
  <2> QED
    BY <2>1, <2>2
<1>3. /\ I \in [D -> Seq(Labels)]
      /\ \A m \in D : Len(I[m]) = Len(h.ins[m]) /\ Range(I[m]) \subseteq Reads(h, m) \cup {out}
  <2> HIDE DEF ms
  <2>1. I = Rerouted(h, ms, e, out)
    BY DEF ms
  <2> HIDE DEF I
  <2> QED
    BY <1>1, <2>1, RerouteIs
<1>4. /\ NodesOf(h) \subseteq D
      /\ \A m \in D : Reads(h, m) \subseteq Used(h) /\ Writes(h, m) \subseteq Used(h)
  BY GraphParts, UsedParts
<1>5. i.nodes = h.nodes /\ i.ins = I
  <2> HIDE DEF i, I, O
  <2> QED
    BY <1>2 DEF Graphs
<1> HIDE DEF I, O, i
<1>6. \A m \in NodesOf(h) : I[m] = << >> /\ O[m] = << >> => Idle(h, m)
  BY <1>2, <1>3, <1>4, GraphParts DEF Idle
<1>7. i \in Graphs(D) /\ Follows(h, i, {out})
  <2>1. \A m \in D : Range(I[m]) \subseteq Used(h) \cup {out} /\ Range(O[m]) \subseteq Used(h) \cup {out}
    BY <1>2, <1>3, <1>4
  <2> QED
    BY <1>2, <1>3, <1>6, <2>1, EdgesSet
<1> QED
  BY <1>3, <1>5, <1>7 DEF Cuts, Follows, NodesOf, i

LEMMA CutsOn ==
  ASSUME NEW D, NEW n, NEW h, NEW i, NEW j, Cuts(D, n, h, i), Cuts(D, n, i, j)
  PROVE  Cuts(D, n, h, j)
BY FollowsOn DEF Cuts

LEMMA DisconnectCuts ==
  ASSUME NEW D, NEW h \in Graphs(D), NoNode \notin D, NEW n \in D, n \notin NodesOf(h),
         NEW wiring \in Wirings, NEW i \in 1..Len(h.ins[n])
  PROVE  /\ Cuts(D, n, h, Disconnect(n, wiring, h, i).graph)
         /\ Disconnect(n, wiring, h, i).fails \in BOOLEAN
<1> DEFINE e == h.ins[n][i]
           s == RemoveFirst(Readers(h, e), n)
           cut == SetReaders(h, e, s)
           out == h.outs[n][wiring[i]]
           res == Disconnect(n, wiring, h, i)
<1>1. e \in Used(h) /\ s \in Seq(D)
  <2>1. h.ins[n] \in Seq(Labels) /\ Readers(h, e) \in Seq(D)
    BY GraphParts
  <2>2. e \in Reads(h, n)
    BY <2>1, SeqRange DEF Reads
  <2> HIDE DEF e
  <2> QED
    BY <2>1, <2>2, UsedParts, RemoveFirstProps
<1>2. cut = [h EXCEPT !.next = With(h.next, e, s)] /\ cut.outs = h.outs /\ cut.ins = h.ins
  BY DEF SetReaders, Graphs
<1> HIDE DEF e, s
<1>3. Cuts(D, n, h, cut)
  BY <1>1, ReadersSet
<1>4. CASE i \notin DOMAIN wiring
  <2>1. res = Done(cut)
    BY <1>4 DEF Disconnect, e, s
  <2> QED
    BY <1>3, <2>1 DEF Done
<1>5. CASE i \in DOMAIN wiring /\ wiring[i] > Len(h.outs[n])
  <2>1. res = Raise(cut)
    BY <1>5 DEF Disconnect, e, s
  <2> QED
    BY <1>3, <2>1 DEF Raise
<1>6. CASE i \in DOMAIN wiring /\ ~(wiring[i] > Len(h.outs[n]))
  <2>1. wiring[i] \in 1..Len(h.outs[n])
    <3>1. wiring[i] \in Nat \ {0} /\ h.outs[n] \in Seq(Labels)
      BY <1>6, EditsAssumption, GraphParts
    <3> QED
      BY <1>6, <3>1
  <2>2. out \in Writes(cut, n) /\ cut \in Graphs(D) /\ NodesOf(cut) = NodesOf(h)
    <3>1. h.outs[n] \in Seq(Labels)
      BY GraphParts
    <3>2. out \in Range(h.outs[n])
      BY <2>1, <3>1, SeqRange
    <3> QED
      BY <1>2, <1>3, <3>2 DEF Writes, Cuts
  <2>3. e \in Used(cut)
    <3>1. h.ins[n] \in Seq(Labels)
      BY GraphParts
    <3>2. e \in Range(h.ins[n])
      BY <3>1, SeqRange DEF e
    <3>3. e \in Reads(cut, n)
      BY <1>2, <3>2 DEF Reads
    <3> HIDE DEF cut
    <3> QED
      BY <2>2, <3>3, UsedParts
  <2>4. res \in {Done(PassOn(cut, out, e)), Done(cut), Raise(cut)}
          \/ /\ res = Done(WriteOutput(cut, n, out, e))
             /\ Prev(cut, e) # NoNode /\ e \in Writes(cut, Prev(cut, e))
    BY <1>6 DEF Disconnect, e, s
  <2> HIDE DEF cut, out, res
  <2>5. out \in Used(cut)
    BY <2>2, UsedParts
  <2>6. Cuts(D, n, cut, PassOn(cut, out, e))
    BY <2>2, <2>3, <2>5, PassOnCuts
  <2>7. Prev(cut, e) # NoNode /\ e \in Writes(cut, Prev(cut, e))
          => Cuts(D, n, cut, WriteOutput(cut, n, out, e))
    BY <2>2, <2>5, WriteOutputCuts
  <2>8. Cuts(D, n, h, PassOn(cut, out, e))
    BY <1>3, <2>6, CutsOn
  <2>9. Prev(cut, e) # NoNode /\ e \in Writes(cut, Prev(cut, e))
          => Cuts(D, n, h, WriteOutput(cut, n, out, e))
    BY <1>3, <2>7, CutsOn
  <2>10. \A x : /\ Done(x).graph = x /\ Done(x).fails = FALSE
                /\ Raise(x).graph = x /\ Raise(x).fails = TRUE
    BY DEF Done, Raise
  <2>11. Cuts(D, n, h, res.graph) /\ res.fails \in BOOLEAN
    BY <1>3, <2>4, <2>8, <2>9, <2>10
  <2> QED
    BY <2>11 DEF res
<1> QED
  BY <1>4, <1>5, <1>6

LEMMA NodesSet ==
  ASSUME NEW D, NEW h \in Graphs(D), NEW s \in Seq(D), IsInjective(s), Range(s) \subseteq NodesOf(h)
  PROVE  /\ [h EXCEPT !.nodes = s] \in Graphs(D)
         /\ Follows(h, [h EXCEPT !.nodes = s], {})
         /\ NodesOf([h EXCEPT !.nodes = s]) = Range(s)
<1> DEFINE i == [h EXCEPT !.nodes = s]
<1>1. /\ i \in Graphs(D) /\ i.nodes = s
      /\ i.ins = h.ins /\ i.outs = h.outs /\ i.prev = h.prev /\ i.next = h.next
      /\ i.inputs = h.inputs /\ i.outputs = h.outputs /\ i.inits = h.inits
  BY DEF Graphs
<1> HIDE DEF i
<1>2. NodesOf(i) = Range(s) /\ Used(i) = Used(h)
  BY <1>1 DEF NodesOf, Used, Objects, Sources, Reads, Writes
<1>3. Follows(h, i, {})
  BY <1>1, <1>2 DEF Follows, Idle
<1> QED
  BY <1>1, <1>2, <1>3 DEF i

(* The steps of remove: input after input, until one raises.               *)
RemoveSteps(h, n, wiring, f) ==
  f = [i \in 0..Len(h.ins[n]) |->
         IF i = 0 THEN Done([h EXCEPT !.nodes = RemoveFirst(@, n)])
         ELSE IF f[i - 1].fails THEN f[i - 1]
         ELSE Disconnect(n, wiring, f[i - 1].graph, i)]

LEMMA RemoveLoop ==
  ASSUME NEW D, NEW h \in Graphs(D), NoNode \notin D, NEW n \in D, NEW wiring \in Wirings
  PROVE  \E f, start :
           /\ start = [h EXCEPT !.nodes = RemoveFirst(h.nodes, n)]
           /\ start \in Graphs(D) /\ Follows(h, start, {}) /\ NodesOf(start) = NodesOf(h) \ {n}
           /\ RemoveSteps(h, n, wiring, f)
           /\ \A i \in 0..Len(h.ins[n]) : Cuts(D, n, start, f[i].graph) /\ f[i].fails \in BOOLEAN
           /\ RemoveNode(h, n, wiring) =
                [f[Len(h.ins[n])] EXCEPT !.graph = ForgetOutputs(@, n)]
<1> DEFINE start == [h EXCEPT !.nodes = RemoveFirst(h.nodes, n)]
           k == Len(h.ins[n])
           b == Done(start)
           A == {v \in [graph : Graphs(D), fails : BOOLEAN] : Cuts(D, n, start, v.graph)}
           step(v, i) == IF v.fails THEN v ELSE Disconnect(n, wiring, v.graph, i)
           E == [p \in A \X (1..k) |-> step(p[1], p[2])]
           Is(f) == f = [i \in 0..k |-> IF i = 0 THEN b ELSE step(f[i - 1], i)]
<1>1. /\ start \in Graphs(D) /\ Follows(h, start, {}) /\ NodesOf(start) = NodesOf(h) \ {n}
      /\ start.ins = h.ins
  <2> DEFINE s == h.nodes
             w == RemoveFirst(s, n)
  <2>1. s \in Seq(D) /\ IsInjective(s) /\ Range(s) = NodesOf(h)
    BY GraphParts DEF NodesOf
  <2>2. w \in Seq(D) /\ Range(w) = NodesOf(h) \ {n} /\ IsInjective(w)
    <3> HIDE DEF s
    <3>1. /\ w \in Seq(D) /\ Range(w) \subseteq Range(s) /\ Range(s) \ {n} \subseteq Range(w)
          /\ IsInjective(w) /\ n \notin Range(w)
      BY <2>1, RemoveFirstProps
    <3> QED
      BY <2>1, <3>1
  <2>3. start.ins = h.ins
    BY DEF Graphs
  <2> HIDE DEF w
  <2>4. start = [h EXCEPT !.nodes = w]
    BY DEF w
  <2> HIDE DEF start
  <2> QED
    BY <2>2, <2>3, <2>4, NodesSet
<1>2. k \in Nat
  BY GraphParts
<1>3. b \in A
  <2> HIDE DEF start
  <2> QED
    BY <1>1 DEF Done, Cuts, Follows
<1>4. ASSUME NEW v \in A, NEW i \in 1..k PROVE step(v, i) \in A
  <2>1. CASE v.fails
    BY <2>1
  <2>2. CASE ~v.fails
    <3> DEFINE j == v.graph
               res == Disconnect(n, wiring, j, i)
    <3>1. j \in Graphs(D) /\ Cuts(D, n, start, j)
      OBVIOUS
    <3>2. n \notin NodesOf(j) /\ i \in 1..Len(j.ins[n])
      BY <1>1, <3>1 DEF Cuts
    <3> HIDE DEF j, start
    <3>3. Cuts(D, n, j, res.graph) /\ res.fails \in BOOLEAN
      BY <3>1, <3>2, DisconnectCuts
    <3>4. Cuts(D, n, start, res.graph) /\ res.graph \in Graphs(D)
      <4> DEFINE l == res.graph
      <4>1. Cuts(D, n, start, j) /\ Cuts(D, n, j, l)
        BY <3>1, <3>3
      <4> HIDE DEF l
      <4>2. Cuts(D, n, start, l)
        BY <4>1, CutsOn
      <4> QED
        BY <4>1, <4>2 DEF Cuts, l
    <3>5. res = [graph |-> res.graph, fails |-> res.fails]
      BY DEF Disconnect, Done, Raise
    <3> HIDE DEF res
    <3>6. res \in A
      BY <3>3, <3>4, <3>5
    <3> QED
      BY <2>2, <3>6 DEF j, res
  <2> QED
    BY <2>1, <2>2
<1>5. RemoveNode(h, n, wiring) = [(CHOOSE f : Is(f))[k] EXCEPT !.graph = ForgetOutputs(@, n)]
  BY DEF RemoveNode
<1>6. \A f : RemoveSteps(h, n, wiring, f) <=> Is(f)
  BY DEF RemoveSteps
<1> HIDE DEF A, k, step, b
<1>7. \A v \in A, i \in 1..k : E[<<v, i>>] = step(v, i)
  OBVIOUS
<1>8. PICK f0 \in [0..k -> A] : Rounds(b, k, E, f0)
  <2>1. \A v \in A, i \in 1..k : E[<<v, i>>] \in A
    BY <1>4, <1>7
  <2> HIDE DEF E
  <2> QED
    BY <1>2, <1>3, <2>1, Loop
<1>9. Is(f0)
  <2>1. ASSUME NEW i \in 0..k
        PROVE  f0[i] = IF i = 0 THEN b ELSE step(f0[i - 1], i)
    <3>1. f0[i] = IF i = 0 THEN b ELSE E[<<f0[i - 1], i>>]
      BY <1>8 DEF Rounds
    <3>2. i # 0 => i \in 1..k /\ f0[i - 1] \in A
      BY <1>2, <1>8
    <3> QED
      BY <1>7, <3>1, <3>2
  <2> QED
    BY <2>1
<1> DEFINE f == CHOOSE f : Is(f)
<1>10. Is(f)
  BY <1>9
<1> HIDE DEF f
<1>11. \A i \in 0..k : f[i] \in A
  <2> DEFINE J == {i \in 0..k : f[i] \in A}
  <2>1. 0 \in J
    BY <1>2, <1>3, <1>10
  <2>2. ASSUME NEW i \in 1..k, i - 1 \in J PROVE i \in J
    <3>1. f[i] = step(f[i - 1], i)
      BY <1>2, <1>10
    <3> QED
      BY <1>2, <1>4, <2>2, <3>1
  <2> HIDE DEF J
  <2>3. \A i \in 0..k : i \in J
    BY <1>2, <2>1, <2>2, UpTo
  <2> QED
    BY <2>3 DEF J
<1>12. \A i \in 0..k : Cuts(D, n, start, f[i].graph) /\ f[i].fails \in BOOLEAN
  BY <1>11 DEF A
<1>13. RemoveNode(h, n, wiring) = [f[k] EXCEPT !.graph = ForgetOutputs(@, n)]
  BY <1>5 DEF f
<1>14. RemoveSteps(h, n, wiring, f)
  BY <1>6, <1>10
<1> HIDE DEF start
<1>15. start = [h EXCEPT !.nodes = RemoveFirst(h.nodes, n)]
  BY DEF start
<1> QED
  BY <1>1, <1>12, <1>13, <1>14, <1>15 DEF k

(* A graph that keeps the nodes and their edges, and names no more edges.  *)
LEMMA LessNamed ==
  ASSUME NEW D, NEW h \in Graphs(D),
         NEW inputs \in SUBSET h.inputs, NEW outputs \in SUBSET h.outputs,
         NEW inits \in SUBSET h.inits,
         NEW prev \in Partial(Labels, D), NEW next \in Partial(Labels, Seq(D)),
         DOMAIN prev \subseteq Used(h), DOMAIN next \subseteq Used(h),
         NEW i, i = [nodes |-> h.nodes, ins |-> h.ins, outs |-> h.outs, inputs |-> inputs,
                     outputs |-> outputs, inits |-> inits, prev |-> prev, next |-> next]
  PROVE  i \in Graphs(D) /\ Follows(h, i, {}) /\ NodesOf(i) = NodesOf(h)
<1>1. i \in Graphs(D)
  <2> DEFINE P == Partial(Labels, D)
             Q == Partial(Labels, Seq(D))
  <2>1. h.nodes \in Seq(D) /\ IsInjective(h.nodes)
        /\ h.ins \in [D -> Seq(Labels)] /\ h.outs \in [D -> Seq(Labels)]
        /\ inputs \in SUBSET Labels /\ outputs \in SUBSET Labels /\ inits \in SUBSET Labels
        /\ prev \in P /\ next \in Q
    BY GraphParts
  <2> HIDE DEF P, Q
  <2> QED
    BY <2>1 DEF Graphs, P, Q
<1>2. /\ i.nodes = h.nodes /\ i.ins = h.ins /\ i.outs = h.outs /\ i.prev = prev /\ i.next = next
      /\ i.inputs = inputs /\ i.outputs = outputs /\ i.inits = inits
  OBVIOUS
<1>3. Used(i) \subseteq Used(h)
  <2>1. Sources(i) \subseteq Sources(h) /\ Objects(i) = Objects(h)
        /\ \A m : Reads(i, m) = Reads(h, m) /\ Writes(i, m) = Writes(h, m)
    BY <1>2 DEF Sources, Objects, Reads, Writes
  <2> QED
    BY <1>2, <2>1 DEF Used
<1> QED
  BY <1>1, <1>2, <1>3 DEF Follows, NodesOf, Idle

LEMMA WithoutTyped ==
  ASSUME NEW D, NEW h \in Graphs(D), NEW R
  PROVE  /\ [e \in DOMAIN h.prev \ R |-> h.prev[e]] \in Partial(Labels, D)
         /\ [e \in DOMAIN h.next \ R |-> h.next[e]] \in Partial(Labels, Seq(D))
<1> DEFINE p == h.prev
           q == h.next
           S == Seq(D)
<1>1. p \in Partial(Labels, D) /\ q \in Partial(Labels, S)
  BY GraphParts
<1> HIDE DEF p, q, S
<1>2. [e \in DOMAIN p \ R |-> p[e]] \in Partial(Labels, D)
  BY <1>1, WithoutProps
<1>3. [e \in DOMAIN q \ R |-> q[e]] \in Partial(Labels, S)
  BY <1>1, WithoutProps
<1> QED
  BY <1>2, <1>3 DEF p, q, S

LEMMA ForgetType ==
  ASSUME NEW D, NEW h \in Graphs(D), NEW n
  PROVE  /\ ForgetOutputs(h, n) \in Graphs(D)
         /\ Follows(h, ForgetOutputs(h, n), {})
         /\ NodesOf(ForgetOutputs(h, n)) = NodesOf(h)
<1> DEFINE W == Writes(h, n)
           P == [e \in DOMAIN h.prev \ W |-> h.prev[e]]
           Q == [e \in DOMAIN h.next \ W |-> h.next[e]]
           i == ForgetOutputs(h, n)
           inputs == h.inputs
           outputs == h.outputs
           inits == h.inits
<1>1. P \in Partial(Labels, D) /\ Q \in Partial(Labels, Seq(D))
  <2> HIDE DEF W
  <2> QED
    BY WithoutTyped
<1>2. DOMAIN P \subseteq Used(h) /\ DOMAIN Q \subseteq Used(h)
  BY DEF Used
<1>3. i = [h EXCEPT !.prev = P, !.next = Q]
  BY DEF ForgetOutputs
<1> HIDE DEF P, Q, i
<1>4. i = [nodes |-> h.nodes, ins |-> h.ins, outs |-> h.outs, inputs |-> inputs,
           outputs |-> outputs, inits |-> inits, prev |-> P, next |-> Q]
  BY <1>3 DEF Graphs
<1>5. inputs \in SUBSET h.inputs /\ outputs \in SUBSET h.outputs /\ inits \in SUBSET h.inits
  OBVIOUS
<1> HIDE DEF inputs, outputs, inits
<1>6. i \in Graphs(D) /\ Follows(h, i, {})
  BY <1>1, <1>2, <1>4, <1>5, LessNamed
<1>7. NodesOf(i) = NodesOf(h)
  BY <1>4 DEF NodesOf
<1> QED
  BY <1>6, <1>7 DEF i

LEMMA RemoveTyped ==
  ASSUME NEW D, NEW h, Typed(D, h), NoNode \notin D, NEW n \in D, NEW wiring \in Wirings
  PROVE  Typed(D, RemoveNode(h, n, wiring).graph) /\ RemoveNode(h, n, wiring).fails \in BOOLEAN
<1>1. h \in Graphs(D) /\ NamesTaken(h) /\ Objects(h) = D /\ Len(h.ins[n]) \in 0..Len(h.ins[n])
  <2>1. h \in Graphs(D) /\ NamesTaken(h)
    BY DEF Typed
  <2>2. Len(h.ins[n]) \in Nat
    BY <2>1, GraphParts
  <2> QED
    BY <2>1, <2>2, GraphParts
<1>2. PICK f, start :
           /\ start \in Graphs(D) /\ Follows(h, start, {})
           /\ RemoveSteps(h, n, wiring, f)
           /\ \A i \in 0..Len(h.ins[n]) : Cuts(D, n, start, f[i].graph) /\ f[i].fails \in BOOLEAN
           /\ RemoveNode(h, n, wiring) =
                [f[Len(h.ins[n])] EXCEPT !.graph = ForgetOutputs(@, n)]
  BY <1>1, RemoveLoop
<1> DEFINE v == f[Len(h.ins[n])]
           i == v.graph
<1>3. Cuts(D, n, start, i) /\ v.fails \in BOOLEAN
  BY <1>1, <1>2
<1>4. RemoveNode(h, n, wiring) = [v EXCEPT !.graph = ForgetOutputs(i, n)]
  BY <1>2
<1>5. v \in [graph : Graphs(D), fails : BOOLEAN]
  <2>4. Len(h.ins[n]) \in Nat
    BY <1>1, GraphParts
  <2>7. ASSUME NEW j \in 0..Len(h.ins[n])
        PROVE  f[j] = IF j = 0 THEN Done([h EXCEPT !.nodes = RemoveFirst(@, n)])
                      ELSE IF f[j - 1].fails THEN f[j - 1]
                      ELSE Disconnect(n, wiring, f[j - 1].graph, j)
    <3>1. RemoveSteps(h, n, wiring, f)
      BY <1>2
    <3> QED
      BY <3>1 DEF RemoveSteps
  <2>1. f[0] = Done([h EXCEPT !.nodes = RemoveFirst(@, n)])
    BY <2>4, <2>7
  <2> DEFINE J == {j \in 0..Len(h.ins[n]) : f[j] = [graph |-> f[j].graph, fails |-> f[j].fails]}
  <2>2. 0 \in J
    BY <1>1, <2>1 DEF Done
  <2>3. ASSUME NEW j \in 1..Len(h.ins[n]), j - 1 \in J PROVE j \in J
    <3>1. f[j] = IF f[j - 1].fails THEN f[j - 1] ELSE Disconnect(n, wiring, f[j - 1].graph, j)
      BY <2>4, <2>7
    <3>2. CASE f[j - 1].fails
      BY <2>3, <3>1, <3>2
    <3>3. CASE ~f[j - 1].fails
      <4> DEFINE res == Disconnect(n, wiring, f[j - 1].graph, j)
      <4>1. res = [graph |-> res.graph, fails |-> res.fails]
        BY DEF Disconnect, Done, Raise
      <4> QED
        BY <3>1, <3>3, <4>1, SMTT(30)
    <3> QED
      BY <3>2, <3>3
  <2> DEFINE k == Len(h.ins[n])
  <2> HIDE DEF J, k
  <2>5. \A j \in 0..k : j \in J
    BY <2>2, <2>3, <2>4, UpTo DEF k
  <2>6. v = [graph |-> v.graph, fails |-> v.fails]
    BY <1>1, <2>5 DEF J, k
  <2>8. i \in Graphs(D)
    BY <1>3 DEF Cuts
  <2> QED
    BY <1>3, <2>6, <2>8
<1> HIDE DEF v
<1>6. RemoveNode(h, n, wiring).graph = ForgetOutputs(i, n) /\ RemoveNode(h, n, wiring).fails = v.fails
  BY <1>4, <1>5
<1> HIDE DEF i
<1> DEFINE j == ForgetOutputs(i, n)
<1>7. i \in Graphs(D) /\ j \in Graphs(D) /\ Follows(start, i, {}) /\ Follows(i, j, {})
  BY <1>3, ForgetType DEF Cuts
<1> HIDE DEF j
<1>8. Follows(h, j, {})
  <2>1. Follows(h, i, {})
    BY <1>2, <1>7, FollowsOn
  <2> QED
    BY <1>7, <2>1, FollowsOn
<1>9. Typed(D, j)
  <2>1. Objects(j) = Objects(h)
    BY <1>1, <1>7, GraphParts
  <2> QED
    BY <1>1, <1>7, <1>8, <2>1, TakenKept DEF Typed
<1> QED
  BY <1>3, <1>6, <1>9 DEF j

LEMMA FollowsTyped ==
  ASSUME NEW D, NEW h, Typed(D, h), NEW i \in Graphs(D), Follows(h, i, {})
  PROVE  Typed(D, i)
<1>1. Objects(i) = Objects(h) /\ NamesTaken(h)
  BY GraphParts DEF Typed
<1> QED
  BY <1>1, TakenKept DEF Typed

LEMMA PortTyped ==
  ASSUME NEW D, NEW h, Typed(D, h), NEW x
  PROVE  Typed(D, RemovePort(h, x))
<1>1. h \in Graphs(D)
  BY DEF Typed
<1> DEFINE R == {x}
           out == x \in h.outputs /\ x \notin h.inputs
           P == IF out THEN [e \in DOMAIN h.prev \ R |-> h.prev[e]] ELSE h.prev
           Q == IF out THEN h.next ELSE [e \in DOMAIN h.next \ R |-> h.next[e]]
           i == RemovePort(h, x)
           inputs == h.inputs \ {x}
           outputs == IF out THEN h.outputs \ {x} ELSE h.outputs
           inits == IF x \in h.inputs THEN h.inits ELSE h.inits \ {x}
<1>2. P \in Partial(Labels, D) /\ Q \in Partial(Labels, Seq(D))
  <2>1. h.prev \in Partial(Labels, D) /\ h.next \in Partial(Labels, Seq(D))
    BY <1>1, GraphParts
  <2> HIDE DEF R, out
  <2>2. /\ [e \in DOMAIN h.prev \ R |-> h.prev[e]] \in Partial(Labels, D)
        /\ [e \in DOMAIN h.next \ R |-> h.next[e]] \in Partial(Labels, Seq(D))
    BY <1>1, WithoutTyped
  <2> QED
    BY <2>1, <2>2
<1>3. DOMAIN P \subseteq Used(h) /\ DOMAIN Q \subseteq Used(h)
  BY DEF Used
<1>4. i = [h EXCEPT !.inputs = inputs, !.outputs = outputs, !.inits = inits, !.prev = P, !.next = Q]
  BY DEF RemovePort
<1>5. inputs \in SUBSET h.inputs /\ outputs \in SUBSET h.outputs /\ inits \in SUBSET h.inits
  OBVIOUS
<1> HIDE DEF P, Q, i, inputs, outputs, inits
<1>6. i = [nodes |-> h.nodes, ins |-> h.ins, outs |-> h.outs, inputs |-> inputs,
           outputs |-> outputs, inits |-> inits, prev |-> P, next |-> Q]
  BY <1>1, <1>4 DEF Graphs
<1>7. i \in Graphs(D) /\ Follows(h, i, {})
  BY <1>1, <1>2, <1>3, <1>5, <1>6, LessNamed
<1> QED
  BY <1>7, FollowsTyped DEF i

LEMMA UpdateTyped ==
  ASSUME NEW D, NEW h, Typed(D, h)
  PROVE  Typed(D, UpdateMap(h)) /\ Follows(h, UpdateMap(h), {})
<1> DEFINE u == UpdateMap(h)
           inputs == h.inputs \ h.inits
           outputs == h.outputs \ h.inits
           inits == h.inits
           P == u.prev
           Q == u.next
<1>1. h \in Graphs(D)
  BY DEF Typed
<1>2. /\ u \in Graphs(D) /\ u.nodes = h.nodes /\ u.ins = h.ins /\ u.outs = h.outs
      /\ u.inputs = inputs /\ u.inits = inits /\ u.outputs = outputs
      /\ DOMAIN P = Produced(h) /\ DOMAIN Q = Consumed(h)
  BY <1>1, UpdateMapIs
<1>3. P \in Partial(Labels, D) /\ Q \in Partial(Labels, Seq(D))
  BY <1>2, GraphParts
<1>4. DOMAIN P \subseteq Used(h) /\ DOMAIN Q \subseteq Used(h)
  <2>1. NodesOf(h) \subseteq D /\ \A m \in D : Reads(h, m) \subseteq Used(h) /\ Writes(h, m) \subseteq Used(h)
    BY <1>1, GraphParts, UsedParts
  <2> QED
    BY <1>2, <2>1 DEF Produced, Consumed
<1>5. inputs \in SUBSET h.inputs /\ outputs \in SUBSET h.outputs /\ inits \in SUBSET h.inits
  OBVIOUS
<1> HIDE DEF u, inputs, outputs, inits
<1>6. u = [nodes |-> h.nodes, ins |-> h.ins, outs |-> h.outs, inputs |-> inputs,
           outputs |-> outputs, inits |-> inits, prev |-> P, next |-> Q]
  BY <1>2 DEF Graphs
<1> HIDE DEF P, Q
<1>7. u \in Graphs(D) /\ Follows(h, u, {})
  BY <1>1, <1>3, <1>4, <1>5, <1>6, LessNamed
<1> QED
  BY <1>7, FollowsTyped DEF u

-------------------------------------------------------------------------------
(* __setitem__ and remove_unused_nodes *)

LEMMA TakeOverLoop ==
  ASSUME NEW D, NEW h \in Graphs(D), NEW old \in D, NEW n \in D
  PROVE  \E f :
           /\ f[0] = h.next
           /\ \A i \in 1..Len(h.ins[old]) :
                f[i] = With(f[i - 1], h.ins[old][i],
                            RemoveFirst(Append(At(f[i - 1], h.ins[old][i], << >>), n), old))
           /\ \A i \in 0..Len(h.ins[old]) :
                f[i] \in Partial(Labels, Seq(D)) /\ DOMAIN f[i] \subseteq Used(h)
           /\ TakeOver(h, old, n) = f[Len(h.ins[old])]
<1> DEFINE s == h.ins[old]
           k == Len(s)
           A == {q \in Partial(Labels, Seq(D)) : DOMAIN q \subseteq Used(h)}
           line(q, e) == RemoveFirst(Append(At(q, e, << >>), n), old)
           step(q, i) == With(q, s[i], line(q, s[i]))
           b == h.next
           E == [p \in A \X (1..k) |-> step(p[1], p[2])]
           Is(f) == f = [i \in 0..k |-> IF i = 0 THEN b ELSE step(f[i - 1], i)]
<1>1. k \in Nat /\ b \in A
  <2>1. k \in Nat /\ b \in Partial(Labels, Seq(D))
    BY GraphParts
  <2>2. DOMAIN b \subseteq Used(h)
    BY DEF Used
  <2> QED
    BY <2>1, <2>2
<1>2. ASSUME NEW q \in A, NEW i \in 1..k PROVE step(q, i) \in A
  <2> DEFINE e == s[i]
             S == Seq(D)
             v == line(q, e)
             w == With(q, e, v)
  <2>1. e \in Labels /\ e \in Used(h)
    <3>1. s \in Seq(Labels)
      BY GraphParts
    <3>2. e \in Reads(h, old)
      BY <3>1, SeqRange DEF Reads
    <3> HIDE DEF e
    <3> QED
      BY <3>2, UsedParts, GraphParts
  <2>2. v \in S
    <3>1. At(q, e, << >>) \in S
      <4> HIDE DEF e, S
      <4>1. q \in Partial(Labels, S) /\ << >> \in S
        BY DEF S
      <4> QED
        BY <4>1, PartialProps DEF At
    <3> DEFINE a == Append(At(q, e, << >>), n)
    <3>2. a \in S
      BY <3>1
    <3> HIDE DEF a
    <3>3. RemoveFirst(a, old) \in S
      BY <3>2, RemoveFirstProps
    <3> QED
      BY <3>3 DEF a
  <2>3. step(q, i) = w /\ q \in Partial(Labels, S) /\ DOMAIN q \subseteq Used(h)
    OBVIOUS
  <2> HIDE DEF v, e, S, step
  <2>4. DOMAIN w = DOMAIN q \cup {e}
    BY DEF With
  <2> HIDE DEF w
  <2>5. w = With(q, e, v)
    BY DEF w
  <2>6. w \in Partial(Labels, S)
    BY <2>1, <2>2, <2>3, <2>5, WithType
  <2> QED
    BY <2>1, <2>3, <2>4, <2>6 DEF S
<1>3. TakeOver(h, old, n) = (CHOOSE f : Is(f))[k]
  BY DEF TakeOver
<1>4. \A q, i : step(q, i) = With(q, h.ins[old][i], RemoveFirst(Append(At(q, h.ins[old][i], << >>), n), old))
  OBVIOUS
<1> HIDE DEF A, k, step, b
<1>5. \A q \in A, i \in 1..k : E[<<q, i>>] = step(q, i)
  OBVIOUS
<1>6. PICK f0 \in [0..k -> A] : Rounds(b, k, E, f0)
  <2>1. \A q \in A, i \in 1..k : E[<<q, i>>] \in A
    BY <1>2, <1>5
  <2> HIDE DEF E
  <2> QED
    BY <1>1, <2>1, Loop
<1>7. Is(f0)
  <2>1. ASSUME NEW i \in 0..k
        PROVE  f0[i] = IF i = 0 THEN b ELSE step(f0[i - 1], i)
    <3>1. f0[i] = IF i = 0 THEN b ELSE E[<<f0[i - 1], i>>]
      BY <1>6 DEF Rounds
    <3>2. i # 0 => i \in 1..k /\ f0[i - 1] \in A
      BY <1>1, <1>6
    <3> QED
      BY <1>5, <3>1, <3>2
  <2> QED
    BY <2>1
<1> DEFINE f == CHOOSE f : Is(f)
<1>8. Is(f)
  BY <1>7
<1> HIDE DEF f
<1>9. f[0] = b /\ \A i \in 1..k : f[i] = step(f[i - 1], i)
  BY <1>1, <1>8
<1>10. \A i \in 0..k : f[i] \in A
  <2> DEFINE J == {i \in 0..k : f[i] \in A}
  <2>1. 0 \in J
    BY <1>1, <1>9
  <2>2. ASSUME NEW i \in 1..k, i - 1 \in J PROVE i \in J
    BY <1>1, <1>2, <1>9, <2>2
  <2> HIDE DEF J
  <2>3. \A i \in 0..k : i \in J
    BY <1>1, <2>1, <2>2, UpTo
  <2> QED
    BY <2>3 DEF J
<1>11. TakeOver(h, old, n) = f[k]
  BY <1>3 DEF f
<1>12. \A i \in 0..k : f[i] \in Partial(Labels, Seq(D)) /\ DOMAIN f[i] \subseteq Used(h)
  BY <1>10 DEF A
<1> QED
  BY <1>4, <1>9, <1>11, <1>12 DEF k, b

(* The graph after Replace, when it does not raise.                        *)
Replaced(h, old, n) ==
  [h EXCEPT !.nodes = RemoveFirst(h.nodes, old),
            !.ins = [h.ins EXCEPT ![n] = h.ins[old]],
            !.outs = [h.outs EXCEPT ![n] = h.outs[old]],
            !.next = TakeOver(h, old, n),
            !.prev = [e \in DOMAIN h.prev \cup Writes(h, old) |->
                         IF e \in Writes(h, old) THEN n ELSE h.prev[e]]]

LEMMA ReplacedIs ==
  ASSUME NEW D, NEW h \in Graphs(D), NEW old \in D, NEW n \in D
  PROVE  Replace(h, old, n) \in {Raise(h), Done(Replaced(h, old, n))}
<1> DEFINE k == [h EXCEPT !.nodes = RemoveFirst(@, old),
                         !.ins[n] = h.ins[old],
                         !.outs[n] = h.outs[old],
                         !.next = TakeOver(h, old, n),
                         !.prev = [e \in DOMAIN @ \cup Writes(h, old) |->
                             IF e \in Writes(h, old) THEN n ELSE @[e]]]
<1>1. Replace(h, old, n) \in {Raise(h), Done(k)}
  BY DEF Replace
<1>2. k = Replaced(h, old, n)
  BY DEF Replaced, Graphs
<1> QED
  BY <1>1, <1>2

LEMMA ReplaceTyped ==
  ASSUME NEW D, NEW h, Typed(D, h), NEW old \in NodesOf(h), NEW n \in NodesOf(h), old # n, Idle(h, n)
  PROVE  Typed(D, Replace(h, old, n).graph)
<1>1. h \in Graphs(D) /\ old \in D /\ n \in D
  <2>1. h \in Graphs(D)
    BY DEF Typed
  <2> QED
    BY <2>1, GraphParts
<1> DEFINE N == RemoveFirst(h.nodes, old)
           I == [h.ins EXCEPT ![n] = h.ins[old]]
           O == [h.outs EXCEPT ![n] = h.outs[old]]
           Q == TakeOver(h, old, n)
           W == Writes(h, old)
           P == [e \in DOMAIN h.prev \cup W |-> IF e \in W THEN n ELSE h.prev[e]]
           i == Replaced(h, old, n)
<1>2. i = [h EXCEPT !.nodes = N, !.ins = I, !.outs = O, !.next = Q, !.prev = P]
  BY DEF Replaced
<1>3. N \in Seq(D) /\ IsInjective(N) /\ Range(N) \subseteq NodesOf(h)
  <2> DEFINE s == h.nodes
  <2>1. s \in Seq(D) /\ IsInjective(s) /\ Range(s) = NodesOf(h)
    BY <1>1, GraphParts DEF NodesOf
  <2> HIDE DEF s
  <2>2. RemoveFirst(s, old) \in Seq(D) /\ Range(RemoveFirst(s, old)) \subseteq Range(s)
        /\ IsInjective(RemoveFirst(s, old))
    BY <2>1, RemoveFirstProps
  <2> QED
    BY <2>1, <2>2 DEF s
<1>4. /\ I \in [D -> Seq(Labels)] /\ O \in [D -> Seq(Labels)]
      /\ \A m \in D : I[m] = IF m = n THEN h.ins[old] ELSE h.ins[m]
      /\ \A m \in D : O[m] = IF m = n THEN h.outs[old] ELSE h.outs[m]
  BY <1>1, GraphParts
<1>5. Q \in Partial(Labels, Seq(D)) /\ DOMAIN Q \subseteq Used(h)
  <2>1. Len(h.ins[old]) \in 0..Len(h.ins[old])
    BY <1>1, GraphParts
  <2> HIDE DEF Q
  <2>2. PICK f : /\ \A j \in 0..Len(h.ins[old]) :
                      f[j] \in Partial(Labels, Seq(D)) /\ DOMAIN f[j] \subseteq Used(h)
                 /\ Q = f[Len(h.ins[old])]
    BY <1>1, TakeOverLoop DEF Q
  <2> QED
    BY <2>1, <2>2
<1>6. P \in Partial(Labels, D) /\ DOMAIN P \subseteq Used(h)
  <2>1. /\ DOMAIN h.prev \subseteq Labels /\ \A e \in DOMAIN h.prev : h.prev[e] \in D
        /\ W \subseteq Labels /\ W \subseteq Used(h) /\ DOMAIN h.prev \subseteq Used(h)
    <3>1. h.prev \in Partial(Labels, D) /\ W \subseteq Labels /\ W \subseteq Used(h)
      BY <1>1, GraphParts, UsedParts
    <3>2. DOMAIN h.prev \subseteq Used(h)
      BY DEF Used
    <3> QED
      BY <3>1, <3>2, PartialProps
  <2> HIDE DEF W
  <2>2. P \in [DOMAIN h.prev \cup W -> D] /\ DOMAIN h.prev \cup W \in SUBSET Labels
    BY <1>1, <2>1
  <2>3. DOMAIN P = DOMAIN h.prev \cup W
    OBVIOUS
  <2> HIDE DEF P
  <2> QED
    BY <2>1, <2>2, <2>3, PartialIntro
<1> HIDE DEF N, I, O, P, Q, i
<1>7. /\ i \in Graphs(D) /\ i.nodes = N /\ i.ins = I /\ i.outs = O /\ i.next = Q /\ i.prev = P
      /\ i.inputs = h.inputs /\ i.outputs = h.outputs /\ i.inits = h.inits
  BY <1>1, <1>2, <1>3, <1>4, <1>5, <1>6 DEF Graphs
<1>8. Used(i) \subseteq Used(h)
  <2>1. /\ Sources(i) \subseteq Used(h) /\ i.outputs \subseteq Used(h)
        /\ DOMAIN i.prev \subseteq Used(h) /\ DOMAIN i.next \subseteq Used(h)
    BY <1>5, <1>6, <1>7 DEF Used, Sources
  <2>2. \A m \in D : Reads(h, m) \subseteq Used(h) /\ Writes(h, m) \subseteq Used(h)
    BY <1>1, UsedParts
  <2>3. ASSUME NEW m \in D PROVE Reads(i, m) \subseteq Used(h) /\ Writes(i, m) \subseteq Used(h)
    <3>1. Reads(i, m) = Reads(h, old) \/ Reads(i, m) = Reads(h, m)
      BY <1>4, <1>7 DEF Reads
    <3>2. Writes(i, m) = Writes(h, old) \/ Writes(i, m) = Writes(h, m)
      BY <1>4, <1>7 DEF Writes
    <3> QED
      BY <1>1, <2>2, <3>1, <3>2
  <2>4. UNION {Reads(i, m) \cup Writes(i, m) : m \in Objects(i)} \subseteq Used(h)
    BY <1>7, <2>3, GraphParts
  <2> QED
    BY <2>1, <2>4 DEF Used
<1>9. Follows(h, i, {})
  <2>1. NodesOf(i) \subseteq NodesOf(h) /\ NodesOf(h) \subseteq D
    BY <1>1, <1>3, <1>7, GraphParts DEF NodesOf
  <2>2. \A m \in NodesOf(i) : Idle(i, m) => Idle(h, m)
    BY <1>4, <1>7, <2>1 DEF Idle
  <2> QED
    BY <1>8, <2>1, <2>2 DEF Follows
<1>10. Typed(D, i)
  BY <1>7, <1>9, FollowsTyped
<1> QED
  BY <1>1, <1>10, ReplacedIs DEF Raise, Done, i

LEMMA RemoveUnusedTyped ==
  ASSUME NEW D, NEW h, Typed(D, h)
  PROVE  Typed(D, RemoveUnused(h))
<1> DEFINE fresh == UpdateMap(h)
           degree == [n \in NodesOf(h) |-> OutDegree(fresh, n)]
           S == NodesOf(h) \ Discarded(fresh, degree)
           N == Only(fresh.nodes, S)
           kept == [fresh EXCEPT !.nodes = N]
           less == [kept EXCEPT !.inputs = @ \cap Consumed(kept), !.inits = @ \cap Consumed(kept)]
<1>1. RemoveUnused(h) = UpdateMap(less)
  BY DEF RemoveUnused
<1>2. Typed(D, fresh) /\ fresh \in Graphs(D)
  BY UpdateTyped DEF Typed
<1> HIDE DEF fresh
<1>3. N \in Seq(D) /\ IsInjective(N) /\ Range(N) \subseteq NodesOf(fresh)
  <2> DEFINE s == fresh.nodes
  <2>1. s \in Seq(D) /\ IsInjective(s) /\ Range(s) = NodesOf(fresh)
    BY <1>2, GraphParts DEF NodesOf
  <2> HIDE DEF s, S
  <2>2. Only(s, S) \in Seq(D) /\ Range(Only(s, S)) \subseteq Range(s) /\ IsInjective(Only(s, S))
    BY <2>1, OnlyProps
  <2> QED
    BY <2>1, <2>2 DEF s
<1> HIDE DEF N
<1>4. kept \in Graphs(D) /\ Follows(fresh, kept, {})
  BY <1>2, <1>3, NodesSet
<1> HIDE DEF kept
<1>5. Typed(D, kept)
  BY <1>2, <1>4, FollowsTyped
<1>6. less \in Graphs(D) /\ Follows(kept, less, {})
  <2> DEFINE inputs == kept.inputs \cap Consumed(kept)
             inits == kept.inits \cap Consumed(kept)
             outputs == kept.outputs
             P == kept.prev
             Q == kept.next
  <2>1. P \in Partial(Labels, D) /\ Q \in Partial(Labels, Seq(D))
    BY <1>4, GraphParts
  <2>2. DOMAIN P \subseteq Used(kept) /\ DOMAIN Q \subseteq Used(kept)
    BY DEF Used
  <2>3. inputs \in SUBSET kept.inputs /\ outputs \in SUBSET kept.outputs /\ inits \in SUBSET kept.inits
    OBVIOUS
  <2>4. less = [kept EXCEPT !.inputs = inputs, !.inits = inits]
    OBVIOUS
  <2> HIDE DEF inputs, inits, less
  <2>5. less = [nodes |-> kept.nodes, ins |-> kept.ins, outs |-> kept.outs, inputs |-> inputs,
                outputs |-> outputs, inits |-> inits, prev |-> P, next |-> Q]
    BY <1>4, <2>4 DEF Graphs
  <2> HIDE DEF outputs, P, Q
  <2> QED
    BY <1>4, <2>1, <2>2, <2>3, <2>5, LessNamed
<1> HIDE DEF less
<1>7. Typed(D, less)
  BY <1>5, <1>6, FollowsTyped
<1> QED
  BY <1>1, <1>7, UpdateTyped

-------------------------------------------------------------------------------
(* toposort                                                                *)

LEMMA FlattenProps ==
  ASSUME NEW T, NEW k \in Nat, NEW ss \in [1..k -> Seq(T)]
  PROVE  /\ FlattenSeq(ss) \in Seq(T)
         /\ \A x : x \in Range(FlattenSeq(ss)) <=> \E i \in 1..k : x \in Range(ss[i])
<1>1. ss \in Seq(Seq(T)) /\ Len(ss) = k /\ DOMAIN ss = 1..k
  OBVIOUS
<1>2. CASE k = 0
  <2>1. FlattenSeq(ss) = ss /\ ss = << >>
    BY <1>1, <1>2 DEF FlattenSeq
  <2> QED
    BY <1>2, <2>1 DEF Range
<1>3. CASE k # 0
  <2> DEFINE A == Seq(T)
             step(v, i) == v \o ss[i]
             D == [p \in A \X (1..k) |-> step(p[1], p[2])]
             empty == << >>
             Is(f) == f = [i \in 1..k |-> IF i = 1 THEN ss[i] ELSE f[i - 1] \o ss[i]]
  <2>1. \A v \in A, i \in 1..k : step(v, i) \in A
    BY ConcatIn
  <2>2. empty \in A /\ FlattenSeq(ss) = (CHOOSE f : Is(f))[k]
    BY <1>1, <1>3 DEF FlattenSeq
  <2>3. \A i \in 1..k : step(empty, i) = ss[i]
    OBVIOUS
  <2> HIDE DEF A, step, empty
  <2>4. \A v \in A, i \in 1..k : D[<<v, i>>] = step(v, i)
    OBVIOUS
  <2>5. PICK h \in [0..k -> A] : Rounds(empty, k, D, h)
    <3>1. \A v \in A, i \in 1..k : D[<<v, i>>] \in A
      BY <2>1, <2>4
    <3> HIDE DEF D
    <3> QED
      BY <2>2, <3>1, Loop
  <2>6. \A i \in 1..k : h[i] = step(h[i - 1], i) /\ h[0] = empty
    <3> TAKE i \in 1..k
    <3> HIDE DEF D
    <3>1. h[0] = empty /\ h[i] = D[<<h[i - 1], i>>] /\ h[i - 1] \in A
      <4>1. 0 \in 0..k /\ i \in 0..k /\ i # 0 /\ i - 1 \in 0..k
        OBVIOUS
      <4> QED
        BY <2>5, <4>1 DEF Rounds
    <3> QED
      BY <2>4, <3>1
  <2> DEFINE e == [i \in 1..k |-> h[i]]
  <2>7. Is(e)
    <3>1. ASSUME NEW i \in 1..k PROVE e[i] = IF i = 1 THEN ss[i] ELSE e[i - 1] \o ss[i]
      <4>1. CASE i = 1
        BY <2>3, <2>6, <4>1
      <4>2. CASE i # 1
        <5>1. i - 1 \in 1..k /\ e[i] = step(e[i - 1], i)
          BY <2>6, <4>2
        <5> QED
          BY <4>2, <5>1, SMTT(30) DEF step
      <4> QED
        BY <4>1, <4>2
    <3> QED
      BY <3>1
  <2> HIDE DEF e
  <2> DEFINE f == CHOOSE f : Is(f)
  <2>8. Is(f)
    BY <2>7
  <2> HIDE DEF f
  <2>9. \A i \in 1..k : f[i] = IF i = 1 THEN ss[i] ELSE f[i - 1] \o ss[i]
    BY <2>8
  <2> HIDE DEF Is
  <2> DEFINE good(i) == /\ f[i] \in Seq(T)
                        /\ \A x : x \in Range(f[i]) <=> \E j \in 1..i : x \in Range(ss[j])
             J == {i \in 0..k : i # 0 => good(i)}
  <2>10. 0 \in J
    OBVIOUS
  <2>11. ASSUME NEW i \in 1..k, i - 1 \in J PROVE good(i)
    <3>1. CASE i = 1
      <4>1. f[i] = ss[i] /\ ss[i] \in Seq(T)
        BY <2>9, <3>1
      <4>2. ASSUME NEW x PROVE x \in Range(ss[i]) <=> \E j \in 1..i : x \in Range(ss[j])
        <5>1. i \in 1..i /\ \A j \in 1..i : j = i
          BY <3>1
        <5> QED
          BY <5>1, Zenon
      <4> QED
        BY <4>1, <4>2
    <3>2. CASE i # 1
      <4>0. good(i - 1)
        <5>1. i - 1 # 0
          BY <3>2
        <5> HIDE DEF good
        <5> QED
          BY <2>11, <5>1
      <4> DEFINE s == f[i - 1]
                 t == ss[i]
      <4>1. /\ s \in Seq(T) /\ t \in Seq(T) /\ f[i] = s \o t
            /\ \A x : x \in Range(s) <=> \E j \in 1..i - 1 : x \in Range(ss[j])
        BY <2>9, <3>2, <4>0
      <4>2. \A j : j \in 1..i <=> j \in 1..i - 1 \/ j = i
        OBVIOUS
      <4> HIDE DEF s
      <4>3. s \o t \in Seq(T) /\ Range(s \o t) = Range(s) \cup Range(t)
        BY <4>1, RangeConcatenation, ConcatIn
      <4>4. \A x : x \in Range(f[i]) <=> \E j \in 1..i : x \in Range(ss[j])
        BY <4>1, <4>2, <4>3
      <4> QED
        BY <4>1, <4>3, <4>4
    <3> QED
      BY <3>1, <3>2
  <2>12. k \in J
    <3> HIDE DEF good
    <3>1. \A i \in 1..k : i - 1 \in J => i \in J
      BY <2>11
    <3> HIDE DEF J
    <3>2. \A i \in 0..k : i \in J
      BY <2>10, <3>1, UpTo
    <3> QED
      BY <3>2
  <2>13. good(k)
    <3> HIDE DEF good
    <3> QED
      BY <1>3, <2>12
  <2> HIDE DEF f
  <2>14. \E v : v = FlattenSeq(ss) /\ v \in Seq(T) /\ \A x : x \in Range(v) <=> \E j \in 1..k : x \in Range(ss[j])
    <3>1. FlattenSeq(ss) = f[k]
      BY <2>2 DEF f
    <3> QED
      BY <2>13, <3>1
  <2> QED
    BY <2>14
<1> QED
  BY <1>2, <1>3

LEMMA EnqueueLoop ==
  ASSUME NEW T, NEW queue \in Seq(T), NEW s \in Seq(T), NEW S
  PROVE  \E f : /\ f[0] = queue
                /\ \A i \in 1..Len(s) :
                     f[i] = IF s[i] \in S /\ s[i] \notin Range(f[i - 1])
                            THEN Append(f[i - 1], s[i]) ELSE f[i - 1]
                /\ Enqueue(queue, s, S) = f[Len(s)]
<1> DEFINE A == Seq(T)
           k == Len(s)
           step(v, i) == IF s[i] \in S /\ s[i] \notin Range(v) THEN Append(v, s[i]) ELSE v
           D == [p \in A \X (1..k) |-> step(p[1], p[2])]
           Is(f) == f = [i \in 0..k |-> IF i = 0 THEN queue ELSE step(f[i - 1], i)]
<1>1. \A v \in A, i \in 1..k : step(v, i) \in A
  OBVIOUS
<1>2. queue \in A /\ k \in Nat /\ Enqueue(queue, s, S) = (CHOOSE f : Is(f))[k]
  BY DEF Enqueue
<1> HIDE DEF A, k, step
<1>3. \A v \in A, i \in 1..k : D[<<v, i>>] = step(v, i)
  OBVIOUS
<1>4. PICK h \in [0..k -> A] : Rounds(queue, k, D, h)
  <2>1. \A v \in A, i \in 1..k : D[<<v, i>>] \in A
    BY <1>1, <1>3
  <2> HIDE DEF D
  <2> QED
    BY <1>2, <2>1, Loop
<1>5. Is(h)
  <2>1. ASSUME NEW i \in 0..k
        PROVE  h[i] = IF i = 0 THEN queue ELSE step(h[i - 1], i)
    <3>1. h[i] = IF i = 0 THEN queue ELSE D[<<h[i - 1], i>>]
      BY <1>4 DEF Rounds
    <3>2. i # 0 => i \in 1..k /\ h[i - 1] \in A
      BY <1>2, <1>4
    <3> QED
      BY <1>3, <3>1, <3>2
  <2> QED
    BY <2>1
<1> DEFINE f == CHOOSE f : Is(f)
<1>6. Is(f)
  BY <1>5
<1> HIDE DEF f
<1>7. f[0] = queue /\ \A i \in 1..k : f[i] = step(f[i - 1], i)
  BY <1>2, <1>6
<1> QED
  BY <1>2, <1>7 DEF k, step, f

LEMMA EnqueueProps ==
  ASSUME NEW T, NEW queue \in Seq(T), NEW s \in Seq(T), NEW S
  PROVE  /\ Enqueue(queue, s, S) \in Seq(T)
         /\ Range(Enqueue(queue, s, S)) = Range(queue) \cup (Range(s) \cap S)
         /\ IsInjective(queue) => IsInjective(Enqueue(queue, s, S))
<1>1. PICK f : /\ f[0] = queue
               /\ \A i \in 1..Len(s) :
                    f[i] = IF s[i] \in S /\ s[i] \notin Range(f[i - 1])
                           THEN Append(f[i - 1], s[i]) ELSE f[i - 1]
               /\ Enqueue(queue, s, S) = f[Len(s)]
  BY EnqueueLoop
<1> DEFINE Seen(i) == {s[j] : j \in 1..i}
           J == {i \in 0..Len(s) :
                   /\ f[i] \in Seq(T)
                   /\ Range(f[i]) = Range(queue) \cup (Seen(i) \cap S)
                   /\ IsInjective(queue) => IsInjective(f[i])}
<1>2. 0 \in J
  <2>1. Seen(0) = {} /\ 0 \in 0..Len(s)
    OBVIOUS
  <2> HIDE DEF Seen
  <2> QED
    BY <1>1, <2>1
<1>3. ASSUME NEW i \in 1..Len(s), i - 1 \in J PROVE i \in J
  <2>1. Seen(i) = Seen(i - 1) \cup {s[i]} /\ s[i] \in T
    <3>1. 1..i = 1..(i - 1) \cup {i}
      OBVIOUS
    <3> QED
      BY <3>1
  <2> HIDE DEF Seen
  <2> DEFINE v == f[i - 1]
             w == Append(v, s[i])
  <2>2. /\ v \in Seq(T) /\ Range(v) = Range(queue) \cup (Seen(i - 1) \cap S)
        /\ (IsInjective(queue) => IsInjective(v))
    BY <1>3
  <2>3. CASE s[i] \notin S \/ s[i] \in Range(v)
    <3>1. f[i] = v
      BY <1>1, <2>3
    <3>2. Range(v) = Range(queue) \cup (Seen(i) \cap S)
      BY <2>1, <2>2, <2>3
    <3> QED
      BY <2>2, <3>1, <3>2
  <2>4. CASE s[i] \in S /\ s[i] \notin Range(v)
    <3>2. /\ w \in Seq(T) /\ Range(w) = Range(v) \cup {s[i]}
          /\ IsInjective(v) => IsInjective(w)
      BY <2>1, <2>2, <2>4, AppendRange
    <3>5. f[i] = w
      BY <1>1, <2>4
    <3> HIDE DEF w
    <3>6. Range(w) = Range(queue) \cup (Seen(i) \cap S)
      BY <2>1, <2>2, <2>4, <3>2
    <3> QED
      BY <2>2, <3>2, <3>5, <3>6
  <2> QED
    BY <2>3, <2>4
<1>4. Len(s) \in J
  <2>1. Len(s) \in Nat
    OBVIOUS
  <2> HIDE DEF J
  <2>2. \A i \in 0..Len(s) : i \in J
    BY <1>2, <1>3, <2>1, UpTo
  <2> QED
    BY <2>1, <2>2
<1>5. Seen(Len(s)) = Range(s)
  BY DEF Range
<1> QED
  BY <1>1, <1>4, <1>5

(* The readers of what a node writes.                                      *)
LEMMA ReadersOfIs ==
  ASSUME NEW D, NEW h \in Graphs(D), NEW n \in D
  PROVE  /\ ReadersOf(h, n) \in Seq(D)
         /\ \A m : m \in Range(ReadersOf(h, n)) <=>
                     \E e \in Writes(h, n) : m \in Range(Readers(h, e))
<1> DEFINE s == h.outs[n]
           k == Len(s)
           ss == [i \in DOMAIN s |-> Readers(h, s[i])]
<1>1. s \in Seq(Labels) /\ \A e : Readers(h, e) \in Seq(D)
  BY GraphParts
<1>2. /\ ReadersOf(h, n) = FlattenSeq(ss) /\ Writes(h, n) = Range(s)
  BY DEF ReadersOf, Writes
<1> HIDE DEF s
<1>3. DOMAIN s = 1..k /\ k \in Nat
  BY <1>1, SeqRange
<1>4. ss \in [1..k -> Seq(D)]
  BY <1>1, <1>3
<1>5. \A i \in 1..k : ss[i] = Readers(h, s[i])
  BY <1>3
<1> HIDE DEF ss, k
<1>6. /\ FlattenSeq(ss) \in Seq(D)
      /\ \A x : x \in Range(FlattenSeq(ss)) <=> \E i \in 1..k : x \in Range(ss[i])
  BY <1>3, <1>4, FlattenProps
<1>7. \A e : e \in Range(s) <=> \E i \in 1..k : s[i] = e
  BY <1>3 DEF Range
<1> QED
  BY <1>2, <1>5, <1>6, <1>7

(* A graph whose maps are those that update_map has built.                 *)
Mapped(D, h) ==
  /\ h \in Graphs(D)
  /\ \A e : Range(Readers(h, e)) = ReadersIn(h, e)
  /\ \A e : Prev(h, e) \in WritersOf(h, e) \cup {NoNode}

(* Where the loop of toposort stands: the nodes s are sorted, and those    *)
(* that can be next are in the queue q.                                    *)
Earlier(s, i) == {s[j] : j \in 1..i - 1}

Sorting(D, h, q, s) ==
  /\ q \in Seq(D) /\ IsInjective(q) /\ Range(q) \subseteq NodesOf(h)
  /\ s \in Seq(D) /\ IsInjective(s) /\ Range(s) \subseteq NodesOf(h)
  /\ Range(q) \cap Range(s) = {}
  /\ \A m \in NodesOf(h) \ Range(s) : m \in Range(q) <=> PrevSorted(h, m, Range(s))
  /\ \A i \in 1..Len(s) : PrevSorted(h, s[i], Earlier(s, i))

LEMMA HeadTail ==
  ASSUME NEW T, NEW q \in Seq(T), q # << >>, IsInjective(q)
  PROVE  /\ Head(q) \in T /\ Tail(q) \in Seq(T) /\ IsInjective(Tail(q))
         /\ Head(q) \in Range(q) /\ Range(Tail(q)) = Range(q) \ {Head(q)}
<1> DEFINE t == Tail(q)
           k == Len(q)
<1>1. /\ k \in Nat /\ k >= 1 /\ Head(q) = q[1] /\ q[1] \in T
      /\ t \in Seq(T) /\ Len(t) = k - 1 /\ \A i \in 1..k - 1 : t[i] = q[i + 1]
      /\ DOMAIN q = 1..k /\ DOMAIN t = 1..k - 1
  OBVIOUS
<1> HIDE DEF t, k
<1>7. \A a, b \in 1..k : q[a] = q[b] => a = b
  BY <1>1 DEF IsInjective
<1>8. \A i \in 1..k - 1 : i + 1 \in 1..k /\ i + 1 # 1 /\ 1 \in 1..k
  BY <1>1
<1>2. IsInjective(t)
  <2>1. ASSUME NEW a \in 1..k - 1, NEW b \in 1..k - 1, t[a] = t[b] PROVE a = b
    <3>1. q[a + 1] = q[b + 1]
      BY <1>1, <2>1
    <3>2. a + 1 = b + 1
      BY <1>7, <1>8, <3>1
    <3> QED
      BY <3>2
  <2> QED
    BY <1>1, <2>1 DEF IsInjective
<1>3. ASSUME NEW x \in Range(t) PROVE x \in Range(q) /\ x # q[1]
  <2>1. PICK i \in 1..k - 1 : t[i] = x
    BY <1>1 DEF Range
  <2>2. q[i + 1] = x /\ i + 1 \in 1..k
    BY <1>1, <1>8, <2>1
  <2>3. q[i + 1] # q[1]
    BY <1>7, <1>8
  <2> QED
    BY <1>1, <2>2, <2>3 DEF Range
<1>4. ASSUME NEW x \in Range(q), x # q[1] PROVE x \in Range(t)
  <2>1. PICK i \in 1..k : q[i] = x
    BY <1>1 DEF Range
  <2>2. i - 1 \in 1..k - 1 /\ t[i - 1] = x
    BY <1>1, <1>4, <2>1
  <2> QED
    BY <1>1, <2>2 DEF Range
<1>5. q[1] \in Range(q)
  BY <1>1 DEF Range
<1>6. Range(t) = Range(q) \ {q[1]}
  BY <1>3, <1>4
<1> QED
  BY <1>1, <1>2, <1>5, <1>6 DEF t

LEMMA VisitSorting ==
  ASSUME NEW D, NEW h, Mapped(D, h), NoNode \notin D,
         NEW w \in [queue : Seq(D), sorted : Seq(D)], w.queue # << >>,
         Sorting(D, h, w.queue, w.sorted)
  PROVE  /\ Visit(h, w) \in [queue : Seq(D), sorted : Seq(D)]
         /\ Sorting(D, h, Visit(h, w).queue, Visit(h, w).sorted)
         /\ Len(Visit(h, w).sorted) = Len(w.sorted) + 1
<1> DEFINE q == w.queue
           s == w.sorted
           n == Head(q)
           t == Append(s, n)
           rest == Tail(q)
           next == ReadersOf(h, n)
           S == {m \in D : m \notin Range(t) /\ PrevSorted(h, m, Range(t))}
           r == Enqueue(rest, next, S)
           N == NodesOf(h)
<1>1. h \in Graphs(D) /\ Objects(h) = D /\ N \subseteq D
  BY GraphParts DEF Mapped
<1>2. Visit(h, w) = [queue |-> r, sorted |-> t]
  BY <1>1 DEF Visit
<1>3. /\ q \in Seq(D) /\ IsInjective(q) /\ Range(q) \subseteq N
      /\ s \in Seq(D) /\ IsInjective(s) /\ Range(s) \subseteq N
      /\ Range(q) \cap Range(s) = {}
      /\ \A m \in N \ Range(s) : m \in Range(q) <=> PrevSorted(h, m, Range(s))
      /\ \A i \in 1..Len(s) : PrevSorted(h, s[i], Earlier(s, i))
  BY DEF Sorting
<1>4. q # << >>
  OBVIOUS
<1> HIDE DEF q, s
<1>5. /\ n \in D /\ rest \in Seq(D) /\ IsInjective(rest) /\ n \in Range(q)
      /\ Range(rest) = Range(q) \ {n}
  BY <1>3, <1>4, HeadTail
<1> HIDE DEF n, rest
<1>6. t \in Seq(D) /\ Range(t) = Range(s) \cup {n} /\ IsInjective(t) /\ Len(t) = Len(s) + 1
  BY <1>3, <1>5, AppendRange
<1>7. /\ next \in Seq(D)
      /\ \A m : m \in Range(next) <=> \E e \in Writes(h, n) : m \in ReadersIn(h, e)
  BY <1>1, <1>5, ReadersOfIs DEF Mapped
<1>8. /\ \A i \in 1..Len(s) : t[i] = s[i]
      /\ t[Len(s) + 1] = n
  BY <1>3
<1> HIDE DEF t, next
<1>9. r \in Seq(D) /\ Range(r) = Range(rest) \cup (Range(next) \cap S) /\ IsInjective(r)
  <2> HIDE DEF S
  <2> QED
    BY <1>5, <1>7, EnqueueProps
<1> HIDE DEF r
<1>10. Range(next) \subseteq N
  BY <1>7 DEF ReadersIn
<1>11. Range(r) \subseteq N /\ Range(r) \cap Range(t) = {} /\ Range(t) \subseteq N
  BY <1>3, <1>5, <1>6, <1>9, <1>10
<1>12. \A m, A, B : PrevSorted(h, m, A) /\ A \subseteq B => PrevSorted(h, m, B)
  BY DEF PrevSorted
<1>13. ASSUME NEW m \in N \ Range(t) PROVE m \in Range(r) <=> PrevSorted(h, m, Range(t))
  <2>1. m \in N \ Range(s) /\ m # n /\ m \in D
    BY <1>1, <1>6, <1>13
  <2>2. m \in Range(r) => PrevSorted(h, m, Range(t))
    <3>1. m \in Range(rest) => PrevSorted(h, m, Range(s))
      BY <1>3, <1>5, <2>1
    <3> QED
      BY <1>6, <1>9, <1>12, <3>1
  <2>3. ASSUME PrevSorted(h, m, Range(t)) PROVE m \in Range(r)
    <3>1. CASE PrevSorted(h, m, Range(s))
      BY <1>3, <1>5, <1>9, <2>1, <3>1
    <3>2. CASE ~PrevSorted(h, m, Range(s))
      <4>1. PICK e \in Reads(h, m) : Prev(h, e) \notin Range(s) \cup {NoNode}
        BY <3>2 DEF PrevSorted
      <4>2. Prev(h, e) = n
        BY <1>6, <2>3, <4>1 DEF PrevSorted
      <4>3. e \in Writes(h, n) /\ m \in ReadersIn(h, e)
        BY <1>5, <2>1, <4>1, <4>2 DEF Mapped, WritersOf, ReadersIn
      <4> QED
        BY <1>7, <1>9, <2>1, <2>3, <4>3, <1>13
    <3> QED
      BY <3>1, <3>2
  <2> QED
    BY <2>2, <2>3
<1>14. ASSUME NEW i \in 1..Len(t) PROVE PrevSorted(h, t[i], Earlier(t, i))
  <2>0. Len(s) \in Nat
    BY <1>3
  <2>1. CASE i \in 1..Len(s)
    <3>1. Earlier(t, i) = Earlier(s, i)
      <4>1. \A j \in 1..i - 1 : t[j] = s[j]
        BY <1>8, <2>0, <2>1
      <4> QED
        BY <4>1 DEF Earlier
    <3> QED
      BY <1>3, <1>8, <2>1, <3>1
  <2>2. CASE i = Len(s) + 1
    <3>1. \A x \in Range(s) : x \in Earlier(t, i)
      <4> TAKE x \in Range(s)
      <4>1. PICK j \in 1..Len(s) : s[j] = x
        BY <1>3 DEF Range
      <4>2. j \in 1..i - 1 /\ t[j] = x
        BY <1>8, <2>0, <2>2, <4>1
      <4> QED
        BY <4>2 DEF Earlier
    <3>2. PrevSorted(h, n, Range(s)) /\ t[i] = n
      BY <1>3, <1>5, <1>8, <2>2
    <3> QED
      BY <1>12, <3>1, <3>2
  <2> QED
    BY <1>6, <2>0, <2>1, <2>2
<1>15. Sorting(D, h, r, t)
  BY <1>6, <1>9, <1>11, <1>13, <1>14 DEF Sorting
<1> QED
  BY <1>2, <1>6, <1>9, <1>15 DEF s

LEMMA SortedLoop ==
  ASSUME NEW D, NEW h, Mapped(D, h), NoNode \notin D, NEW start \in Seq(D),
         Sorting(D, h, start, << >>)
  PROVE  \E w \in [queue : Seq(D), sorted : Seq(D)] :
           /\ Sorted(h, start) = w.sorted
           /\ Sorting(D, h, w.queue, w.sorted)
           /\ w.queue = << >> \/ Len(w.sorted) = Len(h.nodes)
<1> DEFINE A == {w \in [queue : Seq(D), sorted : Seq(D)] : Sorting(D, h, w.queue, w.sorted)}
           k == Len(h.nodes)
           b == [queue |-> start, sorted |-> << >>]
           step(v) == IF v.queue = << >> THEN v ELSE Visit(h, v)
           E == [p \in A \X (1..k) |-> step(p[1])]
           Is(f) == f = [i \in 0..k |-> IF i = 0 THEN b ELSE IF f[i - 1].queue = << >>
                                        THEN f[i - 1] ELSE Visit(h, f[i - 1])]
<1>1. b \in A /\ k \in Nat
  <2>1. k \in Nat
    BY GraphParts DEF Mapped
  <2>2. << >> \in Seq(D)
    OBVIOUS
  <2> QED
    BY <2>1, <2>2
<1>2. \A v \in A : step(v) \in A
  <2> TAKE v \in A
  <2>1. CASE v.queue = << >>
    BY <2>1
  <2>2. CASE v.queue # << >>
    <3>1. Visit(h, v) \in A
      BY <2>2, VisitSorting
    <3> QED
      BY <2>2, <3>1
  <2> QED
    BY <2>1, <2>2
<1>3. Sorted(h, start) = (CHOOSE f : Is(f))[k].sorted
  BY DEF Sorted
<1> HIDE DEF k, b
<1>4. ASSUME NEW v \in A, NEW i \in 1..k PROVE E[<<v, i>>] = step(v)
  <2> HIDE DEF A, step
  <2> QED
    OBVIOUS
<1>5. PICK f : f \in [0..k -> A] /\ Rounds(b, k, E, f)
  <2>1. \A v \in A, i \in 1..k : E[<<v, i>>] \in A
    <3> HIDE DEF A, E, step
    <3> QED
      BY <1>2, <1>4
  <2> HIDE DEF E, A
  <2> QED
    BY <1>1, <2>1, Loop
<1>6. Is(f)
  <2>1. ASSUME NEW i \in 0..k PROVE f[i] = IF i = 0 THEN b ELSE step(f[i - 1])
    <3> HIDE DEF A, E, step
    <3>1. f[i] = IF i = 0 THEN b ELSE E[<<f[i - 1], i>>]
      BY <1>5 DEF Rounds
    <3>2. i # 0 => i \in 1..k /\ f[i - 1] \in A
      BY <1>1, <1>5
    <3> QED
      BY <1>4, <3>1, <3>2
  <2>2. f = [i \in 0..k |-> f[i]]
    BY <1>5 DEF Rounds
  <2> HIDE DEF A, E
  <2> QED
    BY <2>1, <2>2
<1> DEFINE round == CHOOSE f2 : Is(f2)
<1>7. Is(round)
  BY <1>6
<1>8. Sorted(h, start) = round[k].sorted
  BY <1>3
<1> HIDE DEF round
<1>9. round[0] = b /\ \A i \in 1..k : round[i] = step(round[i - 1])
  BY <1>1, <1>7
<1> HIDE DEF Is, E
<1> DEFINE Good(i) == /\ round[i] \in A
                      /\ round[i].queue = << >> \/ Len(round[i].sorted) = i
           J == {i \in 0..k : Good(i)}
<1>10. 0 \in J
  <2>1. 0 \in 0..k /\ Len(b.sorted) = 0
    BY <1>1 DEF b
  <2> HIDE DEF A
  <2> QED
    BY <1>1, <1>9, <2>1
<1>11. ASSUME NEW i \in 1..k, i - 1 \in J PROVE Good(i)
  <2> DEFINE v == round[i - 1]
  <2>1. round[i] = step(v) /\ v \in A /\ (v.queue = << >> \/ Len(v.sorted) = i - 1)
    <3> HIDE DEF A, step
    <3> QED
      BY <1>9, <1>11
  <2> HIDE DEF v
  <2>2. CASE v.queue = << >>
    BY <2>1, <2>2
  <2>3. CASE v.queue # << >>
    <3>1. Visit(h, v) \in A /\ Len(Visit(h, v).sorted) = Len(v.sorted) + 1
      BY <2>1, <2>3, VisitSorting
    <3>2. Len(v.sorted) + 1 = i
      BY <2>1, <2>3
    <3> QED
      BY <2>1, <2>3, <3>1, <3>2
  <2> QED
    BY <2>2, <2>3
<1>12. Good(k)
  <2> HIDE DEF Good
  <2>1. \A i \in 1..k : i - 1 \in J => i \in J
    BY <1>11
  <2>2. k \in 0..k
    BY <1>1
  <2> HIDE DEF J
  <2>3. \A i \in 0..k : i \in J
    BY <1>1, <1>10, <2>1, UpTo
  <2> QED
    BY <2>2, <2>3 DEF J
<1> DEFINE w == round[k]
<1>13. w \in A /\ (w.queue = << >> \/ Len(w.sorted) = k) /\ Sorted(h, start) = w.sorted
  BY <1>8, <1>12
<1> HIDE DEF w
<1> QED
  BY <1>13 DEF k

(* A list without repetition is as long as its elements are many.          *)
LEMMA LengthIs ==
  ASSUME NEW T, NEW s \in Seq(T), IsInjective(s)
  PROVE  IsFiniteSet(Range(s)) /\ Cardinality(Range(s)) = Len(s)
<1> DEFINE k == Len(s)
           N == 1..k
           R == Range(s)
<1>1. k \in Nat /\ DOMAIN s = N /\ s \in [N -> R]
  BY DEF Range
<1>2. IsFiniteSet(N) /\ Cardinality(N) = k
  BY <1>1, FS_Interval
<1>3. s \in Bijection(N, R)
  <2>1. \A a, b \in N : s[a] = s[b] => a = b
    BY <1>1 DEF IsInjective
  <2>2. \A y \in R : \E x \in N : s[x] = y
    BY <1>1 DEF Range
  <2> HIDE DEF N, R
  <2> QED
    BY <1>1, <2>1, <2>2 DEF Bijection, Injection, Surjection, IsInjective
<1> HIDE DEF N, R
<1>4. IsFiniteSet(R) /\ Cardinality(R) = Cardinality(N)
  <2>1. ExistsBijection(N, R)
    BY <1>3 DEF ExistsBijection
  <2> QED
    BY <1>2, <2>1, FS_Bijection
<1> QED
  BY <1>2, <1>4 DEF R

(* What toposort does to the order of the nodes: each comes after those    *)
(* that write what it reads, and those that are left out could not.        *)
LEMMA ToposortIs ==
  ASSUME NEW D, NEW h \in Graphs(D), NoNode \notin D
  PROVE  \E s \in Seq(D) :
           /\ IsInjective(s) /\ Range(s) \subseteq NodesOf(h)
           /\ \A i \in 1..Len(s) : PrevSorted(UpdateMap(h), s[i], Earlier(s, i))
           /\ \A m \in NodesOf(h) \ Range(s) : ~PrevSorted(UpdateMap(h), m, Range(s))
           /\ Range(s) # NodesOf(h) => Toposort(h) = Raise(UpdateMap(h))
           /\ Range(s) = NodesOf(h) => Toposort(h) = Done([UpdateMap(h) EXCEPT !.nodes = s])
<1> DEFINE u == UpdateMap(h)
           S == {n \in NodesOf(h) : PrevSorted(u, n, {})}
           start == Only(h.nodes, S)
           N == NodesOf(u)
<1>1. /\ u \in Graphs(D) /\ u.nodes = h.nodes /\ Mapped(D, u)
      /\ h.nodes \in Seq(D) /\ IsInjective(h.nodes)
  <2>1. /\ u \in Graphs(D) /\ u.nodes = h.nodes /\ u.ins = h.ins /\ u.outs = h.outs
        /\ \A e \in Produced(h) : Prev(u, e) \in WritersOf(h, e)
        /\ \A e : e \notin Produced(h) => Prev(u, e) = NoNode
        /\ \A e : Range(Readers(u, e)) = ReadersIn(h, e)
    BY UpdateMapIs
  <2> HIDE DEF u
  <2>2. NodesOf(u) = NodesOf(h)
    BY <2>1 DEF NodesOf
  <2>3. \A m : Reads(u, m) = Reads(h, m) /\ Writes(u, m) = Writes(h, m)
    BY <2>1 DEF Reads, Writes
  <2>4. \A e : WritersOf(u, e) = WritersOf(h, e) /\ ReadersIn(u, e) = ReadersIn(h, e)
    BY <2>2, <2>3 DEF WritersOf, ReadersIn
  <2>5. \A e : Range(Readers(u, e)) = ReadersIn(u, e)
    BY <2>1, <2>4
  <2>6. \A e : Prev(u, e) \in WritersOf(u, e) \cup {NoNode}
    BY <2>1, <2>4
  <2>7. Mapped(D, u)
    BY <2>1, <2>5, <2>6 DEF Mapped
  <2> QED
    BY <2>1, <2>7, GraphParts
<1>2. Toposort(h) = IF Len(Sorted(u, start)) # Len(h.nodes) THEN Raise(u)
                    ELSE Done([u EXCEPT !.nodes = Sorted(u, start)])
  BY DEF Toposort
<1> HIDE DEF u
<1>3. N = NodesOf(h) /\ N = Range(h.nodes)
  BY <1>1 DEF NodesOf
<1>4. Sorting(D, u, start, << >>)
  <2>1. start \in Seq(D) /\ IsInjective(start) /\ Range(start) = S
    <3> DEFINE s == h.nodes
    <3>1. s \in Seq(D) /\ IsInjective(s) /\ Range(s) \cap S = S
      BY <1>1, <1>3
    <3> HIDE DEF s, S
    <3>2. Only(s, S) \in Seq(D) /\ IsInjective(Only(s, S)) /\ Range(Only(s, S)) = S
      BY <3>1, OnlyProps
    <3> QED
      BY <3>2 DEF s
  <2> DEFINE e == << >>
  <2>2. e \in Seq(D) /\ Range(e) = {} /\ IsInjective(e) /\ Len(e) = 0
    BY DEF Range, IsInjective
  <2> HIDE DEF e, start
  <2>3. \A m \in N \ {} : m \in Range(start) <=> PrevSorted(u, m, {})
    BY <1>3, <2>1
  <2>5. Range(start) \subseteq N /\ Range(start) \cap Range(e) = {} /\ Range(e) \subseteq N
    BY <1>3, <2>1, <2>2
  <2>6. /\ \A m \in N \ Range(e) : m \in Range(start) <=> PrevSorted(u, m, Range(e))
        /\ \A i \in 1..Len(e) : PrevSorted(u, e[i], Earlier(e, i))
    BY <2>2, <2>3
  <2> HIDE DEF S
  <2>4. Sorting(D, u, start, e)
    BY <2>1, <2>2, <2>5, <2>6 DEF Sorting
  <2> QED
    BY <2>4 DEF e
<1>5. start \in Seq(D)
  BY <1>4 DEF Sorting
<1> HIDE DEF start
<1>6. PICK w \in [queue : Seq(D), sorted : Seq(D)] :
        /\ Sorted(u, start) = w.sorted
        /\ Sorting(D, u, w.queue, w.sorted)
        /\ w.queue = << >> \/ Len(w.sorted) = Len(u.nodes)
  BY <1>1, <1>4, <1>5, SortedLoop
<1> DEFINE s == w.sorted
           q == w.queue
<1>7. /\ q \in Seq(D) /\ Range(q) \subseteq N
      /\ s \in Seq(D) /\ IsInjective(s) /\ Range(s) \subseteq N
      /\ Range(q) \cap Range(s) = {}
      /\ \A m \in N \ Range(s) : m \in Range(q) <=> PrevSorted(u, m, Range(s))
      /\ \A i \in 1..Len(s) : PrevSorted(u, s[i], Earlier(s, i))
  BY <1>6 DEF Sorting
<1>8. Sorted(u, start) = s /\ (q = << >> \/ Len(s) = Len(h.nodes))
  BY <1>1, <1>6
<1> HIDE DEF s, q
<1>9. Len(s) = Len(h.nodes) <=> Range(s) = N
  <2>1. /\ IsFiniteSet(Range(s)) /\ Cardinality(Range(s)) = Len(s)
        /\ IsFiniteSet(N) /\ Cardinality(N) = Len(h.nodes)
    BY <1>1, <1>3, <1>7, LengthIs
  <2> HIDE DEF N
  <2> QED
    BY <1>7, <2>1, FS_Subset
<1>10. ASSUME NEW m \in N \ Range(s) PROVE ~PrevSorted(u, m, Range(s))
  <2>1. q = << >>
    BY <1>8, <1>9, <1>10
  <2>2. Range(q) = {}
    BY <2>1 DEF Range
  <2> QED
    BY <1>7, <1>10, <2>2
<1>11. /\ Range(s) # N => Toposort(h) = Raise(u)
       /\ Range(s) = N => Toposort(h) = Done([u EXCEPT !.nodes = s])
  BY <1>2, <1>8, <1>9
<1> HIDE DEF N
<1>12. /\ s \in Seq(D) /\ IsInjective(s) /\ Range(s) \subseteq NodesOf(h)
       /\ \A i \in 1..Len(s) : PrevSorted(u, s[i], Earlier(s, i))
       /\ \A m \in NodesOf(h) \ Range(s) : ~PrevSorted(u, m, Range(s))
       /\ Range(s) # NodesOf(h) => Toposort(h) = Raise(u)
       /\ Range(s) = NodesOf(h) => Toposort(h) = Done([u EXCEPT !.nodes = s])
  BY <1>3, <1>7, <1>10, <1>11
<1> QED
  BY <1>12 DEF u

LEMMA ToposortTyped ==
  ASSUME NEW D, NEW h, Typed(D, h), NoNode \notin D
  PROVE  Typed(D, Toposort(h).graph) /\ Toposort(h).fails \in BOOLEAN
<1> DEFINE u == UpdateMap(h)
<1>1. h \in Graphs(D) /\ Typed(D, u) /\ u \in Graphs(D) /\ u.nodes = h.nodes
  BY UpdateTyped, UpdateMapIs DEF Typed
<1>2. PICK s \in Seq(D) :
           /\ IsInjective(s) /\ Range(s) \subseteq NodesOf(h)
           /\ Range(s) # NodesOf(h) => Toposort(h) = Raise(u)
           /\ Range(s) = NodesOf(h) => Toposort(h) = Done([u EXCEPT !.nodes = s])
  BY <1>1, ToposortIs
<1> HIDE DEF u
<1>3. CASE Range(s) # NodesOf(h)
  <2>1. Toposort(h) = Raise(u)
    BY <1>2, <1>3
  <2>2. Raise(u).graph = u /\ Raise(u).fails = TRUE
    BY DEF Raise
  <2> QED
    BY <1>1, <2>1, <2>2
<1>4. CASE Range(s) = NodesOf(h)
  <2> DEFINE i == [u EXCEPT !.nodes = s]
  <2>1. Range(s) \subseteq NodesOf(u)
    BY <1>1, <1>2 DEF NodesOf
  <2>2. i \in Graphs(D) /\ Follows(u, i, {})
    BY <1>1, <1>2, <2>1, NodesSet
  <2> HIDE DEF i
  <2>3. Typed(D, i)
    BY <1>1, <2>2, FollowsTyped
  <2>4. Toposort(h) = Done(i)
    BY <1>2, <1>4 DEF i
  <2> QED
    BY <2>3, <2>4 DEF Done
<1> QED
  BY <1>3, <1>4

-------------------------------------------------------------------------------
(* Types.                                                                  *)

LEMMA InitialTyped ==
  ASSUME NEW h \in Initials
  PROVE  Typed(Range(h.nodes), UpdateMap(Unmapped(h))) /\ Range(h.nodes) \subseteq Names
<1> DEFINE D == Range(h.nodes)
           i == Unmapped(h)
<1>1. /\ h.nodes \in Seq(D) /\ IsInjective(h.nodes) /\ D \subseteq Names
      /\ h.ins \in [D -> Seq(Given)] /\ h.outs \in [D -> Seq(Given)]
  <2>1. h.nodes \in Seq(Names)
    BY InitialsAssumption
  <2>2. \A j \in 1..Len(h.nodes) : h.nodes[j] \in D
    BY <2>1 DEF Range
  <2>3. h.nodes \in Seq(D)
    <3> HIDE DEF D
    <3> QED
      BY <2>1, <2>2
  <2>4. D \subseteq Names
    BY <2>1 DEF Range
  <2> QED
    BY <2>3, <2>4, InitialsAssumption
<1>2. h.inputs \subseteq Given /\ h.outputs \subseteq Given /\ h.inits \subseteq Given
  BY DEF Given
<1>3. i = [nodes |-> h.nodes, ins |-> h.ins, outs |-> h.outs, inputs |-> h.inputs,
           outputs |-> h.outputs, inits |-> h.inits, prev |-> << >>, next |-> << >>]
  BY DEF Unmapped
<1> HIDE DEF D
<1> DEFINE e == << >>
<1>4. e \in Partial(Labels, D) /\ e \in Partial(Labels, Seq(D)) /\ DOMAIN e = {}
  <2>1. DOMAIN e = {} /\ \A T : e \in [{} -> T]
    OBVIOUS
  <2>2. {} \in SUBSET Labels
    OBVIOUS
  <2> HIDE DEF e
  <2> QED
    BY <2>1, <2>2, PartialIntro
<1> HIDE DEF e, i
<1>5. /\ i.nodes = h.nodes /\ i.ins = h.ins /\ i.outs = h.outs /\ i.inputs = h.inputs
      /\ i.outputs = h.outputs /\ i.inits = h.inits /\ i.prev = e /\ i.next = e
  BY <1>3 DEF e
<1>6. i \in Graphs(D)
  <2>1. Given \subseteq Labels
    BY DEF Labels
  <2>2. h.ins \in [D -> Seq(Labels)] /\ h.outs \in [D -> Seq(Labels)]
    <3>1. Seq(Given) \subseteq Seq(Labels)
      BY <2>1
    <3> DEFINE S == Seq(Given)
               T == Seq(Labels)
    <3>2. S \subseteq T /\ h.ins \in [D -> S] /\ h.outs \in [D -> S]
      BY <1>1, <3>1
    <3> HIDE DEF S, T
    <3>3. h.ins \in [D -> T] /\ h.outs \in [D -> T]
      BY <3>2
    <3> QED
      BY <3>3 DEF T
  <2>3. h.inputs \subseteq Labels /\ h.outputs \subseteq Labels /\ h.inits \subseteq Labels
    BY <1>2, <2>1
  <2> QED
    BY <1>1, <1>3, <1>4, <2>2, <2>3 DEF Graphs, e
<1>7. Used(i) \subseteq Given
  <2>1. \A m \in D : Range(h.ins[m]) \subseteq Given /\ Range(h.outs[m]) \subseteq Given
    BY <1>1, SeqRange
  <2>2. Objects(i) = D /\ \A m \in D : Reads(i, m) \subseteq Given /\ Writes(i, m) \subseteq Given
    BY <1>1, <1>5, <2>1 DEF Objects, Reads, Writes
  <2>3. UNION {Reads(i, m) \cup Writes(i, m) : m \in Objects(i)} \subseteq Given
    BY <2>2
  <2>4. Sources(i) \subseteq Given /\ i.outputs \subseteq Given
    BY <1>2, <1>5 DEF Sources
  <2>5. DOMAIN i.prev = {} /\ DOMAIN i.next = {}
    BY <1>4, <1>5
  <2> QED
    BY <2>3, <2>4, <2>5 DEF Used
<1>8. Typed(D, i)
  BY <1>6, <1>7, NamesAssumption DEF Typed, NamesTaken
<1> QED
  BY <1>1, <1>8, UpdateTyped DEF i, D

IInv ==
  /\ Typed(Objects(g), g) /\ Objects(g) \subseteq Names
  /\ raised \in BOOLEAN
  /\ edits \in 0..MaxEdits

LEMMA BareIdle ==
  ASSUME NEW n, Bare(n)
  PROVE  Idle(g, n)
BY DEF Bare, Idle

(* An edit leads on from types to types when its result is typed.          *)
LEMMA EditTyped ==
  ASSUME IInv, NEW name, NEW res, Edit(name, res), NEW D \in SUBSET Names,
         Typed(D, res.graph), res.fails \in BOOLEAN
  PROVE  IInv'
<1>1. g' = res.graph /\ raised' = res.fails /\ edits' = edits + 1 /\ edits < MaxEdits
  BY DEF Edit
<1>2. Objects(g') = D
  BY <1>1, GraphParts DEF Typed
<1>3. edits' \in 0..MaxEdits
  BY <1>1, EditsAssumption DEF IInv
<1> QED
  BY <1>1, <1>2, <1>3 DEF IInv

LEMMA FailsIs ==
  ASSUME NEW h
  PROVE  /\ Done(h).fails = FALSE /\ Raise(h).fails = TRUE
         /\ Done(h).graph = h /\ Raise(h).graph = h
BY DEF Done, Raise

LEMMA EditDone ==
  ASSUME IInv, NEW name, NEW i, Edit(name, Done(i)), NEW D \in SUBSET Names, Typed(D, i)
  PROVE  IInv'
<1> DEFINE res == Done(i)
<1>1. Edit(name, res) /\ res.graph = i /\ res.fails \in BOOLEAN
  BY FailsIs
<1> HIDE DEF res
<1>2. Typed(D, res.graph)
  BY <1>1
<1> QED
  BY <1>1, <1>2, EditTyped

LEMMA InsertFails ==
  ASSUME NEW h, NEW r, NEW k, NEW n, NEW at
  PROVE  /\ InsertAfter(h, r, k, n, at).fails \in BOOLEAN
         /\ InsertBefore(h, r, k, n, at).fails \in BOOLEAN
<1>1. InsertAfter(h, r, k, n, at).fails \in BOOLEAN
  BY FailsIs DEF InsertAfter
<1>2. InsertBefore(h, r, k, n, at).fails \in BOOLEAN
  BY FailsIs DEF InsertBefore
<1> QED
  BY <1>1, <1>2

LEMMA IInvNext ==
  ASSUME IInv, [Next]_vars
  PROVE  IInv'
<1> DEFINE D == Objects(g)
<1>1. /\ Typed(D, g) /\ D \subseteq Names /\ NodesOf(g) \subseteq D /\ NoNode \notin D
      /\ g \in Graphs(D)
  <2>1. Typed(D, g) /\ D \subseteq Names
    BY DEF IInv
  <2> HIDE DEF D
  <2> QED
    BY <2>1, GraphParts, NamesAssumption DEF Typed
<1> HIDE DEF D
<1>2. CASE Add
  <2>1. PICK i \in DOMAIN Fresh : /\ Fresh[i] \notin Objects(g)
                                  /\ Edit(<<"add", Fresh[i]>>, Done(AddNode(g, Fresh[i])))
    BY <1>2 DEF Add
  <2> DEFINE n == Fresh[i]
             j == AddNode(g, n)
  <2>2. n \in Names /\ n \notin D
    <3>1. n \in Range(Fresh)
      BY DEF Range
    <3>2. Range(Fresh) \subseteq Names
      BY DEF Names
    <3>3. n \notin D
      BY <2>1 DEF D
    <3> QED
      BY <3>1, <3>2, <3>3
  <2>3. Edit(<<"add", n>>, Done(j))
    BY <2>1
  <2> HIDE DEF n
  <2>4. Typed(D \cup {n}, j)
    BY <1>1, <2>2, AddNodeType DEF Typed
  <2>5. D \cup {n} \in SUBSET Names
    BY <1>1, <2>2
  <2> HIDE DEF j
  <2> QED
    BY <2>3, <2>4, <2>5, EditDone
<1>3. CASE Insert
  <2>1. PICK n \in NodesOf(g) :
          /\ Bare(n)
          /\ \/ \E r \in NodesOf(g) :
                   \/ \E k \in DOMAIN g.outs[r] :
                        Edit(<<"insert", n>>, InsertAfter(g, r, k, n, FALSE))
                   \/ \E k \in DOMAIN g.ins[r] :
                        Edit(<<"insert", n>>, InsertBefore(g, r, k, n, FALSE))
             \/ \E x \in Sources(g) : Edit(<<"insertAt", n, x>>, InsertAtInput(g, x, n))
             \/ \E y \in g.outputs : Edit(<<"insert", n>>, InsertAtOutput(g, y, n))
    BY <1>3 DEF Insert
  <2>2. Idle(g, n) /\ n \in D
    BY <1>1, <2>1, BareIdle
  <2>3. ASSUME NEW r \in NodesOf(g), NEW k \in DOMAIN g.outs[r],
               Edit(<<"insert", n>>, InsertAfter(g, r, k, n, FALSE))
        PROVE  IInv'
    <3>1. r \in D
      BY <1>1
    <3>2. Typed(D, InsertAfter(g, r, k, n, FALSE).graph)
      BY <1>1, <2>2, <3>1, AfterTyped
    <3> QED
      BY <1>1, <2>3, <3>2, InsertFails, EditTyped
  <2>4. ASSUME NEW r \in NodesOf(g), NEW k \in DOMAIN g.ins[r],
               Edit(<<"insert", n>>, InsertBefore(g, r, k, n, FALSE))
        PROVE  IInv'
    <3>1. r \in D
      BY <1>1
    <3>2. Typed(D, InsertBefore(g, r, k, n, FALSE).graph)
      BY <1>1, <2>2, <3>1, BeforeTyped
    <3> QED
      BY <1>1, <2>4, <3>2, InsertFails, EditTyped
  <2>5. ASSUME NEW x \in Sources(g), Edit(<<"insertAt", n, x>>, InsertAtInput(g, x, n))
        PROVE  IInv'
    <3>1. Typed(D, InsertAtInput(g, x, n).graph)
      BY <1>1, <2>2, AtInputTyped
    <3>2. InsertAtInput(g, x, n).fails \in BOOLEAN
      BY InsertFails, FailsIs DEF InsertAtInput
    <3> QED
      BY <1>1, <2>5, <3>1, <3>2, EditTyped
  <2>6. ASSUME NEW y \in g.outputs, Edit(<<"insert", n>>, InsertAtOutput(g, y, n))
        PROVE  IInv'
    <3>1. Typed(D, InsertAtOutput(g, y, n).graph)
      BY <1>1, <2>2, AtOutputTyped
    <3>2. InsertAtOutput(g, y, n).fails \in BOOLEAN
      BY InsertFails, FailsIs DEF InsertAtOutput
    <3> QED
      BY <1>1, <2>6, <3>1, <3>2, EditTyped
  <2> QED
    BY <2>1, <2>3, <2>4, <2>5, <2>6
<1>4. CASE RemoveAny
  <2>1. ASSUME NEW n \in NodesOf(g), NEW wiring \in Wirings,
               Edit(<<"remove", n, wiring>>, RemoveNode(g, n, wiring))
        PROVE  IInv'
    <3>1. n \in D
      BY <1>1
    <3>2. Typed(D, RemoveNode(g, n, wiring).graph) /\ RemoveNode(g, n, wiring).fails \in BOOLEAN
      BY <1>1, <3>1, RemoveTyped
    <3> QED
      BY <1>1, <2>1, <3>2, EditTyped
  <2>2. ASSUME NEW x, Edit(<<"drop", x>>, Done(RemovePort(g, x))) PROVE IInv'
    BY <1>1, <2>2, PortTyped, EditDone
  <2> QED
    BY <1>4, <2>1, <2>2 DEF RemoveAny
<1>5. CASE SetItem
  <2>1. PICK old \in NodesOf(g), n \in NodesOf(g) :
          old # n /\ Bare(n) /\ Edit(<<"replace", old, n>>, Replace(g, old, n))
    BY <1>5 DEF SetItem
  <2>2. old \in D /\ n \in D /\ Idle(g, n)
    BY <1>1, <2>1, BareIdle
  <2>3. Typed(D, Replace(g, old, n).graph)
    BY <1>1, <2>1, <2>2, ReplaceTyped
  <2>4. Replace(g, old, n).fails \in BOOLEAN
    BY FailsIs DEF Replace
  <2> QED
    BY <1>1, <2>1, <2>3, <2>4, EditTyped
<1>6. CASE Sort
  BY <1>1, <1>6, ToposortTyped, EditTyped DEF Sort
<1>7. CASE Clean
  BY <1>1, <1>7, RemoveUnusedTyped, EditDone DEF Clean
<1>8. CASE Update
  BY <1>1, <1>8, UpdateTyped, EditDone DEF Update
<1>9. CASE UNCHANGED vars
  BY <1>9 DEF vars, IInv
<1> QED
  BY <1>2, <1>3, <1>4, <1>5, <1>6, <1>7, <1>8, <1>9 DEF Next

LEMMA IInvTypes == ASSUME IInv PROVE TypeOK
<1> DEFINE D == Objects(g)
<1>1. g \in Graphs(D) /\ raised \in BOOLEAN /\ edits \in 0..MaxEdits
  BY DEF IInv, Typed
<1> HIDE DEF D
<1>2. /\ IsInjective(g.nodes) /\ NodesOf(g) \subseteq D /\ Objects(g) = D
      /\ g.outs \in [D -> Seq(Labels)]
      /\ g.prev \in Partial(Labels, D) /\ g.next \in Partial(Labels, Seq(D))
  BY <1>1, GraphParts
<1>3. ASSUME NEW e \in DOMAIN g.prev PROVE g.prev[e] \in D
  BY <1>2, PartialProps
<1>4. ASSUME NEW e \in DOMAIN g.next PROVE Range(g.next[e]) \subseteq D
  <2>1. g.next[e] \in Seq(D)
    BY <1>2, PartialProps
  <2> QED
    BY <2>1, SeqRange
<1> QED
  BY <1>1, <1>2, <1>3, <1>4 DEF TypeOK

LEMMA IInvAlways == Spec => []IInv
<1>1. Init => IInv
  <2> SUFFICES ASSUME Init PROVE IInv
    OBVIOUS
  <2>1. PICK h \in Initials : g = UpdateMap(Unmapped(h))
    BY DEF Init
  <2>2. Typed(Range(h.nodes), g) /\ Range(h.nodes) \subseteq Names
    BY <2>1, InitialTyped
  <2>3. Objects(g) = Range(h.nodes)
    BY <2>2, GraphParts DEF Typed
  <2>4. Typed(Objects(g), g) /\ Objects(g) \subseteq Names
    BY <2>2, <2>3
  <2>5. raised \in BOOLEAN /\ edits \in 0..MaxEdits
    <3>1. raised = FALSE /\ edits = 0 /\ MaxEdits \in Nat
      BY EditsAssumption DEF Init
    <3>2. raised \in BOOLEAN
      BY <3>1, Zenon
    <3>3. edits \in 0..MaxEdits
      BY <3>1
    <3> QED
      BY <3>2, <3>3
  <2> QED
    BY <2>4, <2>5 DEF IInv
<1>2. IInv /\ [Next]_vars => IInv'
  BY IInvNext
<1> QED
  BY <1>1, <1>2, PTL DEF Spec

(* Whatever the edits, and whatever they raise, each node is listed once   *)
(* and has its lists of edges, and the two maps lead to nodes: no edit     *)
(* goes by an entry of a map to what is none.                              *)
THEOREM TypeCorrect == Spec => []TypeOK
<1>1. IInv => TypeOK
  BY IInvTypes
<1> QED
  BY <1>1, IInvAlways, PTL

-------------------------------------------------------------------------------
(* What depends on what.  A set of edges is closed when with an edge it    *)
(* has those that the node which writes it reads.                          *)

Closed(h, S) == \A n \in NodesOf(h) : Writes(h, n) \cap S # {} => Reads(h, n) \subseteq S

Cone(h, s) == {e \in Edges(h) : \A S : s \subseteq S /\ Closed(h, S) => e \in S}

More(h, s) == s \cup UNION {Reads(h, n) : n \in {m \in NodesOf(h) : Writes(h, m) \cap s # {}}}

LEMMA FiniteRange ==
  ASSUME NEW T, NEW s \in Seq(T)
  PROVE  IsFiniteSet(Range(s))
<1> DEFINE N == 1..Len(s)
           R == Range(s)
<1>1. Len(s) \in Nat /\ IsFiniteSet(N)
  BY FS_Interval
<1>2. s \in Surjection(N, R)
  BY DEF Surjection, Range
<1> HIDE DEF N, R
<1>4. IsFiniteSet(R)
  BY <1>1, <1>2, FS_Surjection
<1> QED
  BY <1>4 DEF R

LEMMA FiniteConsumed ==
  ASSUME NEW D, NEW h \in Graphs(D)
  PROVE  IsFiniteSet(Consumed(h))
<1> DEFINE N == NodesOf(h)
           R == {Reads(h, n) : n \in N}
           f == [n \in N |-> Reads(h, n)]
<1>1. IsFiniteSet(N)
  BY GraphParts, FiniteRange DEF NodesOf
<1>2. f \in Surjection(N, R)
  BY DEF Surjection
<1>3. \A r \in R : IsFiniteSet(r)
  <2>1. \A n \in N : h.ins[n] \in Seq(Labels)
    BY GraphParts
  <2> QED
    BY <2>1, FiniteRange DEF Reads
<1>4. Consumed(h) = UNION R
  BY DEF Consumed
<1> HIDE DEF N, R, f
<1>6. IsFiniteSet(R)
  BY <1>1, <1>2, FS_Surjection
<1> QED
  BY <1>3, <1>4, <1>6, FS_UNION

LEMMA MoreProps ==
  ASSUME NEW D, NEW h \in Graphs(D), NEW s \in SUBSET Edges(h)
  PROVE  /\ More(h, s) \in SUBSET Edges(h) /\ s \subseteq More(h, s)
         /\ More(h, s) \ s \subseteq Consumed(h)
         /\ \A S : s \subseteq S /\ Closed(h, S) => More(h, s) \subseteq S
         /\ More(h, s) = s => Closed(h, s)
<1>1. \A n \in NodesOf(h) : Reads(h, n) \subseteq Edges(h) /\ Reads(h, n) \subseteq Consumed(h)
  BY DEF Edges, Consumed
<1>2. \A e : e \in More(h, s) <=>
               \/ e \in s
               \/ \E n \in NodesOf(h) : Writes(h, n) \cap s # {} /\ e \in Reads(h, n)
  BY DEF More
<1>3. ASSUME NEW S, s \subseteq S, Closed(h, S) PROVE More(h, s) \subseteq S
  BY <1>2, <1>3 DEF Closed
<1>4. More(h, s) = s => Closed(h, s)
  BY <1>2 DEF Closed
<1> QED
  BY <1>1, <1>2, <1>3, <1>4

LEMMA UpstreamIs ==
  ASSUME NEW D, NEW h \in Graphs(D), NEW es \in SUBSET Edges(h)
  PROVE  Upstream(h, es) = Cone(h, es)
<1> DEFINE E == SUBSET Edges(h)
           Is(f) == f = [s \in E |-> IF More(h, s) = s THEN s ELSE f[More(h, s)]]
           up == CHOOSE f : Is(f)
<1>1. Upstream(h, es) = up[es]
  BY DEF Upstream, More
<1>2. ASSUME NEW s \in E, More(h, s) = s PROVE Cone(h, s) = s
  <2>1. Closed(h, s)
    BY <1>2, MoreProps
  <2> QED
    BY <2>1 DEF Cone
<1>3. ASSUME NEW s \in E PROVE Cone(h, More(h, s)) = Cone(h, s)
  <2>1. \A S : Closed(h, S) => (s \subseteq S <=> More(h, s) \subseteq S)
    BY MoreProps
  <2> QED
    BY <2>1 DEF Cone
<1>4. \E f : Is(f)
  <2> DEFINE f == [s \in E |-> Cone(h, s)]
  <2>1. ASSUME NEW s \in E PROVE f[s] = IF More(h, s) = s THEN s ELSE f[More(h, s)]
    <3>1. More(h, s) \in E
      BY MoreProps
    <3> HIDE DEF E
    <3> QED
      BY <1>2, <1>3, <3>1
  <2>2. f = [s \in E |-> f[s]]
    OBVIOUS
  <2> HIDE DEF E, f
  <2>3. Is(f)
    BY <2>1, <2>2
  <2> QED
    BY <2>3
<1>5. Is(up)
  BY <1>4
<1> HIDE DEF up
<1>6. ASSUME NEW s \in E PROVE up[s] = IF More(h, s) = s THEN s ELSE up[More(h, s)]
  <2> HIDE DEF E
  <2> QED
    BY <1>5
<1> HIDE DEF Is
<1> DEFINE C == Consumed(h)
           Bad == {s \in E : up[s] # Cone(h, s)}
           Left == {C \ s : s \in Bad}
<1>7. Bad = {}
  <2> SUFFICES ASSUME Bad # {} PROVE FALSE
    OBVIOUS
  <2>1. PICK U \in Left : \A V \in Left : V \subseteq U => V = U
    <3>1. Left \subseteq SUBSET C /\ Left # {}
      OBVIOUS
    <3>2. IsFiniteSet(C)
      BY FiniteConsumed
    <3> HIDE DEF Left, C
    <3> QED
      BY <3>1, <3>2, SmallestSet
  <2>2. PICK s \in Bad : U = C \ s
    OBVIOUS
  <2> DEFINE t == More(h, s)
  <2>3. s \in E /\ up[s] # Cone(h, s)
    OBVIOUS
  <2>4. t # s
    BY <1>2, <1>6, <2>3
  <2>5. t \in E /\ s \subseteq t /\ t \ s \subseteq C
    BY <2>3, MoreProps
  <2>6. up[t] # Cone(h, t)
    BY <1>3, <1>6, <2>3, <2>4
  <2> HIDE DEF t, C
  <2>7. C \ t \in Left /\ C \ t \subseteq U
    BY <2>2, <2>5, <2>6
  <2>8. C \ t = C \ s
    BY <2>1, <2>2, <2>7
  <2> QED
    BY <2>4, <2>5, <2>8
<1> QED
  BY <1>1, <1>7

(* u feeds v when every closed set that has what v takes has some of what  *)
(* u gives.                                                                *)
LEMMA FeedsIs ==
  ASSUME NEW D, NEW h \in Graphs(D), NEW u, NEW v \in Vertices(h)
  PROVE  Feeds(h, u, v) <=>
           \A S : Takes(h, v) \subseteq S /\ Closed(h, S) => Gives(h, u) \cap S # {}
<1> DEFINE s == Takes(h, v)
           C == Cone(h, s)
<1>1. s \in SUBSET Edges(h)
  BY DEF Vertices, Takes, Edges
<1>2. Feeds(h, u, v) <=> Gives(h, u) \cap C # {}
  BY <1>1, UpstreamIs DEF Feeds
<1> HIDE DEF s
<1>3. s \subseteq C
  BY <1>1 DEF Cone
<1>4. Closed(h, C)
  <2>1. ASSUME NEW n \in NodesOf(h), NEW e \in Writes(h, n), e \in C PROVE Reads(h, n) \subseteq C
    <3>1. Reads(h, n) \subseteq Edges(h)
      BY DEF Edges
    <3>2. ASSUME NEW S, s \subseteq S, Closed(h, S) PROVE Reads(h, n) \subseteq S
      BY <2>1, <3>2 DEF Cone, Closed
    <3> QED
      BY <3>1, <3>2 DEF Cone
  <2> HIDE DEF C
  <2> QED
    BY <2>1 DEF Closed
<1>5. \A S : s \subseteq S /\ Closed(h, S) => C \subseteq S
  BY DEF Cone
<1> HIDE DEF C
<1>6. Gives(h, u) \cap C # {} <=> \A S : s \subseteq S /\ Closed(h, S) => Gives(h, u) \cap S # {}
  <2>1. ASSUME Gives(h, u) \cap C # {}, NEW S, s \subseteq S, Closed(h, S)
        PROVE  Gives(h, u) \cap S # {}
    BY <1>5, <2>1
  <2> QED
    BY <1>3, <1>4, <2>1
<1> QED
  BY <1>2, <1>6 DEF s

LEMMA ConeProps ==
  ASSUME NEW D, NEW h \in Graphs(D), NEW n \in NodesOf(h)
  PROVE  /\ Closed(h, Cone(h, Reads(h, n))) /\ Reads(h, n) \subseteq Cone(h, Reads(h, n))
         /\ \A S : Reads(h, n) \subseteq S /\ Closed(h, S) => Cone(h, Reads(h, n)) \subseteq S
         /\ \A u : Feeds(h, u, <<"node", n>>) <=> Gives(h, u) \cap Cone(h, Reads(h, n)) # {}
<1> DEFINE s == Reads(h, n)
           C == Cone(h, s)
<1>1. s \in SUBSET Edges(h)
  BY DEF Edges
<1>2. s \subseteq C
  BY <1>1 DEF Cone
<1>3. ASSUME NEW m \in NodesOf(h), NEW e \in Writes(h, m), e \in C PROVE Reads(h, m) \subseteq C
  <2>1. Reads(h, m) \subseteq Edges(h)
    BY DEF Edges
  <2>2. ASSUME NEW S, s \subseteq S, Closed(h, S) PROVE Reads(h, m) \subseteq S
    BY <1>3, <2>2 DEF Cone, Closed
  <2> QED
    BY <2>1, <2>2 DEF Cone
<1>4. \A S : s \subseteq S /\ Closed(h, S) => C \subseteq S
  BY DEF Cone
<1>5. ASSUME NEW u PROVE Feeds(h, u, <<"node", n>>) <=> Gives(h, u) \cap C # {}
  <2>1. Takes(h, <<"node", n>>) = s
    BY DEF Takes
  <2> QED
    BY <1>1, <2>1, UpstreamIs DEF Feeds
<1> HIDE DEF C
<1>6. Closed(h, C)
  BY <1>3 DEF Closed
<1> QED
  BY <1>2, <1>4, <1>5, <1>6 DEF C, s

(* A cycle goes through a node.                                            *)
LEMMA DagIs ==
  ASSUME NEW D, NEW h \in Graphs(D)
  PROVE  Dag(h) <=> \A n \in NodesOf(h) : ~Feeds(h, <<"node", n>>, <<"node", n>>)
<1>1. \A n \in NodesOf(h) : <<"node", n>> \in Vertices(h)
  BY DEF Vertices
<1>2. ASSUME NEW v \in Vertices(h), Feeds(h, v, v)
      PROVE  \E n \in NodesOf(h) : v = <<"node", n>>
  <2>1. CASE v \in {"node"} \X NodesOf(h)
    BY <2>1
  <2>2. CASE v \in {"source"} \X Sources(h)
    <3>1. Takes(h, v) = {}
      BY <2>2 DEF Takes
    <3>2. Closed(h, {})
      BY DEF Closed
    <3>3. Gives(h, v) \cap {} # {}
      BY <1>2, <3>1, <3>2, FeedsIs
    <3> QED
      BY <3>3
  <2>3. CASE v \in {"output"} \X h.outputs
    <3>1. Gives(h, v) = {}
      BY <2>3 DEF Gives
    <3> QED
      BY <1>2, <3>1 DEF Feeds
  <2> QED
    BY <2>1, <2>2, <2>3 DEF Vertices
<1> QED
  BY <1>1, <1>2 DEF Dag

(* The maps of update_map for a graph that is well formed.                 *)
LEMMA WriterIs ==
  ASSUME NEW D, NEW h \in Graphs(D), WellFormed(h), NoNode \notin D
  PROVE  /\ \A n \in NodesOf(h) : \A e \in Writes(h, n) : Prev(UpdateMap(h), e) = n /\ n # NoNode
         /\ \A e \in Sources(h) : Prev(UpdateMap(h), e) = NoNode
         /\ \A m : Reads(UpdateMap(h), m) = Reads(h, m)
<1>1. /\ \A e \in Produced(h) : Prev(UpdateMap(h), e) \in WritersOf(h, e)
      /\ \A e : e \notin Produced(h) => Prev(UpdateMap(h), e) = NoNode
      /\ UpdateMap(h).ins = h.ins
  BY UpdateMapIs
<1>2. ASSUME NEW n \in NodesOf(h), NEW e \in Writes(h, n)
      PROVE  Prev(UpdateMap(h), e) = n /\ n # NoNode
  <2>1. e \in Produced(h)
    BY DEF Produced
  <2>2. Prev(UpdateMap(h), e) \in NodesOf(h) /\ e \in Writes(h, Prev(UpdateMap(h), e))
    BY <1>1, <2>1 DEF WritersOf
  <2>3. NodesOf(h) \subseteq D
    BY GraphParts
  <2> QED
    BY <2>2, <2>3 DEF WellFormed
<1>3. ASSUME NEW e \in Sources(h) PROVE Prev(UpdateMap(h), e) = NoNode
  <2>1. e \notin Produced(h)
    BY DEF WellFormed, Produced
  <2> QED
    BY <1>1, <2>1
<1> QED
  BY <1>1, <1>2, <1>3 DEF Reads

(* In an order of all nodes, each after those whose edges it reads, none   *)
(* depends on a later one.                                                 *)
LEMMA InOrder ==
  ASSUME NEW D, NEW h \in Graphs(D), WellFormed(h), NoNode \notin D,
         NEW s \in Seq(D), IsInjective(s), Range(s) = NodesOf(h),
         \A i \in 1..Len(s) : PrevSorted(UpdateMap(h), s[i], Earlier(s, i)),
         NEW i \in 1..Len(s), NEW j \in 1..Len(s),
         Feeds(h, <<"node", s[i]>>, <<"node", s[j]>>)
  PROVE  i < j
<1> DEFINE Before(l) == Sources(h) \cup UNION {Writes(h, m) : m \in Earlier(s, l)}
<1>1. DOMAIN s = 1..Len(s) /\ Len(s) \in Nat /\ \A l \in 1..Len(s) : s[l] \in NodesOf(h)
  BY SeqRange
<1>2. ASSUME NEW l \in 1..Len(s) PROVE Reads(h, s[l]) \subseteq Before(l)
  <2>1. ASSUME NEW e \in Reads(h, s[l]) PROVE e \in Before(l)
    <3>1. Prev(UpdateMap(h), e) \in Earlier(s, l) \cup {NoNode}
      BY <2>1, WriterIs DEF PrevSorted
    <3>2. CASE e \in Sources(h)
      BY <3>2
    <3>3. CASE e \notin Sources(h)
      <4>1. e \in Produced(h)
        BY <1>1, <3>3 DEF WellFormed
      <4>2. PICK m \in NodesOf(h) : e \in Writes(h, m)
        BY <4>1 DEF Produced
      <4>3. m \in Earlier(s, l)
        BY <3>1, <4>2, WriterIs
      <4> QED
        BY <4>2, <4>3
    <3> QED
      BY <3>2, <3>3
  <2> QED
    BY <2>1
<1>3. ASSUME NEW a \in 1..Len(s), NEW l \in 1..Len(s), Writes(h, s[a]) \cap Before(l) # {}
      PROVE  a < l
  <2>1. PICK e : e \in Writes(h, s[a]) /\ e \in Before(l)
    BY <1>3
  <2>2. e \notin Sources(h)
    BY <1>1, <2>1 DEF WellFormed
  <2>3. PICK m \in Earlier(s, l) : e \in Writes(h, m)
    BY <2>1, <2>2
  <2>4. PICK b \in 1..l - 1 : s[b] = m
    BY <2>3 DEF Earlier
  <2>5. b \in 1..Len(s) /\ b < l
    BY <1>1
  <2>6. s[a] = s[b]
    BY <1>1, <2>1, <2>3, <2>4, <2>5 DEF WellFormed
  <2>7. a = b
    BY <1>1, <2>5, <2>6 DEF IsInjective
  <2> QED
    BY <2>5, <2>7
<1>4. ASSUME NEW a \in 1..Len(s), a < j PROVE Before(a) \subseteq Before(j)
  <2>1. Earlier(s, a) \subseteq Earlier(s, j)
    BY <1>1, <1>4 DEF Earlier
  <2> QED
    BY <2>1
<1>5. Closed(h, Before(j))
  <2>1. ASSUME NEW n \in NodesOf(h), Writes(h, n) \cap Before(j) # {}
        PROVE  Reads(h, n) \subseteq Before(j)
    <3>1. PICK a \in 1..Len(s) : s[a] = n
      BY SeqRange
    <3>2. a < j
      BY <1>3, <2>1, <3>1
    <3>3. Reads(h, n) \subseteq Before(a)
      BY <1>2, <3>1
    <3> HIDE DEF Before
    <3> QED
      BY <1>4, <3>2, <3>3
  <2> HIDE DEF Before
  <2> QED
    BY <2>1 DEF Closed
<1> DEFINE B == Before(j)
<1>6. Closed(h, B) /\ Reads(h, s[j]) \subseteq B
  BY <1>2, <1>5
<1> HIDE DEF B
<1>7. Gives(h, <<"node", s[i]>>) \cap B # {}
  BY <1>1, <1>6, ConeProps
<1>8. Gives(h, <<"node", s[i]>>) = Writes(h, s[i])
  BY DEF Gives
<1> QED
  BY <1>3, <1>7, <1>8 DEF B

(* Where each of the nodes that are left reads an edge of one that is left, *)
(* there is a cycle.                                                       *)
LEMMA Stuck ==
  ASSUME NEW D, NEW h \in Graphs(D), NEW R, R \subseteq NodesOf(h), R # {},
         \A m \in R : \E p \in R : Reads(h, m) \cap Writes(h, p) # {}
  PROVE  \E p \in NodesOf(h) : Feeds(h, <<"node", p>>, <<"node", p>>)
<1> DEFINE T == Consumed(h)
           C(m) == Cone(h, Reads(h, m))
           Bad == {C(m) \cap T : m \in R}
<1>1. PICK S \in Bad : \A U \in Bad : U \subseteq S => U = S
  <2>1. Bad \subseteq SUBSET T /\ Bad # {}
    OBVIOUS
  <2>2. IsFiniteSet(T)
    BY FiniteConsumed
  <2> HIDE DEF Bad, T
  <2> QED
    BY <2>1, <2>2, SmallestSet
<1>2. PICK m \in R : S = C(m) \cap T
  OBVIOUS
<1>3. PICK p \in R : \E x : x \in Reads(h, m) /\ x \in Writes(h, p)
  OBVIOUS
<1>4. PICK e : e \in Reads(h, m) /\ e \in Writes(h, p)
  BY <1>3
<1>5. Closed(h, C(m)) /\ Reads(h, m) \subseteq C(m)
  BY ConeProps
<1>6. Reads(h, p) \subseteq C(m)
  BY <1>4, <1>5 DEF Closed
<1>7. C(p) \subseteq C(m)
  <2> DEFINE V == C(m)
  <2> HIDE DEF V
  <2>1. Closed(h, V) /\ Reads(h, p) \subseteq V /\ p \in NodesOf(h)
    BY <1>5, <1>6 DEF V
  <2>2. C(p) \subseteq V
    BY <2>1, ConeProps
  <2> QED
    BY <2>2 DEF V
<1>8. e \in T
  BY <1>4 DEF Consumed
<1> HIDE DEF C, T
<1>9. C(p) \cap T = C(m) \cap T
  <2>1. C(p) \cap T \in Bad
    BY <1>3
  <2>2. C(p) \cap T \subseteq S
    BY <1>2, <1>7
  <2> HIDE DEF Bad
  <2>3. C(p) \cap T = S
    BY <1>1, <2>1, <2>2
  <2> QED
    BY <1>2, <2>3
<1>10. e \in C(p)
  BY <1>4, <1>5, <1>8, <1>9
<1>11. Gives(h, <<"node", p>>) = Writes(h, p)
  BY DEF Gives
<1>12. Gives(h, <<"node", p>>) \cap C(p) # {}
  BY <1>4, <1>10, <1>11
<1> QED
  BY <1>12, ConeProps DEF C

LEMMA ToposortSorts ==
  ASSUME NEW D, NEW h \in Graphs(D), WellFormed(h), NoNode \notin D
  PROVE  /\ Toposort(h).fails = ~Dag(h)
         /\ ~Toposort(h).fails =>
              /\ NodesOf(Toposort(h).graph) = NodesOf(h)
              /\ \A i, j \in DOMAIN Toposort(h).graph.nodes :
                   Feeds(h, <<"node", Toposort(h).graph.nodes[i]>>,
                            <<"node", Toposort(h).graph.nodes[j]>>) => i < j
<1> DEFINE u == UpdateMap(h)
<1>1. PICK s \in Seq(D) :
           /\ IsInjective(s) /\ Range(s) \subseteq NodesOf(h)
           /\ \A i \in 1..Len(s) : PrevSorted(UpdateMap(h), s[i], Earlier(s, i))
           /\ \A m \in NodesOf(h) \ Range(s) : ~PrevSorted(UpdateMap(h), m, Range(s))
           /\ Range(s) # NodesOf(h) => Toposort(h) = Raise(UpdateMap(h))
           /\ Range(s) = NodesOf(h) => Toposort(h) = Done([UpdateMap(h) EXCEPT !.nodes = s])
  BY ToposortIs
<1>2. u \in Graphs(D)
  BY UpdateMapIs
<1>3. CASE Range(s) = NodesOf(h)
  <2> DEFINE i == [u EXCEPT !.nodes = s]
  <2>1. Toposort(h) = Done(i)
    BY <1>1, <1>3
  <2>2. i.nodes = s
    BY <1>2 DEF Graphs
  <2> HIDE DEF i
  <2>3. Toposort(h).fails = FALSE /\ Toposort(h).graph = i
    BY <2>1, FailsIs
  <2>4. DOMAIN s = 1..Len(s) /\ Len(s) \in Nat
    BY SeqRange
  <2>5. ASSUME NEW a \in 1..Len(s), NEW b \in 1..Len(s),
               Feeds(h, <<"node", s[a]>>, <<"node", s[b]>>)
        PROVE  a < b
    BY <1>1, <1>3, <2>5, InOrder
  <2>6. Dag(h)
    <3>1. ASSUME NEW n \in NodesOf(h), Feeds(h, <<"node", n>>, <<"node", n>>) PROVE FALSE
      <4>1. PICK a \in 1..Len(s) : s[a] = n
        BY <1>3, SeqRange
      <4>2. a < a
        BY <2>5, <3>1, <4>1
      <4> QED
        BY <2>4, <4>2
    <3> QED
      BY <3>1, DagIs
  <2>7. NodesOf(i) = NodesOf(h)
    BY <1>3, <2>2 DEF NodesOf
  <2> QED
    BY <2>2, <2>3, <2>4, <2>5, <2>6, <2>7
<1>4. CASE Range(s) # NodesOf(h)
  <2> DEFINE R == NodesOf(h) \ Range(s)
  <2>1. R # {} /\ R \subseteq NodesOf(h)
    BY <1>1, <1>4
  <2>2. ASSUME NEW m \in R PROVE \E p \in R : Reads(h, m) \cap Writes(h, p) # {}
    <3>1. PICK e \in Reads(h, m) : Prev(u, e) \notin Range(s) \cup {NoNode}
      BY <1>1, WriterIs DEF PrevSorted
    <3>2. e \in Produced(h)
      BY <3>1, UpdateMapIs
    <3>3. PICK p \in NodesOf(h) : e \in Writes(h, p)
      BY <3>2 DEF Produced
    <3>4. Prev(u, e) = p
      BY <3>3, WriterIs
    <3> QED
      BY <3>1, <3>3, <3>4
  <2> HIDE DEF R
  <2>3. ~Dag(h)
    BY <2>1, <2>2, Stuck, DagIs
  <2>4. Toposort(h).fails = TRUE
    BY <1>1, <1>4, FailsIs
  <2> QED
    BY <2>3, <2>4
<1> QED
  BY <1>3, <1>4

LEMMA OpIs ==
  /\ Add => op'[1] = "add"
  /\ Insert => op'[1] \in {"insert", "insertAt"}
  /\ RemoveAny => op'[1] \in {"remove", "drop"}
  /\ SetItem => op'[1] = "replace"
  /\ Sort => op'[1] = "toposort"
  /\ Clean => op'[1] = "unused"
  /\ Update => op'[1] = "update"
<1>1. Add => op'[1] = "add"
  BY DEF Add, Edit
<1>2. Insert => op'[1] \in {"insert", "insertAt"}
  <2>1. ASSUME NEW name, NEW res, Edit(name, res) PROVE op' = name
    BY <2>1 DEF Edit
  <2>2. ASSUME Insert PROVE \E n, x : op' \in {<<"insert", n>>, <<"insertAt", n, x>>}
    <3>1. PICK n \in NodesOf(g) :
             \/ \E r \in NodesOf(g) :
                   \/ \E k \in DOMAIN g.outs[r] :
                        Edit(<<"insert", n>>, InsertAfter(g, r, k, n, FALSE))
                   \/ \E k \in DOMAIN g.ins[r] :
                        Edit(<<"insert", n>>, InsertBefore(g, r, k, n, FALSE))
             \/ \E x \in Sources(g) : Edit(<<"insertAt", n, x>>, InsertAtInput(g, x, n))
             \/ \E y \in g.outputs : Edit(<<"insert", n>>, InsertAtOutput(g, y, n))
      BY <2>2 DEF Insert
    <3>2. op' = <<"insert", n>> \/ \E x : op' = <<"insertAt", n, x>>
      BY <2>1, <3>1
    <3> QED
      BY <3>2
  <2> QED
    BY <2>2
<1>3. RemoveAny => op'[1] \in {"remove", "drop"}
  BY DEF RemoveAny, Edit
<1>4. SetItem => op'[1] = "replace"
  BY DEF SetItem, Edit
<1>5. /\ Sort => op'[1] = "toposort"
      /\ Clean => op'[1] = "unused"
      /\ Update => op'[1] = "update"
  BY DEF Sort, Clean, Update, Edit
<1> QED
  BY <1>1, <1>2, <1>3, <1>4, <1>5

(* toposort.  What is written in the graph decides alone what it does,     *)
(* since update_map comes first: it gives the nodes an order in which none *)
(* comes before one that it depends on, or finds none because there is a   *)
(* cycle.                                                                  *)
THEOREM ToposortIsOrder == Spec => SortsDag
<1>1. ASSUME IInv, [Next]_vars, op'[1] = "toposort", WellFormed(g), ~(UNCHANGED vars)
      PROVE  /\ raised' = ~Dag(g)
             /\ ~raised' =>
                  /\ NodesOf(g') = NodesOf(g)
                  /\ \A i, j \in DOMAIN g'.nodes :
                       Feeds(g, <<"node", g'.nodes[i]>>, <<"node", g'.nodes[j]>>) => i < j
  <2>1. Sort
    BY <1>1, OpIs DEF Next
  <2>2. g' = Toposort(g).graph /\ raised' = Toposort(g).fails
    BY <2>1 DEF Sort, Edit
  <2> DEFINE D == Objects(g)
  <2>3. g \in Graphs(D) /\ NoNode \notin D
    BY <1>1, NamesAssumption DEF IInv, Typed
  <2> HIDE DEF D
  <2> QED
    BY <1>1, <2>2, <2>3, ToposortSorts
<1>2. IInv /\ [Next]_vars =>
        [op'[1] = "toposort" /\ WellFormed(g) =>
          /\ raised' = ~Dag(g)
          /\ ~raised' =>
               /\ NodesOf(g') = NodesOf(g)
               /\ \A i, j \in DOMAIN g'.nodes :
                    Feeds(g, <<"node", g'.nodes[i]>>, <<"node", g'.nodes[j]>>) => i < j ]_vars
  BY <1>1
<1> QED
  BY <1>2, IInvAlways, PTL DEF Spec, SortsDag

-------------------------------------------------------------------------------
(* A node in the way of an edge.  Insertions and bypasses relate two       *)
(* graphs in one way: in i the node n reads a and writes b, and in h, where *)
(* n is not there or has no edges, both are one edge c, which is a or b.   *)

Joined(S, T, a, b, c) ==
  /\ \A x : x # a /\ x # b => (x \in S <=> x \in T)
  /\ c \in T <=> a \in S \/ b \in S
  /\ \A x \in T : x = a \/ x = b => x = c

Split(h, i, n, a, b, c) ==
  /\ a # b /\ (c = a \/ c = b)
  /\ n \in NodesOf(i) /\ NodesOf(h) \subseteq NodesOf(i)
  /\ \A m \in NodesOf(i) : m # n => m \in NodesOf(h)
  /\ Reads(i, n) = {a} /\ Writes(i, n) = {b}
  /\ n \in NodesOf(h) => Reads(h, n) = {} /\ Writes(h, n) = {}
  /\ \A m \in NodesOf(h) : m # n =>
       /\ Joined(Reads(i, m), Reads(h, m), a, b, c)
       /\ Joined(Writes(i, m), Writes(h, m), a, b, c)
       /\ b \notin Writes(i, m)
  /\ Sources(h) = Sources(i) /\ h.outputs = i.outputs
  /\ b \notin Sources(i)
  /\ c # a => a \notin Sources(i) /\ a \notin i.outputs
  /\ c # b => b \notin i.outputs

(* Closed sets of the one graph are closed in the other.                   *)
Lift(S, a, b, c) == {x \in S \cup {a, b} : IF x = a \/ x = b THEN c \in S ELSE x \in S}
Drop(S, a, b, c) == {x \in S \cup {c} : IF x = a \/ x = b THEN x = c /\ a \in S ELSE x \in S}

LEMMA LiftClosed ==
  ASSUME NEW h, NEW i, NEW n, NEW a, NEW b, NEW c, Split(h, i, n, a, b, c), NEW S, Closed(h, S)
  PROVE  /\ Closed(i, Lift(S, a, b, c))
         /\ \A X, Y : Joined(X, Y, a, b, c) =>
              /\ Y \subseteq S => X \subseteq Lift(S, a, b, c)
              /\ X \cap Lift(S, a, b, c) # {} => Y \cap S # {}
<1> DEFINE L == Lift(S, a, b, c)
<1>1. \A x : x # a /\ x # b => (x \in L <=> x \in S)
  BY DEF Lift
<1>2. (a \in L <=> c \in S) /\ (b \in L <=> c \in S)
  BY DEF Lift
<1> HIDE DEF L
<1>3. ASSUME NEW X, NEW Y, Joined(X, Y, a, b, c), Y \subseteq S PROVE X \subseteq L
  BY <1>1, <1>2, <1>3 DEF Joined
<1>4. ASSUME NEW X, NEW Y, Joined(X, Y, a, b, c), X \cap L # {} PROVE Y \cap S # {}
  BY <1>1, <1>2, <1>4 DEF Joined
<1>5. Closed(i, L)
  <2>1. ASSUME NEW m \in NodesOf(i), Writes(i, m) \cap L # {}, m # n PROVE Reads(i, m) \subseteq L
    <3>1. /\ m \in NodesOf(h) /\ Joined(Reads(i, m), Reads(h, m), a, b, c)
          /\ Joined(Writes(i, m), Writes(h, m), a, b, c)
      BY <2>1 DEF Split
    <3>2. Writes(h, m) \cap S # {}
      BY <1>4, <2>1, <3>1
    <3>3. Reads(h, m) \subseteq S
      BY <3>1, <3>2 DEF Closed
    <3> QED
      BY <1>3, <3>1, <3>3
  <2>2. ASSUME Writes(i, n) \cap L # {} PROVE Reads(i, n) \subseteq L
    BY <1>2, <2>2 DEF Split
  <2> QED
    BY <2>1, <2>2 DEF Closed
<1> QED
  BY <1>3, <1>4, <1>5 DEF L

LEMMA DropClosed ==
  ASSUME NEW h, NEW i, NEW n, NEW a, NEW b, NEW c, Split(h, i, n, a, b, c), NEW S, Closed(i, S)
  PROVE  /\ Closed(h, Drop(S, a, b, c))
         /\ \A X, Y : Joined(X, Y, a, b, c) =>
              /\ X \subseteq S => Y \subseteq Drop(S, a, b, c)
              /\ Y \cap Drop(S, a, b, c) # {} /\ b \notin X => X \cap S # {}
<1> DEFINE L == Drop(S, a, b, c)
<1>0. c = a \/ c = b
  BY DEF Split
<1>1. \A x : x # a /\ x # b => (x \in L <=> x \in S)
  BY <1>0 DEF Drop
<1>2. /\ c \in L <=> a \in S
      /\ \A x \in L : x = a \/ x = b => x = c
  BY <1>0 DEF Drop
<1> HIDE DEF L
<1>3. b \in S => a \in S
  BY DEF Closed, Split
<1>4. ASSUME NEW X, NEW Y, Joined(X, Y, a, b, c), X \subseteq S PROVE Y \subseteq L
  BY <1>1, <1>2, <1>3, <1>4 DEF Joined
<1>5. ASSUME NEW X, NEW Y, Joined(X, Y, a, b, c), Y \cap L # {}, b \notin X PROVE X \cap S # {}
  BY <1>0, <1>1, <1>2, <1>5 DEF Joined
<1>6. Closed(h, L)
  <2>1. ASSUME NEW m \in NodesOf(h), Writes(h, m) \cap L # {}, m # n PROVE Reads(h, m) \subseteq L
    <3>1. /\ m \in NodesOf(i) /\ Joined(Reads(i, m), Reads(h, m), a, b, c)
          /\ Joined(Writes(i, m), Writes(h, m), a, b, c) /\ b \notin Writes(i, m)
      BY <2>1 DEF Split
    <3>2. Writes(i, m) \cap S # {}
      BY <1>5, <2>1, <3>1
    <3>3. Reads(i, m) \subseteq S
      BY <3>1, <3>2 DEF Closed
    <3> QED
      BY <1>4, <3>1, <3>3
  <2>2. ASSUME n \in NodesOf(h) PROVE Writes(h, n) \cap L = {}
    BY <2>2 DEF Split
  <2> QED
    BY <2>1, <2>2 DEF Closed
<1> QED
  BY <1>4, <1>5, <1>6 DEF L

LEMMA SplitVertex ==
  ASSUME NEW h, NEW i, NEW n, NEW a, NEW b, NEW c, Split(h, i, n, a, b, c),
         NEW v \in Vertices(i), v # <<"node", n>>
  PROVE  /\ v \in Vertices(h) /\ b \notin Gives(i, v)
         /\ Joined(Takes(i, v), Takes(h, v), a, b, c)
         /\ Joined(Gives(i, v), Gives(h, v), a, b, c)
<1>1. CASE v \in {"node"} \X NodesOf(i)
  <2>1. PICK m \in NodesOf(i) : v = <<"node", m>>
    BY <1>1
  <2>2. m # n
    BY <2>1
  <2>3. /\ Takes(i, v) = Reads(i, m) /\ Takes(h, v) = Reads(h, m)
        /\ Gives(i, v) = Writes(i, m) /\ Gives(h, v) = Writes(h, m)
    BY <2>1 DEF Takes, Gives
  <2>4. /\ m \in NodesOf(h) /\ Joined(Reads(i, m), Reads(h, m), a, b, c)
        /\ Joined(Writes(i, m), Writes(h, m), a, b, c) /\ b \notin Writes(i, m)
    BY <2>2 DEF Split
  <2>5. v \in Vertices(h)
    BY <2>1, <2>4 DEF Vertices
  <2> QED
    BY <2>3, <2>4, <2>5
<1>2. CASE v \in {"source"} \X Sources(i)
  <2>1. PICK x \in Sources(i) : v = <<"source", x>>
    BY <1>2
  <2>2. /\ Takes(i, v) = {} /\ Takes(h, v) = {} /\ Gives(i, v) = {x} /\ Gives(h, v) = {x}
    BY <2>1 DEF Takes, Gives
  <2>3. /\ x # b /\ (x = a => c = a) /\ (c = a \/ c = b) /\ a # b
        /\ v \in Vertices(h)
    BY <2>1 DEF Split, Vertices
  <2>4. Joined({x}, {x}, a, b, c) /\ Joined({}, {}, a, b, c)
    BY <2>3 DEF Joined
  <2> QED
    BY <2>2, <2>3, <2>4
<1>3. CASE v \in {"output"} \X i.outputs
  <2>1. PICK x \in i.outputs : v = <<"output", x>>
    BY <1>3
  <2>2. /\ Takes(i, v) = {x} /\ Takes(h, v) = {x} /\ Gives(i, v) = {} /\ Gives(h, v) = {}
    BY <2>1 DEF Takes, Gives
  <2>3. /\ (x = a => c = a) /\ (x = b => c = b) /\ (c = a \/ c = b) /\ a # b
        /\ v \in Vertices(h)
    BY <2>1 DEF Split, Vertices
  <2>4. Joined({x}, {x}, a, b, c) /\ Joined({}, {}, a, b, c)
    BY <2>3 DEF Joined
  <2> QED
    BY <2>2, <2>3, <2>4
<1> QED
  BY <1>1, <1>2, <1>3 DEF Vertices

(* What depends on what is the same in both.                               *)
LEMMA SplitFeeds ==
  ASSUME NEW D, NEW h \in Graphs(D), NEW i \in Graphs(D),
         NEW n, NEW a, NEW b, NEW c, Split(h, i, n, a, b, c),
         NEW u \in Vertices(i), u # <<"node", n>>,
         NEW v \in Vertices(i), v # <<"node", n>>
  PROVE  Feeds(h, u, v) <=> Feeds(i, u, v)
<1>1. /\ u \in Vertices(h) /\ b \notin Gives(i, u) /\ Joined(Gives(i, u), Gives(h, u), a, b, c)
      /\ v \in Vertices(h) /\ Joined(Takes(i, v), Takes(h, v), a, b, c)
  BY SplitVertex
<1>2. ASSUME Feeds(i, u, v), NEW S, Takes(h, v) \subseteq S, Closed(h, S)
      PROVE  Gives(h, u) \cap S # {}
  <2> DEFINE L == Lift(S, a, b, c)
  <2>1. /\ Closed(i, L)
        /\ Takes(i, v) \subseteq L
        /\ Gives(i, u) \cap L # {} => Gives(h, u) \cap S # {}
    BY <1>1, <1>2, LiftClosed
  <2> HIDE DEF L
  <2> QED
    BY <1>2, <2>1, FeedsIs
<1>3. ASSUME Feeds(h, u, v), NEW S, Takes(i, v) \subseteq S, Closed(i, S)
      PROVE  Gives(i, u) \cap S # {}
  <2> DEFINE L == Drop(S, a, b, c)
  <2>1. /\ Closed(h, L)
        /\ Takes(h, v) \subseteq L
        /\ Gives(h, u) \cap L # {} => Gives(i, u) \cap S # {}
    BY <1>1, <1>3, DropClosed
  <2> HIDE DEF L
  <2> QED
    BY <1>1, <1>3, <2>1, FeedsIs
<1>4. Feeds(i, u, v) => Feeds(h, u, v)
  BY <1>1, <1>2, FeedsIs
<1>5. Feeds(h, u, v) => Feeds(i, u, v)
  BY <1>3, FeedsIs
<1> QED
  BY <1>4, <1>5

LEMMA SplitDagDown ==
  ASSUME NEW D, NEW h \in Graphs(D), NEW i \in Graphs(D),
         NEW n, NEW a, NEW b, NEW c, Split(h, i, n, a, b, c), Dag(i)
  PROVE  Dag(h)
<1>1. ASSUME NEW m \in NodesOf(h), Feeds(h, <<"node", m>>, <<"node", m>>) PROVE FALSE
  <2>1. CASE m = n
    <3>1. Gives(h, <<"node", m>>) = {}
      BY <2>1 DEF Gives, Split
    <3> QED
      BY <1>1, <3>1 DEF Feeds
  <2>2. CASE m # n
    <3>1. m \in NodesOf(i) /\ <<"node", m>> \in Vertices(i) /\ <<"node", m>> # <<"node", n>>
      BY <2>2 DEF Split, Vertices
    <3>2. Feeds(i, <<"node", m>>, <<"node", m>>)
      BY <1>1, <3>1, SplitFeeds
    <3> QED
      BY <3>1, <3>2 DEF Dag
  <2> QED
    BY <2>1, <2>2
<1> QED
  BY <1>1, DagIs

LEMMA SplitDagUp ==
  ASSUME NEW D, NEW h \in Graphs(D), NEW i \in Graphs(D),
         NEW n, NEW a, NEW b, NEW c, Split(h, i, n, a, b, c), Dag(h), WellFormed(h)
  PROVE  Dag(i)
<1>0. /\ a # b /\ Reads(i, n) = {a} /\ Writes(i, n) = {b} /\ n \in NodesOf(i)
      /\ \A m \in NodesOf(i) : m # n =>
           /\ m \in NodesOf(h) /\ b \notin Writes(i, m)
           /\ Joined(Reads(i, m), Reads(h, m), a, b, c)
           /\ Joined(Writes(i, m), Writes(h, m), a, b, c)
  BY DEF Split
<1>1. ASSUME NEW m \in NodesOf(i), m # n, Feeds(i, <<"node", m>>, <<"node", m>>) PROVE FALSE
  <2>1. /\ m \in NodesOf(h) /\ <<"node", m>> \in Vertices(i) /\ <<"node", m>> \in Vertices(h)
        /\ <<"node", m>> # <<"node", n>>
    BY <1>0, <1>1 DEF Vertices
  <2>2. Feeds(h, <<"node", m>>, <<"node", m>>)
    BY <1>1, <2>1, SplitFeeds
  <2> QED
    BY <2>1, <2>2 DEF Dag
<1>2. \E S : Closed(i, S) /\ a \in S /\ b \notin S
  <2>1. CASE \A m \in NodesOf(i) : a \notin Writes(i, m)
    <3>1. Closed(i, {a}) /\ b \notin {a}
      BY <1>0, <2>1 DEF Closed
    <3> QED
      BY <3>1
  <2>2. CASE \E m \in NodesOf(i) : a \in Writes(i, m)
    <3>1. PICK r \in NodesOf(i) : a \in Writes(i, r)
      BY <2>2
    <3>2. /\ r # n /\ r \in NodesOf(h) /\ c \in Writes(h, r)
          /\ Joined(Reads(i, r), Reads(h, r), a, b, c)
      BY <1>0, <3>1 DEF Joined
    <3>3. PICK S : Reads(h, r) \subseteq S /\ Closed(h, S) /\ Writes(h, r) \cap S = {}
      <4>1. <<"node", r>> \in Vertices(h) /\ ~Feeds(h, <<"node", r>>, <<"node", r>>)
        BY <3>2, DagIs DEF Vertices
      <4>2. Takes(h, <<"node", r>>) = Reads(h, r) /\ Gives(h, <<"node", r>>) = Writes(h, r)
        BY DEF Takes, Gives
      <4> QED
        BY <4>1, <4>2, FeedsIs
    <3> DEFINE L == Lift(S, a, b, c)
    <3>4. Closed(i, L) /\ Reads(i, r) \subseteq L
      BY <3>2, <3>3, LiftClosed
    <3>5. c \notin S
      BY <3>2, <3>3
    <3>6. a \notin L /\ b \notin L
      BY <3>5 DEF Lift
    <3> HIDE DEF L
    <3>7. ASSUME NEW m \in NodesOf(i), a \in Writes(i, m) PROVE m = r
      <4>1. m \in NodesOf(h) /\ c \in Writes(h, m)
        BY <1>0, <3>7 DEF Joined
      <4> QED
        BY <3>2, <4>1 DEF WellFormed
    <3>8. Closed(i, L \cup {a})
      <4>1. ASSUME NEW m \in NodesOf(i), Writes(i, m) \cap (L \cup {a}) # {}
            PROVE  Reads(i, m) \subseteq L
        <5>1. CASE a \in Writes(i, m)
          BY <3>4, <3>7, <5>1
        <5>2. CASE a \notin Writes(i, m)
          BY <3>4, <4>1, <5>2 DEF Closed
        <5> QED
          BY <5>1, <5>2
      <4> QED
        BY <4>1 DEF Closed
    <3> QED
      BY <1>0, <3>6, <3>8
  <2> QED
    BY <2>1, <2>2
<1>3. ~Feeds(i, <<"node", n>>, <<"node", n>>)
  <2>1. <<"node", n>> \in Vertices(i)
    BY <1>0 DEF Vertices
  <2>2. Takes(i, <<"node", n>>) = {a} /\ Gives(i, <<"node", n>>) = {b}
    BY <1>0 DEF Takes, Gives
  <2>3. PICK S : Closed(i, S) /\ a \in S /\ b \notin S
    BY <1>2
  <2>4. Takes(i, <<"node", n>>) \subseteq S /\ Gives(i, <<"node", n>>) \cap S = {}
    BY <2>2, <2>3
  <2> QED
    BY <2>1, <2>3, <2>4, FeedsIs
<1> QED
  BY <1>1, <1>3, DagIs

(* The edge that the node comes into the way of has an origin in h.        *)
LEMMA SplitWellUp ==
  ASSUME NEW h, NEW i, NEW n, NEW a, NEW b, NEW c, Split(h, i, n, a, b, c), WellFormed(h),
         c \in Sources(h) \cup Produced(h), \A m \in NodesOf(i) : IsInjective(i.outs[m])
  PROVE  WellFormed(i)
<1>0. /\ a # b /\ Reads(i, n) = {a} /\ Writes(i, n) = {b} /\ n \in NodesOf(i)
      /\ (c = a \/ c = b) /\ (c # a => a \notin Sources(i)) /\ b \notin Sources(i)
      /\ (c # a => a \notin i.outputs) /\ (c # b => b \notin i.outputs)
      /\ Sources(h) = Sources(i) /\ h.outputs = i.outputs
      /\ \A m \in NodesOf(i) : m # n =>
           /\ m \in NodesOf(h) /\ b \notin Writes(i, m)
           /\ Joined(Reads(i, m), Reads(h, m), a, b, c)
           /\ Joined(Writes(i, m), Writes(h, m), a, b, c)
  BY DEF Split
<1>1. ASSUME NEW m \in NodesOf(i) PROVE Writes(i, m) \cap Sources(i) = {}
  <2>1. CASE m = n
    BY <1>0, <2>1
  <2>2. CASE m # n
    <3>1. Writes(h, m) \cap Sources(i) = {} /\ Joined(Writes(i, m), Writes(h, m), a, b, c)
      BY <1>0, <2>2 DEF WellFormed
    <3> QED
      BY <1>0, <2>2, <3>1 DEF Joined
  <2> QED
    BY <2>1, <2>2
<1>2. ASSUME NEW m \in NodesOf(i), NEW l \in NodesOf(i), m # l
      PROVE  Writes(i, m) \cap Writes(i, l) = {}
  <2>1. CASE m = n \/ l = n
    BY <1>0, <1>2, <2>1
  <2>2. CASE m # n /\ l # n
    <3>1. /\ Writes(h, m) \cap Writes(h, l) = {}
          /\ Joined(Writes(i, m), Writes(h, m), a, b, c)
          /\ Joined(Writes(i, l), Writes(h, l), a, b, c)
      BY <1>0, <1>2, <2>2 DEF WellFormed
    <3> QED
      BY <1>0, <2>2, <3>1 DEF Joined
  <2> QED
    BY <2>1, <2>2
<1>3. b \in Produced(i)
  BY <1>0 DEF Produced
<1>4. \A x \in Produced(h) : x # a /\ x # b => x \in Produced(i)
  <2> TAKE x \in Produced(h)
  <2> HAVE x # a /\ x # b
  <2>1. PICK m \in NodesOf(h) : x \in Writes(h, m)
    BY DEF Produced
  <2>2. m \in NodesOf(i) /\ m # n /\ Joined(Writes(i, m), Writes(h, m), a, b, c)
    BY <2>1 DEF Split
  <2>3. x \in Writes(i, m)
    BY <2>1, <2>2 DEF Joined
  <2> QED
    BY <2>2, <2>3 DEF Produced
<1>5. c \in Produced(h) => a \in Produced(i)
  <2> HAVE c \in Produced(h)
  <2>1. PICK m \in NodesOf(h) : c \in Writes(h, m)
    BY DEF Produced
  <2>2. m \in NodesOf(i) /\ m # n /\ Joined(Writes(i, m), Writes(h, m), a, b, c)
    BY <2>1 DEF Split
  <2>3. a \in Writes(i, m)
    BY <1>0, <2>1, <2>2 DEF Joined
  <2> QED
    BY <2>2, <2>3 DEF Produced
<1>6. a \in Sources(i) \cup Produced(i)
  <2>1. c \in Sources(h) => c = a
    BY <1>0
  <2> QED
    BY <1>0, <1>5, <2>1
<1>7. ASSUME NEW m \in NodesOf(i) PROVE Reads(i, m) \subseteq Sources(i) \cup Produced(i)
  <2>1. CASE m = n
    BY <1>0, <1>6, <2>1
  <2>2. CASE m # n
    <3>1. /\ Reads(h, m) \subseteq Sources(i) \cup Produced(h)
          /\ Joined(Reads(i, m), Reads(h, m), a, b, c)
      BY <1>0, <2>2 DEF WellFormed
    <3> QED
      BY <1>3, <1>4, <1>6, <3>1 DEF Joined
  <2> QED
    BY <2>1, <2>2
<1>8. i.outputs \subseteq Produced(i)
  <2>1. i.outputs \subseteq Produced(h)
    BY <1>0 DEF WellFormed
  <2> QED
    BY <1>0, <1>3, <1>4, <1>5, <2>1
<1> QED
  BY <1>1, <1>2, <1>7, <1>8 DEF WellFormed

LEMMA SplitWellDown ==
  ASSUME NEW h, NEW i, NEW n, NEW a, NEW b, NEW c, Split(h, i, n, a, b, c), WellFormed(i),
         \A m \in NodesOf(h) : IsInjective(h.outs[m])
  PROVE  WellFormed(h)
<1>0. /\ a # b /\ Reads(i, n) = {a} /\ Writes(i, n) = {b} /\ n \in NodesOf(i)
      /\ (c = a \/ c = b) /\ (c # a => a \notin Sources(i)) /\ b \notin Sources(i)
      /\ (c # a => a \notin i.outputs) /\ (c # b => b \notin i.outputs)
      /\ Sources(h) = Sources(i) /\ h.outputs = i.outputs
      /\ n \in NodesOf(h) => Reads(h, n) = {} /\ Writes(h, n) = {}
      /\ \A m \in NodesOf(h) : m # n =>
           /\ m \in NodesOf(i) /\ b \notin Writes(i, m)
           /\ Joined(Reads(i, m), Reads(h, m), a, b, c)
           /\ Joined(Writes(i, m), Writes(h, m), a, b, c)
  BY DEF Split
<1>1. ASSUME NEW m \in NodesOf(h) PROVE Writes(h, m) \cap Sources(h) = {}
  <2>1. CASE m = n
    BY <1>0, <2>1
  <2>2. CASE m # n
    <3>1. Writes(i, m) \cap Sources(i) = {} /\ Joined(Writes(i, m), Writes(h, m), a, b, c)
      BY <1>0, <2>2 DEF WellFormed
    <3> QED
      BY <1>0, <2>2, <3>1 DEF Joined
  <2> QED
    BY <2>1, <2>2
<1>2. ASSUME NEW m \in NodesOf(h), NEW l \in NodesOf(h), m # l
      PROVE  Writes(h, m) \cap Writes(h, l) = {}
  <2>1. CASE m = n \/ l = n
    BY <1>0, <1>2, <2>1
  <2>2. CASE m # n /\ l # n
    <3>1. /\ Writes(i, m) \cap Writes(i, l) = {}
          /\ Joined(Writes(i, m), Writes(h, m), a, b, c)
          /\ Joined(Writes(i, l), Writes(h, l), a, b, c)
      BY <1>0, <1>2, <2>2 DEF WellFormed
    <3> QED
      BY <1>0, <2>2, <3>1 DEF Joined
  <2> QED
    BY <2>1, <2>2
<1>4. ASSUME NEW x \in Produced(i), x # b
      PROVE  /\ x # a => x \in Produced(h)
             /\ x = a => c \in Produced(h)
  <2>1. PICK m \in NodesOf(i) : x \in Writes(i, m)
    BY DEF Produced
  <2>2. m \in NodesOf(h) /\ m # n /\ Joined(Writes(i, m), Writes(h, m), a, b, c)
    BY <1>0, <1>4, <2>1 DEF Split
  <2>3. (x # a => x \in Writes(h, m)) /\ (x = a => c \in Writes(h, m))
    BY <1>4, <2>1, <2>2 DEF Joined
  <2> QED
    BY <2>2, <2>3 DEF Produced
<1>5. c \in Sources(h) \cup Produced(h)
  <2>1. a \in Sources(i) \cup Produced(i)
    BY <1>0 DEF WellFormed
  <2> QED
    BY <1>0, <1>4, <2>1
<1>7. ASSUME NEW m \in NodesOf(h) PROVE Reads(h, m) \subseteq Sources(h) \cup Produced(h)
  <2>1. CASE m = n
    BY <1>0, <2>1
  <2>2. CASE m # n
    <3>1. /\ Reads(i, m) \subseteq Sources(h) \cup Produced(i)
          /\ Joined(Reads(i, m), Reads(h, m), a, b, c)
      BY <1>0, <2>2 DEF WellFormed
    <3> QED
      BY <1>0, <1>4, <1>5, <3>1 DEF Joined
  <2> QED
    BY <2>1, <2>2
<1>8. ASSUME NEW x \in h.outputs PROVE x \in Produced(h)
  <2>1. x \in Produced(i)
    BY <1>0 DEF WellFormed
  <2>2. CASE x # a /\ x # b
    BY <1>4, <2>1, <2>2
  <2>3. CASE x = a
    BY <1>0, <1>4, <2>1, <2>3
  <2>4. CASE x = b
    <3>1. c = b /\ a \notin Sources(i)
      BY <1>0, <2>4
    <3>2. a \in Produced(i)
      BY <1>0, <3>1 DEF WellFormed
    <3> QED
      BY <1>0, <1>4, <2>4, <3>1, <3>2
  <2> QED
    BY <2>2, <2>3, <2>4
<1> QED
  BY <1>1, <1>2, <1>7, <1>8 DEF WellFormed

-------------------------------------------------------------------------------
(* What the maps say of an edge when they are right.                       *)

Told(h, e) ==
  /\ IsInjective(Readers(h, e))
  /\ \A m : m \in Range(Readers(h, e)) <=> m \in NodesOf(h) /\ e \in Reads(h, m)
  /\ \A n \in NodesOf(h) : e \in Writes(h, n) => Prev(h, e) = n
  /\ e \notin Produced(h) => Prev(h, e) = NoNode

LEMMA MapsTell ==
  ASSUME NEW D, NEW h \in Graphs(D), NoNode \notin D, WellFormed(h)
  PROVE  MapsMatch(h) <=> \A e \in Edges(h) : Told(h, e)
<1> DEFINE u == UpdateMap(h)
<1>1. /\ \A e \in Produced(h) : Prev(u, e) \in WritersOf(h, e)
      /\ \A e : e \notin Produced(h) => Prev(u, e) = NoNode
      /\ \A e : Range(Readers(u, e)) = ReadersIn(h, e)
  BY UpdateMapIs
<1>2. \A n \in NodesOf(h) : \A e \in Writes(h, n) : Prev(u, e) = n
  BY WriterIs
<1>3. MapsMatch(h) <=> \A e \in Edges(h) : /\ Prev(h, e) = Prev(u, e)
                                           /\ IsInjective(Readers(h, e))
                                           /\ Range(Readers(h, e)) = Range(Readers(u, e))
  BY DEF MapsMatch
<1> HIDE DEF u
<1>4. ASSUME NEW e
      PROVE  /\ Prev(h, e) = Prev(u, e) /\ IsInjective(Readers(h, e))
             /\ Range(Readers(h, e)) = Range(Readers(u, e))
             => Told(h, e)
  <2>1. \A m : m \in ReadersIn(h, e) <=> m \in NodesOf(h) /\ e \in Reads(h, m)
    BY DEF ReadersIn
  <2> QED
    BY <1>1, <1>2, <2>1 DEF Told
<1>5. ASSUME NEW e, Told(h, e)
      PROVE  /\ Prev(h, e) = Prev(u, e) /\ IsInjective(Readers(h, e))
             /\ Range(Readers(h, e)) = Range(Readers(u, e))
  <2>1. \A m : m \in ReadersIn(h, e) <=> m \in NodesOf(h) /\ e \in Reads(h, m)
    BY DEF ReadersIn
  <2>2. Range(Readers(h, e)) = ReadersIn(h, e)
    BY <1>5, <2>1 DEF Told
  <2>3. Prev(h, e) = Prev(u, e)
    <3>1. CASE e \in Produced(h)
      <4>1. PICK n \in NodesOf(h) : e \in Writes(h, n)
        BY <3>1 DEF Produced
      <4> QED
        BY <1>2, <1>5, <4>1 DEF Told
    <3>2. CASE e \notin Produced(h)
      BY <1>1, <1>5, <3>2 DEF Told
    <3> QED
      BY <3>1, <3>2
  <2> QED
    BY <1>1, <1>5, <2>2, <2>3 DEF Told
<1> QED
  BY <1>3, <1>4, <1>5

LEMMA EdgesAre ==
  ASSUME NEW D, NEW h \in Graphs(D), NoNode \notin D, NEW e
  PROVE  e \in Edges(h) <=> \/ e \in Sources(h) \/ e \in h.outputs \/ Prev(h, e) # NoNode
                            \/ \E m \in NodesOf(h) : e \in Reads(h, m) \/ e \in Writes(h, m)
<1>1. e \in DOMAIN h.prev <=> Prev(h, e) # NoNode
  <2>1. h.prev \in Partial(Labels, D)
    BY GraphParts
  <2>2. \A x \in DOMAIN h.prev : h.prev[x] \in D
    BY <2>1, PartialProps
  <2> QED
    BY <2>2 DEF Prev, At
<1> QED
  BY <1>1 DEF Edges

(* The graphs that the theorems are about.                                 *)
Good(D, h) ==
  /\ Typed(D, h) /\ D \subseteq Names
  /\ Plain(h) /\ Sound(h)

LEMMA GoodParts ==
  ASSUME NEW D, NEW h, Good(D, h)
  PROVE  /\ h \in Graphs(D) /\ NoNode \notin D /\ NodesOf(h) \subseteq D
         /\ WellFormed(h) /\ Dag(h)
         /\ \A e \in Edges(h) : Told(h, e)
         /\ \A m \in NodesOf(h) : IsInjective(h.ins[m]) /\ IsInjective(h.outs[m])
         /\ \A m \in NodesOf(h) : Reads(h, m) \cap h.outputs = {}
         /\ \A m \in NodesOf(h) : Reads(h, m) \subseteq Edges(h) /\ Writes(h, m) \subseteq Edges(h)
         /\ Edges(h) \subseteq Used(h)
<1>1. h \in Graphs(D) /\ NoNode \notin D
  BY NamesAssumption DEF Good, Typed
<1>2. WellFormed(h) /\ Dag(h) /\ MapsMatch(h) /\ Plain(h)
  BY DEF Good, Sound
<1>3. \A e \in Edges(h) : Told(h, e)
  BY <1>1, <1>2, MapsTell
<1>4. NodesOf(h) \subseteq D /\ Objects(h) = D
  BY <1>1, GraphParts
<1>5. \A m \in NodesOf(h) : Reads(h, m) \subseteq Edges(h) /\ Writes(h, m) \subseteq Edges(h)
  BY DEF Edges
<1>6. Edges(h) \subseteq Used(h)
  BY <1>4 DEF Edges, Used
<1> QED
  BY <1>1, <1>2, <1>3, <1>4, <1>5, <1>6 DEF Plain, WellFormed

(* An insertion gives names that are new.                                  *)
LEMMA NewName ==
  ASSUME NEW D, NEW h, Good(D, h), NEW r \in D, NEW n \in NodesOf(h), Idle(h, n)
  PROVE  /\ <<r, n>> \notin Used(h) /\ <<n, r>> \notin Used(h)
         /\ <<r, n>> \in Labels /\ <<n, r>> \in Labels
<1>1. <<r, n>> \in Added /\ <<n, r>> \in Added
  <2>1. n \in Names /\ r \in Names
    BY GoodParts DEF Good
  <2> QED
    BY <2>1 DEF Added
<1>2. NamesTaken(h)
  BY DEF Good, Typed
<1>3. <<r, n>> \notin Used(h)
  BY <1>1, <1>2 DEF NamesTaken
<1>4. <<n, r>> \notin Used(h)
  BY <1>1, <1>2 DEF NamesTaken
<1> QED
  BY <1>1, <1>3, <1>4 DEF Labels

(* Nodes that do not read an edge twice, each listed once, read the other  *)
(* edge in its place.                                                      *)
LEMMA RerouteRows ==
  ASSUME NEW D, NEW h \in Graphs(D), NEW ms \in Seq(D), IsInjective(ms), NEW old, NEW new \in Labels,
         \A m \in Range(ms) : IsInjective(h.ins[m])
  PROVE  /\ \A m \in Range(ms) : Rerouted(h, ms, old, new)[m] = ReplaceAll(h.ins[m], old, new)
         /\ \A m \in D : m \notin Range(ms) => Rerouted(h, ms, old, new)[m] = h.ins[m]
         /\ (\A m \in Range(ms) : old \in Reads(h, m)) => CanReroute(h, ms, old)
<1> DEFINE place(m, j) == {l \in 1..j : h.ins[m][l] = old}
           moves(m, j) == h.ins[m][j] = old /\ Cardinality(place(m, j)) <= Count(ms, m)
<1>1. /\ Objects(h) = D /\ h.ins \in [D -> Seq(Labels)] /\ Range(ms) \subseteq D
  BY GraphParts, SeqRange
<1>2. \A m \in D : Rerouted(h, ms, old, new)[m] =
                     [j \in DOMAIN h.ins[m] |-> IF moves(m, j) THEN new ELSE h.ins[m][j]]
  <2>1. Reroute(h, ms, old, new) =
          [h EXCEPT !.ins = [m \in D |->
             [j \in DOMAIN h.ins[m] |-> IF moves(m, j) THEN new ELSE h.ins[m][j]]]]
    BY <1>1 DEF Reroute
  <2> HIDE DEF moves
  <2> QED
    BY <2>1 DEF Rerouted, Graphs
<1>3. \A m : Count(ms, m) = IF m \in Range(ms) THEN 1 ELSE 0
  BY CountOnce
<1>4. ASSUME NEW m \in D, NEW j \in DOMAIN h.ins[m], h.ins[m][j] = old
      PROVE  /\ IsFiniteSet(place(m, j)) /\ Cardinality(place(m, j)) \in Nat
             /\ Cardinality(place(m, j)) # 0
             /\ IsInjective(h.ins[m]) => Cardinality(place(m, j)) = 1
  <2>1. DOMAIN h.ins[m] = 1..Len(h.ins[m]) /\ Len(h.ins[m]) \in Nat
    BY <1>1
  <2>2. j \in Nat /\ j \in place(m, j) /\ place(m, j) \subseteq 1..j
    BY <1>4, <2>1
  <2>3. IsFiniteSet(1..j)
    BY <2>2, FS_Interval
  <2>4. IsInjective(h.ins[m]) => place(m, j) = {j}
    <3>1. \A l \in 1..j : l \in DOMAIN h.ins[m]
      BY <2>1
    <3> QED
      BY <1>4, <2>2, <3>1 DEF IsInjective
  <2>5. Cardinality({j}) = 1
    BY FS_Singleton
  <2> DEFINE P == place(m, j)
  <2>6. j \in P /\ P \subseteq 1..j /\ (IsInjective(h.ins[m]) => P = {j})
    BY <2>2, <2>4
  <2> HIDE DEF P
  <2>7. IsFiniteSet(P) /\ Cardinality(P) \in Nat
    BY <2>3, <2>6, FS_Subset, FS_CardinalityType
  <2>8. Cardinality(P) # 0
    BY <2>6, <2>7, FS_EmptySet
  <2>9. IsInjective(h.ins[m]) => Cardinality(P) = 1
    BY <2>5, <2>6
  <2> QED
    BY <2>7, <2>8, <2>9 DEF P
<1>5. ASSUME NEW m \in Range(ms) PROVE Rerouted(h, ms, old, new)[m] = ReplaceAll(h.ins[m], old, new)
  <2>1. \A j \in DOMAIN h.ins[m] : moves(m, j) <=> h.ins[m][j] = old
    <3> TAKE j \in DOMAIN h.ins[m]
    <3>1. h.ins[m][j] = old => Cardinality(place(m, j)) = 1
      BY <1>1, <1>4
    <3>2. Count(ms, m) = 1
      BY <1>3
    <3> QED
      BY <3>1, <3>2
  <2>2. m \in D
    BY <1>1
  <2> HIDE DEF moves
  <2> QED
    BY <1>2, <2>1, <2>2 DEF ReplaceAll
<1>6. ASSUME NEW m \in D, m \notin Range(ms) PROVE Rerouted(h, ms, old, new)[m] = h.ins[m]
  <2>1. \A j \in DOMAIN h.ins[m] : ~moves(m, j)
    <3> TAKE j \in DOMAIN h.ins[m]
    <3>1. h.ins[m][j] = old => Cardinality(place(m, j)) \in Nat /\ Cardinality(place(m, j)) # 0
      BY <1>4
    <3>2. Count(ms, m) = 0
      BY <1>3, <1>6
    <3> HIDE DEF place
    <3> QED
      BY <3>1, <3>2
  <2>2. h.ins[m] = [j \in DOMAIN h.ins[m] |-> h.ins[m][j]]
    BY <1>1
  <2> HIDE DEF moves
  <2> QED
    BY <1>2, <2>1, <2>2
<1>7. ASSUME \A m \in Range(ms) : old \in Reads(h, m) PROVE CanReroute(h, ms, old)
  <2> SUFFICES ASSUME NEW m \in Range(ms) PROVE Count(ms, m) <= Count(h.ins[m], old)
    BY DEF CanReroute
  <2>1. h.ins[m] \in Seq(Labels) /\ IsInjective(h.ins[m]) /\ old \in Range(h.ins[m])
    BY <1>1, <1>7 DEF Reads
  <2>2. Count(h.ins[m], old) = 1
    BY <2>1, CountOnce
  <2>3. Count(ms, m) = 1
    BY <1>3
  <2> QED
    BY <2>2, <2>3
<1> QED
  BY <1>5, <1>6, <1>7

-------------------------------------------------------------------------------
(* Insertions                                                              *)

Pair(a, b) == <<a, b>>

(* The graph h with other edges for the nodes, and other maps.             *)
Kept(h, i) ==
  /\ i.nodes = h.nodes /\ i.inputs = h.inputs /\ i.outputs = h.outputs /\ i.inits = h.inits

Wired(D, h, i, ins, outs) ==
  /\ i \in Graphs(D) /\ Kept(h, i) /\ i.ins = ins /\ i.outs = outs

SameMaps(h, i) ==
  /\ \A x : Prev(i, x) = Prev(h, x)
  /\ \A x : Readers(i, x) = Readers(h, x)

LEMMA RewiredIs ==
  ASSUME NEW D, NEW h \in Graphs(D),
         NEW ins \in [D -> Seq(Labels)], NEW outs \in [D -> Seq(Labels)],
         NEW i, i = Rewired(h, ins, outs)
  PROVE  Wired(D, h, i, ins, outs) /\ SameMaps(h, i)
BY DEF Graphs, Rewired, Kept, Prev, Readers, Wired, SameMaps

LEMMA ReadersPut ==
  ASSUME NEW D, NEW h, NEW i, NEW ins, NEW outs, Wired(D, h, i, ins, outs),
         NEW e \in Labels, NEW s \in Seq(D), NEW j, j = SetReaders(i, e, s)
  PROVE  /\ Wired(D, h, j, ins, outs)
         /\ Readers(j, e) = s
         /\ \A x : x # e => Readers(j, x) = Readers(i, x)
         /\ \A x : Prev(j, x) = Prev(i, x)
<1>1. i \in Graphs(D) /\ Kept(h, i) /\ i.ins = ins /\ i.outs = outs
  BY DEF Wired
<1>2. /\ j \in Graphs(D) /\ j = [i EXCEPT !.next = With(i.next, e, s)]
      /\ Readers(j, e) = s
      /\ \A x : x # e => Readers(j, x) = Readers(i, x)
      /\ \A x : Prev(j, x) = Prev(i, x)
  BY <1>1, SetReadersIs
<1>3. Kept(h, j) /\ j.ins = ins /\ j.outs = outs
  BY <1>1, <1>2 DEF Kept, Graphs
<1> QED
  BY <1>2, <1>3 DEF Wired

LEMMA PrevPut ==
  ASSUME NEW D, NEW h, NEW i, NEW ins, NEW outs, Wired(D, h, i, ins, outs),
         NEW e \in Labels, NEW p \in D, NEW j, j = SetPrev(i, e, p)
  PROVE  /\ Wired(D, h, j, ins, outs)
         /\ Prev(j, e) = p
         /\ \A x : x # e => Prev(j, x) = Prev(i, x)
         /\ \A x : Readers(j, x) = Readers(i, x)
<1>1. i \in Graphs(D) /\ Kept(h, i) /\ i.ins = ins /\ i.outs = outs
  BY DEF Wired
<1>2. /\ j \in Graphs(D) /\ j = [i EXCEPT !.prev = With(i.prev, e, p)]
      /\ Prev(j, e) = p
      /\ \A x : x # e => Prev(j, x) = Prev(i, x)
      /\ \A x : Readers(j, x) = Readers(i, x)
  BY <1>1, SetPrevIs
<1>3. Kept(h, j) /\ j.ins = ins /\ j.outs = outs
  BY <1>1, <1>2 DEF Kept, Graphs
<1> QED
  BY <1>2, <1>3 DEF Wired

LEMMA ReroutePut ==
  ASSUME NEW D, NEW h, NEW i, NEW ins, NEW outs, Wired(D, h, i, ins, outs),
         NEW ms \in Seq(D), NEW old, NEW new \in Labels, NEW j, j = Reroute(i, ms, old, new)
  PROVE  Wired(D, h, j, Rerouted(i, ms, old, new), outs) /\ SameMaps(i, j)
<1> DEFINE rows == Rerouted(i, ms, old, new)
<1>1. i \in Graphs(D) /\ Kept(h, i) /\ i.outs = outs
  BY DEF Wired
<1>2. /\ j \in Graphs(D) /\ j = [i EXCEPT !.ins = rows] /\ SameMaps(i, j)
  BY <1>1, RerouteIs DEF SameMaps
<1> HIDE DEF rows
<1>3. Kept(h, j) /\ j.ins = rows /\ j.outs = outs
  BY <1>1, <1>2 DEF Kept, Graphs
<1> QED
  BY <1>2, <1>3 DEF Wired, rows

LEMMA WiredParts ==
  ASSUME NEW D, NEW h, NEW i, NEW ins, NEW outs, Wired(D, h, i, ins, outs)
  PROVE  /\ i \in Graphs(D) /\ i.ins = ins /\ i.outs = outs
         /\ i.nodes = h.nodes /\ i.outputs = h.outputs
         /\ i.inputs = h.inputs /\ i.inits = h.inits
         /\ NodesOf(i) = NodesOf(h) /\ Sources(i) = Sources(h)
BY DEF Wired, Kept, NodesOf, Sources

(* No node is moved. *)
LEMMA RerouteNone ==
  ASSUME NEW D, NEW h \in Graphs(D), NEW ms \in Seq(D), IsInjective(ms), Range(ms) = {},
         NEW old, NEW new \in Labels
  PROVE  CanReroute(h, ms, old) /\ Rerouted(h, ms, old, new) = h.ins
<1> DEFINE rows == Rerouted(h, ms, old, new)
<1>1. CanReroute(h, ms, old) /\ \A m \in D : rows[m] = h.ins[m]
  BY RerouteRows
<1>2. rows \in [D -> Seq(Labels)] /\ h.ins \in [D -> Seq(Labels)]
  BY RerouteIs, GraphParts
<1> HIDE DEF rows
<1> DEFINE f == h.ins
           T == Seq(Labels)
<1>3. rows \in [D -> T] /\ f \in [D -> T] /\ \A m \in D : rows[m] = f[m]
  BY <1>1, <1>2
<1> HIDE DEF f, T
<1>4. rows = f
  BY <1>3
<1> QED
  BY <1>1, <1>4 DEF rows, f

(* An insertion behind an output that is not read or stays with its readers. *)
AfterCase(D, h, r, k, n, isOutput, new, old, ins, outs, res) ==
  /\ h \in Graphs(D) /\ r \in D /\ n \in D /\ k \in DOMAIN h.outs[r]
  /\ isOutput \in BOOLEAN
  /\ new = Pair(r, n) /\ new \in Labels
  /\ old = h.outs[r][k] /\ old # new /\ old \in Labels
  /\ isOutput => Readers(h, old) = << >>
  /\ res = InsertAfter(h, r, k, n, isOutput)
  /\ ins = AfterIns(h, n, new) /\ ins \in [D -> Seq(Labels)]
  /\ outs = AfterOuts(h, r, k, n, new, old) /\ outs \in [D -> Seq(Labels)]

LEMMA AfterIs ==
  ASSUME NEW D, NEW h, NEW r, NEW k, NEW n, NEW isOutput, NEW new, NEW old, NEW ins, NEW outs, NEW res,
         AfterCase(D, h, r, k, n, isOutput, new, old, ins, outs, res)
  PROVE  /\ ~res.fails /\ Wired(D, h, res.graph, ins, outs)
         /\ Prev(res.graph, new) = r /\ Prev(res.graph, old) = n
         /\ \A x : x # new /\ x # old => Prev(res.graph, x) = Prev(h, x)
         /\ Readers(res.graph, new) = Single(n)
         /\ \A x : x # new => Readers(res.graph, x) = Readers(h, x)
<1> USE DEF AfterCase
<1> DEFINE set == Rewired(h, ins, outs)
           one == SetPrev(set, new, r)
           wired == SetPrev(one, old, n)
           none == << >>
           moved == Reroute(wired, none, old, new)
           line == <<n>> \o none
           i == SetReaders(moved, new, line)
           rows == Rerouted(wired, none, old, new)
<1>1. [h EXCEPT !.outs[r][k] = new, !.ins[n] = <<new>>, !.outs[n] = <<old>>] = set
  BY GraphParts DEF AfterIns, AfterOuts, Graphs, Single, Put, Rewired
<1>2. none \in Seq(D) /\ IsInjective(none) /\ Range(none) = {} /\ line \in Seq(D) /\ line = Single(n)
  BY DEF Range, IsInjective, Single
<1>3. res = IF ~CanReroute(wired, none, old) THEN Raise(wired) ELSE Done(i)
  <2> DEFINE readers == IF isOutput THEN Readers(h, old) ELSE << >>
  <2>1. readers = none
    OBVIOUS
  <2>2. res = IF ~CanReroute(SetPrev(SetPrev([h EXCEPT !.outs[r][k] = new, !.ins[n] = <<new>>,
                                    !.outs[n] = <<old>>], new, r), old, n), readers, old)
              THEN Raise(wired)
              ELSE Done(IF readers = << >> THEN SetReaders(Reroute(wired, readers, old, new), new, <<n>> \o readers)
                        ELSE SetReaders(SetReaders(Reroute(wired, readers, old, new), new, <<n>> \o readers), old, << >>))
    <3> HIDE DEF set
    <3> QED
      BY <1>1 DEF InsertAfter, Pair
  <2> HIDE DEF readers
  <2> QED
    BY <1>1, <2>1, <2>2
<1>4. Wired(D, h, set, ins, outs) /\ SameMaps(h, set)
  BY RewiredIs
<1> HIDE DEF set, line
<1>5. /\ Wired(D, h, one, ins, outs)
      /\ Prev(one, new) = r /\ \A x : x # new => Prev(one, x) = Prev(h, x)
      /\ \A x : Readers(one, x) = Readers(h, x)
  BY <1>4, PrevPut DEF SameMaps
<1> HIDE DEF one
<1>6. /\ Wired(D, h, wired, ins, outs)
      /\ Prev(wired, old) = n /\ Prev(wired, new) = r
      /\ \A x : x # new /\ x # old => Prev(wired, x) = Prev(h, x)
      /\ \A x : Readers(wired, x) = Readers(h, x)
  BY <1>5, PrevPut
<1> HIDE DEF wired, none
<1>7. wired \in Graphs(D) /\ wired.ins = ins
  BY <1>6, WiredParts
<1>8. CanReroute(wired, none, old) /\ rows = ins
  <2> HIDE DEF rows
  <2>1. CanReroute(wired, none, old) /\ Rerouted(wired, none, old, new) = wired.ins
    BY <1>2, <1>7, RerouteNone
  <2> QED
    BY <1>7, <2>1 DEF rows
<1>9. Wired(D, h, moved, ins, outs) /\ SameMaps(wired, moved)
  <2>1. Wired(D, h, moved, rows, outs) /\ SameMaps(wired, moved)
    BY <1>2, <1>6, ReroutePut
  <2> QED
    BY <1>8, <2>1
<1> HIDE DEF moved, rows
<1>10. /\ Wired(D, h, i, ins, outs)
       /\ Readers(i, new) = line /\ \A x : x # new => Readers(i, x) = Readers(moved, x)
       /\ \A x : Prev(i, x) = Prev(moved, x)
  BY <1>2, <1>9, ReadersPut
<1> HIDE DEF i
<1>11. res = Done(i)
  BY <1>3, <1>8
<1>12. ~res.fails /\ res.graph = i
  BY <1>11, FailsIs
<1> QED
  BY <1>2, <1>6, <1>9, <1>10, <1>12 DEF SameMaps

(* The readers that an insertion before input old of r leaves there.       *)
Rest(h, old, r, n) == RemoveFirst(Append(Readers(h, old), n), r)
Others(h, old, r, n) == Only(Rest(h, old, r, n), Range(Rest(h, old, r, n)) \ {n})

(* An insertion before an input, which takes the other readers along or    *)
(* does not.                                                               *)
BeforeCase(D, h, r, k, n, isInput, new, old, rest, others, ins, outs, wired, res) ==
  /\ h \in Graphs(D) /\ r \in D /\ n \in D /\ k \in DOMAIN h.ins[r]
  /\ isInput \in BOOLEAN
  /\ new = Pair(n, r) /\ new \in Labels
  /\ old = h.ins[r][k] /\ old # new /\ old \in Labels
  /\ r \in Range(Readers(h, old))
  /\ rest \in Seq(D) /\ rest = Rest(h, old, r, n)
  /\ others \in Seq(D) /\ others = Others(h, old, r, n)
  /\ ins = BeforeIns(h, r, k, n, new, old) /\ ins \in [D -> Seq(Labels)]
  /\ outs = BeforeOuts(h, n, new) /\ outs \in [D -> Seq(Labels)]
  /\ wired = SetPrev(Rewired(h, ins, outs), new, n)
  /\ isInput => CanReroute(wired, others, old)
  /\ res = InsertBefore(h, r, k, n, isInput)

LEMMA BeforeIs ==
  ASSUME NEW D, NEW h, NEW r, NEW k, NEW n, NEW isInput, NEW new, NEW old, NEW rest, NEW others,
         NEW ins, NEW outs, NEW wired, NEW res,
         BeforeCase(D, h, r, k, n, isInput, new, old, rest, others, ins, outs, wired, res)
  PROVE  /\ Wired(D, h, wired, ins, outs)
         /\ ~res.fails
         /\ isInput => Wired(D, h, res.graph, Rerouted(wired, others, old, new), outs)
         /\ ~isInput => Wired(D, h, res.graph, ins, outs)
         /\ Prev(res.graph, new) = n /\ \A x : x # new => Prev(res.graph, x) = Prev(h, x)
         /\ isInput => /\ Readers(res.graph, new) = Single(r) \o others
                       /\ Readers(res.graph, old) = Single(n)
         /\ ~isInput => Readers(res.graph, new) = Single(r) /\ Readers(res.graph, old) = rest
         /\ \A x : x # new /\ x # old => Readers(res.graph, x) = Readers(h, x)
<1> USE DEF BeforeCase
<1> DEFINE set == Rewired(h, ins, outs)
           moved == Reroute(wired, others, old, new)
           line == Single(r) \o others
           along == SetReaders(moved, new, line)
           lastAlong == SetReaders(along, old, Single(n))
           alone == SetReaders(wired, new, Single(r))
           last == SetReaders(alone, old, rest)
           rows == Rerouted(wired, others, old, new)
<1>1. [h EXCEPT !.ins[r][k] = new, !.ins[n] = <<old>>, !.outs[n] = <<new>>] = set
  BY GraphParts DEF BeforeIns, BeforeOuts, Graphs, Single, Put, Rewired
<1>2. Single(n) \in Seq(D) /\ Single(r) \in Seq(D) /\ line \in Seq(D)
  <2>1. Single(n) \in Seq(D) /\ Single(r) \in Seq(D)
    BY SingleIs
  <2> QED
    BY <2>1, ConcatIn
<1>3. res = IF isInput THEN Done(lastAlong) ELSE Done(last)
  <2> DEFINE w == SetPrev([h EXCEPT !.ins[r][k] = new, !.ins[n] = <<old>>, !.outs[n] = <<new>>], new, n)
  <2>1. w = wired
    BY <1>1
  <2> HIDE DEF w, set
  <2>2. res = IF r \notin Range(Readers(h, old)) \/ (isInput /\ ~CanReroute(w, others, old))
              THEN Raise(w)
              ELSE IF isInput
              THEN Done(SetReaders(SetReaders(Reroute(w, others, old, new), new, <<r>> \o others), old, <<n>>))
              ELSE Done(SetReaders(SetReaders(w, new, <<r>>), old, rest))
    BY DEF InsertBefore, Rest, Others, w, Pair
  <2> QED
    BY <2>1, <2>2 DEF Single
<1>4. Wired(D, h, set, ins, outs) /\ SameMaps(h, set)
  BY RewiredIs
<1>5. /\ Wired(D, h, wired, ins, outs)
      /\ Prev(wired, new) = n /\ \A x : x # new => Prev(wired, x) = Prev(set, x)
      /\ \A x : Readers(wired, x) = Readers(set, x)
  BY <1>4, PrevPut
<1> HIDE DEF set, line
<1>6. CASE isInput
  <2>1. Wired(D, h, moved, rows, outs) /\ SameMaps(wired, moved)
    BY <1>5, ReroutePut
  <2> HIDE DEF moved, rows
  <2>1a. new \in Labels /\ along = SetReaders(moved, new, line)
    OBVIOUS
  <2> HIDE DEF along
  <2>2. /\ Wired(D, h, along, rows, outs)
        /\ Readers(along, new) = line /\ \A x : x # new => Readers(along, x) = Readers(moved, x)
        /\ \A x : Prev(along, x) = Prev(moved, x)
    BY ONLY <1>2, <2>1, <2>1a, ReadersPut
  <2>2a. old \in Labels /\ lastAlong = SetReaders(along, old, Single(n))
    OBVIOUS
  <2> HIDE DEF lastAlong
  <2>3. /\ Wired(D, h, lastAlong, rows, outs)
        /\ Readers(lastAlong, old) = Single(n)
        /\ \A x : x # old => Readers(lastAlong, x) = Readers(along, x)
        /\ \A x : Prev(lastAlong, x) = Prev(along, x)
    BY ONLY <1>2, <2>2, <2>2a, ReadersPut
  <2>4. ~res.fails /\ res.graph = lastAlong
    BY <1>3, <1>6, FailsIs
  <2>5. /\ \A x : x # new => Prev(res.graph, x) = Prev(h, x)
        /\ \A x : x # new /\ x # old => Readers(res.graph, x) = Readers(h, x)
    BY <1>4, <1>5, <2>1, <2>2, <2>3, <2>4 DEF SameMaps
  <2>6. Prev(res.graph, new) = n
    BY <1>5, <2>1, <2>2, <2>3, <2>4 DEF SameMaps
  <2>7. Readers(res.graph, new) = line /\ Readers(res.graph, old) = Single(n)
    BY <2>2, <2>3, <2>4
  <2>8. Wired(D, h, res.graph, rows, outs)
    BY <2>3, <2>4
  <2> QED
    BY <1>5, <1>6, <2>4, <2>5, <2>6, <2>7, <2>8 DEF rows, line
<1>7. CASE ~isInput
  <2>1. new \in Labels /\ alone = SetReaders(wired, new, Single(r))
    OBVIOUS
  <2> HIDE DEF alone
  <2>2. /\ Wired(D, h, alone, ins, outs)
        /\ Readers(alone, new) = Single(r) /\ \A x : x # new => Readers(alone, x) = Readers(wired, x)
        /\ \A x : Prev(alone, x) = Prev(wired, x)
    BY ONLY <1>2, <1>5, <2>1, ReadersPut
  <2>2a. old \in Labels /\ rest \in Seq(D) /\ last = SetReaders(alone, old, rest)
    OBVIOUS
  <2> HIDE DEF last
  <2>3. /\ Wired(D, h, last, ins, outs)
        /\ Readers(last, old) = rest
        /\ \A x : x # old => Readers(last, x) = Readers(alone, x)
        /\ \A x : Prev(last, x) = Prev(alone, x)
    BY ONLY <2>2, <2>2a, ReadersPut
  <2>4. ~res.fails /\ res.graph = last
    BY <1>3, <1>7, FailsIs
  <2> QED
    BY <1>4, <1>5, <1>7, <2>2, <2>3, <2>4 DEF SameMaps
<1> QED
  BY <1>6, <1>7

(* What comes of an insertion of the node n, as far as it matters here.    *)
Inserted(D, h, n, i) ==
  /\ i \in Graphs(D) /\ NodesOf(i) = NodesOf(h)
  /\ \E a, b, c : Split(h, i, n, a, b, c) /\ c \in Sources(h) \cup Produced(h)
  /\ \A m \in NodesOf(i) : IsInjective(i.outs[m])
  /\ \A e \in Edges(i) : Told(i, e)

LEMMA InsertedIs ==
  ASSUME NEW D, NEW h, Good(D, h), NEW n, NEW i, Inserted(D, h, n, i)
  PROVE  /\ WellFormed(i) /\ Dag(i) /\ MapsMatch(i)
         /\ \A u, v \in Vertices(h) \ {<<"node", n>>} : Feeds(h, u, v) <=> Feeds(i, u, v)
<1>1. h \in Graphs(D) /\ NoNode \notin D /\ WellFormed(h) /\ Dag(h)
  BY GoodParts
<1>2. /\ i \in Graphs(D) /\ NodesOf(i) = NodesOf(h)
      /\ \A m \in NodesOf(i) : IsInjective(i.outs[m])
      /\ \A e \in Edges(i) : Told(i, e)
  BY DEF Inserted
<1>3. PICK a, b, c : Split(h, i, n, a, b, c) /\ c \in Sources(h) \cup Produced(h)
  BY DEF Inserted
<1>4. WellFormed(i)
  BY <1>1, <1>2, <1>3, SplitWellUp
<1>5. Dag(i)
  BY <1>1, <1>2, <1>3, SplitDagUp
<1>6. MapsMatch(i)
  BY <1>1, <1>2, <1>4, MapsTell
<1>7. Vertices(i) = Vertices(h)
  BY <1>2, <1>3 DEF Vertices, Split
<1>8. ASSUME NEW u \in Vertices(h) \ {<<"node", n>>}, NEW v \in Vertices(h) \ {<<"node", n>>}
      PROVE  Feeds(h, u, v) <=> Feeds(i, u, v)
  <2>1. u \in Vertices(i) /\ u # <<"node", n>> /\ v \in Vertices(i) /\ v # <<"node", n>>
    BY <1>7
  <2> QED
    BY <1>1, <1>2, <1>3, <2>1, SplitFeeds
<1> QED
  BY <1>4, <1>5, <1>6, <1>8

(* An edge that is read and written as before, with the same entries.      *)
LEMMA ToldSame ==
  ASSUME NEW h, NEW i, NEW e, Told(h, e), NodesOf(i) = NodesOf(h),
         Prev(i, e) = Prev(h, e), Readers(i, e) = Readers(h, e),
         \A m \in NodesOf(h) : /\ e \in Reads(i, m) <=> e \in Reads(h, m)
                               /\ e \in Writes(i, m) <=> e \in Writes(h, m)
  PROVE  Told(i, e)
<1>1. e \in Produced(i) <=> e \in Produced(h)
  BY DEF Produced
<1> QED
  BY <1>1 DEF Told

(* The edges in a list with one changed, or one replaced throughout.       *)
LEMMA PutRow ==
  ASSUME NEW T, NEW s \in Seq(T), NEW k \in DOMAIN s, NEW y \in T, y \notin Range(s), IsInjective(s)
  PROVE  /\ \A x : x \in Range(Put(s, k, y)) <=> (x \in Range(s) /\ x # s[k]) \/ x = y
         /\ IsInjective(Put(s, k, y))
<1> DEFINE w == Put(s, k, y)
<1>1. k \in 1..Len(s) /\ s[k] \in Range(s)
  BY SeqRange
<1>2. /\ Range(w) \subseteq Range(s) \cup {y} /\ y \in Range(w)
      /\ \A x \in Range(s) : x # s[k] => x \in Range(w)
      /\ s[k] # y => s[k] \notin Range(w)
      /\ IsInjective(w)
  <2>1. w = Put(s, k, y)
    OBVIOUS
  <2> HIDE DEF w
  <2> QED
    <3>1. Range(w) \subseteq Range(s) \cup {y} /\ y \in Range(w)
      BY <1>1, <2>1, ChangeOne
    <3>2. \A x \in Range(s) : x # s[k] => x \in Range(w)
      BY <1>1, <2>1, ChangeOne
    <3>3. s[k] # y => s[k] \notin Range(w)
      BY <1>1, <2>1, ChangeOne
    <3>4. IsInjective(w)
      BY <1>1, <2>1, ChangeOne
    <3> QED
      BY <3>1, <3>2, <3>3, <3>4
<1> HIDE DEF w
<1> QED
  BY <1>1, <1>2 DEF w

LEMMA ReplaceRow ==
  ASSUME NEW T, NEW s \in Seq(T), NEW x \in Range(s), NEW y \in T, y \notin Range(s)
  PROVE  \A z : z \in Range(ReplaceAll(s, x, y)) <=> (z \in Range(s) /\ z # x) \/ z = y
<1> DEFINE w == ReplaceAll(s, x, y)
<1>1. Range(w) = (Range(s) \ {x}) \cup (IF x \in Range(s) THEN {y} ELSE {})
  BY ReplaceAllProps
<1> HIDE DEF w
<1> QED
  BY <1>1 DEF w

LEMMA NoReaders ==
  ASSUME NEW D, NEW h \in Graphs(D), NEW e, Range(Readers(h, e)) = {}
  PROVE  Readers(h, e) = << >>
<1> DEFINE s == Readers(h, e)
<1>1. s \in Seq(D) /\ Range(s) = {}
  BY GraphParts
<1> HIDE DEF s
<1>2. s = << >>
  BY <1>1, SeqRange
<1> QED
  BY <1>2 DEF s

(* insert_node behind the output k of r.                                   *)
LEMMA AfterGood ==
  ASSUME NEW D, NEW h, Good(D, h), NEW r \in NodesOf(h), NEW k \in DOMAIN h.outs[r],
         NEW n \in NodesOf(h), Idle(h, n), NEW isOutput \in BOOLEAN,
         isOutput => h.outs[r][k] \in h.outputs
  PROVE  /\ ~InsertAfter(h, r, k, n, isOutput).fails
         /\ Inserted(D, h, n, InsertAfter(h, r, k, n, isOutput).graph)
<1> DEFINE new == Pair(r, n)
           old == h.outs[r][k]
           ins == AfterIns(h, n, new)
           outs == AfterOuts(h, r, k, n, new, old)
           res == InsertAfter(h, r, k, n, isOutput)
           i == res.graph
<1>1. /\ h \in Graphs(D) /\ NoNode \notin D /\ NodesOf(h) \subseteq D /\ WellFormed(h)
      /\ \A e \in Edges(h) : Told(h, e)
      /\ \A m \in NodesOf(h) : IsInjective(h.outs[m])
      /\ \A m \in NodesOf(h) : Reads(h, m) \cap h.outputs = {}
      /\ Edges(h) \subseteq Used(h)
      /\ \A m \in NodesOf(h) : Reads(h, m) \subseteq Edges(h) /\ Writes(h, m) \subseteq Edges(h)
  BY GoodParts
<1>2. r \in D /\ n \in D
  BY <1>1
<1>3. new \notin Used(h) /\ new \in Labels
  BY <1>2, NewName DEF Pair
<1> HIDE DEF new, ins, outs
<1>4. /\ r # n /\ old \in Writes(h, r) /\ ins \in [D -> Seq(Labels)] /\ ins[n] = Single(new)
      /\ \A m \in D : m # n => ins[m] = h.ins[m]
      /\ outs \in [D -> Seq(Labels)]
      /\ outs[n] = Single(old) /\ outs[r] = Put(h.outs[r], k, new)
      /\ \A m \in D : m # n /\ m # r => outs[m] = h.outs[m]
  BY <1>1, <1>2, <1>3, AfterShape DEF ins, outs
<1>5. old \in Edges(h) /\ old # new /\ old \in Labels
  BY <1>1, <1>2, <1>3, <1>4, GraphParts
<1>6. isOutput => Readers(h, old) = << >>
  <2>1. ASSUME isOutput PROVE Range(Readers(h, old)) = {}
    <3>1. Told(h, old)
      BY <1>1, <1>5
    <3>2. \A m \in NodesOf(h) : old \notin Reads(h, m)
      BY <1>1, <2>1
    <3> QED
      BY <3>1, <3>2 DEF Told
  <2> QED
    BY <1>1, <2>1, NoReaders
<1>7. /\ ~res.fails /\ Wired(D, h, i, ins, outs)
      /\ Prev(i, new) = r /\ Prev(i, old) = n
      /\ \A x : x # new /\ x # old => Prev(i, x) = Prev(h, x)
      /\ Readers(i, new) = Single(n)
      /\ \A x : x # new => Readers(i, x) = Readers(h, x)
  <2> HIDE DEF res, old
  <2>1. old = h.outs[r][k] /\ res = InsertAfter(h, r, k, n, isOutput) /\ new = Pair(r, n)
    BY DEF old, res, new
  <2>2. ins = AfterIns(h, n, new) /\ outs = AfterOuts(h, r, k, n, new, old)
    BY DEF ins, outs, old
  <2>3. isOutput => Readers(h, old) = << >>
    BY <1>6 DEF old
  <2>4. old # new /\ old \in Labels
    BY <1>5 DEF old
  <2>5. AfterCase(D, h, r, k, n, isOutput, new, old, ins, outs, res)
    BY <1>1, <1>2, <1>3, <1>4, <2>1, <2>2, <2>3, <2>4 DEF AfterCase
  <2> QED
    BY ONLY <2>5, AfterIs
<1> HIDE DEF res
<1>8. /\ i \in Graphs(D) /\ i.ins = ins /\ i.outs = outs /\ i.outputs = h.outputs
      /\ NodesOf(i) = NodesOf(h) /\ Sources(i) = Sources(h)
  BY <1>7, WiredParts
<1> HIDE DEF i, old
<1>9. /\ \A x : x \in Reads(i, n) <=> x = new
      /\ \A x : x \in Writes(i, n) <=> x = old
      /\ \A x : x \notin Reads(h, n) /\ x \notin Writes(h, n)
  <2>1. Range(ins[n]) = {new} /\ Range(outs[n]) = {old}
    BY <1>3, <1>4, <1>5, SingleIs
  <2>2. Range(h.ins[n]) = {} /\ Range(h.outs[n]) = {}
    BY DEF Idle, Range
  <2> QED
    BY <1>8, <2>1, <2>2 DEF Reads, Writes
<1>10. \A m \in NodesOf(h) : m # n => \A x : x \in Reads(i, m) <=> x \in Reads(h, m)
  BY <1>1, <1>4, <1>8 DEF Reads
<1>11. \A m \in NodesOf(h) : m # n /\ m # r => \A x : x \in Writes(i, m) <=> x \in Writes(h, m)
  BY <1>1, <1>4, <1>8 DEF Writes
<1>12. /\ \A x : x \in Writes(i, r) <=> (x \in Writes(h, r) /\ x # old) \/ x = new
       /\ IsInjective(i.outs[r])
  <2> DEFINE s == h.outs[r]
  <2>1. s \in Seq(Labels) /\ IsInjective(s) /\ k \in DOMAIN s /\ s[k] = old /\ Writes(h, r) = Range(s)
    BY <1>1, <1>2, GraphParts DEF Writes, old
  <2>2. new \notin Range(s)
    BY <1>1, <1>3, <2>1
  <2>3. Writes(i, r) = Range(Put(s, k, new)) /\ i.outs[r] = Put(s, k, new)
    BY <1>4, <1>8 DEF Writes
  <2> HIDE DEF s
  <2> QED
    BY <1>3, <2>1, <2>2, <2>3, PutRow
<1>13. /\ new \notin Edges(h) /\ new \notin Sources(h) /\ new \notin h.outputs
       /\ \A m \in NodesOf(h) : new \notin Reads(h, m) /\ new \notin Writes(h, m)
  BY <1>1, <1>3 DEF Edges
<1>14. /\ old \notin Sources(h) /\ \A m \in NodesOf(h) : m # r => old \notin Writes(h, m)
  BY <1>1, <1>4 DEF WellFormed
<1>15. Split(h, i, n, new, old, old)
  <2>1. Reads(i, n) = {new} /\ Writes(i, n) = {old} /\ Reads(h, n) = {} /\ Writes(h, n) = {}
    BY <1>9
  <2>2. ASSUME NEW m \in NodesOf(h), m # n
        PROVE  /\ Joined(Reads(i, m), Reads(h, m), new, old, old)
               /\ Joined(Writes(i, m), Writes(h, m), new, old, old)
               /\ old \notin Writes(i, m)
    <3>1. Joined(Reads(i, m), Reads(h, m), new, old, old)
      BY <1>10, <1>13, <2>2 DEF Joined
    <3>2. CASE m = r
      BY <1>4, <1>5, <1>12, <1>13, <3>1, <3>2 DEF Joined
    <3>3. CASE m # r
      BY <1>11, <1>13, <1>14, <2>2, <3>1, <3>3 DEF Joined
    <3> QED
      BY <3>2, <3>3
  <2> QED
    BY <1>5, <1>8, <1>13, <1>14, <2>1, <2>2 DEF Split
<1>16. \A m \in NodesOf(i) : IsInjective(i.outs[m])
  <2>1. IsInjective(i.outs[n])
    BY <1>4, <1>5, <1>8, SingleIs
  <2> QED
    BY <1>1, <1>4, <1>8, <1>12, <2>1
<1>17. ASSUME NEW e \in Edges(i) PROVE Told(i, e)
  <2>1. CASE e = new
    <3>1. IsInjective(Single(n)) /\ Range(Single(n)) = {n}
      BY <1>2, SingleIs
    <3>2. \A m : m \in Range(Readers(i, e)) <=> m \in NodesOf(i) /\ e \in Reads(i, m)
      BY <1>7, <1>8, <1>9, <1>10, <1>13, <2>1, <3>1
    <3>3. \A m \in NodesOf(i) : e \in Writes(i, m) <=> m = r
      BY <1>4, <1>5, <1>8, <1>9, <1>11, <1>12, <1>13, <2>1
    <3>4. e \in Produced(i)
      BY <1>8, <3>3 DEF Produced
    <3> QED
      BY <1>7, <2>1, <3>1, <3>2, <3>3, <3>4 DEF Told
  <2>2. CASE e = old
    <3>1. Told(h, old) /\ Readers(i, old) = Readers(h, old)
      BY <1>1, <1>5, <1>7
    <3>2. \A m : m \in Range(Readers(i, e)) <=> m \in NodesOf(i) /\ e \in Reads(i, m)
      BY <1>5, <1>8, <1>9, <1>10, <2>2, <3>1 DEF Told
    <3>3. \A m \in NodesOf(i) : e \in Writes(i, m) <=> m = n
      BY <1>5, <1>8, <1>9, <1>11, <1>12, <1>14, <2>2
    <3>4. e \in Produced(i)
      BY <1>8, <3>3 DEF Produced
    <3> QED
      BY <1>7, <2>2, <3>1, <3>2, <3>3, <3>4 DEF Told
  <2>3. CASE e # new /\ e # old
    <3>1. \A m \in NodesOf(h) : /\ e \in Reads(i, m) <=> e \in Reads(h, m)
                                /\ e \in Writes(i, m) <=> e \in Writes(h, m)
      BY <1>9, <1>10, <1>11, <1>12, <2>3
    <3>2. Prev(i, e) = Prev(h, e) /\ Readers(i, e) = Readers(h, e)
      BY <1>7, <2>3
    <3>3. e \in Edges(h)
      <4>1. \/ e \in Sources(i) \/ e \in i.outputs \/ Prev(i, e) # NoNode
            \/ \E m \in NodesOf(i) : e \in Reads(i, m) \/ e \in Writes(i, m)
        BY <1>1, <1>8, <1>17, EdgesAre
      <4>2. \/ e \in Sources(h) \/ e \in h.outputs \/ Prev(h, e) # NoNode
            \/ \E m \in NodesOf(h) : e \in Reads(h, m) \/ e \in Writes(h, m)
        BY <1>8, <3>1, <3>2, <4>1
      <4> QED
        BY <1>1, <4>2, EdgesAre
    <3>4. Told(h, e)
      BY <1>1, <3>3
    <3> QED
      BY <1>8, <3>1, <3>2, <3>4, ToldSame
  <2> QED
    BY <2>1, <2>2, <2>3
<1>18. old \in Sources(h) \cup Produced(h)
  BY <1>4 DEF Produced
<1>19. Inserted(D, h, n, i)
  BY <1>8, <1>15, <1>16, <1>17, <1>18 DEF Inserted
<1> QED
  BY <1>7, <1>19 DEF i, res

(* Two lists without repetition that share nothing.                        *)
LEMMA OneBefore ==
  ASSUME NEW T, NEW x \in T, NEW s \in Seq(T), IsInjective(s), x \notin Range(s)
  PROVE  /\ IsInjective(Single(x) \o s)
         /\ \A y : y \in Range(Single(x) \o s) <=> y = x \/ y \in Range(s)
<1> DEFINE w == Single(x) \o s
<1>1. /\ w \in Seq(T) /\ Len(w) = Len(s) + 1 /\ w[1] = x
      /\ \A j \in 1..Len(s) : w[j + 1] = s[j]
  BY DEF Single
<1>2. /\ DOMAIN w = 1..Len(s) + 1 /\ Len(s) \in Nat /\ DOMAIN s = 1..Len(s)
  BY <1>1
<1>3. \A j \in DOMAIN w : j = 1 \/ (j - 1 \in 1..Len(s) /\ w[j] = s[j - 1])
  BY <1>1, <1>2
<1>4. \A j \in 1..Len(s) : s[j] \in Range(s) /\ s[j] # x
  BY <1>2 DEF Range
<1> HIDE DEF w
<1>5. ASSUME NEW i \in DOMAIN w, NEW j \in DOMAIN w, w[i] = w[j] PROVE i = j
  <2>1. i \in Nat /\ j \in Nat
    BY <1>2
  <2>2. CASE i = 1
    BY <1>1, <1>3, <1>4, <1>5, <2>2
  <2>3. CASE i # 1 /\ j = 1
    BY <1>1, <1>3, <1>4, <1>5, <2>3
  <2>4. CASE i # 1 /\ j # 1
    <3>1. i - 1 \in DOMAIN s /\ j - 1 \in DOMAIN s /\ s[i - 1] = s[j - 1]
      BY <1>2, <1>3, <1>5, <2>4
    <3>2. i - 1 = j - 1
      BY <3>1 DEF IsInjective
    <3> QED
      BY <2>1, <3>2
  <2> QED
    BY <2>2, <2>3, <2>4
<1>6. IsInjective(w)
  BY <1>5 DEF IsInjective
<1>7. ASSUME NEW y \in Range(w) PROVE y = x \/ y \in Range(s)
  <2>1. PICK j \in DOMAIN w : w[j] = y
    BY DEF Range
  <2> QED
    BY <1>1, <1>3, <1>4, <2>1
<1>8. ASSUME NEW y, y = x \/ y \in Range(s) PROVE y \in Range(w)
  <2>1. CASE y = x
    BY <1>1, <1>2, <2>1 DEF Range
  <2>2. CASE y \in Range(s)
    <3>1. PICK j \in 1..Len(s) : s[j] = y
      BY <1>2, <2>2 DEF Range
    <3>2. j + 1 \in DOMAIN w /\ w[j + 1] = y
      BY <1>1, <1>2, <3>1
    <3> QED
      BY <3>2 DEF Range
  <2> QED
    BY <1>8, <2>1, <2>2
<1> QED
  BY <1>6, <1>7, <1>8 DEF w

(* The readers r of an edge and others, and n comes to read it instead.    *)
LEMMA RestIs ==
  ASSUME NEW D, NEW h \in Graphs(D), NEW old, NEW r \in D, NEW n \in D, r # n,
         IsInjective(Readers(h, old)), n \notin Range(Readers(h, old))
  PROVE  /\ Rest(h, old, r, n) \in Seq(D) /\ IsInjective(Rest(h, old, r, n))
         /\ \A m : m \in Range(Rest(h, old, r, n)) <=> (m \in Range(Readers(h, old)) /\ m # r) \/ m = n
         /\ Others(h, old, r, n) \in Seq(D) /\ IsInjective(Others(h, old, r, n))
         /\ \A m : m \in Range(Others(h, old, r, n)) <=> m \in Range(Readers(h, old)) /\ m # r
<1> DEFINE s == Readers(h, old)
           t == Append(s, n)
           rest == RemoveFirst(t, r)
           S == Range(rest) \ {n}
           others == Only(rest, S)
<1>1. s \in Seq(D) /\ IsInjective(s) /\ n \notin Range(s)
  BY GraphParts
<1> HIDE DEF s
<1>2. t \in Seq(D) /\ IsInjective(t) /\ Range(t) = Range(s) \cup {n}
  BY <1>1, AppendRange
<1> HIDE DEF t
<1>3. /\ rest \in Seq(D) /\ IsInjective(rest)
      /\ Range(rest) \subseteq Range(t) /\ Range(t) \ {r} \subseteq Range(rest)
      /\ r \notin Range(rest)
  BY <1>2, RemoveFirstProps
<1> HIDE DEF rest
<1>4. \A m : m \in Range(rest) <=> (m \in Range(s) /\ m # r) \/ m = n
  BY <1>2, <1>3
<1>5. others \in Seq(D) /\ IsInjective(others) /\ Range(others) = Range(rest) \cap S
  BY <1>3, OnlyProps
<1> HIDE DEF others
<1>6. \A m : m \in Range(others) <=> m \in Range(s) /\ m # r
  BY <1>1, <1>4, <1>5 DEF S
<1>7. Rest(h, old, r, n) = rest /\ Others(h, old, r, n) = others
  BY DEF Rest, Others, rest, t, s, others, S
<1> QED
  BY <1>3, <1>4, <1>5, <1>6, <1>7 DEF s

(* The nodes M, which read old, read new instead, which n makes of old.    *)
Before(h, i, n, M, old, new) ==
  /\ NodesOf(i) = NodesOf(h) /\ Sources(i) = Sources(h) /\ i.outputs = h.outputs
  /\ M \subseteq NodesOf(h) /\ n \notin M
  /\ \A m \in M : old \in Reads(h, m)
  /\ \A x : x \in Reads(i, n) <=> x = old
  /\ \A x : x \in Writes(i, n) <=> x = new
  /\ \A m \in NodesOf(h) : m # n => \A x : x \in Writes(i, m) <=> x \in Writes(h, m)
  /\ \A m \in M : \A x : x \in Reads(i, m) <=> (x \in Reads(h, m) /\ x # old) \/ x = new
  /\ \A m \in NodesOf(h) : m # n /\ m \notin M => \A x : x \in Reads(i, m) <=> x \in Reads(h, m)

LEMMA BeforeSplits ==
  ASSUME NEW D, NEW h, Good(D, h), NEW i, NEW n \in NodesOf(h), Idle(h, n), NEW M,
         NEW old, NEW new, old # new, new \notin Used(h), Before(h, i, n, M, old, new)
  PROVE  Split(h, i, n, old, new, old)
<1>1. /\ Edges(h) \subseteq Used(h)
      /\ \A m \in NodesOf(h) : Reads(h, m) \subseteq Edges(h) /\ Writes(h, m) \subseteq Edges(h)
  BY GoodParts
<1>2. new \notin Edges(h) /\ new \notin Sources(h) /\ new \notin h.outputs
  BY <1>1 DEF Edges
<1>3. Reads(i, n) = {old} /\ Writes(i, n) = {new} /\ Reads(h, n) = {} /\ Writes(h, n) = {}
  BY DEF Before, Idle, Reads, Writes, Range
<1>4. ASSUME NEW m \in NodesOf(h), m # n
      PROVE  /\ Joined(Reads(i, m), Reads(h, m), old, new, old)
             /\ Joined(Writes(i, m), Writes(h, m), old, new, old)
             /\ new \notin Writes(i, m)
  <2>1. new \notin Reads(h, m) /\ new \notin Writes(h, m)
    BY <1>1, <1>2
  <2>2. \A x : x \in Writes(i, m) <=> x \in Writes(h, m)
    BY <1>4 DEF Before
  <2>3. Joined(Writes(i, m), Writes(h, m), old, new, old)
    BY <2>1, <2>2 DEF Joined
  <2>4. CASE m \in M
    <3>1. /\ old \in Reads(h, m)
          /\ \A x : x \in Reads(i, m) <=> (x \in Reads(h, m) /\ x # old) \/ x = new
      BY <2>4 DEF Before
    <3>2. Joined(Reads(i, m), Reads(h, m), old, new, old)
      BY <2>1, <3>1 DEF Joined
    <3> QED
      BY <2>1, <2>2, <2>3, <3>2
  <2>5. CASE m \notin M
    <3>1. \A x : x \in Reads(i, m) <=> x \in Reads(h, m)
      BY <1>4, <2>5 DEF Before
    <3>2. Joined(Reads(i, m), Reads(h, m), old, new, old)
      BY <2>1, <3>1 DEF Joined
    <3> QED
      BY <2>1, <2>2, <2>3, <3>2
  <2> QED
    BY <2>4, <2>5
<1> QED
  BY <1>2, <1>3, <1>4 DEF Split, Before

(* Where the maps say so too.                                              *)
LEMMA BeforeTold ==
  ASSUME NEW D, NEW h, Good(D, h), NEW i \in Graphs(D), NEW n \in NodesOf(h), Idle(h, n), NEW M,
         NEW old \in Edges(h), NEW new, old # new, new \notin Used(h), Before(h, i, n, M, old, new),
         Prev(i, new) = n, \A x : x # new => Prev(i, x) = Prev(h, x),
         IsInjective(Readers(i, new)), \A m : m \in Range(Readers(i, new)) <=> m \in M,
         IsInjective(Readers(i, old)),
         \A m : m \in Range(Readers(i, old)) <=> (m \in NodesOf(h) /\ old \in Reads(h, m) /\ m \notin M) \/ m = n,
         \A x : x # new /\ x # old => Readers(i, x) = Readers(h, x)
  PROVE  \A e \in Edges(i) : Told(i, e)
<1>1. /\ h \in Graphs(D) /\ NoNode \notin D /\ \A e \in Edges(h) : Told(h, e)
      /\ Edges(h) \subseteq Used(h)
      /\ \A m \in NodesOf(h) : Reads(h, m) \subseteq Edges(h) /\ Writes(h, m) \subseteq Edges(h)
  BY GoodParts
<1>2. \A m \in NodesOf(h) : new \notin Reads(h, m) /\ new \notin Writes(h, m)
  BY <1>1
<1>3. \A x : x \notin Reads(h, n) /\ x \notin Writes(h, n)
  BY DEF Idle, Reads, Writes, Range
<1>4. /\ NodesOf(i) = NodesOf(h) /\ Sources(i) = Sources(h) /\ i.outputs = h.outputs
      /\ M \subseteq NodesOf(h) /\ n \notin M
      /\ \A m \in M : old \in Reads(h, m)
      /\ \A x : x \in Reads(i, n) <=> x = old
      /\ \A x : x \in Writes(i, n) <=> x = new
      /\ \A m \in NodesOf(h) : m # n => \A x : x \in Writes(i, m) <=> x \in Writes(h, m)
      /\ \A m \in M : \A x : x \in Reads(i, m) <=> (x \in Reads(h, m) /\ x # old) \/ x = new
      /\ \A m \in NodesOf(h) : m # n /\ m \notin M => \A x : x \in Reads(i, m) <=> x \in Reads(h, m)
  BY DEF Before
<1>5. ASSUME NEW e \in Edges(i) PROVE Told(i, e)
  <2>1. CASE e = new
    <3>1. \A m \in NodesOf(i) : e \in Reads(i, m) <=> m \in M
      BY <1>2, <1>4, <2>1
    <3>2. \A m \in NodesOf(i) : e \in Writes(i, m) <=> m = n
      BY <1>2, <1>4, <2>1
    <3>3. e \in Produced(i)
      BY <1>4, <3>2 DEF Produced
    <3> QED
      BY <1>4, <2>1, <3>1, <3>2, <3>3 DEF Told
  <2>2. CASE e = old
    <3>1. \A m \in NodesOf(i) : e \in Reads(i, m) <=> (old \in Reads(h, m) /\ m \notin M) \/ m = n
      BY <1>4, <2>2
    <3>2. \A m \in NodesOf(i) : e \in Writes(i, m) <=> e \in Writes(h, m)
      BY <1>3, <1>4, <2>2
    <3>3. Told(h, e) /\ Prev(i, e) = Prev(h, e)
      BY <1>1, <2>2
    <3>4. e \in Produced(i) <=> e \in Produced(h)
      BY <1>4, <3>2 DEF Produced
    <3>5. \A m : m \in Range(Readers(i, e)) <=> m \in NodesOf(i) /\ e \in Reads(i, m)
      BY <1>4, <2>2, <3>1
    <3> QED
      BY <1>4, <2>2, <3>2, <3>3, <3>4, <3>5 DEF Told
  <2>3. CASE e # new /\ e # old
    <3>1. \A m \in NodesOf(h) : /\ e \in Reads(i, m) <=> e \in Reads(h, m)
                                /\ e \in Writes(i, m) <=> e \in Writes(h, m)
      BY <1>3, <1>4, <2>3
    <3>2. Prev(i, e) = Prev(h, e) /\ Readers(i, e) = Readers(h, e)
      BY <2>3
    <3>3. e \in Edges(h)
      <4>1. \/ e \in Sources(i) \/ e \in i.outputs \/ Prev(i, e) # NoNode
            \/ \E m \in NodesOf(i) : e \in Reads(i, m) \/ e \in Writes(i, m)
        BY <1>1, <1>5, EdgesAre
      <4>2. \/ e \in Sources(h) \/ e \in h.outputs \/ Prev(h, e) # NoNode
            \/ \E m \in NodesOf(h) : e \in Reads(h, m) \/ e \in Writes(h, m)
        BY <1>4, <3>1, <3>2, <4>1
      <4> QED
        BY <1>1, <4>2, EdgesAre
    <3>4. Told(h, e)
      BY <1>1, <3>3
    <3> QED
      BY <1>4, <3>1, <3>2, <3>4, ToldSame
  <2> QED
    BY <2>1, <2>2, <2>3
<1> QED
  BY <1>5

(* insert_node before the input k of r.                                    *)
LEMMA BeforeGood ==
  ASSUME NEW D, NEW h, Good(D, h), NEW r \in NodesOf(h), NEW k \in DOMAIN h.ins[r],
         NEW n \in NodesOf(h), Idle(h, n), NEW isInput \in BOOLEAN
  PROVE  /\ ~InsertBefore(h, r, k, n, isInput).fails
         /\ Inserted(D, h, n, InsertBefore(h, r, k, n, isInput).graph)
<1> DEFINE new == Pair(n, r)
           old == h.ins[r][k]
           s == Readers(h, old)
           rest == Rest(h, old, r, n)
           others == Others(h, old, r, n)
           ins == BeforeIns(h, r, k, n, new, old)
           outs == BeforeOuts(h, n, new)
           wired == SetPrev(Rewired(h, ins, outs), new, n)
           res == InsertBefore(h, r, k, n, isInput)
           i == res.graph
           M == IF isInput THEN Range(s) ELSE {r}
<1>1. /\ h \in Graphs(D) /\ NoNode \notin D /\ NodesOf(h) \subseteq D /\ WellFormed(h)
      /\ \A e \in Edges(h) : Told(h, e)
      /\ \A m \in NodesOf(h) : IsInjective(h.ins[m]) /\ IsInjective(h.outs[m])
      /\ Edges(h) \subseteq Used(h)
      /\ \A m \in NodesOf(h) : Reads(h, m) \subseteq Edges(h) /\ Writes(h, m) \subseteq Edges(h)
  BY GoodParts
<1>2. r \in D /\ n \in D
  BY <1>1
<1>3. new \notin Used(h) /\ new \in Labels
  BY <1>2, NewName DEF Pair
<1> HIDE DEF new, ins, outs
<1>4. /\ r # n /\ old \in Reads(h, r) /\ outs \in [D -> Seq(Labels)] /\ outs[n] = Single(new)
      /\ \A m \in D : m # n => outs[m] = h.outs[m]
      /\ ins \in [D -> Seq(Labels)]
      /\ ins[n] = Single(old) /\ ins[r] = Put(h.ins[r], k, new)
      /\ \A m \in D : m # n /\ m # r => ins[m] = h.ins[m]
  BY <1>1, <1>2, <1>3, BeforeShape DEF ins, outs
<1>5. old \in Edges(h) /\ old # new /\ old \in Labels
  BY <1>1, <1>2, <1>3, <1>4, GraphParts
<1>6. \A x : x \notin Reads(h, n) /\ x \notin Writes(h, n)
  BY DEF Idle, Reads, Writes, Range
<1>7. /\ IsInjective(s) /\ s \in Seq(D)
      /\ \A m : m \in Range(s) <=> m \in NodesOf(h) /\ old \in Reads(h, m)
      /\ r \in Range(s) /\ n \notin Range(s)
  <2>1. Told(h, old)
    BY <1>1, <1>5
  <2>2. s \in Seq(D)
    BY <1>1, GraphParts
  <2> QED
    BY <1>4, <1>6, <2>1, <2>2 DEF Told
<1> HIDE DEF old
<1>8. /\ rest \in Seq(D) /\ IsInjective(rest)
      /\ \A m : m \in Range(rest) <=> (m \in Range(s) /\ m # r) \/ m = n
      /\ others \in Seq(D) /\ IsInjective(others)
      /\ \A m : m \in Range(others) <=> m \in Range(s) /\ m # r
  BY <1>1, <1>2, <1>4, <1>7, RestIs
<1> HIDE DEF rest, others
<1>9. Wired(D, h, wired, ins, outs)
  <2> DEFINE set == Rewired(h, ins, outs)
  <2>1. Wired(D, h, set, ins, outs)
    BY <1>1, <1>4, RewiredIs
  <2> HIDE DEF set
  <2>2. Wired(D, h, SetPrev(set, new, n), ins, outs)
    BY <1>2, <1>3, <2>1, PrevPut
  <2> QED
    BY <2>2 DEF set
<1> HIDE DEF wired
<1>10. wired \in Graphs(D) /\ wired.ins = ins
  BY <1>9, WiredParts
<1> DEFINE rows == Rerouted(wired, others, old, new)
<1>11. /\ \A m \in Range(others) : rows[m] = ReplaceAll(h.ins[m], old, new)
       /\ \A m \in D : m \notin Range(others) => rows[m] = ins[m]
       /\ CanReroute(wired, others, old)
  <2>1. \A m \in Range(others) : m \in NodesOf(h) /\ m \in D /\ m # r /\ m # n
    BY <1>1, <1>7, <1>8
  <2>2. \A m \in Range(others) : ins[m] = h.ins[m]
    BY <1>4, <2>1
  <2>3. \A m \in Range(others) : IsInjective(wired.ins[m]) /\ old \in Reads(wired, m)
    BY <1>1, <1>7, <1>8, <1>10, <2>1, <2>2 DEF Reads
  <2>4. \A m \in Range(others) : rows[m] = ReplaceAll(wired.ins[m], old, new)
    BY <1>3, <1>8, <1>10, <2>3, RerouteRows
  <2>5. \A m \in D : m \notin Range(others) => rows[m] = wired.ins[m]
    BY <1>3, <1>8, <1>10, <2>3, RerouteRows
  <2>6. CanReroute(wired, others, old)
    BY <1>3, <1>8, <1>10, <2>3, RerouteRows
  <2> HIDE DEF rows
  <2> QED
    BY <1>10, <2>2, <2>4, <2>5, <2>6
<1>12. /\ ~res.fails
       /\ isInput => Wired(D, h, i, rows, outs)
       /\ ~isInput => Wired(D, h, i, ins, outs)
       /\ Prev(i, new) = n /\ \A x : x # new => Prev(i, x) = Prev(h, x)
       /\ isInput => Readers(i, new) = Single(r) \o others /\ Readers(i, old) = Single(n)
       /\ ~isInput => Readers(i, new) = Single(r) /\ Readers(i, old) = rest
       /\ \A x : x # new /\ x # old => Readers(i, x) = Readers(h, x)
  <2> HIDE DEF res
  <2>1. /\ new = Pair(n, r) /\ old = h.ins[r][k] /\ rest = Rest(h, old, r, n)
        /\ others = Others(h, old, r, n) /\ ins = BeforeIns(h, r, k, n, new, old)
        /\ outs = BeforeOuts(h, n, new) /\ wired = SetPrev(Rewired(h, ins, outs), new, n)
        /\ res = InsertBefore(h, r, k, n, isInput)
    BY DEF new, old, rest, others, ins, outs, wired, res
  <2>2. isInput \in BOOLEAN /\ k \in DOMAIN h.ins[r]
    OBVIOUS
  <2>3. isInput => CanReroute(wired, others, old)
    BY <1>11
  <2>4. BeforeCase(D, h, r, k, n, isInput, new, old, rest, others, ins, outs, wired, res)
    BY ONLY <1>1, <1>2, <1>3, <1>4, <1>5, <1>7, <1>8, <2>1, <2>2, <2>3 DEF BeforeCase
  <2> QED
    BY ONLY <2>4, BeforeIs
<1> HIDE DEF res, rows, i
<1>13. /\ i \in Graphs(D) /\ i.outs = outs /\ i.outputs = h.outputs
       /\ NodesOf(i) = NodesOf(h) /\ Sources(i) = Sources(h)
       /\ isInput => i.ins = rows
       /\ ~isInput => i.ins = ins
  <2>1. CASE isInput
    BY <1>12, <2>1, WiredParts
  <2>2. CASE ~isInput
    BY <1>12, <2>2, WiredParts
  <2> QED
    BY <2>1, <2>2
<1> HIDE DEF s
<1>14. /\ M \subseteq Range(s) /\ r \in M
       /\ \A m : m \in M <=> m = r \/ (isInput /\ m \in Range(s))
  BY <1>7
<1> HIDE DEF M
<1>15. new \notin Edges(h) /\ \A m \in NodesOf(h) : new \notin Reads(h, m)
  BY <1>1, <1>3
<1>16. \A x : x \in Reads(i, r) <=> (x \in Reads(h, r) /\ x # old) \/ x = new
  <2> DEFINE q == h.ins[r]
  <2>1. q \in Seq(Labels) /\ IsInjective(q) /\ k \in DOMAIN q /\ q[k] = old /\ Reads(h, r) = Range(q)
    BY <1>1, <1>2, GraphParts DEF Reads, old
  <2>2. new \notin Range(q)
    BY <1>15, <2>1
  <2>3. Reads(i, r) = Range(Put(q, k, new))
    BY <1>2, <1>4, <1>8, <1>11, <1>13 DEF Reads
  <2> HIDE DEF q
  <2> QED
    BY <1>3, <2>1, <2>2, <2>3, PutRow
<1>17. ASSUME NEW m \in M, m # r
       PROVE  \A x : x \in Reads(i, m) <=> (x \in Reads(h, m) /\ x # old) \/ x = new
  <2> DEFINE q == h.ins[m]
  <2>1. isInput /\ m \in Range(others) /\ m \in NodesOf(h) /\ m \in D /\ old \in Reads(h, m)
    BY <1>1, <1>7, <1>8, <1>14, <1>17
  <2>2. q \in Seq(Labels) /\ old \in Range(q) /\ new \notin Range(q) /\ Reads(h, m) = Range(q)
    BY <1>1, <1>15, <2>1, GraphParts DEF Reads
  <2>3. Reads(i, m) = Range(ReplaceAll(q, old, new))
    BY <1>11, <1>13, <2>1 DEF Reads
  <2> HIDE DEF q
  <2> QED
    BY <1>3, <2>2, <2>3, ReplaceRow
<1>18. ASSUME NEW m \in NodesOf(h), m # n, m \notin M
       PROVE  Reads(i, m) = Reads(h, m)
  <2>1. m # r /\ m \in D
    BY <1>1, <1>14, <1>18
  <2>2. isInput => m \notin Range(others)
    BY <1>8, <1>14, <1>18
  <2>3. i.ins[m] = ins[m]
    BY <1>11, <1>13, <2>1, <2>2
  <2> QED
    BY <1>4, <1>18, <2>1, <2>3 DEF Reads
<1>19. Reads(i, n) = {old} /\ Writes(i, n) = {new}
  <2>1. Range(Single(old)) = {old} /\ Range(Single(new)) = {new}
    BY <1>3, <1>5, SingleIs
  <2>2. i.ins[n] = ins[n]
    BY <1>2, <1>7, <1>8, <1>11, <1>13
  <2> QED
    BY <1>4, <1>13, <2>1, <2>2 DEF Reads, Writes
<1>20. Before(h, i, n, M, old, new)
  <2>1. M \subseteq NodesOf(h) /\ n \notin M /\ \A m \in M : old \in Reads(h, m)
    BY <1>7, <1>14
  <2>2. \A m \in NodesOf(h) : m # n => Writes(i, m) = Writes(h, m)
    BY <1>1, <1>4, <1>13 DEF Writes
  <2> QED
    BY <1>13, <1>16, <1>17, <1>18, <1>19, <2>1, <2>2 DEF Before
<1>21. Split(h, i, n, old, new, old)
  BY <1>3, <1>5, <1>20, BeforeSplits
<1>22. /\ IsInjective(Readers(i, new)) /\ \A m : m \in Range(Readers(i, new)) <=> m \in M
       /\ IsInjective(Readers(i, old))
       /\ \A m : m \in Range(Readers(i, old)) <=>
                   (m \in NodesOf(h) /\ old \in Reads(h, m) /\ m \notin M) \/ m = n
  <2>1. /\ IsInjective(Single(r)) /\ Range(Single(r)) = {r}
        /\ IsInjective(Single(n)) /\ Range(Single(n)) = {n}
    BY <1>2, SingleIs
  <2>2. CASE isInput
    <3>1. r \notin Range(others)
      BY <1>8
    <3>2. /\ IsInjective(Single(r) \o others)
          /\ \A m : m \in Range(Single(r) \o others) <=> m = r \/ m \in Range(others)
      BY <1>2, <1>8, <3>1, OneBefore
    <3> QED
      BY <1>7, <1>8, <1>12, <1>14, <2>1, <2>2, <3>2
  <2>3. CASE ~isInput
    BY <1>7, <1>8, <1>12, <1>14, <2>1, <2>3
  <2> QED
    BY <2>2, <2>3
<1>23. \A e \in Edges(i) : Told(i, e)
  BY <1>3, <1>5, <1>12, <1>13, <1>20, <1>22, BeforeTold
<1>24. \A m \in NodesOf(i) : IsInjective(i.outs[m])
  <2>1. IsInjective(Single(new))
    BY <1>3, SingleIs
  <2> QED
    BY <1>1, <1>4, <1>13, <2>1
<1>25. old \in Sources(h) \cup Produced(h)
  BY <1>1, <1>4 DEF WellFormed
<1>26. Inserted(D, h, n, i)
  BY <1>13, <1>21, <1>23, <1>24, <1>25 DEF Inserted
<1> QED
  BY <1>12, <1>26 DEF i, res

LEMMA AtInputGood ==
  ASSUME NEW D, NEW h, Good(D, h), NEW n \in NodesOf(h), Idle(h, n), NEW x \in Sources(h),
         NEW q \in NodesOf(h), x \in Reads(h, q)
  PROVE  /\ ~InsertAtInput(h, x, n).fails
         /\ Inserted(D, h, n, InsertAtInput(h, x, n).graph)
<1> DEFINE r == Readers(h, x)[1]
           k == IndexIn(h.ins[r], x)
<1>1. h \in Graphs(D) /\ x \in Edges(h) /\ Told(h, x)
  <2>1. x \in Edges(h)
    BY DEF Edges
  <2> QED
    BY <2>1, GoodParts
<1>2. Readers(h, x) # << >> /\ r \in NodesOf(h) /\ x \in Reads(h, r)
  <2> DEFINE s == Readers(h, x)
  <2>1. s \in Seq(D) /\ q \in Range(s)
    BY <1>1, GraphParts DEF Told
  <2>2. \A m \in Range(s) : m \in NodesOf(h) /\ x \in Reads(h, m)
    BY <1>1 DEF Told
  <2> HIDE DEF s
  <2>3. 1 \in 1..Len(s)
    BY <2>1, SeqRange
  <2>4. s # << >> /\ s[1] \in Range(s)
    BY <2>1, <2>3, SeqRange
  <2> QED
    BY <2>2, <2>4 DEF s
<1>3. k \in DOMAIN h.ins[r]
  BY <1>1, <1>2, FirstReader
<1>4. InsertAtInput(h, x, n) = InsertBefore(h, r, k, n, TRUE)
  BY <1>2 DEF InsertAtInput
<1> HIDE DEF r, k
<1> QED
  BY <1>2, <1>3, <1>4, BeforeGood

LEMMA AtOutputGood ==
  ASSUME NEW D, NEW h, Good(D, h), NEW n \in NodesOf(h), Idle(h, n), NEW y \in h.outputs
  PROVE  /\ ~InsertAtOutput(h, y, n).fails
         /\ Inserted(D, h, n, InsertAtOutput(h, y, n).graph)
<1> DEFINE r == Prev(h, y)
           k == IndexIn(h.outs[r], y)
<1>1. h \in Graphs(D) /\ y \in Edges(h) /\ Told(h, y) /\ NoNode \notin D /\ NodesOf(h) \subseteq D
  <2>1. y \in Edges(h)
    BY DEF Edges
  <2> QED
    BY <2>1, GoodParts
<1>2. r \in NodesOf(h) /\ y \in Writes(h, r)
  <2>1. y \in Produced(h)
    BY GoodParts DEF WellFormed
  <2>2. PICK m \in NodesOf(h) : y \in Writes(h, m)
    BY <2>1 DEF Produced
  <2> QED
    BY <1>1, <2>2 DEF Told
<1>3. k \in DOMAIN h.outs[r] /\ h.outs[r][k] = y
  <2> DEFINE s == h.outs[r]
  <2>1. s \in Seq(Labels) /\ y \in Range(s)
    BY <1>1, <1>2, GraphParts DEF Writes
  <2> HIDE DEF s
  <2>2. IndexIn(s, y) \in DOMAIN s /\ s[IndexIn(s, y)] = y
    BY <2>1, IndexInProps, SeqRange
  <2> QED
    BY <2>2 DEF s
<1>4. InsertAtOutput(h, y, n) = InsertAfter(h, r, k, n, TRUE)
  <2>1. r # NoNode
    BY <1>1, <1>2
  <2> QED
    BY <1>2, <2>1 DEF InsertAtOutput
<1> HIDE DEF r, k
<1> QED
  BY <1>2, <1>3, <1>4, AfterGood

(* Insert, as Insertion asks of it, inserts some node.                     *)
LEMMA InsertionGood ==
  ASSUME IInv, Insert, Insertion, Plain(g), Sound(g)
  PROVE  /\ ~raised' /\ Good(Objects(g), g)
         /\ \E n \in NodesOf(g) : op'[2] = n /\ Inserted(Objects(g), g, n, g')
<1> DEFINE D == Objects(g)
<1>1. Good(D, g)
  BY DEF IInv, Good
<1>2. ASSUME NEW name, NEW res, Edit(name, res)
      PROVE  g' = res.graph /\ raised' = res.fails /\ op' = name
  BY <1>2 DEF Edit
<1>3. PICK n \in NodesOf(g) :
         /\ Bare(n)
         /\ \/ \E r \in NodesOf(g) :
                  \/ \E k \in DOMAIN g.outs[r] :
                       Edit(<<"insert", n>>, InsertAfter(g, r, k, n, FALSE))
                  \/ \E k \in DOMAIN g.ins[r] :
                       Edit(<<"insert", n>>, InsertBefore(g, r, k, n, FALSE))
            \/ \E x \in Sources(g) : Edit(<<"insertAt", n, x>>, InsertAtInput(g, x, n))
            \/ \E y \in g.outputs : Edit(<<"insert", n>>, InsertAtOutput(g, y, n))
  BY DEF Insert
<1>4. Idle(g, n)
  BY <1>3, BareIdle
<1> HIDE DEF D
<1> SUFFICES ~raised' /\ op'[2] = n /\ Inserted(D, g, n, g')
  BY <1>1 DEF D
<1>5. ASSUME NEW r \in NodesOf(g), NEW k \in DOMAIN g.outs[r],
             Edit(<<"insert", n>>, InsertAfter(g, r, k, n, FALSE))
      PROVE  ~raised' /\ op'[2] = n /\ Inserted(D, g, n, g')
  <2>1. /\ ~InsertAfter(g, r, k, n, FALSE).fails
        /\ Inserted(D, g, n, InsertAfter(g, r, k, n, FALSE).graph)
    BY <1>1, <1>4, AfterGood
  <2>2. op' = <<"insert", n>>
    BY <1>2, <1>5
  <2> QED
    BY <1>2, <1>5, <2>1, <2>2
<1>6. ASSUME NEW r \in NodesOf(g), NEW k \in DOMAIN g.ins[r],
             Edit(<<"insert", n>>, InsertBefore(g, r, k, n, FALSE))
      PROVE  ~raised' /\ op'[2] = n /\ Inserted(D, g, n, g')
  <2>1. /\ ~InsertBefore(g, r, k, n, FALSE).fails
        /\ Inserted(D, g, n, InsertBefore(g, r, k, n, FALSE).graph)
    BY <1>1, <1>4, BeforeGood
  <2>2. op' = <<"insert", n>>
    BY <1>2, <1>6
  <2> QED
    BY <1>2, <1>6, <2>1, <2>2
<1>7. ASSUME NEW x \in Sources(g), Edit(<<"insertAt", n, x>>, InsertAtInput(g, x, n))
      PROVE  ~raised' /\ op'[2] = n /\ Inserted(D, g, n, g')
  <2>1. op' = <<"insertAt", n, x>>
    BY <1>2, <1>7
  <2>2. PICK q \in NodesOf(g) : x \in Reads(g, q)
    BY <2>1 DEF Insertion
  <2>3. ~InsertAtInput(g, x, n).fails /\ Inserted(D, g, n, InsertAtInput(g, x, n).graph)
    BY <1>1, <1>4, <2>2, AtInputGood
  <2> QED
    BY <1>2, <1>7, <2>1, <2>3
<1>8. ASSUME NEW y \in g.outputs, Edit(<<"insert", n>>, InsertAtOutput(g, y, n))
      PROVE  ~raised' /\ op'[2] = n /\ Inserted(D, g, n, g')
  <2>1. ~InsertAtOutput(g, y, n).fails /\ Inserted(D, g, n, InsertAtOutput(g, y, n).graph)
    BY <1>1, <1>4, AtOutputGood
  <2>2. op' = <<"insert", n>>
    BY <1>2, <1>8
  <2> QED
    BY <1>2, <1>8, <2>1, <2>2
<1> QED
  BY <1>3, <1>5, <1>6, <1>7, <1>8

-------------------------------------------------------------------------------
(* One node for another                                                    *)

(* i is h with n, which has no edges in h, in the place of old.            *)
Swapped(h, i, old, n) ==
  /\ old # n /\ old \in NodesOf(h) /\ n \in NodesOf(h)
  /\ \A m : m \in NodesOf(i) <=> m \in NodesOf(h) /\ m # old
  /\ Reads(h, n) = {} /\ Writes(h, n) = {}
  /\ Reads(i, n) = Reads(h, old) /\ Writes(i, n) = Writes(h, old)
  /\ \A m \in NodesOf(i) : m # n => Reads(i, m) = Reads(h, m) /\ Writes(i, m) = Writes(h, m)
  /\ Sources(i) = Sources(h) /\ i.outputs = h.outputs

LEMMA SwappedDag ==
  ASSUME NEW D, NEW h \in Graphs(D), NEW i \in Graphs(D), NEW old, NEW n, Swapped(h, i, old, n),
         Dag(h)
  PROVE  Dag(i)
<1> USE DEF Swapped
<1>1. ASSUME NEW S, Closed(h, S) PROVE Closed(i, S)
  <2> SUFFICES ASSUME NEW m \in NodesOf(i), Writes(i, m) \cap S # {} PROVE Reads(i, m) \subseteq S
    BY DEF Closed
  <2>1. \A q \in NodesOf(h) : Writes(h, q) \cap S # {} => Reads(h, q) \subseteq S
    BY <1>1 DEF Closed
  <2>2. CASE m = n
    BY <2>1, <2>2
  <2>3. CASE m # n
    BY <2>1, <2>3
  <2> QED
    BY <2>2, <2>3
<1>2. ASSUME NEW m \in NodesOf(i), NEW q \in NodesOf(h),
             Reads(i, m) = Reads(h, q), Writes(i, m) = Writes(h, q),
             Feeds(i, <<"node", m>>, <<"node", m>>)
      PROVE  FALSE
  <2>1. /\ Takes(i, <<"node", m>>) = Reads(i, m) /\ Gives(i, <<"node", m>>) = Writes(i, m)
        /\ Takes(h, <<"node", q>>) = Reads(h, q) /\ Gives(h, <<"node", q>>) = Writes(h, q)
    BY DEF Takes, Gives
  <2>2. <<"node", m>> \in Vertices(i) /\ <<"node", q>> \in Vertices(h)
    BY DEF Vertices
  <2>3. \A S : Reads(i, m) \subseteq S /\ Closed(i, S) => Writes(i, m) \cap S # {}
    BY <1>2, <2>1, <2>2, FeedsIs
  <2>4. \A S : Reads(h, q) \subseteq S /\ Closed(h, S) => Writes(h, q) \cap S # {}
    BY <1>1, <1>2, <2>3
  <2>5. Feeds(h, <<"node", q>>, <<"node", q>>)
    BY <2>1, <2>2, <2>4, FeedsIs
  <2> QED
    BY <2>2, <2>5 DEF Dag
<1>3. ASSUME NEW m \in NodesOf(i) PROVE ~Feeds(i, <<"node", m>>, <<"node", m>>)
  <2>1. CASE m = n
    BY <1>2, <2>1
  <2>2. CASE m # n
    BY <1>2, <2>2
  <2> QED
    BY <2>1, <2>2
<1> QED
  BY <1>3, DagIs

LEMMA SwappedWell ==
  ASSUME NEW h, NEW i, NEW old, NEW n, Swapped(h, i, old, n), WellFormed(h),
         \A m \in NodesOf(i) : IsInjective(i.outs[m])
  PROVE  WellFormed(i) /\ \A x : x \in Produced(i) <=> x \in Produced(h)
<1> USE DEF Swapped
<1> DEFINE Of(m) == IF m = n THEN old ELSE m
<1>1. \A m \in NodesOf(i) : /\ Of(m) \in NodesOf(h)
                            /\ Reads(i, m) = Reads(h, Of(m)) /\ Writes(i, m) = Writes(h, Of(m))
  OBVIOUS
<1>2. \A a, b \in NodesOf(i) : a # b => Of(a) # Of(b)
  OBVIOUS
<1>3. ASSUME NEW q \in NodesOf(h), NEW x \in Writes(h, q)
      PROVE  \E m \in NodesOf(i) : x \in Writes(i, m)
  <2>1. CASE q = old
    BY <1>3, <2>1
  <2>2. CASE q # old
    BY <1>3, <2>2
  <2> QED
    BY <2>1, <2>2
<1> HIDE DEF Of
<1>4. \A x : x \in Produced(i) <=> x \in Produced(h)
  BY <1>1, <1>3 DEF Produced
<1>5. Produced(i) = Produced(h)
  BY <1>4
<1>6. \A m \in NodesOf(i) : Writes(i, m) \cap Sources(i) = {} /\ Reads(i, m) \subseteq Sources(i) \cup Produced(i)
  BY <1>1, <1>5 DEF WellFormed
<1>7. \A a, b \in NodesOf(i) : a # b => Writes(i, a) \cap Writes(i, b) = {}
  BY <1>1, <1>2 DEF WellFormed
<1>8. i.outputs \subseteq Produced(i)
  BY <1>5 DEF WellFormed
<1> QED
  BY <1>4, <1>6, <1>7, <1>8 DEF WellFormed

(* Each edge that old reads gets n for a reader in its place.              *)
LEMMA TakeOverIs ==
  ASSUME NEW D, NEW h \in Graphs(D), NEW old \in D, NEW n \in D, IsInjective(h.ins[old])
  PROVE  /\ \A e \in Reads(h, old) : At(TakeOver(h, old, n), e, << >>) = Rest(h, e, old, n)
         /\ \A e : e \notin Reads(h, old) => At(TakeOver(h, old, n), e, << >>) = Readers(h, e)
<1> DEFINE s == h.ins[old]
           k == Len(s)
<1>1. /\ s \in Seq(Labels) /\ k \in Nat /\ IsInjective(s) /\ DOMAIN s = 1..k
      /\ Reads(h, old) = Range(s)
  BY GraphParts DEF Reads
<1> HIDE DEF s
<1> DEFINE step(q, i) == With(q, s[i], RemoveFirst(Append(At(q, s[i], << >>), n), old))
<1>2. PICK f : /\ f[0] = h.next
               /\ \A i \in 1..k : f[i] = step(f[i - 1], i)
               /\ TakeOver(h, old, n) = f[k]
  BY TakeOverLoop DEF s
<1> DEFINE J == {i \in 0..k : \A e :
                   /\ (\E j \in 1..i : s[j] = e) => At(f[i], e, << >>) = Rest(h, e, old, n)
                   /\ ~(\E j \in 1..i : s[j] = e) => At(f[i], e, << >>) = Readers(h, e)}
<1>3. 0 \in J
  BY <1>1, <1>2 DEF Readers
<1>4. ASSUME NEW i \in 1..k, i - 1 \in J PROVE i \in J
  <2> DEFINE new == s[i]
             v == RemoveFirst(Append(At(f[i - 1], new, << >>), n), old)
  <2>1. i \in Nat /\ i - 1 \in Nat /\ i \in 0..k
    BY <1>1
  <2>2. \A e : /\ (\E j \in 1..i - 1 : s[j] = e) => At(f[i - 1], e, << >>) = Rest(h, e, old, n)
               /\ ~(\E j \in 1..i - 1 : s[j] = e) => At(f[i - 1], e, << >>) = Readers(h, e)
    BY <1>4
  <2>3. ~(\E j \in 1..i - 1 : s[j] = new)
    <3>1. \A j \in 1..i - 1 : j \in DOMAIN s /\ i \in DOMAIN s /\ j # i
      BY <1>1, <2>1
    <3> QED
      BY <1>1, <3>1 DEF IsInjective
  <2>4. v = Rest(h, new, old, n)
    BY <2>2, <2>3 DEF Rest
  <2>5. f[i] = With(f[i - 1], new, v)
    BY <1>2
  <2>6. \A e : (\E j \in 1..i : s[j] = e) <=> e = new \/ (\E j \in 1..i - 1 : s[j] = e)
    BY <2>1
  <2> HIDE DEF new, v
  <2>7. At(f[i], new, << >>) = v /\ \A e : e # new => At(f[i], e, << >>) = At(f[i - 1], e, << >>)
    BY <2>5, WithAt
  <2> QED
    BY <2>1, <2>2, <2>4, <2>6, <2>7
<1> HIDE DEF J
<1>5. \A i \in 0..k : i \in J
  BY <1>1, <1>3, <1>4, UpTo
<1>6. \A e : /\ (\E j \in 1..k : s[j] = e) => At(f[k], e, << >>) = Rest(h, e, old, n)
             /\ ~(\E j \in 1..k : s[j] = e) => At(f[k], e, << >>) = Readers(h, e)
  BY <1>1, <1>5 DEF J
<1>7. \A e : e \in Range(s) <=> \E j \in 1..k : s[j] = e
  BY <1>1 DEF Range
<1> QED
  BY <1>1, <1>2, <1>6, <1>7

LEMMA ReplacedParts ==
  ASSUME NEW D, NEW h \in Graphs(D), NEW old \in D, NEW n \in D, NEW i, i = Replaced(h, old, n)
  PROVE  /\ i.nodes = RemoveFirst(h.nodes, old)
         /\ \A m \in D : i.ins[m] = IF m = n THEN h.ins[old] ELSE h.ins[m]
         /\ \A m \in D : i.outs[m] = IF m = n THEN h.outs[old] ELSE h.outs[m]
         /\ i.inputs = h.inputs /\ i.outputs = h.outputs /\ i.inits = h.inits
         /\ \A e : Readers(i, e) = At(TakeOver(h, old, n), e, << >>)
         /\ \A e : Prev(i, e) = IF e \in Writes(h, old) THEN n ELSE Prev(h, e)
<1> DEFINE N == RemoveFirst(h.nodes, old)
           I == [h.ins EXCEPT ![n] = h.ins[old]]
           O == [h.outs EXCEPT ![n] = h.outs[old]]
           Q == TakeOver(h, old, n)
           W == Writes(h, old)
           P == [e \in DOMAIN h.prev \cup W |-> IF e \in W THEN n ELSE h.prev[e]]
<1>1. i = [h EXCEPT !.nodes = N, !.ins = I, !.outs = O, !.next = Q, !.prev = P]
  BY DEF Replaced
<1>2. /\ \A m \in D : I[m] = IF m = n THEN h.ins[old] ELSE h.ins[m]
      /\ \A m \in D : O[m] = IF m = n THEN h.outs[old] ELSE h.outs[m]
  BY GraphParts
<1>3. \A e : At(P, e, NoNode) = IF e \in W THEN n ELSE At(h.prev, e, NoNode)
  <2> HIDE DEF W
  <2> QED
    BY DEF At
<1> HIDE DEF N, I, O, Q, P
<1>4. /\ i.nodes = N /\ i.ins = I /\ i.outs = O /\ i.next = Q /\ i.prev = P
      /\ i.inputs = h.inputs /\ i.outputs = h.outputs /\ i.inits = h.inits
  BY <1>1 DEF Graphs
<1> QED
  BY <1>2, <1>3, <1>4 DEF N, Q, Prev, Readers

(* __setitem__ with an operator node.                                      *)
LEMMA ReplaceGood ==
  ASSUME NEW D, NEW h, Good(D, h), NEW old \in NodesOf(h), NEW n \in NodesOf(h), old # n, Idle(h, n)
  PROVE  /\ ~Replace(h, old, n).fails
         /\ WellFormed(Replace(h, old, n).graph)
         /\ Dag(Replace(h, old, n).graph)
         /\ MapsMatch(Replace(h, old, n).graph)
<1> DEFINE i == Replaced(h, old, n)
<1>1. /\ h \in Graphs(D) /\ NoNode \notin D /\ NodesOf(h) \subseteq D /\ WellFormed(h) /\ Dag(h)
      /\ \A e \in Edges(h) : Told(h, e)
      /\ \A m \in NodesOf(h) : IsInjective(h.ins[m]) /\ IsInjective(h.outs[m])
      /\ \A m \in NodesOf(h) : Reads(h, m) \subseteq Edges(h) /\ Writes(h, m) \subseteq Edges(h)
  BY GoodParts
<1>2. old \in D /\ n \in D
  BY <1>1
<1>3. Reads(h, n) = {} /\ Writes(h, n) = {}
  BY DEF Idle, Reads, Writes, Range
<1>4. \A e \in Reads(h, old) : Count(h.ins[old], e) = 1 /\ Count(Readers(h, e), old) = 1
  <2> TAKE e \in Reads(h, old)
  <2>1. h.ins[old] \in Seq(Labels) /\ e \in Range(h.ins[old])
    BY <1>1, <1>2, GraphParts DEF Reads
  <2>2. Count(h.ins[old], e) = 1
    BY <1>1, <2>1, CountOnce
  <2>3. Told(h, e) /\ Readers(h, e) \in Seq(D)
    BY <1>1, GraphParts
  <2>4. IsInjective(Readers(h, e)) /\ old \in Range(Readers(h, e))
    BY <2>3 DEF Told
  <2>5. Count(Readers(h, e), old) = 1
    BY <2>3, <2>4, CountOnce
  <2> QED
    BY <2>2, <2>5
<1>5. Replace(h, old, n) = Done(i)
  <2>1. Replace(h, old, n).fails = FALSE
    <3>1. ~\E e \in Reads(h, old) : Count(h.ins[old], e) > Count(Readers(h, e), old)
      BY <1>4
    <3> QED
      BY <3>1 DEF Replace, Done
  <2>2. Replace(h, old, n) \in {Raise(h), Done(i)}
    BY <1>1, <1>2, ReplacedIs
  <2> HIDE DEF i
  <2> QED
    BY <2>1, <2>2, FailsIs
<1> HIDE DEF i
<1>6. i \in Graphs(D)
  <2>1. Typed(D, h)
    BY DEF Good
  <2>2. Typed(D, Replace(h, old, n).graph)
    BY <2>1, ReplaceTyped
  <2> QED
    BY <1>5, <2>2, FailsIs DEF Typed
<1>7. /\ i.nodes = RemoveFirst(h.nodes, old)
      /\ \A m \in D : i.ins[m] = IF m = n THEN h.ins[old] ELSE h.ins[m]
      /\ \A m \in D : i.outs[m] = IF m = n THEN h.outs[old] ELSE h.outs[m]
      /\ i.inputs = h.inputs /\ i.outputs = h.outputs /\ i.inits = h.inits
      /\ \A e : Readers(i, e) = At(TakeOver(h, old, n), e, << >>)
      /\ \A e : Prev(i, e) = IF e \in Writes(h, old) THEN n ELSE Prev(h, e)
  BY <1>1, <1>2, ReplacedParts DEF i
<1>8. \A m : m \in NodesOf(i) <=> m \in NodesOf(h) /\ m # old
  <2> DEFINE s == h.nodes
  <2>1. s \in Seq(D) /\ IsInjective(s) /\ NodesOf(h) = Range(s)
    BY <1>1, GraphParts DEF NodesOf
  <2>2. NodesOf(i) = Range(RemoveFirst(s, old))
    BY <1>7 DEF NodesOf
  <2> HIDE DEF s
  <2> QED
    BY <2>1, <2>2, RemoveFirstProps
<1>9. /\ Reads(i, n) = Reads(h, old) /\ Writes(i, n) = Writes(h, old)
      /\ \A m \in NodesOf(i) : m # n => Reads(i, m) = Reads(h, m) /\ Writes(i, m) = Writes(h, m)
  BY <1>1, <1>2, <1>7, <1>8 DEF Reads, Writes
<1>10. Swapped(h, i, old, n)
  BY <1>3, <1>7, <1>8, <1>9 DEF Swapped, Sources
<1>11. Dag(i)
  BY <1>1, <1>6, <1>10, SwappedDag
<1>12. WellFormed(i) /\ \A x : x \in Produced(i) <=> x \in Produced(h)
  <2>1. \A m \in NodesOf(i) : IsInjective(i.outs[m])
    BY <1>1, <1>2, <1>7, <1>8
  <2> QED
    BY <1>1, <1>10, <2>1, SwappedWell
<1>13. /\ \A e \in Reads(h, old) : Readers(i, e) = Rest(h, e, old, n)
       /\ \A e : e \notin Reads(h, old) => Readers(i, e) = Readers(h, e)
  BY <1>1, <1>2, <1>7, TakeOverIs
<1>14. ASSUME NEW e \in Edges(i) PROVE Told(i, e)
  <2>1. e \in Edges(h)
    <3>1. \/ e \in Sources(i) \/ e \in i.outputs \/ Prev(i, e) # NoNode
          \/ \E m \in NodesOf(i) : e \in Reads(i, m) \/ e \in Writes(i, m)
      BY <1>1, <1>6, EdgesAre
    <3>2. Sources(i) = Sources(h) /\ i.outputs = h.outputs
      BY <1>10 DEF Swapped
    <3>3. CASE \E m \in NodesOf(i) : e \in Reads(i, m) \/ e \in Writes(i, m)
      <4>1. \E m \in NodesOf(h) : e \in Reads(h, m) \/ e \in Writes(h, m)
        BY <1>8, <1>9, <3>3
      <4> QED
        BY <1>1, <4>1, EdgesAre
    <3>4. CASE Prev(i, e) # NoNode
      <4>1. e \in Writes(h, old) \/ Prev(h, e) # NoNode
        BY <1>7, <3>4
      <4> QED
        BY <1>1, <4>1, EdgesAre
    <3>5. CASE e \in Sources(i) \/ e \in i.outputs
      BY <1>1, <3>2, <3>5, EdgesAre
    <3> QED
      BY <3>1, <3>3, <3>4, <3>5
  <2>2. Told(h, e) /\ Readers(h, e) \in Seq(D)
    BY <1>1, <2>1, GraphParts
  <2>3. /\ IsInjective(Readers(i, e))
        /\ \A m : m \in Range(Readers(i, e)) <=> m \in NodesOf(i) /\ e \in Reads(i, m)
    <3>1. CASE e \in Reads(h, old)
      <4>1. IsInjective(Readers(h, e)) /\ n \notin Range(Readers(h, e))
        BY <1>3, <2>2 DEF Told
      <4>2. /\ IsInjective(Rest(h, e, old, n))
            /\ \A m : m \in Range(Rest(h, e, old, n)) <=> (m \in Range(Readers(h, e)) /\ m # old) \/ m = n
        BY <1>1, <1>2, <4>1, RestIs
      <4>3. Readers(i, e) = Rest(h, e, old, n)
        BY <1>13, <3>1
      <4> QED
        BY <1>3, <1>8, <1>9, <2>2, <3>1, <4>2, <4>3 DEF Told
    <3>2. CASE e \notin Reads(h, old)
      <4>1. Readers(i, e) = Readers(h, e)
        BY <1>13, <3>2
      <4> QED
        BY <1>3, <1>8, <1>9, <2>2, <3>2, <4>1 DEF Told
    <3> QED
      BY <3>1, <3>2
  <2>4. \A m \in NodesOf(i) : e \in Writes(i, m) => Prev(i, e) = m
    <3> TAKE m \in NodesOf(i)
    <3> HAVE e \in Writes(i, m)
    <3>1. CASE m = n
      BY <1>7, <1>9, <3>1
    <3>2. CASE m # n
      <4>1. m \in NodesOf(h) /\ m # old /\ e \in Writes(h, m)
        BY <1>8, <1>9, <3>2
      <4>2. e \notin Writes(h, old)
        BY <1>1, <4>1 DEF WellFormed
      <4> QED
        BY <1>7, <2>2, <4>1, <4>2 DEF Told
    <3> QED
      BY <3>1, <3>2
  <2>5. e \notin Produced(i) => Prev(i, e) = NoNode
    <3> HAVE e \notin Produced(i)
    <3>1. e \notin Produced(h)
      BY <1>12
    <3>2. e \notin Writes(h, old)
      BY <3>1 DEF Produced
    <3> QED
      BY <1>7, <2>2, <3>1, <3>2 DEF Told
  <2> QED
    BY <2>3, <2>4, <2>5 DEF Told
<1>15. MapsMatch(i)
  BY <1>1, <1>6, <1>12, <1>14, MapsTell
<1> QED
  BY <1>5, <1>11, <1>12, <1>15, FailsIs

-------------------------------------------------------------------------------
(* Bypasses                                                                *)

LEMMA ForgetIs ==
  ASSUME NEW D, NEW h \in Graphs(D), NEW n, NEW k, k = ForgetOutputs(h, n)
  PROVE  /\ k \in Graphs(D) /\ k.nodes = h.nodes /\ k.ins = h.ins /\ k.outs = h.outs
         /\ k.inputs = h.inputs /\ k.outputs = h.outputs /\ k.inits = h.inits
         /\ \A x \in Writes(h, n) : Prev(k, x) = NoNode /\ Readers(k, x) = << >>
         /\ \A x : x \notin Writes(h, n) => Prev(k, x) = Prev(h, x) /\ Readers(k, x) = Readers(h, x)
<1> DEFINE W == Writes(h, n)
           P == [e \in DOMAIN h.prev \ W |-> h.prev[e]]
           Q == [e \in DOMAIN h.next \ W |-> h.next[e]]
<1>1. k \in Graphs(D)
  BY ForgetType
<1>2. k = [h EXCEPT !.prev = P, !.next = Q]
  BY DEF ForgetOutputs
<1> HIDE DEF W
<1>3. /\ \A x \in W : At(P, x, NoNode) = NoNode /\ At(Q, x, << >>) = << >>
      /\ \A x : x \notin W => /\ At(P, x, NoNode) = At(h.prev, x, NoNode)
                              /\ At(Q, x, << >>) = At(h.next, x, << >>)
  BY DEF At
<1> HIDE DEF P, Q
<1>4. /\ k.nodes = h.nodes /\ k.ins = h.ins /\ k.outs = h.outs
      /\ k.inputs = h.inputs /\ k.outputs = h.outputs /\ k.inits = h.inits
      /\ k.prev = P /\ k.next = Q
  BY <1>2 DEF Graphs
<1> QED
  BY <1>1, <1>3, <1>4 DEF Prev, Readers, W

(* The graph with n off the list of nodes, where remove starts from.       *)
Start(h, n) == [h EXCEPT !.nodes = RemoveFirst(h.nodes, n)]

LEMMA StartIs ==
  ASSUME NEW D, NEW h \in Graphs(D), NEW n
  PROVE  /\ Start(h, n) \in Graphs(D)
         /\ \A m : m \in NodesOf(Start(h, n)) <=> m \in NodesOf(h) /\ m # n
         /\ Start(h, n).ins = h.ins /\ Start(h, n).outs = h.outs
         /\ Start(h, n).inputs = h.inputs /\ Start(h, n).outputs = h.outputs
         /\ Start(h, n).inits = h.inits
         /\ \A x : Prev(Start(h, n), x) = Prev(h, x) /\ Readers(Start(h, n), x) = Readers(h, x)
<1> DEFINE s == h.nodes
           t == RemoveFirst(s, n)
           i == Start(h, n)
<1>1. s \in Seq(D) /\ IsInjective(s) /\ NodesOf(h) = Range(s)
  BY GraphParts DEF NodesOf
<1>2. i = [h EXCEPT !.nodes = t]
  BY DEF Start
<1> HIDE DEF s, i
<1>3. /\ t \in Seq(D) /\ IsInjective(t) /\ Range(t) \subseteq Range(s)
      /\ Range(s) \ {n} \subseteq Range(t) /\ n \notin Range(t)
  BY <1>1, RemoveFirstProps
<1> HIDE DEF t
<1>4. i \in Graphs(D) /\ NodesOf(i) = Range(t)
  BY <1>1, <1>2, <1>3, NodesSet
<1>5. /\ i.ins = h.ins /\ i.outs = h.outs /\ i.inputs = h.inputs /\ i.outputs = h.outputs
      /\ i.inits = h.inits /\ i.prev = h.prev /\ i.next = h.next
  BY <1>2 DEF Graphs
<1>6. \A m : m \in NodesOf(i) <=> m \in NodesOf(h) /\ m # n
  BY <1>1, <1>3, <1>4
<1> QED
  BY <1>4, <1>5, <1>6 DEF i, Prev, Readers

(* What is done with the one input of a node, by default.                  *)
LEMMA DisconnectOne ==
  ASSUME NEW h, NEW n, NEW e, NEW out, NEW cut, NEW wiring, wiring = Single(1),
         e = h.ins[n][1], out = h.outs[n][1], Len(h.outs[n]) = 1,
         cut = SetReaders(h, e, RemoveFirst(Readers(h, e), n))
  PROVE  /\ Readers(cut, out) # << >> => Disconnect(n, wiring, h, 1) = Done(PassOn(cut, out, e))
         /\ Readers(cut, out) = << >> /\ out \notin h.outputs =>
              Disconnect(n, wiring, h, 1) = Done(cut)
         /\ /\ Readers(cut, out) = << >> /\ out \in h.outputs
            /\ Prev(cut, e) # NoNode /\ CanReroute(cut, Readers(cut, e), e)
            /\ e \in Writes(cut, Prev(cut, e))
            => Disconnect(n, wiring, h, 1) = Done(WriteOutput(cut, n, out, e))
<1>1. 1 \in DOMAIN wiring /\ wiring[1] = 1
  BY DEF Single
<1>2. Disconnect(n, wiring, h, 1) =
        IF Readers(cut, out) # << >> THEN Done(PassOn(cut, out, e))
        ELSE IF out \notin h.outputs \/ Prev(cut, e) = NoNode THEN Done(cut)
        ELSE IF ~CanReroute(cut, Readers(cut, e), e) \/ e \notin Writes(cut, Prev(cut, e))
        THEN Raise(cut)
        ELSE Done(WriteOutput(cut, n, out, e))
  BY <1>1 DEF Disconnect
<1> QED
  BY <1>2

LEMMA RemoveOne ==
  ASSUME NEW D, NEW h \in Graphs(D), NoNode \notin D, NEW n \in D, NEW wiring \in Wirings,
         Len(h.ins[n]) = 1, NEW j, Disconnect(n, wiring, Start(h, n), 1) = Done(j)
  PROVE  /\ ~RemoveNode(h, n, wiring).fails
         /\ RemoveNode(h, n, wiring).graph = ForgetOutputs(j, n)
<1>1. PICK f, start :
         /\ start = [h EXCEPT !.nodes = RemoveFirst(h.nodes, n)]
         /\ RemoveSteps(h, n, wiring, f)
         /\ RemoveNode(h, n, wiring) = [f[Len(h.ins[n])] EXCEPT !.graph = ForgetOutputs(@, n)]
  <2>0. h \in Graphs(D) /\ NoNode \notin D /\ n \in D /\ wiring \in Wirings
    OBVIOUS
  <2>1. \E f, start :
           /\ start = [h EXCEPT !.nodes = RemoveFirst(h.nodes, n)]
           /\ start \in Graphs(D) /\ Follows(h, start, {}) /\ NodesOf(start) = NodesOf(h) \ {n}
           /\ RemoveSteps(h, n, wiring, f)
           /\ \A i \in 0..Len(h.ins[n]) : Cuts(D, n, start, f[i].graph) /\ f[i].fails \in BOOLEAN
           /\ RemoveNode(h, n, wiring) =
                [f[Len(h.ins[n])] EXCEPT !.graph = ForgetOutputs(@, n)]
    BY ONLY <2>0, RemoveLoop
  <2> QED
    BY ONLY <2>1
<1>2. start = Start(h, n)
  BY <1>1 DEF Start
<1>3. /\ f[0] = Done(Start(h, n))
      /\ f[1] = IF f[0].fails THEN f[0] ELSE Disconnect(n, wiring, f[0].graph, 1)
  BY <1>1, <1>2 DEF RemoveSteps
<1>4. f[1] = Done(j)
  <2> DEFINE s == Start(h, n)
             d == Disconnect(n, wiring, s, 1)
  <2>1. d = Done(j)
    OBVIOUS
  <2>2. f[0] = Done(s) /\ f[1] = IF f[0].fails THEN f[0] ELSE Disconnect(n, wiring, f[0].graph, 1)
    BY <1>3
  <2> HIDE DEF s
  <2>3. f[0].fails = FALSE /\ f[0].graph = s
    BY <2>2, FailsIs
  <2>4. f[1] = Disconnect(n, wiring, s, 1)
    BY <2>2, <2>3
  <2> QED
    BY <2>1, <2>4
<1>5. RemoveNode(h, n, wiring) = [Done(j) EXCEPT !.graph = ForgetOutputs(@, n)]
  BY <1>1, <1>4
<1> QED
  BY <1>5 DEF Done

(* A node with one input and one output is to be removed by default.       *)
BypassCase(D, h, n, e, out, wiring) ==
  /\ Good(D, h) /\ n \in NodesOf(h)
  /\ wiring \in Wirings /\ wiring = Single(1)
  /\ Len(h.ins[n]) = 1 /\ Len(h.outs[n]) = 1
  /\ e = h.ins[n][1] /\ out = h.outs[n][1]

LEMMA OneRow ==
  ASSUME NEW T, NEW s \in Seq(T), Len(s) = 1
  PROVE  s[1] \in T /\ \A x : x \in Range(s) <=> x = s[1]
<1>1. DOMAIN s = 1..1 /\ s[1] \in T
  OBVIOUS
<1>2. \A i \in DOMAIN s : i = 1
  BY <1>1
<1>3. 1 \in DOMAIN s
  BY <1>1
<1> QED
  BY <1>1, <1>2, <1>3 DEF Range

LEMMA BypassParts ==
  ASSUME NEW D, NEW h, NEW n, NEW e, NEW out, NEW wiring, BypassCase(D, h, n, e, out, wiring)
  PROVE  /\ n \in D /\ e \in Labels /\ out \in Labels /\ e # out
         /\ Reads(h, n) = {e} /\ Writes(h, n) = {out}
         /\ out \notin Sources(h) /\ e \notin h.outputs
         /\ \A m \in NodesOf(h) : m # n => out \notin Writes(h, m)
         /\ Told(h, e) /\ Told(h, out)
         /\ out \in h.outputs => Readers(h, out) = << >>
<1> USE DEF BypassCase
<1>1. /\ h \in Graphs(D) /\ NoNode \notin D /\ NodesOf(h) \subseteq D /\ WellFormed(h) /\ Dag(h)
      /\ \A x \in Edges(h) : Told(h, x)
      /\ \A m \in NodesOf(h) : Reads(h, m) \cap h.outputs = {}
      /\ \A m \in NodesOf(h) : Reads(h, m) \subseteq Edges(h) /\ Writes(h, m) \subseteq Edges(h)
  BY GoodParts
<1>2. n \in D
  BY <1>1
<1>3. e \in Labels /\ Reads(h, n) = {e}
  <2> DEFINE s == h.ins[n]
  <2>1. s \in Seq(Labels) /\ Len(s) = 1 /\ e = s[1] /\ Reads(h, n) = Range(s)
    BY <1>1, <1>2, GraphParts DEF Reads
  <2> HIDE DEF s
  <2>2. e \in Labels /\ \A x : x \in Range(s) <=> x = e
    BY <2>1, OneRow
  <2> QED
    BY <2>1, <2>2
<1>4. out \in Labels /\ Writes(h, n) = {out}
  <2> DEFINE s == h.outs[n]
  <2>1. s \in Seq(Labels) /\ Len(s) = 1 /\ out = s[1] /\ Writes(h, n) = Range(s)
    BY <1>1, <1>2, GraphParts DEF Writes
  <2> HIDE DEF s
  <2>2. out \in Labels /\ \A x : x \in Range(s) <=> x = out
    BY <2>1, OneRow
  <2> QED
    BY <2>1, <2>2
<1>5. e # out
  <2> SUFFICES ASSUME e = out PROVE FALSE
    OBVIOUS
  <2>1. <<"node", n>> \in Vertices(h)
    BY DEF Vertices
  <2>2. Takes(h, <<"node", n>>) = {e} /\ Gives(h, <<"node", n>>) = {e}
    BY <1>3, <1>4 DEF Takes, Gives
  <2>3. Feeds(h, <<"node", n>>, <<"node", n>>)
    BY <1>1, <2>1, <2>2, FeedsIs
  <2> QED
    BY <1>1, <2>1, <2>3 DEF Dag
<1>6. /\ out \notin Sources(h) /\ e \notin h.outputs
      /\ \A m \in NodesOf(h) : m # n => out \notin Writes(h, m)
      /\ Told(h, e) /\ Told(h, out)
  BY <1>1, <1>3, <1>4 DEF WellFormed
<1>7. ASSUME out \in h.outputs PROVE Readers(h, out) = << >>
  <2>1. Range(Readers(h, out)) = {}
    BY <1>1, <1>6, <1>7 DEF Told
  <2> QED
    BY <1>1, <2>1, NoReaders
<1> QED
  BY <1>2, <1>3, <1>4, <1>5, <1>6, <1>7

(* The node reads its input no more.                                       *)
Cut(h, n, e) == SetReaders(Start(h, n), e, RemoveFirst(Readers(h, e), n))

LEMMA CutIs ==
  ASSUME NEW D, NEW h \in Graphs(D), NEW n, NEW e \in Labels, NEW cut, cut = Cut(h, n, e)
  PROVE  /\ cut \in Graphs(D)
         /\ \A m : m \in NodesOf(cut) <=> m \in NodesOf(h) /\ m # n
         /\ cut.ins = h.ins /\ cut.outs = h.outs
         /\ cut.outputs = h.outputs /\ Sources(cut) = Sources(h)
         /\ Readers(cut, e) = RemoveFirst(Readers(h, e), n)
         /\ \A x : x # e => Readers(cut, x) = Readers(h, x)
         /\ \A x : Prev(cut, x) = Prev(h, x)
<1> DEFINE s == RemoveFirst(Readers(h, e), n)
           q == Readers(h, e)
           start == Start(h, n)
           next == With(start.next, e, s)
<1>1. /\ start \in Graphs(D)
      /\ \A m : m \in NodesOf(start) <=> m \in NodesOf(h) /\ m # n
      /\ start.ins = h.ins /\ start.outs = h.outs
      /\ start.inputs = h.inputs /\ start.outputs = h.outputs /\ start.inits = h.inits
      /\ \A x : Prev(start, x) = Prev(h, x) /\ Readers(start, x) = Readers(h, x)
  BY StartIs
<1>2. s \in Seq(D)
  <2>1. q \in Seq(D)
    BY GraphParts
  <2> HIDE DEF q
  <2>2. RemoveFirst(q, n) \in Seq(D)
    BY <2>1, RemoveFirstProps
  <2> QED
    BY <2>2 DEF q
<1>3. cut = SetReaders(start, e, s)
  BY DEF Cut
<1> HIDE DEF start, s
<1>4. /\ cut \in Graphs(D) /\ cut = [start EXCEPT !.next = next]
      /\ Readers(cut, e) = s /\ \A x : x # e => Readers(cut, x) = Readers(start, x)
      /\ \A x : Prev(cut, x) = Prev(start, x)
  BY <1>1, <1>2, <1>3, SetReadersIs
<1> HIDE DEF next
<1>5. /\ cut.nodes = start.nodes /\ cut.ins = start.ins /\ cut.outs = start.outs
      /\ cut.inputs = start.inputs /\ cut.outputs = start.outputs /\ cut.inits = start.inits
  BY <1>1, <1>4 DEF Graphs
<1>6. NodesOf(cut) = NodesOf(start) /\ Sources(cut) = Sources(h)
  BY <1>1, <1>5 DEF NodesOf, Sources
<1> QED
  BY <1>1, <1>4, <1>5, <1>6 DEF s

(* The readers of the output, if any, read the input.                      *)
Passed(D, h, k, n, e, out) ==
  /\ k \in Graphs(D)
  /\ \A m : m \in NodesOf(k) <=> m \in NodesOf(h) /\ m # n
  /\ \A m \in D : m \in Range(Readers(h, out)) => k.ins[m] = ReplaceAll(h.ins[m], out, e)
  /\ \A m \in D : m \notin Range(Readers(h, out)) => k.ins[m] = h.ins[m]
  /\ k.outs = h.outs /\ k.outputs = h.outputs /\ Sources(k) = Sources(h)
  /\ Readers(k, e) = RemoveFirst(Readers(h, e), n) \o Readers(h, out)
  /\ Readers(k, out) = << >> /\ Prev(k, out) = NoNode
  /\ \A x : x # e /\ x # out => Readers(k, x) = Readers(h, x)
  /\ \A x : x # out => Prev(k, x) = Prev(h, x)

LEMMA PassOnRewires ==
  ASSUME NEW D, NEW h \in Graphs(D), NEW out, NEW e \in Labels
  PROVE  /\ PassIns(h, out, e) \in [D -> Seq(Labels)]
         /\ PassOn(h, out, e) = SetReaders(Rewired(h, PassIns(h, out, e), h.outs),
                                           e, Readers(h, e) \o Readers(h, out))
<1>1. PassIns(h, out, e) \in [D -> Seq(Labels)]
  BY PassOnIs
<1>2. PassIns(h, out, e) =
        [m \in Objects(h) |->
           IF m \in Range(Readers(h, out)) THEN ReplaceAll(h.ins[m], out, e) ELSE h.ins[m]]
  BY DEF PassIns
<1> DEFINE ins == PassIns(h, out, e)
           both == Readers(h, e) \o Readers(h, out)
<1>3. PassOn(h, out, e) = SetReaders([h EXCEPT !.ins = ins], e, both)
  BY <1>2 DEF PassOn
<1> HIDE DEF ins
<1>4. [h EXCEPT !.ins = ins] = Rewired(h, ins, h.outs)
  BY DEF Rewired, Graphs
<1> QED
  BY <1>1, <1>3, <1>4 DEF ins

LEMMA PassedOn ==
  ASSUME NEW D, NEW h, NEW n, NEW e, NEW out, NEW wiring, BypassCase(D, h, n, e, out, wiring),
         Readers(h, out) # << >>, NEW k, k = ForgetOutputs(PassOn(Cut(h, n, e), out, e), n)
  PROVE  Passed(D, h, k, n, e, out)
<1> DEFINE cut == Cut(h, n, e)
           ins == PassIns(cut, out, e)
           both == Readers(cut, e) \o Readers(cut, out)
           set == Rewired(cut, ins, h.outs)
           j == PassOn(cut, out, e)
<1>1. h \in Graphs(D)
  BY GoodParts DEF BypassCase
<1>2. n \in D /\ e \in Labels /\ out \in Labels /\ e # out /\ Writes(h, n) = {out}
  BY BypassParts
<1>3. /\ cut \in Graphs(D)
      /\ \A m : m \in NodesOf(cut) <=> m \in NodesOf(h) /\ m # n
      /\ cut.ins = h.ins /\ cut.outs = h.outs
      /\ cut.outputs = h.outputs /\ Sources(cut) = Sources(h)
      /\ Readers(cut, e) = RemoveFirst(Readers(h, e), n)
      /\ \A x : x # e => Readers(cut, x) = Readers(h, x)
      /\ \A x : Prev(cut, x) = Prev(h, x)
  BY <1>1, <1>2, CutIs
<1> HIDE DEF cut
<1>4. /\ ins \in [D -> Seq(Labels)]
      /\ j = SetReaders(set, e, both)
  <2>1. cut \in Graphs(D) /\ e \in Labels
    BY <1>2, <1>3
  <2> HIDE DEF j
  <2>2. /\ ins \in [D -> Seq(Labels)]
        /\ PassOn(cut, out, e) = SetReaders(Rewired(cut, ins, cut.outs), e, both)
    BY ONLY <2>1, PassOnRewires
  <2> QED
    BY <1>3, <2>2 DEF j
<1>5. /\ \A m \in D : m \in Range(Readers(h, out)) => ins[m] = ReplaceAll(h.ins[m], out, e)
      /\ \A m \in D : m \notin Range(Readers(h, out)) => ins[m] = h.ins[m]
  <2>1. Objects(cut) = D /\ Readers(cut, out) = Readers(h, out)
    BY <1>2, <1>3, GraphParts
  <2>2. ins = [m \in D |-> IF m \in Range(Readers(h, out)) THEN ReplaceAll(h.ins[m], out, e) ELSE h.ins[m]]
    BY <1>3, <2>1 DEF PassIns
  <2> HIDE DEF ins
  <2> QED
    BY <2>2
<1>6. both \in Seq(D)
  <2>1. Readers(cut, e) \in Seq(D) /\ Readers(cut, out) \in Seq(D)
    BY <1>3, GraphParts
  <2> QED
    BY <2>1, ConcatIn
<1> HIDE DEF ins, both
<1>7. Wired(D, cut, set, ins, h.outs) /\ SameMaps(cut, set)
  <2>1. h.outs \in [D -> Seq(Labels)]
    BY <1>1, GraphParts
  <2> QED
    BY <1>3, <1>4, <2>1, RewiredIs
<1> HIDE DEF set
<1>8. /\ Wired(D, cut, j, ins, h.outs)
      /\ Readers(j, e) = both
      /\ \A x : x # e => Readers(j, x) = Readers(set, x)
      /\ \A x : Prev(j, x) = Prev(set, x)
  BY <1>2, <1>4, <1>6, <1>7, ReadersPut
<1> HIDE DEF j
<1>9. /\ j \in Graphs(D) /\ j.ins = ins /\ j.outs = h.outs
      /\ j.nodes = cut.nodes /\ j.outputs = cut.outputs
      /\ NodesOf(j) = NodesOf(cut) /\ Sources(j) = Sources(cut)
  BY <1>8, WiredParts
<1>10. Writes(j, n) = {out}
  BY <1>2, <1>9 DEF Writes
<1>11. k = ForgetOutputs(j, n)
  BY DEF j, cut
<1>12. /\ k \in Graphs(D) /\ k.nodes = j.nodes /\ k.ins = j.ins /\ k.outs = j.outs
       /\ k.inputs = j.inputs /\ k.outputs = j.outputs /\ k.inits = j.inits
       /\ Prev(k, out) = NoNode /\ Readers(k, out) = << >>
       /\ \A x : x # out => Prev(k, x) = Prev(j, x) /\ Readers(k, x) = Readers(j, x)
  BY <1>9, <1>10, <1>11, ForgetIs
<1>13. NodesOf(k) = NodesOf(j) /\ Sources(k) = Sources(j)
  BY <1>12 DEF NodesOf, Sources
<1>14. /\ Readers(k, e) = RemoveFirst(Readers(h, e), n) \o Readers(h, out)
       /\ \A x : x # e /\ x # out => Readers(k, x) = Readers(h, x)
       /\ \A x : x # out => Prev(k, x) = Prev(h, x)
  <2>1. Readers(k, e) = both /\ both = RemoveFirst(Readers(h, e), n) \o Readers(h, out)
    BY <1>2, <1>3, <1>8, <1>12 DEF both
  <2> QED
    BY <1>3, <1>7, <1>8, <1>12, <2>1 DEF SameMaps
<1> QED
  BY <1>3, <1>5, <1>9, <1>12, <1>13, <1>14 DEF Passed

LEMMA PassedNone ==
  ASSUME NEW D, NEW h, NEW n, NEW e, NEW out, NEW wiring, BypassCase(D, h, n, e, out, wiring),
         Readers(h, out) = << >>, NEW k, k = ForgetOutputs(Cut(h, n, e), n)
  PROVE  Passed(D, h, k, n, e, out)
<1> DEFINE cut == Cut(h, n, e)
           s == RemoveFirst(Readers(h, e), n)
<1>1. h \in Graphs(D)
  BY GoodParts DEF BypassCase
<1>2. n \in D /\ e \in Labels /\ out \in Labels /\ e # out /\ Writes(h, n) = {out}
  BY BypassParts
<1>3. /\ cut \in Graphs(D)
      /\ \A m : m \in NodesOf(cut) <=> m \in NodesOf(h) /\ m # n
      /\ cut.ins = h.ins /\ cut.outs = h.outs
      /\ cut.outputs = h.outputs /\ Sources(cut) = Sources(h)
      /\ Readers(cut, e) = s
      /\ \A x : x # e => Readers(cut, x) = Readers(h, x)
      /\ \A x : Prev(cut, x) = Prev(h, x)
  BY <1>1, <1>2, CutIs
<1> HIDE DEF cut
<1>4. Writes(cut, n) = {out} /\ k = ForgetOutputs(cut, n)
  BY <1>2, <1>3 DEF Writes, cut
<1>5. /\ k \in Graphs(D) /\ k.nodes = cut.nodes /\ k.ins = cut.ins /\ k.outs = cut.outs
      /\ k.inputs = cut.inputs /\ k.outputs = cut.outputs /\ k.inits = cut.inits
      /\ Prev(k, out) = NoNode /\ Readers(k, out) = << >>
      /\ \A x : x # out => Prev(k, x) = Prev(cut, x) /\ Readers(k, x) = Readers(cut, x)
  BY <1>3, <1>4, ForgetIs
<1>6. NodesOf(k) = NodesOf(cut) /\ Sources(k) = Sources(cut)
  BY <1>5 DEF NodesOf, Sources
<1>7. Readers(k, e) = s \o Readers(h, out)
  <2>1. s \in Seq(D)
    BY <1>3, GraphParts
  <2>2. Readers(k, e) = s
    BY <1>2, <1>3, <1>5
  <2> HIDE DEF s
  <2>3. s \o << >> = s
    BY <2>1
  <2> QED
    BY <2>2, <2>3
<1>8. /\ \A m : m \notin Range(Readers(h, out))
      /\ \A m \in D : k.ins[m] = h.ins[m]
  BY <1>3, <1>5 DEF Range
<1> HIDE DEF s
<1>9. /\ \A x : x # e /\ x # out => Readers(k, x) = Readers(h, x)
      /\ \A x : x # out => Prev(k, x) = Prev(h, x)
  BY <1>3, <1>5
<1> QED
  BY <1>3, <1>5, <1>6, <1>7, <1>8, <1>9 DEF Passed, s

(* What remove does with the one input of the node.                        *)
LEMMA BypassDisconnect ==
  ASSUME NEW D, NEW h, NEW n, NEW e, NEW out, NEW wiring, BypassCase(D, h, n, e, out, wiring),
         NEW j
  PROVE  LET cut == Cut(h, n, e) IN
           \/ Readers(h, out) # << >> /\ j = PassOn(cut, out, e)
           \/ Readers(h, out) = << >> /\ out \notin h.outputs /\ j = cut
           \/ /\ Readers(h, out) = << >> /\ out \in h.outputs
              /\ Prev(cut, e) # NoNode /\ CanReroute(cut, Readers(cut, e), e)
              /\ e \in Writes(cut, Prev(cut, e))
              /\ j = WriteOutput(cut, n, out, e)
           => /\ ~RemoveNode(h, n, wiring).fails
              /\ RemoveNode(h, n, wiring).graph = ForgetOutputs(j, n)
<1> DEFINE cut == Cut(h, n, e)
           s == Start(h, n)
           d == Disconnect(n, wiring, s, 1)
<1>0. /\ wiring \in Wirings /\ wiring = Single(1) /\ Len(h.ins[n]) = 1 /\ Len(h.outs[n]) = 1
      /\ e = h.ins[n][1] /\ out = h.outs[n][1]
  BY DEF BypassCase
<1>1. h \in Graphs(D) /\ NoNode \notin D
  BY GoodParts DEF BypassCase
<1>2. n \in D /\ e \in Labels /\ out \in Labels /\ e # out
  BY BypassParts
<1>3. /\ s.ins = h.ins /\ s.outs = h.outs /\ s.outputs = h.outputs
      /\ Readers(s, e) = Readers(h, e)
  BY <1>1, StartIs
<1>4. cut = SetReaders(s, e, RemoveFirst(Readers(s, e), n))
  BY <1>3 DEF Cut
<1>5. Readers(cut, out) = Readers(h, out)
  <2> HIDE DEF cut
  <2>1. cut = Cut(h, n, e)
    BY DEF cut
  <2> QED
    BY <1>1, <1>2, <2>1, CutIs
<1> HIDE DEF cut, s
<1>6. /\ Readers(cut, out) # << >> => d = Done(PassOn(cut, out, e))
      /\ Readers(cut, out) = << >> /\ out \notin s.outputs => d = Done(cut)
      /\ /\ Readers(cut, out) = << >> /\ out \in s.outputs
         /\ Prev(cut, e) # NoNode /\ CanReroute(cut, Readers(cut, e), e)
         /\ e \in Writes(cut, Prev(cut, e))
         => d = Done(WriteOutput(cut, n, out, e))
  <2>1. e = s.ins[n][1] /\ out = s.outs[n][1] /\ Len(s.outs[n]) = 1
    BY <1>0, <1>3
  <2> QED
    BY <1>0, <1>4, <2>1, DisconnectOne
<1> HIDE DEF d
<1>7. ASSUME d = Done(j)
      PROVE  /\ ~RemoveNode(h, n, wiring).fails
             /\ RemoveNode(h, n, wiring).graph = ForgetOutputs(j, n)
  <2>1. Disconnect(n, wiring, Start(h, n), 1) = Done(j)
    BY <1>7 DEF d, s
  <2> QED
    BY ONLY <1>0, <1>1, <1>2, <2>1, RemoveOne
<1>8. ASSUME \/ Readers(h, out) # << >> /\ j = PassOn(cut, out, e)
             \/ Readers(h, out) = << >> /\ out \notin h.outputs /\ j = cut
             \/ /\ Readers(h, out) = << >> /\ out \in h.outputs
                /\ Prev(cut, e) # NoNode /\ CanReroute(cut, Readers(cut, e), e)
                /\ e \in Writes(cut, Prev(cut, e))
                /\ j = WriteOutput(cut, n, out, e)
      PROVE  d = Done(j)
  BY <1>3, <1>5, <1>6, <1>8
<1> QED
  BY <1>7, <1>8 DEF cut

LEMMA BypassPasses ==
  ASSUME NEW D, NEW h, NEW n, NEW e, NEW out, NEW wiring, BypassCase(D, h, n, e, out, wiring),
         out \notin h.outputs
  PROVE  /\ ~RemoveNode(h, n, wiring).fails
         /\ Passed(D, h, RemoveNode(h, n, wiring).graph, n, e, out)
<1> DEFINE cut == Cut(h, n, e)
<1>1. CASE Readers(h, out) # << >>
  <2>1. /\ ~RemoveNode(h, n, wiring).fails
        /\ RemoveNode(h, n, wiring).graph = ForgetOutputs(PassOn(cut, out, e), n)
    BY <1>1, BypassDisconnect
  <2> QED
    BY <1>1, <2>1, PassedOn
<1>2. CASE Readers(h, out) = << >>
  <2>1. /\ ~RemoveNode(h, n, wiring).fails
        /\ RemoveNode(h, n, wiring).graph = ForgetOutputs(cut, n)
    BY <1>2, BypassDisconnect
  <2> QED
    BY <1>2, <2>1, PassedNone
<1> QED
  BY <1>1, <1>2

(* A list behind another one.                                              *)
LEMMA ConcatOnce ==
  ASSUME NEW T, NEW s \in Seq(T), NEW t \in Seq(T)
  PROVE  /\ \A x : x \in Range(s \o t) <=> x \in Range(s) \/ x \in Range(t)
         /\ IsInjective(s) /\ IsInjective(t) /\ (\A x \in Range(s) : x \notin Range(t))
              => IsInjective(s \o t)
<1> DEFINE w == s \o t
           a == Len(s)
           b == Len(t)
<1>1. /\ a \in Nat /\ b \in Nat /\ DOMAIN s = 1..a /\ DOMAIN t = 1..b /\ DOMAIN w = 1..a + b
      /\ \A i \in 1..a : w[i] = s[i] /\ i \in DOMAIN w
      /\ \A i \in 1..b : w[a + i] = t[i] /\ a + i \in DOMAIN w
      /\ \A i \in DOMAIN w : i \notin 1..a => i - a \in 1..b /\ w[i] = t[i - a]
  OBVIOUS
<1> HIDE DEF w, a, b
<1>2. ASSUME NEW x PROVE x \in Range(w) <=> x \in Range(s) \/ x \in Range(t)
  <2>1. ASSUME x \in Range(s) PROVE x \in Range(w)
    <3>1. PICK i \in 1..a : s[i] = x
      BY <1>1, <2>1 DEF Range
    <3> QED
      BY <1>1, <3>1 DEF Range
  <2>2. ASSUME x \in Range(t) PROVE x \in Range(w)
    <3>1. PICK i \in 1..b : t[i] = x
      BY <1>1, <2>2 DEF Range
    <3> QED
      BY <1>1, <3>1 DEF Range
  <2>3. ASSUME x \in Range(w) PROVE x \in Range(s) \/ x \in Range(t)
    <3>1. PICK i \in DOMAIN w : w[i] = x
      BY <2>3 DEF Range
    <3>2. CASE i \in 1..a
      BY <1>1, <3>1, <3>2 DEF Range
    <3>3. CASE i \notin 1..a
      BY <1>1, <3>1, <3>3 DEF Range
    <3> QED
      BY <3>2, <3>3
  <2> QED
    BY <2>1, <2>2, <2>3
<1>3. ASSUME IsInjective(s), IsInjective(t), \A x \in Range(s) : x \notin Range(t),
             NEW i \in DOMAIN w, NEW j \in DOMAIN w, w[i] = w[j]
      PROVE  i = j
  <2>1. \A l \in 1..a : s[l] \in Range(s)
    BY <1>1 DEF Range
  <2>2. \A l \in 1..b : t[l] \in Range(t)
    BY <1>1 DEF Range
  <2>3. CASE i \in 1..a /\ j \in 1..a
    BY <1>1, <1>3, <2>3 DEF IsInjective
  <2>4. CASE i \notin 1..a /\ j \notin 1..a
    <3>1. i - a = j - a
      BY <1>1, <1>3, <2>4 DEF IsInjective
    <3> QED
      BY <1>1, <3>1
  <2>5. CASE i \in 1..a /\ j \notin 1..a
    BY <1>1, <1>3, <2>1, <2>2, <2>5
  <2>6. CASE i \notin 1..a /\ j \in 1..a
    BY <1>1, <1>3, <2>1, <2>2, <2>6
  <2> QED
    BY <2>3, <2>4, <2>5, <2>6
<1>4. IsInjective(s) /\ IsInjective(t) /\ (\A x \in Range(s) : x \notin Range(t)) => IsInjective(w)
  BY <1>3 DEF IsInjective
<1> QED
  BY <1>2, <1>4 DEF w

(* What the nodes of k read.                                               *)
LEMMA PassedReads ==
  ASSUME NEW D, NEW h, NEW n, NEW e, NEW out, NEW wiring, BypassCase(D, h, n, e, out, wiring),
         NEW k, Passed(D, h, k, n, e, out), NEW m \in NodesOf(k)
  PROVE  /\ m \in NodesOf(h) /\ m # n /\ m \in D
         /\ \A x : x \in Reads(k, m) <=>
                     x # out /\ (x \in Reads(h, m) \/ (x = e /\ out \in Reads(h, m)))
         /\ \A x : x \in Writes(k, m) <=> x \in Writes(h, m)
         /\ e \in Reads(h, m) /\ out \in Reads(h, m) => ~IsInjective(k.ins[m])
<1>1. m \in NodesOf(h) /\ m # n
  BY DEF Passed
<1>2. h \in Graphs(D) /\ m \in D /\ e \in Labels /\ e # out /\ Told(h, out)
  BY <1>1, GoodParts, BypassParts DEF BypassCase
<1>3. \A x : x \in Writes(k, m) <=> x \in Writes(h, m)
  BY DEF Passed, Writes
<1> DEFINE s == h.ins[m]
<1>4. s \in Seq(Labels) /\ Reads(h, m) = Range(s)
  BY <1>2, GraphParts DEF Reads
<1>5. CASE out \notin Reads(h, m)
  <2>1. k.ins[m] = h.ins[m]
    BY <1>2, <1>5 DEF Passed, Told
  <2> QED
    BY <1>1, <1>2, <1>3, <1>5, <2>1 DEF Reads
<1>6. CASE out \in Reads(h, m)
  <2>1. k.ins[m] = ReplaceAll(s, out, e)
    BY <1>1, <1>2, <1>6 DEF Passed, Told
  <2> HIDE DEF s
  <2>2. Range(ReplaceAll(s, out, e)) = (Range(s) \ {out}) \cup (IF out \in Range(s) THEN {e} ELSE {})
    BY <1>2, <1>4, ReplaceAllProps
  <2>3. \A x : x \in Reads(k, m) <=> x # out /\ (x \in Reads(h, m) \/ (x = e /\ out \in Reads(h, m)))
    BY <1>2, <1>4, <1>6, <2>1, <2>2 DEF Reads
  <2>4. ASSUME e \in Reads(h, m) PROVE ~IsInjective(k.ins[m])
    <3>1. PICK i \in DOMAIN s : s[i] = e
      BY <1>4, <2>4 DEF Range
    <3>2. PICK j \in DOMAIN s : s[j] = out
      BY <1>4, <1>6 DEF Range
    <3> DEFINE w == ReplaceAll(s, out, e)
    <3>3. DOMAIN w = DOMAIN s /\ w[i] = e /\ w[j] = e
      BY <1>2, <3>1, <3>2 DEF ReplaceAll
    <3> HIDE DEF w
    <3>4. i # j
      BY <1>2, <3>1, <3>2
    <3>5. ~IsInjective(w)
      BY <3>3, <3>4 DEF IsInjective
    <3> QED
      BY <2>1, <3>5 DEF w
  <2> QED
    BY <1>1, <1>2, <1>3, <2>3, <2>4
<1> QED
  BY <1>5, <1>6

LEMMA PassedSplits ==
  ASSUME NEW D, NEW h, NEW n, NEW e, NEW out, NEW wiring, BypassCase(D, h, n, e, out, wiring),
         NEW k, Passed(D, h, k, n, e, out), out \notin h.outputs
  PROVE  /\ k \in Graphs(D) /\ Split(k, h, n, e, out, e)
         /\ \A m \in NodesOf(k) : IsInjective(k.outs[m])
<1>0. n \in NodesOf(h)
  BY DEF BypassCase
<1>1. /\ e # out /\ Reads(h, n) = {e} /\ Writes(h, n) = {out}
      /\ out \notin Sources(h)
      /\ \A m \in NodesOf(h) : m # n => out \notin Writes(h, m)
  BY BypassParts
<1>2. /\ k \in Graphs(D) /\ k.outs = h.outs /\ k.outputs = h.outputs /\ Sources(k) = Sources(h)
      /\ \A m : m \in NodesOf(k) <=> m \in NodesOf(h) /\ m # n
  BY DEF Passed
<1>3. ASSUME NEW m \in NodesOf(k)
      PROVE  /\ Joined(Reads(h, m), Reads(k, m), e, out, e)
             /\ Joined(Writes(h, m), Writes(k, m), e, out, e)
             /\ out \notin Writes(h, m)
  <2>1. /\ m \in NodesOf(h) /\ m # n
        /\ \A x : x \in Reads(k, m) <=>
                    x # out /\ (x \in Reads(h, m) \/ (x = e /\ out \in Reads(h, m)))
        /\ \A x : x \in Writes(k, m) <=> x \in Writes(h, m)
    BY PassedReads
  <2>2. Joined(Reads(h, m), Reads(k, m), e, out, e)
    BY <1>1, <2>1 DEF Joined
  <2>3. Joined(Writes(h, m), Writes(k, m), e, out, e)
    BY <1>1, <2>1 DEF Joined
  <2> QED
    BY <1>1, <2>1, <2>2, <2>3
<1>4. Split(k, h, n, e, out, e)
  BY <1>0, <1>1, <1>2, <1>3 DEF Split
<1>5. \A m \in NodesOf(k) : IsInjective(k.outs[m])
  <2>1. \A m \in NodesOf(h) : IsInjective(h.outs[m])
    BY GoodParts DEF BypassCase
  <2> QED
    BY <1>2, <2>1
<1> QED
  BY <1>2, <1>4, <1>5

LEMMA PassedTold ==
  ASSUME NEW D, NEW h, NEW n, NEW e, NEW out, NEW wiring, BypassCase(D, h, n, e, out, wiring),
         NEW k, Passed(D, h, k, n, e, out), Plain(k), NEW x \in Edges(k)
  PROVE  Told(k, x)
<1>1. /\ n \in D /\ e # out /\ Reads(h, n) = {e} /\ Writes(h, n) = {out}
      /\ \A m \in NodesOf(h) : m # n => out \notin Writes(h, m)
      /\ Told(h, e) /\ Told(h, out)
  BY BypassParts
<1>2. /\ h \in Graphs(D) /\ NoNode \notin D /\ NodesOf(h) \subseteq D
      /\ \A y \in Edges(h) : Told(h, y)
  BY GoodParts DEF BypassCase
<1>3. /\ k \in Graphs(D) /\ k.outputs = h.outputs /\ Sources(k) = Sources(h)
      /\ \A m : m \in NodesOf(k) <=> m \in NodesOf(h) /\ m # n
      /\ Readers(k, e) = RemoveFirst(Readers(h, e), n) \o Readers(h, out)
      /\ Readers(k, out) = << >> /\ Prev(k, out) = NoNode
      /\ \A y : y # e /\ y # out => Readers(k, y) = Readers(h, y)
      /\ \A y : y # out => Prev(k, y) = Prev(h, y)
  BY DEF Passed
<1>4. ASSUME NEW m \in NodesOf(k)
      PROVE  /\ \A y : y \in Reads(k, m) <=>
                         y # out /\ (y \in Reads(h, m) \/ (y = e /\ out \in Reads(h, m)))
             /\ \A y : y \in Writes(k, m) <=> y \in Writes(h, m)
             /\ e \in Reads(h, m) => out \notin Reads(h, m)
  <2>1. IsInjective(k.ins[m])
    BY DEF Plain
  <2> QED
    BY <2>1, PassedReads
<1>5. ASSUME NEW y, y # out
      PROVE  /\ \A m \in NodesOf(k) : y \in Writes(k, m) <=> y \in Writes(h, m)
             /\ y \in Produced(h) => y \in Produced(k)
  <2>1. \A m \in NodesOf(k) : y \in Writes(k, m) <=> y \in Writes(h, m)
    BY <1>4
  <2>2. ASSUME y \in Produced(h) PROVE y \in Produced(k)
    <3>1. PICK m \in NodesOf(h) : y \in Writes(h, m)
      BY <2>2 DEF Produced
    <3>2. m \in NodesOf(k)
      BY <1>1, <1>3, <1>5, <3>1
    <3> QED
      BY <2>1, <3>1, <3>2 DEF Produced
  <2> QED
    BY <2>1, <2>2
<1>6. ASSUME NEW y, Told(h, y), y # out
      PROVE  /\ \A m \in NodesOf(k) : y \in Writes(k, m) => Prev(k, y) = m
             /\ y \notin Produced(k) => Prev(k, y) = NoNode
  BY <1>3, <1>5, <1>6 DEF Told
<1>7. CASE x = e
  <2> DEFINE q == Readers(h, e)
             s == RemoveFirst(q, n)
             t == Readers(h, out)
  <2>1. q \in Seq(D) /\ t \in Seq(D)
    BY <1>2, GraphParts
  <2>2. /\ IsInjective(q) /\ \A m : m \in Range(q) <=> m \in NodesOf(h) /\ e \in Reads(h, m)
        /\ IsInjective(t) /\ \A m : m \in Range(t) <=> m \in NodesOf(h) /\ out \in Reads(h, m)
    BY <1>1 DEF Told
  <2>3. Readers(k, e) = s \o t
    BY <1>3
  <2> HIDE DEF q, t
  <2>4. /\ s \in Seq(D) /\ IsInjective(s)
        /\ \A m : m \in Range(s) <=> m \in Range(q) /\ m # n
    BY <2>1, <2>2, RemoveFirstProps
  <2> HIDE DEF s
  <2>5. \A m \in Range(s) : m \notin Range(t)
    BY <1>3, <1>4, <2>2, <2>4
  <2>6. /\ IsInjective(Readers(k, e))
        /\ \A m : m \in Range(Readers(k, e)) <=> m \in Range(s) \/ m \in Range(t)
    BY <2>1, <2>2, <2>3, <2>4, <2>5, ConcatOnce
  <2>7. \A m : m \in Range(Readers(k, e)) <=> m \in NodesOf(k) /\ e \in Reads(k, m)
    <3> TAKE m
    <3>1. m \in NodesOf(k) => (e \in Reads(k, m) <=> e \in Reads(h, m) \/ out \in Reads(h, m))
      BY <1>1, <1>4
    <3>2. m \in Range(t) => m # n
      BY <1>1, <2>2
    <3> QED
      BY <1>3, <2>2, <2>4, <2>6, <3>1, <3>2
  <2> QED
    BY <1>1, <1>6, <1>7, <2>6, <2>7 DEF Told
<1>8. CASE x = out
  <2>1. \A m \in NodesOf(k) : out \notin Reads(k, m) /\ out \notin Writes(k, m)
    BY <1>1, <1>3, <1>4
  <2>2. IsInjective(Readers(k, out)) /\ Range(Readers(k, out)) = {}
    BY <1>3 DEF IsInjective, Range
  <2> QED
    BY <1>3, <1>8, <2>1, <2>2 DEF Told
<1>9. CASE x # e /\ x # out
  <2>1. \A m \in NodesOf(k) : /\ x \in Reads(k, m) <=> x \in Reads(h, m)
                              /\ x \in Writes(k, m) <=> x \in Writes(h, m)
    BY <1>4, <1>9
  <2>2. x \in Edges(h)
    <3>1. \/ x \in Sources(k) \/ x \in k.outputs \/ Prev(k, x) # NoNode
          \/ \E m \in NodesOf(k) : x \in Reads(k, m) \/ x \in Writes(k, m)
      BY <1>2, <1>3, EdgesAre
    <3>2. \/ x \in Sources(h) \/ x \in h.outputs \/ Prev(h, x) # NoNode
          \/ \E m \in NodesOf(h) : x \in Reads(h, m) \/ x \in Writes(h, m)
      BY <1>3, <1>9, <2>1, <3>1
    <3> QED
      BY <1>2, <3>2, EdgesAre
  <2>3. Told(h, x) /\ Readers(k, x) = Readers(h, x)
    BY <1>2, <1>3, <1>9, <2>2
  <2>4. \A m : m \in Range(Readers(k, x)) <=> m \in NodesOf(k) /\ x \in Reads(k, m)
    BY <1>1, <1>3, <1>9, <2>1, <2>3 DEF Told
  <2>5. IsInjective(Readers(k, x))
    BY <2>3 DEF Told
  <2> QED
    BY <1>6, <1>9, <2>3, <2>4, <2>5 DEF Told
<1> QED
  BY <1>7, <1>8, <1>9

(* A bypass that does not end at an output of the graph.                   *)
LEMMA PassedGood ==
  ASSUME NEW D, NEW h, NEW n, NEW e, NEW out, NEW wiring, BypassCase(D, h, n, e, out, wiring),
         out \notin h.outputs, NEW k, k = RemoveNode(h, n, wiring).graph
  PROVE  /\ ~RemoveNode(h, n, wiring).fails
         /\ k \in Graphs(D) /\ Split(k, h, n, e, out, e)
         /\ \A m \in NodesOf(k) : IsInjective(k.outs[m])
         /\ Plain(k) => \A x \in Edges(k) : Told(k, x)
<1>1. ~RemoveNode(h, n, wiring).fails /\ Passed(D, h, k, n, e, out)
  BY BypassPasses
<1>2. /\ k \in Graphs(D) /\ Split(k, h, n, e, out, e)
      /\ \A m \in NodesOf(k) : IsInjective(k.outs[m])
  BY <1>1, PassedSplits
<1>3. Plain(k) => \A x \in Edges(k) : Told(k, x)
  BY <1>1, PassedTold
<1> QED
  BY <1>1, <1>2, <1>3

(* A bypass that ends at an output: the node before writes it itself, and  *)
(* the other readers of what it wrote before read the output.              *)
LEMMA OutputWrite ==
  ASSUME NEW D, NEW h \in Graphs(D), NEW n \in D, NEW out \in Labels, NEW e,
         NEW p, p = Prev(h, e), p # NoNode, p # n, e \in Writes(h, p),
         NEW outs, outs = WriteOuts(h, n, out, e)
  PROVE  /\ p \in D /\ outs \in [D -> Seq(Labels)]
         /\ outs[n] = RemoveFirst(h.outs[n], out)
         /\ \E j \in DOMAIN h.outs[p] : h.outs[p][j] = e /\ outs[p] = Put(h.outs[p], j, out)
         /\ \A m \in D : m # n /\ m # p => outs[m] = h.outs[m]
         /\ WriteOutput(h, n, out, e) = Rewired(h, Rerouted(h, Readers(h, e), e, out), outs)
<1> DEFINE s == h.outs[p]
           j == IndexIn(s, e)
           w == Put(s, j, out)
           f == [h.outs EXCEPT ![p] = w]
<1>1. /\ p \in D /\ outs \in [D -> Seq(Labels)]
      /\ j \in 1..Len(s) /\ s[j] = e
      /\ WriteOutput(h, n, out, e) = Rewired(h, Rerouted(h, Readers(h, e), e, out), outs)
  BY WriteOutputIs
<1>2. h.outs \in [D -> Seq(Labels)] /\ DOMAIN s = 1..Len(s)
  BY <1>1, GraphParts, SeqRange
<1>3. outs = [f EXCEPT ![n] = RemoveFirst(@, out)]
  BY DEF WriteOuts
<1> HIDE DEF w
<1>4. f[p] = w /\ \A m \in D : m # p => f[m] = h.outs[m]
  BY <1>1, <1>2
<1>5. DOMAIN f = D
  BY <1>2
<1> HIDE DEF f
<1>6. outs[n] = RemoveFirst(f[n], out) /\ \A m \in D : m # n => outs[m] = f[m]
  BY <1>3, <1>5
<1>7. outs[n] = RemoveFirst(h.outs[n], out) /\ outs[p] = w
  BY <1>1, <1>4, <1>6
<1>8. \A m \in D : m # n /\ m # p => outs[m] = h.outs[m]
  BY <1>4, <1>6
<1>9. \E i \in DOMAIN s : s[i] = e /\ outs[p] = Put(s, i, out)
  BY <1>1, <1>2, <1>7 DEF w
<1> QED
  BY <1>1, <1>7, <1>8, <1>9

LEMMA OutputGood ==
  ASSUME NEW D, NEW h, NEW n, NEW e, NEW out, NEW wiring, BypassCase(D, h, n, e, out, wiring),
         out \in h.outputs, e \notin Sources(h), NEW k, k = RemoveNode(h, n, wiring).graph
  PROVE  /\ ~RemoveNode(h, n, wiring).fails
         /\ k \in Graphs(D) /\ Split(k, h, n, e, out, out)
         /\ \A m \in NodesOf(k) : IsInjective(k.outs[m])
<1> DEFINE cut == Cut(h, n, e)
           q == Readers(h, e)
           s == RemoveFirst(q, n)
           rows == Rerouted(cut, s, e, out)
           outs == WriteOuts(cut, n, out, e)
           j == WriteOutput(cut, n, out, e)
<1>0. n \in NodesOf(h)
  BY DEF BypassCase
<1>1. /\ n \in D /\ e \in Labels /\ out \in Labels /\ e # out
      /\ Reads(h, n) = {e} /\ Writes(h, n) = {out}
      /\ out \notin Sources(h) /\ e \notin h.outputs
      /\ \A m \in NodesOf(h) : m # n => out \notin Writes(h, m)
      /\ Told(h, e) /\ Told(h, out) /\ Readers(h, out) = << >>
  BY BypassParts
<1>2. /\ h \in Graphs(D) /\ NoNode \notin D /\ NodesOf(h) \subseteq D /\ WellFormed(h)
      /\ \A m \in NodesOf(h) : IsInjective(h.ins[m]) /\ IsInjective(h.outs[m])
      /\ \A m \in NodesOf(h) : Reads(h, m) \cap h.outputs = {}
  BY GoodParts DEF BypassCase
<1>3. PICK p \in NodesOf(h) : e \in Writes(h, p)
  <2>1. e \in Sources(h) \cup Produced(h)
    BY <1>0, <1>1, <1>2 DEF WellFormed
  <2> QED
    BY <2>1 DEF Produced
<1>4. /\ p = Prev(h, e) /\ p # n /\ p # NoNode /\ p \in D
      /\ \A m \in NodesOf(h) : m # p => e \notin Writes(h, m)
  BY <1>1, <1>2, <1>3 DEF Told, WellFormed
<1>5. /\ cut \in Graphs(D)
      /\ \A m : m \in NodesOf(cut) <=> m \in NodesOf(h) /\ m # n
      /\ cut.ins = h.ins /\ cut.outs = h.outs
      /\ cut.outputs = h.outputs /\ Sources(cut) = Sources(h)
      /\ Readers(cut, e) = s
      /\ \A x : Prev(cut, x) = Prev(h, x)
  BY <1>1, <1>2, CutIs
<1>6. q \in Seq(D) /\ IsInjective(q) /\ \A m : m \in Range(q) <=> m \in NodesOf(h) /\ e \in Reads(h, m)
  BY <1>1, <1>2, GraphParts DEF Told
<1> HIDE DEF q, cut
<1>7. s \in Seq(D) /\ IsInjective(s) /\ \A m : m \in Range(s) <=> m \in Range(q) /\ m # n
  BY <1>6, RemoveFirstProps
<1> HIDE DEF s
<1>8. /\ \A m \in Range(s) : rows[m] = ReplaceAll(h.ins[m], e, out)
      /\ \A m \in D : m \notin Range(s) => rows[m] = h.ins[m]
      /\ CanReroute(cut, s, e) /\ rows \in [D -> Seq(Labels)]
  <2>1. \A m \in Range(s) : IsInjective(cut.ins[m]) /\ e \in Reads(cut, m)
    BY <1>2, <1>5, <1>6, <1>7 DEF Reads
  <2>2. \A m \in Range(s) : rows[m] = ReplaceAll(cut.ins[m], e, out)
    BY <1>1, <1>5, <1>7, <2>1, RerouteRows
  <2>3. \A m \in D : m \notin Range(s) => rows[m] = cut.ins[m]
    BY <1>1, <1>5, <1>7, <2>1, RerouteRows
  <2>4. CanReroute(cut, s, e)
    BY <1>1, <1>5, <1>7, <2>1, RerouteRows
  <2>5. rows \in [D -> Seq(Labels)]
    BY <1>1, <1>5, <1>7, RerouteIs
  <2> HIDE DEF rows
  <2> QED
    BY <1>5, <2>2, <2>3, <2>4, <2>5
<1>9. /\ outs \in [D -> Seq(Labels)]
      /\ outs[n] = RemoveFirst(h.outs[n], out)
      /\ \E i \in DOMAIN h.outs[p] : h.outs[p][i] = e /\ outs[p] = Put(h.outs[p], i, out)
      /\ \A m \in D : m # n /\ m # p => outs[m] = h.outs[m]
      /\ j = Rewired(cut, rows, outs)
  <2> HIDE DEF rows, outs, j
  <2>1. e \in Writes(cut, p) /\ p = Prev(cut, e)
    BY <1>3, <1>4, <1>5 DEF Writes
  <2>2. outs = WriteOuts(cut, n, out, e)
    BY DEF outs
  <2>3. /\ outs \in [D -> Seq(Labels)]
        /\ outs[n] = RemoveFirst(cut.outs[n], out)
        /\ \E i \in DOMAIN cut.outs[p] : cut.outs[p][i] = e /\ outs[p] = Put(cut.outs[p], i, out)
        /\ \A m \in D : m # n /\ m # p => outs[m] = cut.outs[m]
        /\ WriteOutput(cut, n, out, e) = Rewired(cut, Rerouted(cut, Readers(cut, e), e, out), outs)
    BY <1>1, <1>4, <1>5, <2>1, <2>2, OutputWrite, SMTT(30)
  <2> QED
    BY <1>5, <2>3 DEF rows, j
<1> HIDE DEF outs, rows
<1>10. Wired(D, cut, j, rows, outs)
  <2> HIDE DEF j
  <2> QED
    BY <1>5, <1>8, <1>9, RewiredIs
<1>11. ~RemoveNode(h, n, wiring).fails /\ k = ForgetOutputs(j, n)
  <2>1. Prev(Cut(h, n, e), e) # NoNode /\ CanReroute(Cut(h, n, e), Readers(Cut(h, n, e), e), e)
    BY <1>4, <1>5, <1>8 DEF cut
  <2>2. e \in Writes(Cut(h, n, e), Prev(Cut(h, n, e), e))
    <3>1. e \in Writes(cut, Prev(cut, e))
      BY <1>3, <1>4, <1>5 DEF Writes
    <3> QED
      BY <3>1 DEF cut
  <2>3. j = WriteOutput(Cut(h, n, e), n, out, e)
    BY DEF cut
  <2> HIDE DEF j
  <2> QED
    BY <1>1, <2>1, <2>2, <2>3, BypassDisconnect
<1> HIDE DEF j
<1>12. /\ j \in Graphs(D) /\ j.ins = rows /\ j.outs = outs
       /\ j.nodes = cut.nodes /\ j.outputs = cut.outputs
       /\ NodesOf(j) = NodesOf(cut) /\ Sources(j) = Sources(cut)
  BY <1>10, WiredParts
<1>13. /\ k \in Graphs(D) /\ k.nodes = j.nodes /\ k.ins = j.ins /\ k.outs = j.outs
       /\ k.inputs = j.inputs /\ k.outputs = j.outputs /\ k.inits = j.inits
  BY <1>11, <1>12, ForgetIs
<1>14. /\ NodesOf(k) = NodesOf(cut) /\ Sources(k) = Sources(h) /\ k.outputs = h.outputs
       /\ k.ins = rows /\ k.outs = outs
       /\ \A m : m \in NodesOf(k) <=> m \in NodesOf(h) /\ m # n
  BY <1>5, <1>12, <1>13 DEF NodesOf, Sources
<1>15. \A m \in NodesOf(h) : out \notin Reads(h, m)
  BY <1>2
<1>16. ASSUME NEW m \in NodesOf(k)
       PROVE  \A x : x \in Reads(k, m) <=> x # e /\ (x \in Reads(h, m) \/ (x = out /\ e \in Reads(h, m)))
  <2>1. m \in NodesOf(h) /\ m # n /\ m \in D
    BY <1>2, <1>14
  <2> DEFINE t == h.ins[m]
  <2>2. t \in Seq(Labels) /\ Reads(h, m) = Range(t)
    BY <1>2, <2>1, GraphParts DEF Reads
  <2>3. CASE e \in Reads(h, m)
    <3>1. Reads(k, m) = Range(ReplaceAll(t, e, out))
      BY <1>6, <1>7, <1>8, <1>14, <2>1, <2>3 DEF Reads
    <3> HIDE DEF t
    <3>2. e \in Range(t) /\ out \notin Range(t)
      BY <1>15, <2>1, <2>2, <2>3
    <3>3. \A x : x \in Range(ReplaceAll(t, e, out)) <=> (x \in Range(t) /\ x # e) \/ x = out
      BY <1>1, <2>2, <3>2, ReplaceRow
    <3> QED
      BY <1>1, <2>2, <2>3, <3>1, <3>3
  <2>4. CASE e \notin Reads(h, m)
    <3>1. rows[m] = h.ins[m]
      BY <1>6, <1>7, <1>8, <2>1, <2>4
    <3> QED
      BY <1>14, <2>4, <3>1 DEF Reads
  <2> QED
    BY <2>3, <2>4
<1>17. /\ \A x : x \in Writes(k, p) <=> (x \in Writes(h, p) /\ x # e) \/ x = out
       /\ IsInjective(k.outs[p])
  <2> DEFINE t == h.outs[p]
  <2>1. t \in Seq(Labels) /\ IsInjective(t) /\ Writes(h, p) = Range(t)
    BY <1>2, <1>4, GraphParts DEF Writes
  <2>2. out \notin Range(t)
    BY <1>1, <1>4, <2>1
  <2>3. PICK i \in DOMAIN t : t[i] = e /\ k.outs[p] = Put(t, i, out)
    BY <1>9, <1>14
  <2>4. Writes(k, p) = Range(Put(t, i, out))
    BY <2>3 DEF Writes
  <2> HIDE DEF t
  <2> QED
    BY <1>1, <2>1, <2>2, <2>3, <2>4, PutRow
<1>18. ASSUME NEW m \in NodesOf(k), m # p
       PROVE  /\ \A x : x \in Writes(k, m) <=> x \in Writes(h, m)
              /\ IsInjective(k.outs[m])
  <2>1. k.outs[m] = h.outs[m] /\ m \in NodesOf(h)
    BY <1>2, <1>9, <1>14, <1>18
  <2> QED
    BY <1>2, <2>1 DEF Writes
<1>19. ASSUME NEW m \in NodesOf(k)
       PROVE  /\ Joined(Reads(h, m), Reads(k, m), e, out, out)
              /\ Joined(Writes(h, m), Writes(k, m), e, out, out)
              /\ out \notin Writes(h, m)
  <2>1. m \in NodesOf(h) /\ m # n /\ out \notin Writes(h, m) /\ out \notin Reads(h, m)
    BY <1>1, <1>14, <1>15
  <2>2. Joined(Reads(h, m), Reads(k, m), e, out, out)
    BY <1>1, <1>16, <2>1 DEF Joined
  <2>3. Joined(Writes(h, m), Writes(k, m), e, out, out)
    <3>1. CASE m = p
      BY <1>1, <1>3, <1>17, <2>1, <3>1 DEF Joined
    <3>2. CASE m # p
      <4>1. e \notin Writes(h, m)
        BY <1>4, <2>1, <3>2
      <4> QED
        BY <1>1, <1>18, <2>1, <3>2, <4>1 DEF Joined
    <3> QED
      BY <3>1, <3>2
  <2> QED
    BY <2>1, <2>2, <2>3
<1>20. Split(k, h, n, e, out, out)
  BY <1>0, <1>1, <1>14, <1>19 DEF Split
<1>21. \A m \in NodesOf(k) : IsInjective(k.outs[m])
  BY <1>17, <1>18
<1> QED
  BY <1>11, <1>13, <1>20, <1>21

LEMMA BypassGood ==
  ASSUME IInv, RemoveAny, NEW n \in NodesOf(g), Bypass(n), Plain(g), Sound(g)
  PROVE  /\ ~raised' /\ op'[2] = n
         /\ WellFormed(g') /\ Dag(g')
         /\ Writes(g, n) \cap g.outputs = {} /\ Plain(g') => MapsMatch(g')
         /\ \A u, v \in Vertices(g) \ {<<"node", n>>} : Feeds(g, u, v) <=> Feeds(g', u, v)
<1> DEFINE D == Objects(g)
           wiring == Single(1)
           e == g.ins[n][1]
           out == g.outs[n][1]
           res == RemoveNode(g, n, wiring)
<1>1. Good(D, g)
  BY DEF IInv, Good
<1>2. g \in Graphs(D) /\ NoNode \notin D /\ WellFormed(g) /\ Dag(g)
  BY <1>1, GoodParts
<1>3. /\ op' = <<"remove", n, wiring>> /\ Len(g.ins[n]) = 1 /\ Len(g.outs[n]) = 1
      /\ Writes(g, n) \cap g.outputs # {} => Reads(g, n) \cap Sources(g) = {}
  BY DEF Bypass, Single
<1>4. wiring \in Wirings /\ g' = res.graph /\ raised' = res.fails
  <2>1. ASSUME NEW name, NEW r, Edit(name, r) PROVE g' = r.graph /\ raised' = r.fails /\ op' = name
    BY <2>1 DEF Edit
  <2>2. CASE \E x \in Sources(g) \cup g.outputs : Edit(<<"drop", x>>, Done(RemovePort(g, x)))
    <3>1. PICK x : op' = <<"drop", x>>
      BY <2>1, <2>2
    <3>2. op'[1] = "drop" /\ op'[1] = "remove"
      BY <1>3, <3>1
    <3> QED
      BY <3>2
  <2>3. CASE \E m \in NodesOf(g), w \in Wirings :
                Edit(<<"remove", m, w>>, RemoveNode(g, m, w))
    <3>1. PICK m \in NodesOf(g), w \in Wirings :
             Edit(<<"remove", m, w>>, RemoveNode(g, m, w))
      BY <2>3
    <3>2. /\ g' = RemoveNode(g, m, w).graph /\ raised' = RemoveNode(g, m, w).fails
          /\ op' = <<"remove", m, w>>
      BY <2>1, <3>1
    <3> HIDE DEF wiring
    <3>3. op'[2] = m /\ op'[3] = w /\ op'[2] = n /\ op'[3] = wiring
      BY <1>3, <3>2
    <3> QED
      BY <3>2, <3>3
  <2> QED
    BY <2>2, <2>3 DEF RemoveAny
<1>5. BypassCase(D, g, n, e, out, wiring)
  BY <1>1, <1>3, <1>4 DEF BypassCase
<1> HIDE DEF D, wiring, e, out, res
<1>6. Reads(g, n) = {e} /\ Writes(g, n) = {out}
  BY <1>5, BypassParts
<1>7. ASSUME NEW c, Split(g', g, n, e, out, c), g' \in Graphs(D),
             \A m \in NodesOf(g') : IsInjective(g'.outs[m])
      PROVE  /\ WellFormed(g') /\ Dag(g')
             /\ \A u, v \in Vertices(g) \ {<<"node", n>>} : Feeds(g, u, v) <=> Feeds(g', u, v)
  <2>1. WellFormed(g')
    BY <1>2, <1>7, SplitWellDown
  <2>2. Dag(g')
    BY <1>2, <1>7, SplitDagDown
  <2>3. ASSUME NEW u \in Vertices(g) \ {<<"node", n>>}, NEW v \in Vertices(g) \ {<<"node", n>>}
        PROVE  Feeds(g, u, v) <=> Feeds(g', u, v)
    <3>1. u \in Vertices(g) /\ u # <<"node", n>> /\ v \in Vertices(g) /\ v # <<"node", n>>
      BY <2>3
    <3> QED
      BY <1>2, <1>7, <3>1, SplitFeeds
  <2> QED
    BY <2>1, <2>2, <2>3
<1>8. op'[2] = n
  BY <1>3
<1>9. CASE out \notin g.outputs
  <2>1. /\ ~res.fails /\ g' \in Graphs(D) /\ Split(g', g, n, e, out, e)
        /\ \A m \in NodesOf(g') : IsInjective(g'.outs[m])
        /\ Plain(g') => \A x \in Edges(g') : Told(g', x)
    BY <1>4, <1>5, <1>9, PassedGood DEF res
  <2>2. /\ WellFormed(g') /\ Dag(g')
        /\ \A u, v \in Vertices(g) \ {<<"node", n>>} : Feeds(g, u, v) <=> Feeds(g', u, v)
    BY <1>7, <2>1
  <2>3. Plain(g') => MapsMatch(g')
    BY <1>2, <2>1, <2>2, MapsTell
  <2> QED
    BY <1>4, <1>8, <2>1, <2>2, <2>3
<1>10. CASE out \in g.outputs
  <2>1. e \notin Sources(g)
    BY <1>3, <1>6, <1>10
  <2>2. /\ ~res.fails /\ g' \in Graphs(D) /\ Split(g', g, n, e, out, out)
        /\ \A m \in NodesOf(g') : IsInjective(g'.outs[m])
    BY <1>4, <1>5, <1>10, <2>1, OutputGood DEF res
  <2>3. /\ WellFormed(g') /\ Dag(g')
        /\ \A u, v \in Vertices(g) \ {<<"node", n>>} : Feeds(g, u, v) <=> Feeds(g', u, v)
    BY <1>7, <2>2
  <2> QED
    BY <1>4, <1>6, <1>8, <1>10, <2>2, <2>3
<1> QED
  BY <1>9, <1>10

(* What the edits that the theorems are about come to.                     *)
LEMMA EditGood ==
  ASSUME IInv, [Next]_vars, ~(UNCHANGED vars), Plain(g), Sound(g)
  PROVE  /\ Insertion => /\ ~raised' /\ WellFormed(g') /\ Dag(g') /\ MapsMatch(g')
                         /\ \A u, v \in Vertices(g) \ {<<"node", op'[2]>>} :
                              Feeds(g, u, v) <=> Feeds(g', u, v)
         /\ op'[1] = "replace" => ~raised' /\ WellFormed(g') /\ Dag(g') /\ MapsMatch(g')
         /\ \A n \in NodesOf(g) : Bypass(n) =>
              /\ ~raised' /\ WellFormed(g') /\ Dag(g')
              /\ Writes(g, n) \cap g.outputs = {} /\ Plain(g') => MapsMatch(g')
              /\ \A u, v \in Vertices(g) \ {<<"node", op'[2]>>} :
                   Feeds(g, u, v) <=> Feeds(g', u, v)
<1>1. ASSUME Insertion
      PROVE  /\ ~raised' /\ WellFormed(g') /\ Dag(g') /\ MapsMatch(g')
             /\ \A u, v \in Vertices(g) \ {<<"node", op'[2]>>} :
                  Feeds(g, u, v) <=> Feeds(g', u, v)
  <2>1. op'[1] \in {"insert", "insertAt"}
    BY <1>1 DEF Insertion
  <2>2. Insert
    BY <2>1, OpIs DEF Next
  <2>3. ~raised' /\ Good(Objects(g), g)
    BY <1>1, <2>2, InsertionGood
  <2>4. PICK n \in NodesOf(g) : op'[2] = n /\ Inserted(Objects(g), g, n, g')
    BY <1>1, <2>2, InsertionGood
  <2>5. /\ WellFormed(g') /\ Dag(g') /\ MapsMatch(g')
        /\ \A u, v \in Vertices(g) \ {<<"node", n>>} : Feeds(g, u, v) <=> Feeds(g', u, v)
    BY <2>3, <2>4, InsertedIs
  <2> QED
    BY <2>3, <2>4, <2>5
<1>2. ASSUME op'[1] = "replace"
      PROVE  ~raised' /\ WellFormed(g') /\ Dag(g') /\ MapsMatch(g')
  <2>1. SetItem
    BY <1>2, OpIs DEF Next
  <2>2. PICK old \in NodesOf(g), n \in NodesOf(g) :
           old # n /\ Bare(n) /\ Edit(<<"replace", old, n>>, Replace(g, old, n))
    BY <2>1 DEF SetItem
  <2>3. g' = Replace(g, old, n).graph /\ raised' = Replace(g, old, n).fails
    BY <2>2 DEF Edit
  <2>4. Good(Objects(g), g) /\ Idle(g, n)
    BY <2>2, BareIdle DEF IInv, Good
  <2> QED
    BY <2>2, <2>3, <2>4, ReplaceGood
<1>3. ASSUME NEW n \in NodesOf(g), Bypass(n)
      PROVE  /\ ~raised' /\ WellFormed(g') /\ Dag(g')
             /\ Writes(g, n) \cap g.outputs = {} /\ Plain(g') => MapsMatch(g')
             /\ \A u, v \in Vertices(g) \ {<<"node", op'[2]>>} :
                  Feeds(g, u, v) <=> Feeds(g', u, v)
  <2>1. op'[1] = "remove"
    BY <1>3 DEF Bypass
  <2>2. RemoveAny
    BY <2>1, OpIs DEF Next
  <2> QED
    BY <1>3, <2>2, BypassGood
<1> QED
  BY <1>1, <1>2, <1>3

(* insert_node, __setitem__ and remove by default.  In a graph that is     *)
(* well formed, whose maps are right, they find every reader and writer    *)
(* they need, raise nothing, and leave no reader of an edge that is gone   *)
(* and no cycle.                                                           *)
THEOREM EditsAreSound == Spec => EditsKeepGraph
<1>1. ASSUME IInv, [Next]_vars, ~(UNCHANGED vars),
             Insertion \/ op'[1] = "replace" \/ \E n \in NodesOf(g) : Bypass(n),
             Plain(g), Sound(g)
      PROVE  ~raised' /\ WellFormed(g') /\ Dag(g')
  BY <1>1, EditGood
<1>2. IInv /\ [Next]_vars =>
        [ /\ Insertion \/ op'[1] = "replace" \/ \E n \in NodesOf(g) : Bypass(n)
          /\ Plain(g) /\ Sound(g)
          => ~raised' /\ WellFormed(g') /\ Dag(g') ]_vars
  BY <1>1
<1> QED
  BY <1>2, IInvAlways, PTL DEF Spec, EditsKeepGraph

(* The same operations keep the maps _prev_node_map and _next_node_map     *)
(* right without update_map, but for the removal of the node before an     *)
(* output of the graph.                                                    *)
THEOREM MapsStayRight == Spec => MapsFollow
<1>1. ASSUME IInv, [Next]_vars, ~(UNCHANGED vars),
             \/ Insertion \/ op'[1] = "replace"
             \/ \E n \in NodesOf(g) : Bypass(n) /\ Writes(g, n) \cap g.outputs = {},
             Plain(g), Sound(g), Plain(g')
      PROVE  MapsMatch(g')
  BY <1>1, EditGood
<1>2. IInv /\ [Next]_vars =>
        [ /\ \/ Insertion \/ op'[1] = "replace"
             \/ \E n \in NodesOf(g) : Bypass(n) /\ Writes(g, n) \cap g.outputs = {}
          /\ Plain(g) /\ Sound(g) /\ Plain(g')
          => MapsMatch(g') ]_vars
  BY <1>1
<1> QED
  BY <1>2, IInvAlways, PTL DEF Spec, MapsFollow

(* insert_node and remove by default change nothing in what depends on     *)
(* what among the other nodes, the inputs and the outputs: no path is cut, *)
(* and none is laid.                                                       *)
THEOREM PathsStay == Spec => DependsKept
<1>1. ASSUME IInv, [Next]_vars, ~(UNCHANGED vars),
             Insertion \/ \E n \in NodesOf(g) : Bypass(n),
             Plain(g), Sound(g)
      PROVE  \A v, w \in Vertices(g) \ {<<"node", op'[2]>>} : Feeds(g, v, w) = Feeds(g', v, w)
  <2>1. \A v, w \in Vertices(g) \ {<<"node", op'[2]>>} : Feeds(g, v, w) <=> Feeds(g', v, w)
    BY <1>1, EditGood
  <2>2. ASSUME NEW v, NEW w PROVE Feeds(g, v, w) \in BOOLEAN /\ Feeds(g', v, w) \in BOOLEAN
    BY DEF Feeds
  <2> QED
    BY <2>1, <2>2
<1>2. IInv /\ [Next]_vars =>
        [ /\ Insertion \/ \E n \in NodesOf(g) : Bypass(n)
          /\ Plain(g) /\ Sound(g)
          => \A v, w \in Vertices(g) \ {<<"node", op'[2]>>} :
               Feeds(g, v, w) = Feeds(g', v, w) ]_vars
  BY <1>1
<1> QED
  BY <1>2, IInvAlways, PTL DEF Spec, DependsKept

-------------------------------------------------------------------------------
(* remove_unused_nodes.  The nodes that read what a node writes, and the   *)
(* outputs of the graph that it writes, are what its count starts from.    *)

Following(u, n) == {m \in NodesOf(u) : Reads(u, m) \cap Writes(u, n) # {}}
Going(u, n) == Writes(u, n) \cap u.outputs

(* A graph as the loop finds it.                                           *)
Tidy(D, u) ==
  /\ Mapped(D, u) /\ NoNode \notin D /\ OneEdgeEach(u)
  /\ \A n \in NodesOf(u) : \A e \in Writes(u, n) : Prev(u, e) = n

Counts(u) == [degree : [NodesOf(u) -> Int], removed : SUBSET NodesOf(u), queue : Seq(NodesOf(u))]

(* Where the loop stands: of the nodes that follow p, those in left[p] are *)
(* counted still.                                                          *)
Pruning(u, w, left) ==
  /\ w \in Counts(u) /\ IsInjective(w.queue) /\ Range(w.queue) \cap w.removed = {}
  /\ \A p \in NodesOf(u) : left[p] \subseteq Following(u, p)
  /\ \A p \in w.removed \cup Range(w.queue) : left[p] = {} /\ Going(u, p) = {}
  /\ \A p \in NodesOf(u) \ (w.removed \cup Range(w.queue)) :
       /\ w.degree[p] = Cardinality(left[p]) + Cardinality(Going(u, p))
       /\ w.degree[p] # 0

LEMMA FollowingFinite ==
  ASSUME NEW D, NEW u \in Graphs(D), NEW n \in NodesOf(u)
  PROVE  /\ IsFiniteSet(NodesOf(u)) /\ IsFiniteSet(Going(u, n))
         /\ \A S : S \subseteq Following(u, n) => IsFiniteSet(S)
<1>1. IsFiniteSet(NodesOf(u))
  BY GraphParts, FiniteRange DEF NodesOf
<1>2. IsFiniteSet(Writes(u, n))
  <2>1. u.outs[n] \in Seq(Labels)
    BY GraphParts
  <2> QED
    BY <2>1, FiniteRange DEF Writes
<1>3. IsFiniteSet(Going(u, n))
  BY <1>2, FS_Subset DEF Going
<1>4. ASSUME NEW S, S \subseteq Following(u, n) PROVE IsFiniteSet(S)
  <2>1. S \in SUBSET NodesOf(u)
    BY <1>4 DEF Following
  <2> QED
    BY <1>1, <2>1, FS_Subset
<1> QED
  BY <1>1, <1>3, <1>4

LEMMA OutDegreeIs ==
  ASSUME NEW D, NEW u, Mapped(D, u), NEW n \in NodesOf(u)
  PROVE  OutDegree(u, n) = Cardinality(Following(u, n)) + Cardinality(Going(u, n))
<1>1. u \in Graphs(D) /\ n \in D
  BY GraphParts DEF Mapped
<1>2. \A m : m \in Range(ReadersOf(u, n)) <=> \E e \in Writes(u, n) : m \in Range(Readers(u, e))
  BY <1>1, ReadersOfIs
<1>3. \A e : Range(Readers(u, e)) = ReadersIn(u, e)
  BY DEF Mapped
<1>4. Range(ReadersOf(u, n)) = Following(u, n)
  BY <1>2, <1>3 DEF ReadersIn, Following
<1> QED
  BY <1>4 DEF OutDegree, Going

(* No edge is counted for two nodes, nor is a node counted for twice.      *)
LEMMA OnePlace ==
  ASSUME NEW D, NEW u, Tidy(D, u), NEW n \in NodesOf(u), NEW p \in NodesOf(u),
         NEW i \in 1..Len(u.ins[n]), NEW j \in 1..Len(u.ins[n]),
         u.ins[n][i] \in Writes(u, p), u.ins[n][j] \in Writes(u, p)
  PROVE  i = j
<1> DEFINE S == {k \in DOMAIN u.ins[n] : u.ins[n][k] \in Writes(u, p)}
<1>1. Cardinality(S) <= 1
  BY DEF Tidy, OneEdgeEach
<1>2. u.ins[n] \in Seq(Labels)
  BY GraphParts DEF Tidy, Mapped
<1>3. DOMAIN u.ins[n] = 1..Len(u.ins[n]) /\ Len(u.ins[n]) \in Nat
  BY <1>2
<1>4. i \in S /\ j \in S
  BY <1>3
<1>5. IsFiniteSet(S)
  <2>1. IsFiniteSet(1..Len(u.ins[n]))
    BY <1>3, FS_Interval
  <2>2. S \in SUBSET (1..Len(u.ins[n]))
    BY <1>3
  <2> HIDE DEF S
  <2> QED
    BY <2>1, <2>2, FS_Subset
<1> HIDE DEF S
<1>6. Cardinality(S) \in Nat /\ Cardinality(S) # 0
  BY <1>4, <1>5, FS_CardinalityType, FS_EmptySet
<1>7. Cardinality(S) = 1
  BY <1>1, <1>6
<1>8. PICK x : S = {x}
  BY <1>5, <1>7, FS_Singleton
<1> QED
  BY <1>4, <1>8

LEMMA LeaveType ==
  ASSUME NEW D, NEW u, Tidy(D, u), NEW w \in Counts(u), NEW e
  PROVE  Leave(u, w, e) \in Counts(u)
<1> DEFINE p == Prev(u, e)
<1>1. p \in NodesOf(u) \/ p = NoNode
  BY DEF Tidy, Mapped, WritersOf
<1>2. Leave(u, w, e) = IF p = NoNode \/ p \in w.removed \cup Range(w.queue) THEN w
        ELSE [w EXCEPT !.degree[p] = @ - 1,
                       !.queue = IF w.degree[p] = 1 THEN Append(@, p) ELSE @]
  BY DEF Leave
<1>3. /\ w.degree \in [NodesOf(u) -> Int] /\ w.removed \subseteq NodesOf(u)
      /\ w.queue \in Seq(NodesOf(u))
      /\ w = [degree |-> w.degree, removed |-> w.removed, queue |-> w.queue]
  BY DEF Counts
<1> HIDE DEF p
<1>4. CASE p = NoNode \/ p \in w.removed \cup Range(w.queue)
  BY <1>2, <1>4
<1>5. CASE ~(p = NoNode \/ p \in w.removed \cup Range(w.queue))
  <2> DEFINE d == [w.degree EXCEPT ![p] = @ - 1]
             q2 == IF w.degree[p] = 1 THEN Append(w.queue, p) ELSE w.queue
  <2>1. Leave(u, w, e) = [degree |-> d, removed |-> w.removed, queue |-> q2]
    BY <1>2, <1>3, <1>5
  <2>2. d \in [NodesOf(u) -> Int] /\ q2 \in Seq(NodesOf(u))
    BY <1>1, <1>3, <1>5
  <2> HIDE DEF d, q2
  <2> QED
    BY <1>3, <2>1, <2>2 DEF Counts
<1> QED
  BY <1>4, <1>5

LEMMA LeaveIs ==
  ASSUME NEW D, NEW u, Tidy(D, u), NEW w, NEW left, Pruning(u, w, left), NEW less, NEW e, NEW n,
         \A q \in NodesOf(u) : q # Prev(u, e) => less[q] = left[q],
         \A q \in NodesOf(u) : q = Prev(u, e) => n \in left[q],
         \A q \in NodesOf(u) : q = Prev(u, e) => less[q] = left[q] \ {n}
  PROVE  Pruning(u, Leave(u, w, e), less) /\ Leave(u, w, e).removed = w.removed
<1> DEFINE p == Prev(u, e)
           v == Leave(u, w, e)
           N == NodesOf(u)
<1>1. p \in N \/ p = NoNode
  BY DEF Tidy, Mapped, WritersOf
<1>2. v = IF p = NoNode \/ p \in w.removed \cup Range(w.queue) THEN w
          ELSE [w EXCEPT !.degree[p] = @ - 1,
                         !.queue = IF w.degree[p] = 1 THEN Append(@, p) ELSE @]
  BY DEF Leave
<1>3. NoNode \notin N
  <2>1. N \subseteq D /\ NoNode \notin D
    BY GraphParts DEF Tidy, Mapped
  <2> QED
    BY <2>1
<1>4. /\ w \in Counts(u) /\ IsInjective(w.queue) /\ Range(w.queue) \cap w.removed = {}
      /\ \A q \in N : left[q] \subseteq Following(u, q)
      /\ \A q \in w.removed \cup Range(w.queue) : left[q] = {} /\ Going(u, q) = {}
      /\ \A q \in N \ (w.removed \cup Range(w.queue)) :
           /\ w.degree[q] = Cardinality(left[q]) + Cardinality(Going(u, q))
           /\ w.degree[q] # 0
  BY DEF Pruning
<1>5. /\ w.degree \in [N -> Int] /\ w.removed \subseteq N /\ w.queue \in Seq(N)
      /\ w = [degree |-> w.degree, removed |-> w.removed, queue |-> w.queue]
  BY <1>4 DEF Counts
<1>6. /\ \A q \in N : q # p => less[q] = left[q]
      /\ \A q \in N : q = p => n \in left[q]
      /\ \A q \in N : q = p => less[q] = left[q] \ {n}
  OBVIOUS
<1>7. Range(w.queue) \subseteq N
  BY <1>5, SeqRange
<1> HIDE DEF p, v
<1>8. CASE p = NoNode \/ p \in w.removed \cup Range(w.queue)
  <2>1. v = w
    BY <1>2, <1>8
  <2>2. p \notin N
    <3>1. ASSUME p \in N PROVE FALSE
      <4>1. left[p] = {}
        BY <1>3, <1>4, <1>8, <3>1
      <4> QED
        BY <1>6, <3>1, <4>1
    <3> QED
      BY <3>1
  <2>3. \A q \in w.removed \cup Range(w.queue) : q \in N
    BY <1>5, <1>7
  <2>4. Pruning(u, w, less)
    BY <1>4, <1>6, <2>2, <2>3 DEF Pruning
  <2> QED
    BY <2>1, <2>4 DEF v
<1>9. CASE ~(p = NoNode \/ p \in w.removed \cup Range(w.queue))
  <2> DEFINE d == [w.degree EXCEPT ![p] = @ - 1]
             q2 == IF w.degree[p] = 1 THEN Append(w.queue, p) ELSE w.queue
  <2>1. p \in N /\ p \notin w.removed /\ p \notin Range(w.queue)
    BY <1>1, <1>9
  <2>2. v = [degree |-> d, removed |-> w.removed, queue |-> q2]
    BY <1>2, <1>5, <1>9
  <2>3. d \in [N -> Int] /\ d[p] = w.degree[p] - 1 /\ \A q \in N : q # p => d[q] = w.degree[q]
    BY <1>5, <2>1
  <2> HIDE DEF d
  <2>4. /\ q2 \in Seq(N) /\ IsInjective(q2)
        /\ w.degree[p] = 1 => Range(q2) = Range(w.queue) \cup {p}
        /\ w.degree[p] # 1 => Range(q2) = Range(w.queue)
    BY <1>4, <1>5, <2>1, AppendRange
  <2> HIDE DEF q2
  <2>5. v.degree = d /\ v.removed = w.removed /\ v.queue = q2 /\ v \in Counts(u)
    BY <1>5, <2>2, <2>3, <2>4 DEF Counts
  <2>6. /\ IsFiniteSet(left[p]) /\ IsFiniteSet(Going(u, p)) /\ IsFiniteSet(less[p])
        /\ less[p] \subseteq left[p]
    <3>1. u \in Graphs(D)
      BY DEF Tidy, Mapped
    <3>2. left[p] \subseteq Following(u, p) /\ less[p] \subseteq left[p]
      BY <1>4, <1>6, <2>1
    <3>3. less[p] \subseteq Following(u, p)
      BY <3>2
    <3> QED
      BY <2>1, <3>1, <3>2, <3>3, FollowingFinite
  <2>7. /\ Cardinality(left[p]) \in Nat /\ Cardinality(Going(u, p)) \in Nat
        /\ Cardinality(less[p]) \in Nat
        /\ Cardinality(less[p]) = 0 => less[p] = {}
        /\ Cardinality(Going(u, p)) = 0 => Going(u, p) = {}
    BY <2>6, FS_CardinalityType, FS_EmptySet
  <2>8. d[p] = Cardinality(less[p]) + Cardinality(Going(u, p))
    <3>1. w.degree[p] = Cardinality(left[p]) + Cardinality(Going(u, p))
      BY <1>4, <2>1
    <3>2. n \in left[p] /\ less[p] = left[p] \ {n}
      BY <1>6, <2>1
    <3>3. Cardinality(left[p] \ {n}) = Cardinality(left[p]) - 1
      BY <2>6, <3>2, FS_RemoveElement
    <3> QED
      BY <2>3, <2>7, <3>1, <3>2, <3>3
  <2>9. \A q \in N : less[q] \subseteq Following(u, q)
    BY <1>4, <1>6, <2>1, <2>6
  <2>10. w.degree[p] = 1 <=> Cardinality(less[p]) = 0 /\ Cardinality(Going(u, p)) = 0
    BY <2>3, <2>7, <2>8, <1>5
  <2>11. Range(q2) \cap w.removed = {}
    BY <1>4, <2>1, <2>4
  <2>12. \A q \in w.removed \cup Range(q2) : less[q] = {} /\ Going(u, q) = {}
    <3>1. ASSUME NEW q \in w.removed \cup Range(q2) PROVE less[q] = {} /\ Going(u, q) = {}
      <4>1. CASE q = p
        <5>1. w.degree[p] = 1
          BY <2>1, <2>4, <3>1, <4>1
        <5> QED
          BY <2>7, <2>10, <4>1, <5>1
      <4>2. CASE q # p
        <5>1. q \in w.removed \cup Range(w.queue) /\ q \in N
          BY <1>5, <1>7, <2>4, <3>1, <4>2
        <5> QED
          BY <1>4, <1>6, <4>2, <5>1
      <4> QED
        BY <4>1, <4>2
    <3> QED
      BY <3>1
  <2>13. ASSUME NEW q \in N \ (w.removed \cup Range(q2))
         PROVE  /\ d[q] = Cardinality(less[q]) + Cardinality(Going(u, q))
                /\ d[q] # 0
    <3>1. CASE q = p
      <4>1. w.degree[p] # 1
        BY <2>4, <2>13, <3>1
      <4>2. d[p] # 0
        BY <2>3, <1>5, <2>1, <4>1
      <4> QED
        BY <2>8, <3>1, <4>2
    <3>2. CASE q # p
      <4>1. q \in N \ (w.removed \cup Range(w.queue))
        BY <2>4, <2>13
      <4> QED
        BY <1>4, <1>6, <2>3, <3>2, <4>1
    <3> QED
      BY <3>1, <3>2
  <2>14. Pruning(u, v, less)
    BY <2>4, <2>5, <2>9, <2>11, <2>12, <2>13 DEF Pruning
  <2> QED
    BY <2>5, <2>14 DEF v
<1> QED
  BY <1>8, <1>9

(* A node that is discarded, and then what it read, place after place.     *)
Popped(w) == [w EXCEPT !.queue = Tail(@), !.removed = @ \cup {Head(w.queue)}]

LEMMA PoppedType ==
  ASSUME NEW u, NEW w \in Counts(u), Head(w.queue) \in NodesOf(u),
         Tail(w.queue) \in Seq(NodesOf(u))
  PROVE  /\ Popped(w) \in Counts(u)
         /\ Popped(w).degree = w.degree /\ Popped(w).queue = Tail(w.queue)
         /\ Popped(w).removed = w.removed \cup {Head(w.queue)}
BY DEF Popped, Counts

LEMMA DiscardLoop ==
  ASSUME NEW D, NEW u, Tidy(D, u), NEW w \in Counts(u), w.queue # << >>, IsInjective(w.queue)
  PROVE  \E f :
           /\ f[0] = Popped(w)
           /\ \A i \in 1..Len(u.ins[Head(w.queue)]) :
                f[i] = Leave(u, f[i - 1], u.ins[Head(w.queue)][i])
           /\ Discard(u, w) = f[Len(u.ins[Head(w.queue)])]
<1> DEFINE A == Counts(u)
           n == Head(w.queue)
           s == u.ins[n]
           k == Len(s)
           b == Popped(w)
           step(v, i) == Leave(u, v, s[i])
           E == [p \in A \X (1..k) |-> step(p[1], p[2])]
           Is(f) == f = [i \in 0..k |-> IF i = 0 THEN b ELSE step(f[i - 1], i)]
<1>1. \A v \in A, i \in 1..k : step(v, i) \in A
  BY LeaveType
<1>2. /\ w.degree \in [NodesOf(u) -> Int] /\ w.removed \subseteq NodesOf(u)
      /\ w.queue \in Seq(NodesOf(u))
      /\ w = [degree |-> w.degree, removed |-> w.removed, queue |-> w.queue]
  BY DEF Counts
<1>3. n \in NodesOf(u) /\ Tail(w.queue) \in Seq(NodesOf(u))
  BY <1>2, HeadTail
<1>4. b \in A
  BY <1>3, PoppedType
<1>5. k \in Nat
  <2>1. u \in Graphs(D)
    BY DEF Tidy, Mapped
  <2> QED
    BY <1>3, <2>1, GraphParts
<1>6. Discard(u, w) = (CHOOSE f : Is(f))[k]
  BY DEF Discard, Popped
<1> HIDE DEF A, k, step, b
<1>7. \A v \in A, i \in 1..k : E[<<v, i>>] = step(v, i)
  OBVIOUS
<1>8. PICK f0 \in [0..k -> A] : Rounds(b, k, E, f0)
  <2>1. \A v \in A, i \in 1..k : E[<<v, i>>] \in A
    BY <1>1, <1>7
  <2> HIDE DEF E
  <2> QED
    BY <1>4, <1>5, <2>1, Loop
<1>9. Is(f0)
  <2>1. ASSUME NEW i \in 0..k
        PROVE  f0[i] = IF i = 0 THEN b ELSE step(f0[i - 1], i)
    <3>1. f0[i] = IF i = 0 THEN b ELSE E[<<f0[i - 1], i>>]
      BY <1>8 DEF Rounds
    <3>2. i # 0 => i \in 1..k /\ f0[i - 1] \in A
      BY <1>5, <1>8
    <3> QED
      BY <1>7, <3>1, <3>2
  <2> QED
    BY <2>1
<1> DEFINE f == CHOOSE f : Is(f)
<1>10. Is(f)
  BY <1>9
<1>11. Discard(u, w) = f[k]
  BY <1>6
<1> HIDE DEF f
<1>12. f[0] = b /\ \A i \in 1..k : f[i] = step(f[i - 1], i)
  BY <1>5, <1>10
<1> HIDE DEF Is
<1> QED
  BY <1>11, <1>12 DEF k, step, b

(* Those that follow and are there still.                                  *)
Still(u, R) == [p \in NodesOf(u) |-> Following(u, p) \ R]

LEMMA PruningSame ==
  ASSUME NEW u, NEW w, NEW left, Pruning(u, w, left), NEW less,
         \A p \in NodesOf(u) : less[p] = left[p]
  PROVE  Pruning(u, w, less)
<1>1. \A p \in w.removed \cup Range(w.queue) : p \in NodesOf(u)
  <2>1. w.removed \subseteq NodesOf(u) /\ w.queue \in Seq(NodesOf(u))
    BY DEF Pruning, Counts
  <2> QED
    BY <2>1, SeqRange
<1> QED
  BY <1>1 DEF Pruning

LEMMA PoppedIs ==
  ASSUME NEW u, NEW w, NEW left, Pruning(u, w, left), w.queue # << >>
  PROVE  /\ Pruning(u, Popped(w), left) /\ w \in Counts(u) /\ IsInjective(w.queue)
         /\ Popped(w).removed = w.removed \cup {Head(w.queue)}
         /\ Head(w.queue) \in NodesOf(u) /\ Head(w.queue) \notin w.removed
<1> DEFINE v == Popped(w)
           q == w.queue
<1>1. /\ w.degree \in [NodesOf(u) -> Int] /\ w.removed \subseteq NodesOf(u)
      /\ q \in Seq(NodesOf(u)) /\ IsInjective(q) /\ w \in Counts(u)
      /\ Range(q) \cap w.removed = {}
  BY DEF Pruning, Counts
<1>2. q # << >>
  OBVIOUS
<1>3. q = w.queue /\ v = Popped(w)
  OBVIOUS
<1> HIDE DEF q, v
<1>4. /\ Head(q) \in NodesOf(u) /\ Tail(q) \in Seq(NodesOf(u)) /\ IsInjective(Tail(q))
      /\ Head(q) \in Range(q) /\ Range(Tail(q)) = Range(q) \ {Head(q)}
  BY <1>1, <1>2, HeadTail
<1>5. v \in Counts(u) /\ v.degree = w.degree /\ v.removed = w.removed \cup {Head(q)} /\ v.queue = Tail(q)
  BY <1>1, <1>3, <1>4, PoppedType
<1>6. /\ Range(v.queue) \cap v.removed = {}
      /\ v.removed \cup Range(v.queue) = w.removed \cup Range(w.queue)
  BY <1>1, <1>4, <1>5 DEF q
<1>7. Pruning(u, v, left)
  BY <1>4, <1>5, <1>6 DEF Pruning
<1> QED
  BY <1>1, <1>4, <1>5, <1>7 DEF q, v

LEMMA DiscardIs ==
  ASSUME NEW D, NEW u, Tidy(D, u), NEW w, Pruning(u, w, Still(u, w.removed)), w.queue # << >>
  PROVE  /\ Pruning(u, Discard(u, w), Still(u, Discard(u, w).removed))
         /\ Discard(u, w).removed = w.removed \cup {Head(w.queue)}
         /\ Head(w.queue) \in NodesOf(u) /\ Head(w.queue) \notin w.removed
<1> DEFINE N == NodesOf(u)
           n == Head(w.queue)
           R == w.removed
           s == u.ins[n]
           k == Len(s)
<1>1. /\ Pruning(u, Popped(w), Still(u, R)) /\ w \in Counts(u) /\ IsInjective(w.queue)
      /\ Popped(w).removed = R \cup {n} /\ n \in N /\ n \notin R
  BY PoppedIs
<1>2. PICK f :
        /\ f[0] = Popped(w)
        /\ \A i \in 1..k : f[i] = Leave(u, f[i - 1], s[i])
        /\ Discard(u, w) = f[k]
  BY <1>1, DiscardLoop
<1> HIDE DEF n, R
<1>3. u \in Graphs(D) /\ s \in Seq(Labels)
  <2>1. u \in Graphs(D)
    BY DEF Tidy, Mapped
  <2> QED
    BY <1>1, <2>1, GraphParts
<1>4. k \in Nat /\ Reads(u, n) = {s[j] : j \in 1..k}
  BY <1>3 DEF Reads, Range
<1> HIDE DEF s, k
<1> DEFINE Gone(i, p) == \E j \in 1..i : s[j] \in Writes(u, p)
           left(i) == [p \in N |-> {m \in Following(u, p) : m \notin R /\ ~(m = n /\ Gone(i, p))}]
           J == {i \in 0..k : Pruning(u, f[i], left(i)) /\ f[i].removed = R \cup {n}}
<1>5. 0 \in J
  <2> DEFINE l == left(0)
  <2>1. \A p \in N : l[p] = Still(u, R)[p]
    BY DEF Still
  <2> HIDE DEF l
  <2>2. Pruning(u, f[0], l)
    BY ONLY <1>1, <1>2, <2>1, PruningSame
  <2>3. Pruning(u, f[0], left(0))
    BY <2>2 DEF l
  <2> HIDE DEF left
  <2> QED
    BY <1>1, <1>2, <1>4, <2>3
<1>6. ASSUME NEW i \in 1..k, i - 1 \in J PROVE i \in J
  <2> DEFINE e == s[i]
             l == left(i - 1)
             m == left(i)
             v == f[i - 1]
  <2>1. Pruning(u, v, l) /\ v.removed = R \cup {n} /\ f[i] = Leave(u, v, e)
    BY <1>2, <1>6
  <2>2. ASSUME NEW q \in N PROVE Gone(i, q) <=> Gone(i - 1, q) \/ e \in Writes(u, q)
    <3>1. \A j \in Nat : j \in 1..i <=> j \in 1..(i - 1) \/ j = i
      BY <1>4
    <3> QED
      BY <3>1
  <2>3. ASSUME NEW q \in N PROVE e \in Writes(u, q) <=> q = Prev(u, e)
    <3>1. /\ \A x \in N : \A y \in Writes(u, x) : Prev(u, y) = x
          /\ \A y : Prev(u, y) \in N => y \in Writes(u, Prev(u, y))
      <4>1. N \subseteq D /\ NoNode \notin D
        BY <1>3, GraphParts DEF Tidy
      <4> QED
        BY <4>1 DEF Tidy, Mapped, WritersOf
    <3> QED
      BY <3>1
  <2>4. ASSUME NEW q \in N, q # Prev(u, e) PROVE m[q] = l[q]
    BY <2>2, <2>3, <2>4
  <2>5. ASSUME NEW q \in N, q = Prev(u, e) PROVE n \in l[q] /\ m[q] = l[q] \ {n}
    <3>1. e \in Writes(u, q) /\ e \in Reads(u, n)
      BY <1>4, <2>3, <2>5
    <3>2. n \in Following(u, q)
      BY <1>1, <3>1 DEF Following
    <3>3. ~Gone(i - 1, q)
      <4>1. ASSUME NEW j \in 1..(i - 1), s[j] \in Writes(u, q) PROVE FALSE
        <5>1. j \in 1..k /\ i \in 1..k /\ j # i
          BY <1>4
        <5> QED
          BY <1>1, <3>1, <4>1, <5>1, OnePlace DEF s, k
      <4> QED
        BY <4>1
    <3>4. Gone(i, q)
      BY <2>2, <3>1
    <3> HIDE DEF Gone
    <3> QED
      BY <1>1, <3>2, <3>3, <3>4
  <2> HIDE DEF l, m, v, e
  <2>6. Pruning(u, Leave(u, v, e), m) /\ Leave(u, v, e).removed = v.removed
    BY ONLY Tidy(D, u), <2>1, <2>4, <2>5, LeaveIs
  <2> QED
    BY <2>1, <2>6 DEF m
<1>7. k \in J
  <2> HIDE DEF J
  <2>1. \A i \in 0..k : i \in J
    BY <1>4, <1>5, <1>6, UpTo
  <2> QED
    BY <1>4, <2>1
<1>8. \A p \in N : Still(u, R \cup {n})[p] = left(k)[p]
  <2>1. ASSUME NEW p \in N, n \in Following(u, p) PROVE Gone(k, p)
    BY <1>4, <2>1 DEF Following
  <2> HIDE DEF Gone
  <2>2. ASSUME NEW p \in N, NEW x
        PROVE  x \in Following(u, p) \ (R \cup {n}) <=>
                 x \in Following(u, p) /\ x \notin R /\ ~(x = n /\ Gone(k, p))
    BY <2>1
  <2>3. ASSUME NEW p \in N
        PROVE  Following(u, p) \ (R \cup {n}) =
                 {x \in Following(u, p) : x \notin R /\ ~(x = n /\ Gone(k, p))}
    BY <2>2
  <2> QED
    BY <2>3 DEF Still
<1> DEFINE l == left(k)
<1>9. Pruning(u, f[k], l) /\ f[k].removed = R \cup {n}
  BY <1>7
<1> HIDE DEF l
<1>10. Pruning(u, f[k], Still(u, R \cup {n}))
  BY <1>8, <1>9, PruningSame DEF l
<1> QED
  BY <1>1, <1>2, <1>9, <1>10 DEF n, R

(* The loop: it ends with an empty queue.                                  *)
LEMMA DiscardedLoop ==
  ASSUME NEW D, NEW u, Tidy(D, u), NEW degree, NEW b,
         b = [degree |-> degree, removed |-> {},
              queue |-> Only(u.nodes, {n \in NodesOf(u) : degree[n] = 0})],
         Pruning(u, b, Still(u, {}))
  PROVE  \E w : /\ Discarded(u, degree) = w.removed
                /\ Pruning(u, w, Still(u, w.removed))
                /\ w.queue = << >>
<1> DEFINE A == {w \in Counts(u) : Pruning(u, w, Still(u, w.removed))}
           N == NodesOf(u)
           k == Len(u.nodes)
           step(v) == IF v.queue = << >> THEN v ELSE Discard(u, v)
           E == [p \in A \X (1..k) |-> step(p[1])]
           Is(f) == f = [i \in 0..k |-> IF i = 0 THEN b ELSE IF f[i - 1].queue = << >>
                                        THEN f[i - 1] ELSE Discard(u, f[i - 1])]
<1>1. b \in A /\ k \in Nat
  <2>1. k \in Nat
    BY GraphParts DEF Tidy, Mapped
  <2>2. b.removed = {} /\ b \in Counts(u)
    BY DEF Pruning
  <2> QED
    BY <2>1, <2>2
<1>2. \A v \in A : step(v) \in A
  <2> TAKE v \in A
  <2>1. CASE v.queue = << >>
    BY <2>1
  <2>2. CASE v.queue # << >>
    <3>1. Pruning(u, Discard(u, v), Still(u, Discard(u, v).removed))
      BY <2>2, DiscardIs
    <3>2. Discard(u, v) \in Counts(u)
      BY <3>1 DEF Pruning
    <3> QED
      BY <2>2, <3>1, <3>2
  <2> QED
    BY <2>1, <2>2
<1>3. Discarded(u, degree) = (CHOOSE f : Is(f))[k].removed
  BY DEF Discarded
<1> HIDE DEF k
<1>4. ASSUME NEW v \in A, NEW i \in 1..k PROVE E[<<v, i>>] = step(v)
  <2> HIDE DEF A, step
  <2> QED
    OBVIOUS
<1>5. PICK f : f \in [0..k -> A] /\ Rounds(b, k, E, f)
  <2>1. \A v \in A, i \in 1..k : E[<<v, i>>] \in A
    <3> HIDE DEF A, E, step
    <3> QED
      BY <1>2, <1>4
  <2> HIDE DEF E, A
  <2> QED
    BY <1>1, <2>1, Loop
<1>6. Is(f)
  <2>1. ASSUME NEW i \in 0..k PROVE f[i] = IF i = 0 THEN b ELSE step(f[i - 1])
    <3> HIDE DEF A, E, step
    <3>1. f[i] = IF i = 0 THEN b ELSE E[<<f[i - 1], i>>]
      BY <1>5 DEF Rounds
    <3>2. i # 0 => i \in 1..k /\ f[i - 1] \in A
      BY <1>1, <1>5
    <3> QED
      BY <1>4, <3>1, <3>2
  <2>2. f = [i \in 0..k |-> f[i]]
    BY <1>5 DEF Rounds
  <2> HIDE DEF A, E
  <2> QED
    BY <2>1, <2>2
<1> DEFINE round == CHOOSE f2 : Is(f2)
<1>7. Is(round)
  BY <1>6
<1>8. Discarded(u, degree) = round[k].removed
  BY <1>3
<1> HIDE DEF round
<1>9. round[0] = b /\ \A i \in 1..k : round[i] = step(round[i - 1])
  <2>1. k \in Nat /\ Is(round)
    BY <1>1, <1>7
  <2> QED
    BY ONLY <2>1
<1> HIDE DEF Is, E
<1>10. IsFiniteSet(N) /\ Cardinality(N) = k
  <2>1. u.nodes \in Seq(D) /\ IsInjective(u.nodes)
    BY GraphParts DEF Tidy, Mapped
  <2> QED
    BY <2>1, LengthIs DEF NodesOf, k
<1> DEFINE Holds(i) == /\ round[i] \in A
                       /\ round[i].queue = << >> \/ Cardinality(round[i].removed) = i
           J == {i \in 0..k : Holds(i)}
<1>11. 0 \in J
  <2>1. 0 \in 0..k /\ Cardinality(b.removed) = 0
    BY <1>1, FS_EmptySet
  <2> HIDE DEF A
  <2> QED
    BY <1>1, <1>9, <2>1
<1>12. ASSUME NEW i \in 1..k, i - 1 \in J PROVE Holds(i)
  <2> DEFINE v == round[i - 1]
  <2>1. round[i] = step(v) /\ v \in A /\ (v.queue = << >> \/ Cardinality(v.removed) = i - 1)
    <3> HIDE DEF A, step
    <3> QED
      BY <1>9, <1>12
  <2> HIDE DEF v
  <2>2. CASE v.queue = << >>
    BY <2>1, <2>2
  <2>3. CASE v.queue # << >>
    <3> DEFINE x == Head(v.queue)
    <3>1. /\ Discard(u, v).removed = v.removed \cup {x}
          /\ x \notin v.removed /\ v.removed \subseteq N
      BY <2>1, <2>3, DiscardIs DEF Counts
    <3>2. IsFiniteSet(v.removed)
      BY <1>10, <3>1, FS_Subset
    <3> HIDE DEF x
    <3>3. Cardinality(v.removed \cup {x}) = Cardinality(v.removed) + 1
      BY <3>1, <3>2, FS_AddElement
    <3>4. Cardinality(v.removed) = i - 1
      BY <2>1, <2>3
    <3>5. round[i] = Discard(u, v)
      BY <2>1, <2>3
    <3>6. Cardinality(round[i].removed) = i
      <4>1. round[i].removed = v.removed \cup {x}
        BY <3>1, <3>5
      <4>2. Cardinality(round[i].removed) = (i - 1) + 1
        BY <3>3, <3>4, <4>1
      <4> QED
        BY <4>2, <1>1
    <3>7. round[i] \in A
      BY <1>2, <2>1
    <3> QED
      BY <3>6, <3>7
  <2> QED
    BY <2>2, <2>3
<1>13. Holds(k)
  <2> HIDE DEF Holds
  <2>1. \A i \in 1..k : i - 1 \in J => i \in J
    BY <1>12
  <2>2. k \in 0..k
    BY <1>1
  <2> HIDE DEF J
  <2>3. \A i \in 0..k : i \in J
    BY <1>1, <1>11, <2>1, UpTo
  <2> QED
    BY <2>2, <2>3 DEF J
<1> DEFINE w == round[k]
<1>14. /\ w \in Counts(u) /\ Pruning(u, w, Still(u, w.removed))
       /\ w.queue = << >> \/ Cardinality(w.removed) = k
       /\ Discarded(u, degree) = w.removed
  BY <1>8, <1>13
<1> HIDE DEF w
<1>15. w.queue = << >>
  <2>1. ASSUME Cardinality(w.removed) = k PROVE w.queue = << >>
    <3>1. /\ w.removed \subseteq N /\ w.queue \in Seq(N)
          /\ Range(w.queue) \cap w.removed = {}
      BY <1>14 DEF Pruning, Counts
    <3>2. w.removed = N
      BY <1>10, <2>1, <3>1, FS_Subset
    <3>3. ASSUME w.queue # << >> PROVE FALSE
      <4>1. w.queue[1] \in N /\ w.queue[1] \in Range(w.queue)
        BY <3>1, <3>3, SeqRange
      <4> QED
        BY <3>1, <3>2, <4>1
    <3> QED
      BY <3>3
  <2> QED
    BY <1>14, <2>1
<1> QED
  BY <1>14, <1>15

(* Whom it discards: nodes that write no output, and all of whose readers  *)
(* it discards; and of the others none is such.                            *)
LEMMA DiscardedIs ==
  ASSUME NEW D, NEW u, Tidy(D, u), NEW degree,
         degree = [n \in NodesOf(u) |-> OutDegree(u, n)]
  PROVE  /\ Discarded(u, degree) \subseteq NodesOf(u)
         /\ \A p \in NodesOf(u) :
              p \in Discarded(u, degree) <=>
                Following(u, p) \subseteq Discarded(u, degree) /\ Going(u, p) = {}
<1> DEFINE N == NodesOf(u)
           S == {n \in N : degree[n] = 0}
           q == Only(u.nodes, S)
           b == [degree |-> degree, removed |-> {}, queue |-> q]
           left == Still(u, {})
<1>1. /\ u \in Graphs(D) /\ u.nodes \in Seq(D) /\ IsInjective(u.nodes) /\ N = Range(u.nodes)
  BY GraphParts DEF Tidy, Mapped, NodesOf
<1>2. \A p \in N : degree[p] = Cardinality(Following(u, p)) + Cardinality(Going(u, p))
  BY OutDegreeIs DEF Tidy
<1>3. ASSUME NEW p \in N, NEW T, T \subseteq Following(u, p)
      PROVE  /\ Cardinality(T) \in Nat /\ Cardinality(Going(u, p)) \in Nat
             /\ Cardinality(T) + Cardinality(Going(u, p)) \in Int
             /\ Cardinality(T) + Cardinality(Going(u, p)) = 0 <=> T = {} /\ Going(u, p) = {}
  <2>1. IsFiniteSet(T) /\ IsFiniteSet(Going(u, p))
    BY <1>1, <1>3, FollowingFinite
  <2>2. /\ Cardinality(T) \in Nat /\ Cardinality(Going(u, p)) \in Nat
        /\ Cardinality(T) = 0 <=> T = {}
        /\ Cardinality(Going(u, p)) = 0 <=> Going(u, p) = {}
    BY <2>1, FS_CardinalityType, FS_EmptySet
  <2> QED
    BY <2>2
<1>4. /\ q \in Seq(N) /\ IsInjective(q) /\ Range(q) = S
  <2> DEFINE s == u.nodes
  <2>1. s \in Seq(N) /\ IsInjective(s) /\ Range(s) \cap S = S
    BY <1>1 DEF Range
  <2> HIDE DEF s, S
  <2>2. Only(s, S) \in Seq(N) /\ IsInjective(Only(s, S)) /\ Range(Only(s, S)) = S
    BY <2>1, OnlyProps
  <2> QED
    BY <2>2 DEF s
<1>5. degree \in [N -> Int]
  <2>1. \A p \in N : degree[p] \in Int
    BY <1>2, <1>3
  <2> QED
    BY <2>1
<1>6. Pruning(u, b, left)
  <2>1. \A p \in N : left[p] = Following(u, p)
    BY DEF Still
  <2> HIDE DEF left, q
  <2>2. b.degree = degree /\ b.removed = {} /\ b.queue = q /\ b \in Counts(u)
    BY <1>4, <1>5 DEF Counts
  <2> HIDE DEF b
  <2>3. \A p \in N : p \in S <=> left[p] = {} /\ Going(u, p) = {}
    BY <1>2, <1>3, <2>1
  <2>4. \A p \in S : p \in N
    OBVIOUS
  <2>5. \A p \in N \ S : degree[p] # 0
    OBVIOUS
  <2> HIDE DEF S
  <2> QED
    BY <1>2, <1>4, <2>1, <2>2, <2>3, <2>4, <2>5 DEF Pruning
<1>7. PICK w : /\ Discarded(u, degree) = w.removed
               /\ Pruning(u, w, Still(u, w.removed))
               /\ w.queue = << >>
  <2> HIDE DEF b
  <2>1. b = [degree |-> degree, removed |-> {},
             queue |-> Only(u.nodes, {n \in NodesOf(u) : degree[n] = 0})]
    BY DEF b
  <2> QED
    BY <1>6, <2>1, DiscardedLoop
<1> DEFINE R == w.removed
<1>8. Range(w.queue) = {}
  BY <1>7 DEF Range
<1>9. R \subseteq N /\ \A p \in N : Still(u, R)[p] = Following(u, p) \ R
  BY <1>7 DEF Pruning, Counts, Still
<1>10. /\ \A p \in R : Still(u, R)[p] = {} /\ Going(u, p) = {}
       /\ \A p \in N \ R : ~(Cardinality(Still(u, R)[p]) + Cardinality(Going(u, p)) = 0)
  BY <1>7, <1>8 DEF Pruning
<1> HIDE DEF R
<1>11. ASSUME NEW p \in N
       PROVE  p \in R <=> Following(u, p) \subseteq R /\ Going(u, p) = {}
  <2> DEFINE T == Following(u, p) \ R
  <2>1. Still(u, R)[p] = T /\ T \subseteq Following(u, p)
    BY <1>9
  <2>2. T = {} <=> Following(u, p) \subseteq R
    OBVIOUS
  <2> HIDE DEF T
  <2>3. p \in R => T = {} /\ Going(u, p) = {}
    BY <1>10, <2>1
  <2>4. p \notin R => ~(T = {} /\ Going(u, p) = {})
    BY <1>3, <1>10, <2>1
  <2> QED
    BY <2>2, <2>3, <2>4
<1> QED
  BY <1>7, <1>9, <1>11 DEF R

(* Where each of some nodes is followed by one of them, there is a cycle.  *)
LEMMA Endless ==
  ASSUME NEW D, NEW h \in Graphs(D), NEW R, R \subseteq NodesOf(h), R # {},
         \A p \in R : \E m \in R : m \in Following(h, p)
  PROVE  \E p \in NodesOf(h) : Feeds(h, <<"node", p>>, <<"node", p>>)
<1> DEFINE T == Consumed(h)
           C(m) == Cone(h, Reads(h, m))
           Bad == {T \ C(m) : m \in R}
<1>1. PICK S \in Bad : \A U \in Bad : U \subseteq S => U = S
  <2>1. Bad \subseteq SUBSET T /\ Bad # {}
    OBVIOUS
  <2>2. IsFiniteSet(T)
    BY FiniteConsumed
  <2> HIDE DEF Bad, T
  <2> QED
    BY <2>1, <2>2, SmallestSet
<1>2. PICK p \in R : S = T \ C(p)
  OBVIOUS
<1>3. PICK m \in R : m \in Following(h, p)
  OBVIOUS
<1>4. PICK e : e \in Reads(h, m) /\ e \in Writes(h, p)
  BY <1>3 DEF Following
<1>5. Closed(h, C(m)) /\ Reads(h, m) \subseteq C(m)
  BY ConeProps
<1>6. Reads(h, p) \subseteq C(m)
  BY <1>4, <1>5 DEF Closed
<1>7. C(p) \subseteq C(m)
  <2> DEFINE V == C(m)
  <2> HIDE DEF V
  <2>1. Closed(h, V) /\ Reads(h, p) \subseteq V /\ p \in NodesOf(h)
    BY <1>5, <1>6 DEF V
  <2>2. C(p) \subseteq V
    BY <2>1, ConeProps
  <2> QED
    BY <2>2 DEF V
<1>8. e \in T
  BY <1>4 DEF Consumed
<1> HIDE DEF C, T
<1>9. T \ C(m) = T \ C(p)
  <2>1. T \ C(m) \in Bad
    BY <1>3
  <2>2. T \ C(m) \subseteq S
    BY <1>2, <1>7
  <2> HIDE DEF Bad
  <2>3. T \ C(m) = S
    BY <1>1, <2>1, <2>2
  <2> QED
    BY <1>2, <2>3
<1>10. e \in C(p)
  BY <1>4, <1>5, <1>8, <1>9
<1>11. Gives(h, <<"node", p>>) = Writes(h, p)
  BY DEF Gives
<1>12. Gives(h, <<"node", p>>) \cap C(p) # {}
  BY <1>4, <1>10, <1>11
<1> QED
  BY <1>12, ConeProps DEF C

LEMMA NeededIs ==
  ASSUME NEW D, NEW h \in Graphs(D), NEW n \in NodesOf(h)
  PROVE  n \in Needed(h) <=>
           \E y \in h.outputs : \A S : y \in S /\ Closed(h, S) => Writes(h, n) \cap S # {}
<1>1. ASSUME NEW y \in h.outputs
      PROVE  Feeds(h, <<"node", n>>, <<"output", y>>) <=>
               \A S : y \in S /\ Closed(h, S) => Writes(h, n) \cap S # {}
  <2> DEFINE v == <<"output", y>>
             w == <<"node", n>>
  <2>1. v \in Vertices(h) /\ Takes(h, v) = {y} /\ Gives(h, w) = Writes(h, n)
    BY DEF Vertices, Takes, Gives
  <2> HIDE DEF v, w
  <2>2. Feeds(h, w, v) <=> \A S : Takes(h, v) \subseteq S /\ Closed(h, S) => Gives(h, w) \cap S # {}
    BY <2>1, FeedsIs
  <2>3. \A S : Takes(h, v) \subseteq S <=> y \in S
    BY <2>1
  <2> QED
    BY <2>1, <2>2, <2>3 DEF v, w
<1> QED
  BY <1>1 DEF Needed

(* In a graph without a cycle the nodes are discarded that no output of    *)
(* the graph depends on.                                                   *)
LEMMA UnusedAre ==
  ASSUME NEW D, NEW h \in Graphs(D), Dag(h), NEW R, R \subseteq NodesOf(h),
         \A p \in NodesOf(h) : p \in R <=> Following(h, p) \subseteq R /\ Going(h, p) = {}
  PROVE  \A p \in NodesOf(h) : p \in Needed(h) <=> p \notin R
<1> DEFINE N == NodesOf(h)
<1>1. ASSUME NEW p \in R PROVE p \notin Needed(h)
  <2> DEFINE S == {e \in Labels : \A m \in R : e \notin Writes(h, m)}
  <2>1. ASSUME NEW n \in N, Writes(h, n) \cap S # {} PROVE Reads(h, n) \subseteq S
    <3>1. n \notin R
      BY <2>1
    <3>2. Reads(h, n) \subseteq Labels
      BY GraphParts
    <3>3. ASSUME NEW e \in Reads(h, n), NEW m \in R, e \in Writes(h, m) PROVE FALSE
      <4>1. n \in Following(h, m)
        BY <3>3 DEF Following
      <4> QED
        BY <3>1, <4>1
    <3> QED
      BY <3>2, <3>3
  <2>2. ASSUME NEW y \in h.outputs PROVE y \in S
    <3>1. y \in Labels
      BY GraphParts
    <3> QED
      BY <3>1 DEF Going
  <2>3. Writes(h, p) \cap S = {}
    OBVIOUS
  <2> HIDE DEF S
  <2>4. Closed(h, S)
    BY <2>1 DEF Closed
  <2> QED
    BY <2>2, <2>3, <2>4, NeededIs
<1>2. ASSUME NEW p \in N, Going(h, p) # {} PROVE p \in Needed(h)
  BY <1>2, NeededIs DEF Going
<1>3. ASSUME NEW p \in N, NEW m \in Following(h, p), m \in Needed(h) PROVE p \in Needed(h)
  <2>1. m \in N /\ Reads(h, m) \cap Writes(h, p) # {}
    BY DEF Following
  <2>2. PICK y \in h.outputs : \A S : y \in S /\ Closed(h, S) => Writes(h, m) \cap S # {}
    BY <1>3, <2>1, NeededIs
  <2>3. ASSUME NEW S, y \in S, Closed(h, S) PROVE Writes(h, p) \cap S # {}
    <3>1. Reads(h, m) \subseteq S
      BY <2>1, <2>2, <2>3 DEF Closed
    <3> QED
      BY <2>1, <3>1
  <2> QED
    BY <2>3, NeededIs
<1> DEFINE L == {p \in N : p \notin R /\ p \notin Needed(h)}
<1>4. ASSUME NEW p \in L PROVE \E m \in L : m \in Following(h, p)
  <2>1. Going(h, p) = {}
    BY <1>2
  <2>2. PICK m \in Following(h, p) : m \notin R
    BY <2>1
  <2>3. m \in N /\ m \notin Needed(h)
    BY <1>3 DEF Following
  <2> QED
    BY <2>2, <2>3
<1>5. L = {}
  <2>1. L \subseteq N
    OBVIOUS
  <2> HIDE DEF L
  <2> QED
    BY <1>4, <2>1, Endless, DagIs
<1> QED
  BY <1>1, <1>5

LEMMA TidyIs ==
  ASSUME NEW D, NEW h \in Graphs(D), NoNode \notin D, WellFormed(h), OneEdgeEach(h),
         NEW u, u = UpdateMap(h)
  PROVE  /\ Tidy(D, u) /\ u.nodes = h.nodes /\ u.ins = h.ins /\ u.outs = h.outs
         /\ u.outputs = h.outputs /\ u.inits = h.inits /\ u.inputs = h.inputs \ h.inits
         /\ NodesOf(u) = NodesOf(h)
         /\ \A m : Reads(u, m) = Reads(h, m) /\ Writes(u, m) = Writes(h, m)
         /\ \A m : Following(u, m) = Following(h, m) /\ Going(u, m) = Going(h, m)
<1>1. /\ u \in Graphs(D) /\ u.nodes = h.nodes /\ u.ins = h.ins /\ u.outs = h.outs
      /\ u.inputs = h.inputs \ h.inits /\ u.inits = h.inits /\ u.outputs = h.outputs \ h.inits
      /\ \A e \in Produced(h) : Prev(u, e) \in WritersOf(h, e)
      /\ \A e : e \notin Produced(h) => Prev(u, e) = NoNode
      /\ \A e : Range(Readers(u, e)) = ReadersIn(h, e)
  BY UpdateMapIs
<1>2. \A n \in NodesOf(h) : \A e \in Writes(h, n) : Prev(u, e) = n
  BY WriterIs
<1>3. NodesOf(u) = NodesOf(h)
  BY <1>1 DEF NodesOf
<1>4. \A m : Reads(u, m) = Reads(h, m) /\ Writes(u, m) = Writes(h, m)
  BY <1>1 DEF Reads, Writes
<1>5. \A e : WritersOf(u, e) = WritersOf(h, e) /\ ReadersIn(u, e) = ReadersIn(h, e)
  BY <1>3, <1>4 DEF WritersOf, ReadersIn
<1>6. Mapped(D, u)
  <2>1. \A e : Range(Readers(u, e)) = ReadersIn(u, e)
    BY <1>1, <1>5
  <2>2. \A e : Prev(u, e) \in WritersOf(u, e) \cup {NoNode}
    BY <1>1, <1>5
  <2> QED
    BY <1>1, <2>1, <2>2 DEF Mapped
<1>7. u.outputs = h.outputs
  <2>1. ASSUME NEW y \in h.outputs PROVE y \notin h.inits
    BY DEF WellFormed, Produced, Sources
  <2> QED
    BY <1>1, <2>1
<1>8. OneEdgeEach(u)
  BY <1>1, <1>3, <1>4 DEF OneEdgeEach
<1>9. Tidy(D, u)
  BY <1>2, <1>3, <1>4, <1>6, <1>8 DEF Tidy
<1>10. \A m : Following(u, m) = Following(h, m) /\ Going(u, m) = Going(h, m)
  BY <1>3, <1>4, <1>7 DEF Following, Going
<1> QED
  BY <1>1, <1>3, <1>4, <1>7, <1>9, <1>10

(* What is left: the same graph with fewer nodes, and with those of its    *)
(* inputs and initializers that they read.                                 *)
Thinned(h, K, i) ==
  /\ NodesOf(i) = K
  /\ i.ins = h.ins /\ i.outs = h.outs /\ i.outputs \subseteq h.outputs
  /\ \A e : e \in Sources(i) <=> e \in Sources(h) /\ \E m \in K : e \in Reads(h, m)

LEMMA RemoveUnusedIs ==
  ASSUME NEW D, NEW h \in Graphs(D), NoNode \notin D, WellFormed(h), OneEdgeEach(h)
  PROVE  \E R : /\ R \subseteq NodesOf(h)
                /\ \A p \in NodesOf(h) :
                     p \in R <=> Following(h, p) \subseteq R /\ Going(h, p) = {}
                /\ Thinned(h, NodesOf(h) \ R, RemoveUnused(h))
<1> DEFINE u == UpdateMap(h)
           degree == [n \in NodesOf(h) |-> OutDegree(u, n)]
           R == Discarded(u, degree)
           K == NodesOf(h) \ R
           s == Only(u.nodes, K)
           kept == [u EXCEPT !.nodes = s]
           inputs == kept.inputs \cap Consumed(kept)
           inits == kept.inits \cap Consumed(kept)
           less == [kept EXCEPT !.inputs = inputs, !.inits = inits]
           i == UpdateMap(less)
<1>1. RemoveUnused(h) = i
  BY DEF RemoveUnused
<1>2. /\ Tidy(D, u) /\ u.nodes = h.nodes /\ u.ins = h.ins /\ u.outs = h.outs
      /\ u.outputs = h.outputs /\ u.inits = h.inits /\ u.inputs = h.inputs \ h.inits
      /\ NodesOf(u) = NodesOf(h)
      /\ \A m : Following(u, m) = Following(h, m) /\ Going(u, m) = Going(h, m)
  BY TidyIs
<1> HIDE DEF u
<1>3. /\ R \subseteq NodesOf(h)
      /\ \A p \in NodesOf(h) : p \in R <=> Following(h, p) \subseteq R /\ Going(h, p) = {}
  <2>1. degree = [n \in NodesOf(u) |-> OutDegree(u, n)]
    BY <1>2
  <2> HIDE DEF degree
  <2>2. /\ R \subseteq NodesOf(u)
        /\ \A p \in NodesOf(u) : p \in R <=> Following(u, p) \subseteq R /\ Going(u, p) = {}
    BY <1>2, <2>1, DiscardedIs
  <2> QED
    BY <1>2, <2>2
<1> HIDE DEF R
<1>4. s \in Seq(D) /\ IsInjective(s) /\ Range(s) = K
  <2> DEFINE t == u.nodes
  <2>1. t \in Seq(D) /\ IsInjective(t) /\ Range(t) \cap K = K
    BY <1>2, GraphParts DEF NodesOf
  <2> HIDE DEF t, K
  <2>2. Only(t, K) \in Seq(D) /\ IsInjective(Only(t, K)) /\ Range(Only(t, K)) = K
    BY <2>1, OnlyProps
  <2> QED
    BY <2>2 DEF t
<1> HIDE DEF s
<1>5. u \in Graphs(D)
  BY <1>2 DEF Tidy, Mapped
<1>6. /\ kept \in Graphs(D) /\ kept.nodes = s /\ kept.ins = u.ins /\ kept.outs = u.outs
      /\ kept.inputs = u.inputs /\ kept.inits = u.inits /\ kept.outputs = u.outputs
  BY <1>4, <1>5 DEF Graphs
<1> HIDE DEF kept
<1>7. /\ less \in Graphs(D) /\ less.nodes = s /\ less.ins = u.ins /\ less.outs = u.outs
      /\ less.inputs = inputs /\ less.inits = inits /\ less.outputs = u.outputs
  <2>1. inputs \in SUBSET Labels /\ inits \in SUBSET Labels
    BY <1>6, GraphParts
  <2> HIDE DEF inputs, inits
  <2> QED
    BY <1>6, <2>1 DEF Graphs
<1> HIDE DEF less
<1>8. /\ i.nodes = s /\ i.ins = u.ins /\ i.outs = u.outs
      /\ i.inputs = inputs \ inits /\ i.inits = inits /\ i.outputs = u.outputs \ inits
  BY <1>7, UpdateMapIs
<1> HIDE DEF i
<1>9. NodesOf(i) = K /\ NodesOf(kept) = K
  BY <1>4, <1>6, <1>8 DEF NodesOf
<1>10. \A e : e \in Consumed(kept) <=> \E m \in K : e \in Reads(h, m)
  <2>1. \A m : Reads(kept, m) = Reads(h, m)
    BY <1>2, <1>6 DEF Reads
  <2> QED
    BY <1>9, <2>1 DEF Consumed
<1>11. \A e : e \in Sources(i) <=> e \in Sources(h) /\ \E m \in K : e \in Reads(h, m)
  BY <1>2, <1>6, <1>8, <1>10 DEF Sources
<1>12. i.ins = h.ins /\ i.outs = h.outs /\ i.outputs \subseteq h.outputs
  BY <1>2, <1>8
<1>13. Thinned(h, K, i)
  BY <1>9, <1>11, <1>12 DEF Thinned
<1> QED
  BY <1>1, <1>3, <1>13

LEMMA ThinnedWell ==
  ASSUME NEW h, WellFormed(h), NEW R, R \subseteq NodesOf(h),
         \A p \in NodesOf(h) : p \in R <=> Following(h, p) \subseteq R /\ Going(h, p) = {},
         NEW i, Thinned(h, NodesOf(h) \ R, i)
  PROVE  WellFormed(i)
<1> DEFINE K == NodesOf(h) \ R
<1>1. /\ NodesOf(i) = K /\ i.ins = h.ins /\ i.outs = h.outs /\ i.outputs \subseteq h.outputs
      /\ \A e : e \in Sources(i) <=> e \in Sources(h) /\ \E m \in K : e \in Reads(h, m)
  BY DEF Thinned
<1>2. \A m : Reads(i, m) = Reads(h, m) /\ Writes(i, m) = Writes(h, m)
  BY <1>1 DEF Reads, Writes
<1>3. ASSUME NEW p \in NodesOf(h), NEW e \in Writes(h, p), NEW m \in K,
             e \in Reads(h, m) \/ e \in h.outputs
      PROVE  p \in K
  <2>1. CASE e \in Reads(h, m)
    <3>1. m \in Following(h, p)
      BY <2>1 DEF Following
    <3> QED
      BY <3>1
  <2>2. CASE e \in h.outputs
    BY <2>2 DEF Going
  <2> QED
    BY <1>3, <2>1, <2>2
<1>4. ASSUME NEW n \in K
      PROVE  IsInjective(i.outs[n]) /\ Writes(i, n) \cap Sources(i) = {}
  BY <1>1, <1>2 DEF WellFormed
<1>5. \A a, b \in K : a # b => Writes(i, a) \cap Writes(i, b) = {}
  BY <1>2 DEF WellFormed
<1>6. ASSUME NEW n \in K, NEW e \in Reads(i, n) PROVE e \in Sources(i) \cup Produced(i)
  <2>1. e \in Sources(h) \/ e \in Produced(h)
    BY <1>2 DEF WellFormed
  <2>2. CASE e \in Sources(h)
    BY <1>1, <1>2, <2>2
  <2>3. CASE e \in Produced(h)
    <3>1. PICK p \in NodesOf(h) : e \in Writes(h, p)
      BY <2>3 DEF Produced
    <3>2. p \in K
      BY <1>2, <1>3, <3>1
    <3> QED
      BY <1>1, <1>2, <3>1, <3>2 DEF Produced
  <2> QED
    BY <2>1, <2>2, <2>3
<1>7. ASSUME NEW y \in i.outputs PROVE y \in Produced(i)
  <2>1. y \in h.outputs
    BY <1>1
  <2>2. PICK p \in NodesOf(h) : y \in Writes(h, p)
    BY <2>1 DEF WellFormed, Produced
  <2>3. p \in K
    BY <2>1, <2>2 DEF Going
  <2> QED
    BY <1>1, <1>2, <2>2, <2>3 DEF Produced
<1> HIDE DEF K
<1> QED
  BY <1>1, <1>4, <1>5, <1>6, <1>7 DEF WellFormed

LEMMA CleanLeaves ==
  ASSUME NEW D, NEW h \in Graphs(D), NoNode \notin D, WellFormed(h), OneEdgeEach(h), Dag(h)
  PROVE  NodesOf(RemoveUnused(h)) = Needed(h) /\ WellFormed(RemoveUnused(h))
<1>1. PICK R : /\ R \subseteq NodesOf(h)
               /\ \A p \in NodesOf(h) :
                    p \in R <=> Following(h, p) \subseteq R /\ Going(h, p) = {}
               /\ Thinned(h, NodesOf(h) \ R, RemoveUnused(h))
  BY RemoveUnusedIs
<1>2. \A p \in NodesOf(h) : p \in Needed(h) <=> p \notin R
  BY <1>1, UnusedAre
<1>3. NodesOf(RemoveUnused(h)) = NodesOf(h) \ R
  BY <1>1 DEF Thinned
<1>4. Needed(h) \subseteq NodesOf(h)
  BY DEF Needed
<1>5. WellFormed(RemoveUnused(h))
  BY <1>1, ThinnedWell
<1> QED
  BY <1>2, <1>3, <1>4, <1>5

(* remove_unused_nodes.  Counting down in whichever order, it discards     *)
(* every node that no output depends on and no other, and nothing that is  *)
(* left reads an edge or gives an output of one that has gone.             *)
THEOREM UnusedGo == Spec => UnusedRemoved
<1>1. ASSUME IInv, [Next]_vars, op'[1] = "unused", WellFormed(g), OneEdgeEach(g), Dag(g),
             ~(UNCHANGED vars)
      PROVE  NodesOf(g') = Needed(g) /\ WellFormed(g')
  <2> DEFINE D == Objects(g)
  <2>1. g \in Graphs(D) /\ NoNode \notin D
    BY <1>1, NamesAssumption DEF IInv, Typed
  <2>2. Clean
    BY <1>1, OpIs DEF Next
  <2>3. g' = RemoveUnused(g)
    BY <2>2, FailsIs DEF Clean, Edit
  <2> HIDE DEF D
  <2>4. NodesOf(RemoveUnused(g)) = Needed(g) /\ WellFormed(RemoveUnused(g))
    BY <1>1, <2>1, CleanLeaves
  <2> DEFINE i == RemoveUnused(g)
  <2>5. g' = i /\ NodesOf(i) = Needed(g) /\ WellFormed(i)
    BY <2>3, <2>4
  <2> HIDE DEF i
  <2> QED
    BY <2>5
<1>2. IInv /\ [Next]_vars =>
        [ op'[1] = "unused" /\ WellFormed(g) /\ OneEdgeEach(g) /\ Dag(g)
          => NodesOf(g') = Needed(g) /\ WellFormed(g') ]_vars
  BY <1>1
<1> QED
  BY <1>2, IInvAlways, PTL DEF Spec, UnusedRemoved
===============================================================================
