--------------------------- MODULE SequenceFacts ---------------------------
(***************************************************************************)
(* Facts about numbers and sequences that several proofs need: induction   *)
(* and recursion, by the least element of a set of numbers (the library's  *)
(* theorems take operators, which no prover here can instantiate), and     *)
(* what FlattenSeq makes of a sequence of sequences.                       *)
(***************************************************************************)
EXTENDS Integers, SequencesExt, SequenceTheorems, FiniteSetTheorems, WellFoundedInduction,
        TLAPS

-----------------------------------------------------------------------------
(* Induction and recursion.                                                *)

\* Every set of natural numbers that is not empty has a least element: what
\* induction needs.
LEMMA Least ==
  ASSUME NEW T, T \subseteq Nat, T # {}
  PROVE  \E x \in T : \A y \in T : x <= y
<1> DEFINE R == {p \in Nat \X Nat : p[1] < p[2]}
<1>1. IsWellFoundedOn(R, Nat)
  BY NatLessThanWellFounded DEF OpToRel
<1> HIDE DEF R
<1>2. PICK x \in T : \A y \in T : ~ (<<y, x>> \in R)
  BY <1>1, WFMin
<1>3. ASSUME NEW y \in T PROVE x <= y
  <2>1. x \in Nat /\ y \in Nat
    OBVIOUS
  <2>2. y < x => <<y, x>> \in R
    BY <2>1 DEF R
  <2> QED BY <1>2, <2>1, <2>2
<1> QED BY <1>3

\* Induction, for a set of numbers.
LEMMA Induction ==
  ASSUME NEW T, 0 \in T, \A n \in Nat : n \in T => n + 1 \in T
  PROVE  Nat \subseteq T
<1> SUFFICES ASSUME Nat \ T # {} PROVE FALSE
  OBVIOUS
<1>1. PICK x \in Nat \ T : \A y \in Nat \ T : x <= y
  BY Least
<1>2. x # 0 /\ x - 1 \in Nat /\ (x - 1) + 1 = x
  BY <1>1
<1>3. x - 1 \in T
  BY <1>1, <1>2
<1> QED BY <1>1, <1>2, <1>3

\* A recursion on D whose calls have a smaller measure m has a solution: H is
\* the body of the definition, as a function of the solution and the argument.
Recursive(D, V, m, b, H) ==
  /\ V # {} /\ m \in [D -> Nat] /\ b \in Nat /\ \A x \in D : m[x] < b
  /\ H \in [[D -> V] \X D -> V]
  /\ \A f, g \in [D -> V] : \A x \in D :
       (\A y \in D : m[y] < m[x] => f[y] = g[y]) => H[<<f, x>>] = H[<<g, x>>]

Solves(f, D, V, H) == f \in [D -> V] /\ \A x \in D : f[x] = H[<<f, x>>]

LEMMA Recursion ==
  ASSUME NEW D, NEW V, NEW m, NEW b, NEW H, Recursive(D, V, m, b, H)
  PROVE  \E f : Solves(f, D, V, H)
<1> USE DEF Recursive
<1> DEFINE P(f, k) == \A x \in D : m[x] < k => f[x] = H[<<f, x>>]
           T == {k \in Nat : \E f \in [D -> V] : P(f, k)}
<1>1. 0 \in T
  <2>1. PICK v : v \in V
    OBVIOUS
  <2> DEFINE g == [x \in D |-> v]
  <2>2. g \in [D -> V]
    BY <2>1
  <2>3. P(g, 0)
    <3> SUFFICES ASSUME NEW x \in D, m[x] < 0 PROVE FALSE
      OBVIOUS
    <3>1. m[x] \in Nat
      OBVIOUS
    <3> QED BY <3>1
  <2> HIDE DEF P, g
  <2> QED BY <2>2, <2>3
<1>2. ASSUME NEW k \in Nat, k \in T PROVE k + 1 \in T
  <2>1. PICK f \in [D -> V] : P(f, k)
    BY <1>2
  <2> DEFINE g == [x \in D |-> IF m[x] < k THEN f[x] ELSE H[<<f, x>>]]
  <2>2. g \in [D -> V]
    OBVIOUS
  <2>3. \A x \in D : m[x] < k => g[x] = f[x]
    OBVIOUS
  <2>4. \A x \in D : g[x] = H[<<f, x>>]
    BY <2>1
  <2> HIDE DEF g
  <2>5. ASSUME NEW x \in D, m[x] < k + 1 PROVE g[x] = H[<<g, x>>]
    <3>1. \A y \in D : m[y] < m[x] => f[y] = g[y]
      <4> TAKE y \in D
      <4>1. m[y] \in Nat /\ m[x] \in Nat
        OBVIOUS
      <4> QED BY <2>3, <2>5, <4>1
    <3>2. H[<<f, x>>] = H[<<g, x>>]
      BY <2>2, <3>1
    <3> QED BY <2>4, <3>2
  <2>6. P(g, k + 1)
    BY <2>5
  <2> HIDE DEF P
  <2> QED BY <2>2, <2>6
<1>3. b \in T
  <2> HIDE DEF T
  <2> QED BY <1>1, <1>2, Induction
<1>4. PICK f \in [D -> V] : P(f, b)
  BY <1>3
<1>5. Solves(f, D, V, H)
  BY <1>4 DEF Solves
<1> QED BY <1>5

-----------------------------------------------------------------------------
(* FlattenSeq.                                                             *)

\* f[i] is the concatenation of the first i elements of s.
Flattens(f, S, s) ==
  /\ f \in [1..Len(s) -> Seq(S)]
  /\ \A i \in 1..Len(s) : f[i] = IF i = 1 THEN s[i] ELSE f[i - 1] \o s[i]

LEMMA FlattensExists ==
  ASSUME NEW S, NEW s \in Seq(Seq(S))
  PROVE  \E f : Flattens(f, S, s)
<1> DEFINE D == 1..Len(s)
           V == Seq(S)
           H == [p \in [D -> V] \X D |->
                   IF p[2] = 1 THEN s[1] ELSE p[1][p[2] - 1] \o s[p[2]]]
           m == [i \in D |-> i]
           b == Len(s) + 1
<1>1. V # {} /\ m \in [D -> Nat] /\ b \in Nat /\ \A x \in D : m[x] < b
  <2>1. << >> \in Seq(S)
    OBVIOUS
  <2> QED BY <2>1
<1>2. \A i \in D : s[i] \in V /\ (i # 1 => i - 1 \in D)
  OBVIOUS
<1>3. \A f \in [D -> V], i \in D : H[<<f, i>>] = IF i = 1 THEN s[1] ELSE f[i - 1] \o s[i]
  OBVIOUS
<1>4. \A f \in [D -> V], i \in D : H[<<f, i>>] \in V
  <2> TAKE f \in [D -> V], i \in D
  <2>1. CASE i = 1
    BY <1>2, <1>3, <2>1
  <2>2. CASE i # 1
    <3>1. f[i - 1] \in Seq(S) /\ s[i] \in Seq(S)
      BY <1>2, <2>2
    <3> QED BY <1>3, <2>2, <3>1
  <2> QED BY <2>1, <2>2
<1>5. H \in [[D -> V] \X D -> V]
  <2>1. \A p \in [D -> V] \X D : H[p] \in V
    <3> TAKE p \in [D -> V] \X D
    <3>1. p = <<p[1], p[2]>> /\ p[1] \in [D -> V] /\ p[2] \in D
      OBVIOUS
    <3> HIDE DEF H, D, V
    <3> QED BY <1>4, <3>1
  <2> QED BY <2>1
<1>6. \A f, g \in [D -> V] : \A x \in D :
        (\A y \in D : m[y] < m[x] => f[y] = g[y]) => H[<<f, x>>] = H[<<g, x>>]
  <2> TAKE f, g \in [D -> V]
  <2> TAKE i \in D
  <2> HAVE \A y \in D : m[y] < m[i] => f[y] = g[y]
  <2>1. i # 1 => f[i - 1] = g[i - 1]
    BY <1>2
  <2> HIDE DEF H, m, D, V
  <2> QED BY <1>3, <2>1
<1> HIDE DEF H, m, D, V, b
<1>a. Recursive(D, V, m, b, H)
  BY <1>1, <1>5, <1>6 DEF Recursive
<1>7. PICK f : Solves(f, D, V, H)
  BY <1>a, Recursion
<1>8. \A i \in D : f[i] = IF i = 1 THEN s[i] ELSE f[i - 1] \o s[i]
  BY <1>3, <1>7 DEF Solves
<1> QED BY <1>7, <1>8 DEF Flattens, Solves, D, V

LEMMA FlattenSeqIs ==
  ASSUME NEW S, NEW s \in Seq(Seq(S)), s # << >>
  PROVE  \E f : Flattens(f, S, s) /\ FlattenSeq(s) = f[Len(s)]
<1>1. Len(s) # 0
  OBVIOUS
<1> DEFINE E(f) == f = [i \in 1..Len(s) |-> IF i = 1 THEN s[i] ELSE f[i - 1] \o s[i]]
           c == CHOOSE f : E(f)
<1>2. FlattenSeq(s) = c[Len(s)]
  BY <1>1 DEF FlattenSeq
<1>3. \E f : E(f)
  <2>1. PICK f : Flattens(f, S, s)
    BY FlattensExists
  <2>2. E(f)
    BY <2>1 DEF Flattens
  <2> HIDE DEF E
  <2> QED BY <2>2
<1>4. E(c)
  <2> HIDE DEF E
  <2> QED BY <1>3
<1>5. \A i \in 1..Len(s) : c[i] = IF i = 1 THEN s[i] ELSE c[i - 1] \o s[i]
  <2> HIDE DEF c
  <2> QED BY <1>4
<1> DEFINE T == {i \in 1..Len(s) : c[i] \notin Seq(S)}
<1>6. ASSUME T # {} PROVE FALSE
  <2> HIDE DEF c
  <2>1. T \subseteq Nat
    OBVIOUS
  <2>2. PICK i \in T : \A j \in T : i <= j
    BY <1>6, <2>1, Least
  <2>3. i \in 1..Len(s) /\ s[i] \in Seq(S) /\ c[i] \notin Seq(S)
    OBVIOUS
  <2>4. i # 1 => i - 1 \in 1..Len(s) /\ i - 1 \notin T
    BY <2>2, <2>3
  <2>5. i # 1 => c[i - 1] \in Seq(S)
    BY <2>4
  <2>6. i # 1 => c[i - 1] \o s[i] \in Seq(S)
    BY <2>3, <2>5, ConcatProperties
  <2>7. c[i] = IF i = 1 THEN s[i] ELSE c[i - 1] \o s[i]
    BY <1>5, <2>3
  <2> QED BY <2>3, <2>6, <2>7
<1>7. Flattens(c, S, s)
  <2>1. c \in [1..Len(s) -> Seq(S)]
    <3>1. c = [i \in 1..Len(s) |-> c[i]]
      <4> HIDE DEF c
      <4> QED BY <1>4
    <3> HIDE DEF c
    <3> QED BY <1>6, <3>1
  <2> HIDE DEF c
  <2> QED BY <1>5, <2>1 DEF Flattens
<1> HIDE DEF c
<1> QED BY <1>2, <1>7

Agree(f, g, n) == \A i \in 1..n : f[i] = g[i]

LEMMA FlattensUnique ==
  ASSUME NEW S, NEW s \in Seq(Seq(S)), NEW t \in Seq(Seq(S)), NEW f, Flattens(f, S, s),
         NEW g, Flattens(g, S, t), NEW n \in Nat, n <= Len(s), n <= Len(t),
         Agree(s, t, n)
  PROVE  Agree(f, g, n)
<1> USE DEF Agree
<1> DEFINE T == {i \in 1..n : f[i] # g[i]}
<1> SUFFICES ASSUME T # {} PROVE FALSE
  OBVIOUS
<1>1. PICK i \in T : \A j \in T : i <= j
  <2>1. T \subseteq Nat
    OBVIOUS
  <2> QED BY <2>1, Least
<1>2. i \in 1..n /\ i \in 1..Len(s) /\ i \in 1..Len(t)
  OBVIOUS
<1>3. i # 1 => i - 1 \in 1..n /\ i - 1 \notin T
  BY <1>1, <1>2
<1>4. i # 1 => f[i - 1] = g[i - 1]
  BY <1>3
<1>5. f[i] = IF i = 1 THEN s[i] ELSE f[i - 1] \o s[i]
  BY <1>2 DEF Flattens
<1>6. g[i] = IF i = 1 THEN t[i] ELSE g[i - 1] \o t[i]
  BY <1>2 DEF Flattens
<1>7. s[i] = t[i]
  BY <1>2
<1>8. f[i] = g[i]
  BY <1>4, <1>5, <1>6, <1>7
<1> QED BY <1>8

LEMMA FlattenEmpty == FlattenSeq(<< >>) = << >>
BY DEF FlattenSeq

LEMMA FlattenAppend ==
  ASSUME NEW S, NEW s \in Seq(Seq(S)), NEW x \in Seq(S)
  PROVE  /\ FlattenSeq(s) \in Seq(S)
         /\ FlattenSeq(Append(s, x)) = FlattenSeq(s) \o x
<1> DEFINE t == Append(s, x)
<1>1. /\ t \in Seq(Seq(S)) /\ t # << >> /\ Len(t) = Len(s) + 1 /\ Len(s) \in Nat
      /\ t[Len(s) + 1] = x /\ \A i \in 1..Len(s) : t[i] = s[i]
  BY AppendProperties, LenProperties
<1> HIDE DEF t
<1>2. PICK g : Flattens(g, S, t) /\ FlattenSeq(t) = g[Len(t)]
  BY <1>1, FlattenSeqIs
<1>3. CASE s = << >>
  <2>1. g[1] = x
    BY <1>1, <1>2, <1>3 DEF Flattens
  <2>2. << >> \o x = x /\ << >> \in Seq(S)
    BY ConcatEmptySeq, EmptySeq
  <2>3. FlattenSeq(s) = << >>
    BY <1>3, FlattenEmpty
  <2>4. Len(t) = 1
    BY <1>1, <1>3
  <2>5. FlattenSeq(t) = x
    BY <1>2, <2>1, <2>4
  <2> QED BY <2>2, <2>3, <2>5 DEF t
<1>4. CASE s # << >>
  <2>1. PICK f : Flattens(f, S, s) /\ FlattenSeq(s) = f[Len(s)]
    BY <1>4, FlattenSeqIs
  <2>2. Len(s) \in 1..Len(s) /\ Len(s) + 1 \in 1..Len(t) /\ Len(s) + 1 # 1
    BY <1>1, <1>4
  <2>3. \A i \in 1..Len(s) : f[i] = g[i]
    <3>1. Len(s) <= Len(s) /\ Len(s) <= Len(t) /\ Agree(s, t, Len(s))
      BY <1>1 DEF Agree
    <3>2. Flattens(g, S, t) /\ Flattens(f, S, s) /\ Len(s) \in Nat /\ t \in Seq(Seq(S))
      BY <1>1, <1>2, <2>1
    <3>3. Agree(f, g, Len(s))
      BY <3>1, <3>2, FlattensUnique
    <3> QED BY <3>3 DEF Agree
  <2>4. g[Len(s) + 1] = g[Len(s)] \o t[Len(s) + 1]
    <3>1. g[Len(s) + 1] = IF Len(s) + 1 = 1 THEN t[Len(s) + 1]
                          ELSE g[(Len(s) + 1) - 1] \o t[Len(s) + 1]
      BY <1>2, <2>2 DEF Flattens
    <3>2. (Len(s) + 1) - 1 = Len(s)
      BY <1>1
    <3> QED BY <2>2, <3>1, <3>2
  <2>5. f[Len(s)] \in Seq(S)
    BY <2>1, <2>2 DEF Flattens
  <2>6. FlattenSeq(t) = f[Len(s)] \o x
    BY <1>1, <1>2, <2>2, <2>3, <2>4
  <2> QED BY <2>1, <2>5, <2>6 DEF t
<1> QED BY <1>3, <1>4

LEMMA FlattenConcat ==
  ASSUME NEW S, NEW s \in Seq(Seq(S)), NEW t \in Seq(Seq(S))
  PROVE  FlattenSeq(s \o t) = FlattenSeq(s) \o FlattenSeq(t)
<1> DEFINE Q(u) == FlattenSeq(s \o u) = FlattenSeq(s) \o FlattenSeq(u)
           T == {n \in Nat : \A u \in Seq(Seq(S)) : Len(u) = n => Q(u)}
<1>0. FlattenSeq(s) \in Seq(S)
  <2>1. << >> \in Seq(S)
    OBVIOUS
  <2> QED BY <2>1, FlattenAppend
<1>1. 0 \in T
  <2>1. ASSUME NEW u \in Seq(Seq(S)), Len(u) = 0 PROVE Q(u)
    <3>1. u = << >> /\ s \o u = s
      BY <2>1, EmptySeq, ConcatEmptySeq
    <3>2. FlattenSeq(s) \o << >> = FlattenSeq(s)
      BY <1>0
    <3> QED BY <3>1, <3>2, FlattenEmpty
  <2> HIDE DEF Q
  <2> QED BY <2>1
<1>2. ASSUME NEW n \in Nat, n \in T PROVE n + 1 \in T
  <2>1. ASSUME NEW u \in Seq(Seq(S)), Len(u) = n + 1 PROVE Q(u)
    <3> DEFINE v == SubSeq(u, 1, n)
               x == u[n + 1]
    <3>1. v \in Seq(Seq(S)) /\ Len(v) = n /\ x \in Seq(S) /\ u = Append(v, x)
      BY <2>1
    <3>2. s \o u = Append(s \o v, x) /\ s \o v \in Seq(Seq(S))
      <4> HIDE DEF v, x
      <4> QED BY <3>1, SMTT(30)
    <3> HIDE DEF v, x
    <3>3. Q(v)
      <4> HIDE DEF Q
      <4> QED BY <1>2, <3>1
    <3>4. FlattenSeq(Append(s \o v, x)) = FlattenSeq(s \o v) \o x
      BY <3>1, <3>2, FlattenAppend
    <3>5. FlattenSeq(Append(v, x)) = FlattenSeq(v) \o x /\ FlattenSeq(v) \in Seq(S)
      BY <3>1, FlattenAppend
    <3> DEFINE a == FlattenSeq(s)
               d == FlattenSeq(v)
    <3>6. (a \o d) \o x = a \o (d \o x)
      <4>1. a \in Seq(S) /\ d \in Seq(S) /\ x \in Seq(S)
        BY <1>0, <3>1, <3>5
      <4> HIDE DEF a, d
      <4> QED BY ONLY <4>1, ConcatAssociative, SMTT(30)
    <3>7. FlattenSeq(s \o v) = a \o d
      BY <3>3
    <3>8. FlattenSeq(s \o u) = (a \o d) \o x /\ FlattenSeq(u) = d \o x
      BY ONLY <3>1, <3>2, <3>4, <3>5, <3>7
    <3> HIDE DEF v, x, a, d
    <3>9. FlattenSeq(s \o u) = a \o FlattenSeq(u)
      BY ONLY <3>6, <3>8
    <3> QED BY <3>9 DEF a
  <2> HIDE DEF Q
  <2> QED BY <2>1
<1>3. Len(t) \in T
  <2>1. Len(t) \in Nat
    BY LenProperties
  <2> HIDE DEF T
  <2>2. Nat \subseteq T
    BY <1>1, <1>2, Induction
  <2> QED BY <2>1, <2>2
<1> QED BY <1>3

-----------------------------------------------------------------------------
(* Induction over sequences, and what FlattenSeq preserves.                *)

LEMMA Elements ==
  ASSUME NEW S, NEW s \in Seq(S)
  PROVE  DOMAIN s = 1..Len(s) /\ Len(s) \in Nat /\ \A i \in 1..Len(s) : s[i] \in S
BY LenProperties

\* A set of sequences with the empty one and all that are made from its
\* members by appending has all sequences.
LEMMA SeqInduction ==
  ASSUME NEW S, NEW P, << >> \in P,
         \A s \in Seq(S) : s \in P => \A x \in S : Append(s, x) \in P
  PROVE  Seq(S) \subseteq P
<1> DEFINE T == {n \in Nat : \A s \in Seq(S) : Len(s) = n => s \in P}
<1>1. 0 \in T
  <2>1. \A s \in Seq(S) : Len(s) = 0 => s = << >>
    BY EmptySeq
  <2> QED BY <2>1
<1>2. ASSUME NEW n \in Nat, n \in T PROVE n + 1 \in T
  <2>1. ASSUME NEW s \in Seq(S), Len(s) = n + 1 PROVE s \in P
    <3> DEFINE v == SubSeq(s, 1, n)
               x == s[n + 1]
    <3>1. v \in Seq(S) /\ Len(v) = n /\ x \in S /\ s = Append(v, x)
      BY <2>1
    <3> HIDE DEF v, x
    <3>2. v \in P
      BY <1>2, <3>1
    <3> QED BY <3>1, <3>2
  <2> QED BY <2>1
<1> HIDE DEF T
<1>3. Nat \subseteq T
  BY <1>1, <1>2, Induction
<1>4. \A s \in Seq(S) : Len(s) \in T
  BY <1>3, LenProperties
<1> QED BY <1>4 DEF T

LEMMA FlattenType ==
  ASSUME NEW S, NEW s \in Seq(Seq(S))
  PROVE  FlattenSeq(s) \in Seq(S)
<1>1. << >> \in Seq(S)
  BY EmptySeq
<1> QED BY <1>1, FlattenAppend

LEMMA FlattenOne ==
  ASSUME NEW S, NEW x \in Seq(S)
  PROVE  FlattenSeq(<<x>>) = x
<1>1. << >> \in Seq(Seq(S)) /\ Append(<< >>, x) = <<x>>
  OBVIOUS
<1>2. FlattenSeq(<<x>>) = FlattenSeq(<< >>) \o x
  BY <1>1, FlattenAppend
<1> QED BY <1>2, FlattenEmpty, ConcatEmptySeq

\* A sequence of single elements.
LEMMA FlattenSingles ==
  ASSUME NEW S, NEW s \in Seq(S)
  PROVE  FlattenSeq([i \in 1..Len(s) |-> <<s[i]>>]) = s
<1> DEFINE single(q) == [i \in 1..Len(q) |-> <<q[i]>>]
           P == {q \in Seq(S) : FlattenSeq(single(q)) = q}
<1>1. << >> \in P
  <2>1. single(<< >>) = << >>
    OBVIOUS
  <2> QED BY <2>1, FlattenEmpty
<1>2. ASSUME NEW q \in Seq(S), q \in P, NEW x \in S PROVE Append(q, x) \in P
  <2>1. /\ single(q) \in Seq(Seq(S)) /\ <<x>> \in Seq(S)
        /\ single(Append(q, x)) = Append(single(q), <<x>>)
        /\ Append(q, x) = q \o <<x>> /\ Append(q, x) \in Seq(S)
    OBVIOUS
  <2>2. FlattenSeq(Append(single(q), <<x>>)) = FlattenSeq(single(q)) \o <<x>>
    <3> HIDE DEF single
    <3> QED BY <2>1, FlattenAppend
  <2> HIDE DEF single
  <2> QED BY <1>2, <2>1, <2>2
<1> HIDE DEF P
<1>3. Seq(S) \subseteq P
  BY <1>1, <1>2, SeqInduction
<1> QED BY <1>3 DEF P

\* The elements of two sequences one after the other.
LEMMA ConcatRange ==
  ASSUME NEW S, NEW s \in Seq(S), NEW t \in Seq(S)
  PROVE  Range(s \o t) = Range(s) \union Range(t)
<1>1. /\ DOMAIN s = 1..Len(s) /\ DOMAIN t = 1..Len(t) /\ DOMAIN (s \o t) = 1..(Len(s) + Len(t))
      /\ Len(s) \in Nat /\ Len(t) \in Nat
      /\ \A i \in 1..(Len(s) + Len(t)) : (s \o t)[i] = IF i <= Len(s) THEN s[i] ELSE t[i - Len(s)]
  BY ConcatProperties, LenProperties
<1>2. \A i \in 1..Len(s) : i \in 1..(Len(s) + Len(t)) /\ (s \o t)[i] = s[i]
  BY <1>1
<1>3. \A i \in 1..Len(t) : Len(s) + i \in 1..(Len(s) + Len(t)) /\ (s \o t)[Len(s) + i] = t[i]
  BY <1>1
<1>4. \A i \in 1..(Len(s) + Len(t)) :
        \/ i \in 1..Len(s) /\ (s \o t)[i] = s[i]
        \/ i - Len(s) \in 1..Len(t) /\ (s \o t)[i] = t[i - Len(s)]
  BY <1>1
<1> QED BY <1>1, <1>2, <1>3, <1>4, SMTT(20) DEF Range

LEMMA FlattenRange ==
  ASSUME NEW S, NEW s \in Seq(Seq(S))
  PROVE  \A x : x \in Range(FlattenSeq(s)) <=> \E i \in 1..Len(s) : x \in Range(s[i])
<1> DEFINE Q(q) == \A x : x \in Range(FlattenSeq(q)) <=> \E i \in 1..Len(q) : x \in Range(q[i])
           P == {q \in Seq(Seq(S)) : Q(q)}
<1>1. << >> \in P
  BY FlattenEmpty DEF Range
<1>2. ASSUME NEW q \in Seq(Seq(S)), q \in P, NEW y \in Seq(S) PROVE Append(q, y) \in P
  <2>1. FlattenSeq(Append(q, y)) = FlattenSeq(q) \o y /\ FlattenSeq(q) \in Seq(S)
    BY FlattenAppend
  <2>2. Range(FlattenSeq(Append(q, y))) = Range(FlattenSeq(q)) \union Range(y)
    BY <2>1, ConcatRange
  <2>3. /\ Append(q, y) \in Seq(Seq(S)) /\ Len(q) \in Nat /\ Len(Append(q, y)) = Len(q) + 1
        /\ Append(q, y)[Len(q) + 1] = y /\ \A i \in 1..Len(q) : Append(q, y)[i] = q[i]
    BY AppendProperties, LenProperties
  <2>4. ASSUME NEW x PROVE (\E i \in 1..Len(Append(q, y)) : x \in Range(Append(q, y)[i]))
                           <=> (\E i \in 1..Len(q) : x \in Range(q[i])) \/ x \in Range(y)
    <3>1. \A i \in 1..(Len(q) + 1) : i \in 1..Len(q) \/ i = Len(q) + 1
      BY <2>3
    <3>2. Len(q) + 1 \in 1..(Len(q) + 1) /\ \A i \in 1..Len(q) : i \in 1..(Len(q) + 1)
      BY <2>3
    <3> QED BY <2>3, <3>1, <3>2
  <2>5. Q(q)
    BY <1>2
  <2> HIDE DEF Range
  <2>6. Q(Append(q, y))
    BY <2>2, <2>4, <2>5
  <2> QED BY <2>3, <2>6
<1> HIDE DEF P
<1>3. Seq(Seq(S)) \subseteq P
  BY <1>1, <1>2, SeqInduction
<1> QED BY <1>3 DEF P

-----------------------------------------------------------------------------
(* Sequences made from the elements of a sequence, one after the other.    *)

\* f gives a sequence over S for each element of E.
Gives(f, E, S) == f \in [E -> Seq(S)]

\* What f gives for each element of s, in order.
FlatMap(f, s) == FlattenSeq([i \in 1..Len(s) |-> f[s[i]]])

LEMMA FlatMapEmpty == ASSUME NEW f PROVE FlatMap(f, << >>) = << >>
<1>1. [i \in 1..Len(<< >>) |-> f[<< >>[i]]] = << >>
  OBVIOUS
<1> QED BY <1>1, FlattenEmpty DEF FlatMap

LEMMA FlatMapAppend ==
  ASSUME NEW E, NEW S, NEW f, Gives(f, E, S), NEW s \in Seq(E), NEW e \in E
  PROVE  /\ FlatMap(f, s) \in Seq(S)
         /\ FlatMap(f, Append(s, e)) = FlatMap(f, s) \o f[e]
<1> DEFINE m(q) == [i \in 1..Len(q) |-> f[q[i]]]
<1>1. m(s) \in Seq(Seq(S)) /\ f[e] \in Seq(S) /\ m(Append(s, e)) = Append(m(s), f[e])
  BY DEF Gives
<1>2. FlattenSeq(m(s)) \in Seq(S) /\ FlattenSeq(Append(m(s), f[e])) = FlattenSeq(m(s)) \o f[e]
  <2> HIDE DEF m
  <2> QED BY <1>1, FlattenAppend
<1>3. FlatMap(f, s) = FlattenSeq(m(s)) /\ FlatMap(f, Append(s, e)) = FlattenSeq(m(Append(s, e)))
  BY DEF FlatMap
<1> HIDE DEF m
<1> QED BY <1>1, <1>2, <1>3

LEMMA FlatMapType ==
  ASSUME NEW E, NEW S, NEW f, Gives(f, E, S), NEW s \in Seq(E)
  PROVE  FlatMap(f, s) \in Seq(S)
<1> DEFINE m == [i \in 1..Len(s) |-> f[s[i]]]
<1>1. m \in Seq(Seq(S)) /\ FlatMap(f, s) = FlattenSeq(m)
  BY DEF Gives, FlatMap
<1> HIDE DEF m
<1> QED BY <1>1, FlattenType

LEMMA FlatMapOne ==
  ASSUME NEW E, NEW S, NEW f, Gives(f, E, S), NEW e \in E
  PROVE  FlatMap(f, <<e>>) = f[e]
<1>1. [i \in 1..Len(<<e>>) |-> f[<<e>>[i]]] = <<f[e]>> /\ f[e] \in Seq(S)
  BY DEF Gives
<1>2. FlattenSeq(<<f[e]>>) = f[e]
  <2> DEFINE x == f[e]
  <2>1. x \in Seq(S)
    BY <1>1
  <2> HIDE DEF x
  <2>2. FlattenSeq(<<x>>) = x
    BY <2>1, FlattenOne
  <2> QED BY <2>2 DEF x
<1> QED BY <1>1, <1>2 DEF FlatMap

LEMMA FlatMapConcat ==
  ASSUME NEW E, NEW S, NEW f, Gives(f, E, S), NEW s \in Seq(E), NEW t \in Seq(E)
  PROVE  FlatMap(f, s \o t) = FlatMap(f, s) \o FlatMap(f, t)
<1> DEFINE m(q) == [i \in 1..Len(q) |-> f[q[i]]]
<1>1. m(s) \in Seq(Seq(S)) /\ m(t) \in Seq(Seq(S)) /\ m(s \o t) = m(s) \o m(t)
  BY SMTT(20) DEF Gives
<1>2. FlattenSeq(m(s) \o m(t)) = FlattenSeq(m(s)) \o FlattenSeq(m(t))
  <2> HIDE DEF m
  <2> QED BY <1>1, FlattenConcat
<1>3. /\ FlatMap(f, s) = FlattenSeq(m(s)) /\ FlatMap(f, t) = FlattenSeq(m(t))
      /\ FlatMap(f, s \o t) = FlattenSeq(m(s \o t))
  BY DEF FlatMap
<1> HIDE DEF m
<1> QED BY <1>1, <1>2, <1>3

LEMMA FlatMapHead ==
  ASSUME NEW E, NEW S, NEW f, Gives(f, E, S), NEW s \in Seq(E), s # << >>
  PROVE  /\ Head(s) \in E /\ Tail(s) \in Seq(E)
         /\ FlatMap(f, s) = f[Head(s)] \o FlatMap(f, Tail(s))
<1>1. Head(s) \in E /\ Tail(s) \in Seq(E) /\ s = <<Head(s)>> \o Tail(s) /\ <<Head(s)>> \in Seq(E)
  OBVIOUS
<1> DEFINE h == <<Head(s)>>
           t == Tail(s)
<1> HIDE DEF h, t
<1>2. h \in Seq(E) /\ t \in Seq(E) /\ s = h \o t
  BY <1>1 DEF h, t
<1>3. FlatMap(f, h \o t) = FlatMap(f, h) \o FlatMap(f, t)
  BY <1>2, FlatMapConcat
<1>4. FlatMap(f, h) = f[Head(s)]
  BY <1>1, FlatMapOne DEF h
<1> QED BY <1>1, <1>2, <1>3, <1>4 DEF t

LEMMA FlatMapRange ==
  ASSUME NEW E, NEW S, NEW f, Gives(f, E, S), NEW s \in Seq(E)
  PROVE  \A x : x \in Range(FlatMap(f, s)) <=> \E i \in 1..Len(s) : x \in Range(f[s[i]])
<1> DEFINE m == [i \in 1..Len(s) |-> f[s[i]]]
<1>1. m \in Seq(Seq(S)) /\ Len(m) = Len(s) /\ \A i \in 1..Len(s) : m[i] = f[s[i]]
  BY DEF Gives
<1>2. FlatMap(f, s) = FlattenSeq(m)
  BY DEF FlatMap
<1> HIDE DEF m
<1> QED BY <1>1, <1>2, FlattenRange, SMTT(30)

LEMMA FlatMapNothing ==
  ASSUME NEW E, NEW S, NEW f, Gives(f, E, S), NEW s \in Seq(E),
         \A i \in 1..Len(s) : f[s[i]] = << >>
  PROVE  FlatMap(f, s) = << >>
<1> DEFINE t == FlatMap(f, s)
<1>1. t \in Seq(S) /\ \A x : x \in Range(t) <=> \E i \in 1..Len(s) : x \in Range(f[s[i]])
  BY FlatMapType, FlatMapRange
<1>2. Range(<< >>) = {}
  BY DEF Range
<1> HIDE DEF t
<1>3. Range(t) = {}
  BY <1>1, <1>2
<1>4. t = << >>
  <2> SUFFICES ASSUME t # << >> PROVE FALSE
    OBVIOUS
  <2>1. t[1] \in Range(t)
    BY <1>1 DEF Range
  <2> QED BY <1>3, <2>1
<1> QED BY <1>4 DEF t

LEMMA FlatMapSame ==
  ASSUME NEW E, NEW S, NEW f, Gives(f, E, S), NEW s \in Seq(E), NEW t \in Seq(S),
         Len(t) = Len(s), \A i \in 1..Len(s) : f[s[i]] = <<t[i]>>
  PROVE  FlatMap(f, s) = t
<1>1. [i \in 1..Len(s) |-> f[s[i]]] = [i \in 1..Len(t) |-> <<t[i]>>]
  OBVIOUS
<1>2. FlattenSeq([i \in 1..Len(t) |-> <<t[i]>>]) = t
  BY FlattenSingles
<1> QED BY <1>1, <1>2 DEF FlatMap

LEMMA FlatMapFlatten ==
  ASSUME NEW E, NEW S, NEW f, Gives(f, E, S), NEW s \in Seq(Seq(E))
  PROVE  FlatMap(f, FlattenSeq(s)) = FlattenSeq([i \in 1..Len(s) |-> FlatMap(f, s[i])])
<1> DEFINE m(q) == [i \in 1..Len(q) |-> FlatMap(f, q[i])]
           P == {q \in Seq(Seq(E)) : FlatMap(f, FlattenSeq(q)) = FlattenSeq(m(q))}
<1>1. << >> \in P
  <2>1. m(<< >>) = << >>
    OBVIOUS
  <2> QED BY <2>1, FlattenEmpty, FlatMapEmpty
<1>2. ASSUME NEW q \in Seq(Seq(E)), q \in P, NEW x \in Seq(E) PROVE Append(q, x) \in P
  <2>1. FlattenSeq(q) \in Seq(E) /\ FlattenSeq(Append(q, x)) = FlattenSeq(q) \o x
    BY FlattenAppend
  <2>2. FlatMap(f, FlattenSeq(Append(q, x))) = FlatMap(f, FlattenSeq(q)) \o FlatMap(f, x)
    <3> DEFINE a == FlattenSeq(q)
    <3> HIDE DEF a
    <3>1. a \in Seq(E)
      BY <2>1 DEF a
    <3>2. FlatMap(f, a \o x) = FlatMap(f, a) \o FlatMap(f, x)
      BY <3>1, FlatMapConcat
    <3> QED BY <2>1, <3>2 DEF a
  <2>3. \A y \in Seq(E) : FlatMap(f, y) \in Seq(S)
    BY FlatMapType
  <2>4. m(q) \in Seq(Seq(S)) /\ m(Append(q, x)) = Append(m(q), FlatMap(f, x)) /\ Append(q, x) \in Seq(Seq(E))
    BY <2>3
  <2>5. FlattenSeq(Append(m(q), FlatMap(f, x))) = FlattenSeq(m(q)) \o FlatMap(f, x)
    <3> HIDE DEF m
    <3> QED BY <2>3, <2>4, FlattenAppend
  <2> HIDE DEF m
  <2> QED BY <1>2, <2>2, <2>4, <2>5
<1> HIDE DEF P
<1>3. Seq(Seq(E)) \subseteq P
  BY <1>1, <1>2, SeqInduction
<1> QED BY <1>3 DEF P

-----------------------------------------------------------------------------
(* Sorted sequences.                                                       *)

\* Every two elements of s are in the relation R.
Sorted(s, R) == \A i, j \in DOMAIN s : i < j => <<s[i], s[j]>> \in R

Asymmetric(R) == \A x, y : <<x, y>> \in R => <<y, x>> \notin R

LEMMA SortedConcat ==
  ASSUME NEW S, NEW s \in Seq(S), NEW t \in Seq(S), NEW R
  PROVE  Sorted(s \o t, R) <=>
           /\ Sorted(s, R) /\ Sorted(t, R)
           /\ \A x \in Range(s), y \in Range(t) : <<x, y>> \in R
<1> DEFINE u == s \o t
           m == Len(s)
           n == Len(t)
<1>1. /\ DOMAIN s = 1..m /\ DOMAIN t = 1..n /\ DOMAIN u = 1..(m + n)
      /\ m \in Nat /\ n \in Nat
      /\ \A i \in 1..(m + n) : u[i] = IF i <= m THEN s[i] ELSE t[i - m]
  BY ConcatProperties, LenProperties
<1> HIDE DEF u, m, n
<1>2. \A i \in 1..m : i \in 1..(m + n) /\ u[i] = s[i]
  BY <1>1
<1>3. \A i \in 1..n : m + i \in 1..(m + n) /\ u[m + i] = t[i]
  BY <1>1
<1>4. \A i \in 1..(m + n) : i \in 1..m \/ (i - m \in 1..n /\ u[i] = t[i - m])
  BY <1>1
<1>5. ASSUME Sorted(u, R) PROVE Sorted(s, R)
  BY <1>1, <1>2, <1>5 DEF Sorted
<1>6. ASSUME Sorted(u, R) PROVE Sorted(t, R)
  <2> SUFFICES ASSUME NEW i \in 1..n, NEW j \in 1..n, i < j PROVE <<t[i], t[j]>> \in R
    BY <1>1 DEF Sorted
  <2>1. m + i \in 1..(m + n) /\ m + j \in 1..(m + n) /\ m + i < m + j
    BY <1>1
  <2>2. <<u[m + i], u[m + j]>> \in R
    BY <1>1, <1>6, <2>1 DEF Sorted
  <2> QED BY <1>3, <2>2
<1>7. ASSUME Sorted(u, R), NEW i \in 1..m, NEW j \in 1..n PROVE <<s[i], t[j]>> \in R
  <2>1. i \in 1..(m + n) /\ m + j \in 1..(m + n) /\ i < m + j
    BY <1>1
  <2>2. <<u[i], u[m + j]>> \in R
    BY <1>1, <1>7, <2>1 DEF Sorted
  <2> QED BY <1>2, <1>3, <2>2
<1>8. ASSUME Sorted(s, R), Sorted(t, R), \A i \in 1..m, j \in 1..n : <<s[i], t[j]>> \in R
      PROVE  Sorted(u, R)
  <2> SUFFICES ASSUME NEW i \in 1..(m + n), NEW j \in 1..(m + n), i < j
               PROVE  <<u[i], u[j]>> \in R
    BY <1>1 DEF Sorted
  <2>1. CASE i \in 1..m /\ j \in 1..m
    BY <1>1, <1>2, <1>8, <2>1 DEF Sorted
  <2>2. CASE i \in 1..m /\ j - m \in 1..n /\ u[j] = t[j - m]
    BY <1>2, <1>8, <2>2
  <2>3. CASE i - m \in 1..n /\ u[i] = t[i - m] /\ j - m \in 1..n /\ u[j] = t[j - m]
    <3>1. i - m < j - m
      BY <1>1
    <3> QED BY <1>1, <1>8, <2>3, <3>1 DEF Sorted
  <2>4. i - m \in 1..n /\ j \in 1..m => FALSE
    BY <1>1
  <2> QED BY <1>4, <2>1, <2>2, <2>3, <2>4
<1> QED BY <1>1, <1>5, <1>6, <1>7, <1>8 DEF Range, u

LEMMA SortedShort ==
  ASSUME NEW R
  PROVE  Sorted(<< >>, R) /\ \A x : Sorted(<<x>>, R)
BY DEF Sorted

\* Sorted pieces in order make a sorted sequence.
LEMMA FlattenSorted ==
  ASSUME NEW S, NEW s \in Seq(Seq(S)), NEW R, \A i \in 1..Len(s) : Sorted(s[i], R),
         \A i, j \in 1..Len(s) : i < j =>
           \A x \in Range(s[i]), y \in Range(s[j]) : <<x, y>> \in R
  PROVE  Sorted(FlattenSeq(s), R)
<1> DEFINE H(q) == /\ \A i \in 1..Len(q) : Sorted(q[i], R)
                   /\ \A i, j \in 1..Len(q) : i < j =>
                        \A x \in Range(q[i]), y \in Range(q[j]) : <<x, y>> \in R
           P == {q \in Seq(Seq(S)) : H(q) => Sorted(FlattenSeq(q), R)}
<1>1. << >> \in P
  BY FlattenEmpty, SortedShort
<1>2. ASSUME NEW q \in Seq(Seq(S)), q \in P, NEW z \in Seq(S) PROVE Append(q, z) \in P
  <2> DEFINE a == Append(q, z)
             n == Len(q)
  <2>1. /\ a \in Seq(Seq(S)) /\ n \in Nat /\ Len(a) = n + 1
        /\ a[n + 1] = z /\ \A i \in 1..n : a[i] = q[i]
    BY AppendProperties, LenProperties
  <2>2. FlattenSeq(a) = FlattenSeq(q) \o z /\ FlattenSeq(q) \in Seq(S)
    BY FlattenAppend
  <2> HIDE DEF a, n
  <2>3. ASSUME H(a) PROVE Sorted(FlattenSeq(a), R)
    <3>1. \A i \in 1..n : i \in 1..(n + 1) /\ i < n + 1
      BY <2>1
    <3>2. n + 1 \in 1..(n + 1)
      BY <2>1
    <3>3. (\A i \in 1..n : Sorted(q[i], R)) /\ Sorted(z, R)
      BY <2>1, <2>3, <3>1, <3>2
    <3>4. \A i, j \in 1..n : i < j => \A x \in Range(q[i]), y \in Range(q[j]) : <<x, y>> \in R
      BY <2>1, <2>3, <3>1
    <3>5. \A i \in 1..n : \A x \in Range(q[i]), y \in Range(z) : <<x, y>> \in R
      BY <2>1, <2>3, <3>1, <3>2
    <3>6. Sorted(FlattenSeq(q), R)
      BY <1>2, <3>3, <3>4 DEF n
    <3>7. \A x \in Range(FlattenSeq(q)) : \E i \in 1..n : x \in Range(q[i])
      BY FlattenRange DEF n
    <3>8. \A x \in Range(FlattenSeq(q)), y \in Range(z) : <<x, y>> \in R
      BY <3>5, <3>7
    <3> DEFINE f == FlattenSeq(q)
    <3> HIDE DEF f
    <3>9. f \in Seq(S) /\ Sorted(f, R) /\ \A x \in Range(f), y \in Range(z) : <<x, y>> \in R
      BY <2>2, <3>6, <3>8 DEF f
    <3>10. Sorted(f \o z, R)
      BY <3>3, <3>9, SortedConcat
    <3> QED BY <2>2, <3>10 DEF f
  <2> QED BY <2>1, <2>3 DEF a
<1> HIDE DEF P
<1>3. Seq(Seq(S)) \subseteq P
  BY <1>1, <1>2, SeqInduction
<1>4. s \in P
  BY <1>3
<1> QED BY <1>4 DEF P

\* A set can be sorted in one way only.
LEMMA SortedUnique ==
  ASSUME NEW S, NEW s \in Seq(S), NEW t \in Seq(S), NEW R, Asymmetric(R),
         Sorted(s, R), Sorted(t, R), Range(s) = Range(t)
  PROVE  s = t
<1> DEFINE m == Len(s)
           n == Len(t)
           Same(i) == i <= m /\ i <= n /\ s[i] = t[i]
           D == {i \in Nat : 1 <= i /\ (i <= m \/ i <= n) /\ ~Same(i)}
<1>1. DOMAIN s = 1..m /\ DOMAIN t = 1..n /\ m \in Nat /\ n \in Nat
  BY LenProperties
<1>2. ASSUME D # {} PROVE FALSE
  <2>1. PICK i \in D : \A j \in D : i <= j
    <3>1. D \subseteq Nat
      OBVIOUS
    <3> HIDE DEF D
    <3> QED BY <1>2, <3>1, Least
  <2>2. i \in Nat /\ 1 <= i /\ (i <= m \/ i <= n) /\ ~Same(i)
    OBVIOUS
  <2>3. \A j \in Nat : 1 <= j /\ j < i => Same(j)
    <3> SUFFICES ASSUME NEW j \in Nat, 1 <= j, j < i, ~Same(j) PROVE FALSE
      OBVIOUS
    <3>1. j <= m \/ j <= n
      BY <1>1, <2>2
    <3>2. j \in D
      BY <3>1
    <3> QED BY <2>1, <2>2, <3>2
  <2> HIDE DEF m, n, D
  <2>4. ASSUME i <= m PROVE \E j \in 1..n : j >= i /\ t[j] = s[i]
    <3>1. i \in 1..m
      BY <1>1, <2>2, <2>4
    <3>2. PICK j \in 1..n : t[j] = s[i]
      BY <1>1, <3>1 DEF Range
    <3>3. ASSUME j < i PROVE FALSE
      <4>1. Same(j) /\ j \in 1..m
        BY <1>1, <2>3, <3>2, <3>3
      <4>2. <<s[j], s[i]>> \in R
        BY <1>1, <3>1, <3>3, <4>1 DEF Sorted
      <4>3. s[j] = s[i]
        BY <3>2, <4>1
      <4> QED BY <4>2, <4>3 DEF Asymmetric
    <3> QED BY <1>1, <2>2, <3>2, <3>3
  <2>5. ASSUME i <= n PROVE \E k \in 1..m : k >= i /\ s[k] = t[i]
    <3>1. i \in 1..n
      BY <1>1, <2>2, <2>5
    <3>2. PICK k \in 1..m : s[k] = t[i]
      BY <1>1, <3>1 DEF Range
    <3>3. ASSUME k < i PROVE FALSE
      <4>1. Same(k) /\ k \in 1..n
        BY <1>1, <2>3, <3>2, <3>3
      <4>2. <<t[k], t[i]>> \in R
        BY <1>1, <3>1, <3>3, <4>1 DEF Sorted
      <4>3. t[k] = t[i]
        BY <3>2, <4>1
      <4> QED BY <4>2, <4>3 DEF Asymmetric
    <3> QED BY <1>1, <2>2, <3>2, <3>3
  <2>6. i <= m /\ i <= n
    BY <1>1, <2>2, <2>4, <2>5
  <2>7. PICK j \in 1..n : j >= i /\ t[j] = s[i]
    BY <2>4, <2>6
  <2>8. PICK k \in 1..m : k >= i /\ s[k] = t[i]
    BY <2>5, <2>6
  <2>9. s[i] # t[i] /\ i \in 1..m /\ i \in 1..n
    BY <1>1, <2>2, <2>6
  <2>10. i < j /\ i < k
    BY <1>1, <2>2, <2>7, <2>8, <2>9
  <2>11. <<s[i], s[k]>> \in R /\ <<t[i], t[j]>> \in R
    BY <1>1, <2>9, <2>10 DEF Sorted
  <2> QED BY <2>7, <2>8, <2>11 DEF Asymmetric
<1>3. m = n
  <2>1. ASSUME m < n PROVE FALSE
    <3>1. n \in D
      BY <1>1, <2>1
    <3> QED BY <1>2, <3>1
  <2>2. ASSUME n < m PROVE FALSE
    <3>1. m \in D
      BY <1>1, <2>2
    <3> QED BY <1>2, <3>1
  <2> HIDE DEF m, n, D
  <2> QED BY <1>1, <2>1, <2>2
<1>4. \A i \in 1..m : s[i] = t[i]
  <2> SUFFICES ASSUME NEW i \in 1..m, s[i] # t[i] PROVE FALSE
    OBVIOUS
  <2>1. i \in D
    BY <1>1
  <2> QED BY <1>2, <2>1
<1> HIDE DEF D
<1> QED BY <1>3, <1>4, SeqEqual

\* A sequence without repetitions is as long as its range is large.
LEMMA DistinctLength ==
  ASSUME NEW S, NEW s \in Seq(S), \A i, j \in DOMAIN s : i < j => s[i] # s[j]
  PROVE  IsFiniteSet(Range(s)) /\ Cardinality(Range(s)) = Len(s)
<1>1. DOMAIN s = 1..Len(s) /\ Len(s) \in Nat
  BY LenProperties
<1>2. IsFiniteSet(1..Len(s)) /\ Cardinality(1..Len(s)) = Len(s)
  BY <1>1, FS_Interval
<1>3. \A i, j \in 1..Len(s) : s[i] = s[j] => i = j
  BY <1>1
<1>4. s \in Bijection(1..Len(s), Range(s))
  <2>1. s \in [1..Len(s) -> Range(s)]
    BY <1>1 DEF Range
  <2>2. \A x \in Range(s) : \E i \in 1..Len(s) : s[i] = x
    BY <1>1 DEF Range
  <2>3. s \in Surjection(1..Len(s), Range(s))
    BY <2>1, <2>2 DEF Surjection
  <2>4. s \in Injection(1..Len(s), Range(s))
    BY <1>3, <2>1 DEF Injection, IsInjective
  <2> QED BY <2>3, <2>4 DEF Bijection
<1>5. ExistsBijection(1..Len(s), Range(s))
  BY <1>4 DEF ExistsBijection
<1> QED BY <1>2, <1>5, FS_Bijection

=============================================================================
