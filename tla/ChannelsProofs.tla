--------------------------- MODULE ChannelsProofs ---------------------------
(***************************************************************************)
(* Theorems about Channels and Split, for any adapters, chats, messages,   *)
(* timers, background tasks, answers and limits, and for every valid text. *)
(* First what SplitMessage does: the recursive functions it is made of are *)
(* defined, and compute what they should (see SequenceFacts).              *)
(***************************************************************************)
EXTENDS Channels, SequenceFacts

-----------------------------------------------------------------------------
(* Cuts.                                                                   *)

LEMMA MinIs ==
  ASSUME NEW S, S \subseteq Nat, S # {}
  PROVE  Min(S) \in S /\ \A x \in S : Min(S) <= x
<1>1. \E x \in S : \A y \in S : x <= y
  BY Least
<1> QED BY <1>1 DEF Min

LEMMA MaxIs ==
  ASSUME NEW S, S \subseteq Int, S # {}, NEW b \in Int, \A x \in S : x <= b
  PROVE  Max(S) \in S /\ \A x \in S : x <= Max(S)
<1> DEFINE T == {b - x : x \in S}
<1>1. T \subseteq Nat /\ T # {}
  <2>1. \A x \in S : x \in Int /\ x <= b
    OBVIOUS
  <2>2. \A x \in S : b - x \in Nat
    BY <2>1
  <2>3. PICK x : x \in S
    OBVIOUS
  <2> QED BY <2>2, <2>3
<1>2. PICK d \in T : \A e \in T : d <= e
  BY <1>1, Least
<1>3. PICK x \in S : d = b - x
  OBVIOUS
<1>4. ASSUME NEW y \in S PROVE x >= y
  <2>1. b - y \in T
    OBVIOUS
  <2>2. b - x <= b - y
    BY <1>2, <1>3, <2>1
  <2> QED BY <2>2
<1>5. \E z \in S : \A y \in S : z >= y
  BY <1>4
<1> QED BY <1>5 DEF Max

LEMMA LineEndIs ==
  ASSUME NEW s \in Text, NEW i \in 0..Len(s)
  PROVE  LineEnd(s, i) \in i..Len(s)
<1> DEFINE S == {Len(s)} \union {k \in i..(Len(s) - 1) : s[k + 1] = NL}
<1>1. Len(s) \in Nat
  BY DEF Text
<1>2. S \subseteq Nat /\ S # {} /\ \A k \in S : k \in i..Len(s)
  BY <1>1
<1>3. Min(S) \in S
  BY <1>2, MinIs
<1> QED BY <1>2, <1>3 DEF LineEnd

\* Each round of the loop gets further and keeps the cut within the limit.
LEMMA StepIs ==
  ASSUME NEW s \in Text, NEW maxLen \in Nat, NEW w \in Walk(s), w.i < Len(s), w.i < maxLen,
         NEW v, v = Step(s, maxLen, w)
  PROVE  /\ v \in Walk(s) /\ w.i < v.i
         /\ w.lastFenceEnd <= maxLen => v.lastFenceEnd <= maxLen
<1>1. Len(s) \in Nat /\ w.i \in 0..Len(s) /\ w.open \in BOOLEAN /\ w.lastFenceEnd \in 0..Len(s)
  BY DEF Text, Walk
<1>2. CASE ~HasPrefixAt(s, w.i, Fence)
  <2>1. v = [i |-> w.i + 1, open |-> w.open, lastFenceEnd |-> w.lastFenceEnd]
    BY <1>2 DEF Step, Walk
  <2> QED BY <1>1, <2>1 DEF Walk
<1>3. CASE HasPrefixAt(s, w.i, Fence)
  <2>1. w.i + 3 \in 0..Len(s)
    BY <1>1, <1>3 DEF HasPrefixAt, Fence
  <2> DEFINE l == LineEnd(s, w.i + 3)
             f == Min({Len(s), l + 1})
  <2>2. l \in (w.i + 3)..Len(s)
    BY <2>1, LineEndIs
  <2>3. f \in 0..Len(s)
    <3>1. {Len(s), l + 1} \subseteq Nat
      BY <1>1, <2>1, <2>2
    <3>2. f \in {Len(s), l + 1} /\ f <= Len(s)
      BY <3>1, MinIs
    <3> QED BY <1>1, <3>1, <3>2
  <2>4. CASE ~w.open
    <3>1. v = [i |-> l, open |-> TRUE, lastFenceEnd |-> IF w.i > 0 THEN w.i ELSE w.lastFenceEnd]
      BY <1>3, <2>4 DEF Step
    <3> HIDE DEF l
    <3> QED BY <1>1, <2>1, <2>2, <3>1 DEF Walk
  <2>5. CASE w.open
    <3>1. v = [i |-> w.i + 3, open |-> FALSE,
               lastFenceEnd |-> IF f <= maxLen THEN f ELSE w.lastFenceEnd]
      BY <1>3, <2>5 DEF Step
    <3> HIDE DEF l, f
    <3> QED BY <1>1, <2>1, <2>3, <3>1 DEF Walk
  <2> QED BY <2>4, <2>5
<1> QED BY <1>2, <1>3

Scans(f, s, maxLen) ==
  /\ f \in [Walk(s) -> 0..Len(s)]
  /\ \A w \in Walk(s) :
       f[w] = IF w.i < Len(s) /\ w.i < maxLen THEN f[Step(s, maxLen, w)]
              ELSE IF w.open THEN w.lastFenceEnd ELSE 0

LEMMA ScanExists ==
  ASSUME NEW s \in Text, NEW maxLen \in Nat
  PROVE  \E f : Scans(f, s, maxLen)
<1> DEFINE D == Walk(s)
           V == 0..Len(s)
           go(w) == w.i < Len(s) /\ w.i < maxLen
           H == [p \in [D -> V] \X D |->
                   IF go(p[2]) THEN p[1][Step(s, maxLen, p[2])]
                   ELSE IF p[2].open THEN p[2].lastFenceEnd ELSE 0]
           m == [w \in D |-> Len(s) - w.i]
           b == Len(s) + 1
<1>0. Len(s) \in Nat
  BY DEF Text
<1>1. V # {} /\ m \in [D -> Nat] /\ b \in Nat /\ \A x \in D : m[x] < b
  BY <1>0 DEF Walk
<1>2. \A w \in D : go(w) => Step(s, maxLen, w) \in D /\ m[Step(s, maxLen, w)] < m[w]
  <2> TAKE w \in D
  <2> HAVE go(w)
  <2> DEFINE v == Step(s, maxLen, w)
  <2>1. v \in D /\ w.i < v.i
    BY StepIs
  <2> HIDE DEF v
  <2>2. m[v] = Len(s) - v.i /\ m[w] = Len(s) - w.i /\ v.i \in Nat /\ w.i \in Nat
    BY <2>1 DEF Walk
  <2>3. m[v] < m[w]
    BY <1>0, <2>1, <2>2
  <2> QED BY <2>1, <2>3 DEF v
<1>3. \A f \in [D -> V], w \in D :
        H[<<f, w>>] = IF go(w) THEN f[Step(s, maxLen, w)]
                      ELSE IF w.open THEN w.lastFenceEnd ELSE 0
  OBVIOUS
<1>4. \A f \in [D -> V], w \in D : H[<<f, w>>] \in V
  <2> TAKE f \in [D -> V], w \in D
  <2>1. w.lastFenceEnd \in V /\ 0 \in V
    BY <1>0 DEF Walk
  <2>2. go(w) => f[Step(s, maxLen, w)] \in V
    BY <1>2
  <2> HIDE DEF go, H, D, V
  <2> QED BY <1>3, <2>1, <2>2
<1>5. H \in [[D -> V] \X D -> V]
  <2>1. \A p \in [D -> V] \X D : H[p] \in V
    <3> TAKE p \in [D -> V] \X D
    <3>1. p = <<p[1], p[2]>> /\ p[1] \in [D -> V] /\ p[2] \in D
      OBVIOUS
    <3> HIDE DEF H, D, V
    <3> QED BY <1>4, <3>1
  <2> QED BY <2>1
<1>6. \A f, g \in [D -> V] : \A x \in D :
        (\A y \in D : m[y] < m[x] => f[y] = g[y]) => H[<<f, x>>] = H[<<g, x>>]
  <2> TAKE f, g \in [D -> V]
  <2> TAKE w \in D
  <2> HAVE \A y \in D : m[y] < m[w] => f[y] = g[y]
  <2>1. go(w) => f[Step(s, maxLen, w)] = g[Step(s, maxLen, w)]
    <3> HIDE DEF go, m, D, V
    <3> QED BY <1>2
  <2> HIDE DEF H, m, D, V, go
  <2> QED BY <1>3, <2>1
<1> HIDE DEF H, m, D, V, b
<1>7. Recursive(D, V, m, b, H)
  BY <1>1, <1>5, <1>6 DEF Recursive
<1>8. PICK f : Solves(f, D, V, H)
  BY <1>7, Recursion
<1>9. \A w \in D : f[w] = IF go(w) THEN f[Step(s, maxLen, w)]
                          ELSE IF w.open THEN w.lastFenceEnd ELSE 0
  BY <1>3, <1>8 DEF Solves
<1> QED BY <1>8, <1>9 DEF Scans, Solves, D, V

\* Whatever solves the equations, stays within the text and the limit.
LEMMA ScanBound ==
  ASSUME NEW s \in Text, NEW maxLen \in Nat, NEW f,
         \A w \in Walk(s) :
           f[w] = IF w.i < Len(s) /\ w.i < maxLen THEN f[Step(s, maxLen, w)]
                  ELSE IF w.open THEN w.lastFenceEnd ELSE 0,
         NEW w \in Walk(s), w.lastFenceEnd <= maxLen
  PROVE  f[w] \in 0..Len(s) /\ f[w] <= maxLen
<1> DEFINE Bad == {v \in Walk(s) : v.lastFenceEnd <= maxLen
                                  /\ ~(f[v] \in 0..Len(s) /\ f[v] <= maxLen)}
           T == {Len(s) - v.i : v \in Bad}
<1> SUFFICES ASSUME w \in Bad PROVE FALSE
  OBVIOUS
<1>1. T \subseteq Nat /\ T # {}
  <2>1. \A v \in Bad : Len(s) - v.i \in Nat
    BY DEF Walk, Text
  <2> HIDE DEF Bad
  <2> QED BY <2>1
<1>2. PICK d \in T : \A e \in T : d <= e
  BY <1>1, Least
<1>3. PICK v \in Bad : d = Len(s) - v.i
  OBVIOUS
<1>4. v \in Walk(s) /\ v.lastFenceEnd <= maxLen /\ ~(f[v] \in 0..Len(s) /\ f[v] <= maxLen)
  OBVIOUS
<1>5. v.i < Len(s) /\ v.i < maxLen
  <2>1. /\ v.lastFenceEnd <= maxLen /\ 0 <= maxLen
        /\ v.lastFenceEnd \in 0..Len(s) /\ 0 \in 0..Len(s)
    BY <1>4 DEF Walk, Text
  <2>2. f[v] = IF v.i < Len(s) /\ v.i < maxLen THEN f[Step(s, maxLen, v)]
               ELSE IF v.open THEN v.lastFenceEnd ELSE 0
    BY <1>4
  <2> QED BY <1>4, <2>1, <2>2
<1> DEFINE u == Step(s, maxLen, v)
<1>6. u \in Walk(s) /\ v.i < u.i /\ u.lastFenceEnd <= maxLen
  BY <1>4, <1>5, StepIs
<1>7. f[v] = f[u]
  BY <1>4, <1>5
<1> HIDE DEF u
<1>8. u \in Bad
  BY <1>4, <1>6, <1>7
<1>9. Len(s) - v.i <= Len(s) - u.i
  BY <1>2, <1>3, <1>8
<1>10. Len(s) \in Nat /\ v.i \in Nat /\ u.i \in Nat
  BY <1>4, <1>6 DEF Walk, Text
<1> QED BY <1>6, <1>9, <1>10

LEMMA SafeCutIs ==
  ASSUME NEW s \in Text, NEW maxLen \in Nat
  PROVE  findCodeBlockSafeCut(s, maxLen) \in 0..Len(s) /\ findCodeBlockSafeCut(s, maxLen) <= maxLen
<1> DEFINE E(f) == f = [w \in Walk(s) |->
                          IF w.i < Len(s) /\ w.i < maxLen THEN f[Step(s, maxLen, w)]
                          ELSE IF w.open THEN w.lastFenceEnd ELSE 0]
           c == CHOOSE f : E(f)
           start == [i |-> 0, open |-> FALSE, lastFenceEnd |-> 0]
<1>1. findCodeBlockSafeCut(s, maxLen) = c[start]
  BY DEF findCodeBlockSafeCut
<1>2. ASSUME NEW f, Scans(f, s, maxLen) PROVE E(f)
  BY <1>2 DEF Scans
<1>3. \E f : E(f)
  <2>1. PICK f : Scans(f, s, maxLen)
    BY ScanExists
  <2> HIDE DEF E
  <2> QED BY <1>2, <2>1
<1>4. E(c)
  <2> HIDE DEF E
  <2> QED BY <1>3
<1>5. start \in Walk(s) /\ start.lastFenceEnd <= maxLen
  BY DEF Walk, Text
<1>6. \A w \in Walk(s) : c[w] = IF w.i < Len(s) /\ w.i < maxLen THEN c[Step(s, maxLen, w)]
                                ELSE IF w.open THEN w.lastFenceEnd ELSE 0
  <2> HIDE DEF c
  <2> QED BY <1>4
<1>7. c[start] \in 0..Len(s) /\ c[start] <= maxLen
  <2> HIDE DEF c, start
  <2> QED BY <1>5, <1>6, ScanBound
<1> QED BY <1>1, <1>7

LEMMA LastIndexIs ==
  ASSUME NEW s \in Text, NEW end \in Nat, NEW pat, Len(pat) \in Nat,
         NEW k, k = LastIndex(s, end, pat)
  PROVE  \/ k = -1
         \/ k \in Nat /\ k + Len(pat) <= end /\ HasPrefixAt(s, k, pat)
<1> DEFINE S == {-1} \union {i \in 0..(end - Len(pat)) : HasPrefixAt(s, i, pat)}
<1>1. S \subseteq Int /\ S # {} /\ end \in Int /\ \A x \in S : x <= end
  OBVIOUS
<1>2. k \in S
  <2> HIDE DEF S
  <2>1. Max(S) \in S
    BY <1>1, MaxIs
  <2> QED BY <2>1 DEF LastIndex, S
<1> QED BY <1>2

RuneStartAt(s, i) == i = Len(s) \/ RuneStart(s[i + 1])

LEMMA RuneAlignedIs ==
  ASSUME NEW s \in Text, s # << >>, NEW maxLen \in Nat, maxLen < Len(s),
         NEW cut, cut = runeAlignedCut(s, maxLen)
  PROVE  /\ cut \in 1..Len(s) /\ RuneStartAt(s, cut)
         /\ cut <= maxLen \/ \A k \in 2..cut : ~RuneStart(s[k])
<1> DEFINE starts == {i \in 0..(Len(s) - 1) : RuneStart(s[i + 1])}
           A == {i \in starts \union {0} : i <= maxLen}
           B == {Len(s)} \union {i \in starts : i > 0}
<1>0. Len(s) \in Nat \ {0}
  BY DEF Text
<1>1. Max(A) \in A
  <2>1. A \subseteq Int /\ A # {} /\ maxLen \in Int /\ \A x \in A : x <= maxLen
    BY <1>0
  <2> HIDE DEF A
  <2> QED BY <2>1, MaxIs
<1>2. Min(B) \in B /\ \A x \in B : Min(B) <= x
  <2>1. B \subseteq Nat /\ B # {}
    BY <1>0
  <2> HIDE DEF B
  <2> QED BY <2>1, MinIs
<1>3. cut = IF Max(A) > 0 THEN Max(A) ELSE Min(B)
  BY <1>0 DEF runeAlignedCut
<1>4. CASE Max(A) > 0
  BY <1>0, <1>1, <1>3, <1>4 DEF RuneStartAt
<1>5. CASE ~(Max(A) > 0)
  <2>1. cut = Min(B)
    BY <1>3, <1>5
  <2>2. cut \in 1..Len(s) /\ RuneStartAt(s, cut)
    BY <1>0, <1>2, <2>1 DEF RuneStartAt
  <2>3. ASSUME NEW k \in 2..cut, RuneStart(s[k]) PROVE FALSE
    <3>1. k - 1 \in B
      BY <1>0, <2>2, <2>3
    <3>2. cut <= k - 1
      BY <1>2, <2>1, <3>1
    <3> QED BY <2>2, <3>2
  <2> QED BY <2>2, <2>3
<1> QED BY <1>4, <1>5

LEMMA AfterPattern ==
  ASSUME NEW s \in Text, NEW end \in Nat, end < Len(s), NEW b \in {NL, SP},
         NEW n \in {1, 2}, NEW pat, Len(pat) = n, pat[n] = b,
         NEW k, k = LastIndex(s, end, pat), k > 0
  PROVE  k + n \in 1..end /\ (ValidText(s) => RuneStartAt(s, k + n))
<1>0. Len(s) \in Nat
  BY DEF Text
<1>1. k \in Nat /\ k + n <= end /\ HasPrefixAt(s, k, pat)
  <2>1. Len(pat) \in Nat
    OBVIOUS
  <2> QED BY <1>0, <2>1, LastIndexIs
<1>2. s[k + n] = b
  <2>1. SubSeq(s, k + 1, k + n) = pat
    BY <1>1 DEF HasPrefixAt
  <2>2. SubSeq(s, k + 1, k + n)[n] = s[k + n]
    BY <1>0, <1>1 DEF Text
  <2> QED BY <2>1, <2>2
<1>3. b \notin {"lead", "cont"}
  BY DEF NL, SP
<1>4. ValidText(s) => s[k + n + 1] # "cont"
  <2> HAVE ValidText(s)
  <2> DEFINE i == k + n + 1
  <2>1. i \in 1..Len(s) /\ i - 1 = k + n
    BY <1>0, <1>1
  <2>2. s[i] = "cont" => s[i - 1] \in {"lead", "cont"}
    BY <2>1 DEF ValidText
  <2> QED BY <1>2, <1>3, <2>1, <2>2
<1>5. ValidText(s) => RuneStartAt(s, k + n)
  BY <1>4 DEF RuneStartAt, RuneStart
<1> QED BY <1>1, <1>5

LEMMA CutIs ==
  ASSUME NEW s \in Text, NEW maxLen \in Nat \ {0}, maxLen < Len(s),
         NEW cut, cut = findCutPoint(s, maxLen)
  PROVE  /\ cut \in 1..Len(s) /\ (ValidText(s) => RuneStartAt(s, cut))
         /\ cut <= maxLen \/ \A k \in 2..cut : ~RuneStart(s[k])
<1> DEFINE codeBlockCut == findCodeBlockSafeCut(s, maxLen)
           effective == IF codeBlockCut > 0 THEN codeBlockCut ELSE maxLen
           paragraph == LastIndex(s, effective, <<NL, NL>>)
           line == LastIndex(s, effective, <<NL>>)
           space == LastIndex(s, effective, <<SP>>)
<1>0. Len(s) \in Nat
  BY DEF Text
<1>1. effective \in 1..maxLen /\ effective \in Nat /\ effective < Len(s)
  <2>1. codeBlockCut \in 0..Len(s) /\ codeBlockCut <= maxLen
    BY <1>0, SafeCutIs
  <2> HIDE DEF codeBlockCut
  <2> QED BY <1>0, <2>1
<1>2. cut = CASE paragraph > 0 -> paragraph + 2
             [] paragraph <= 0 /\ line > 0 -> line + 1
             [] paragraph <= 0 /\ line <= 0 /\ space > 0 -> space + 1
             [] OTHER -> runeAlignedCut(s, effective)
  BY DEF findCutPoint
<1>3. paragraph \in Int /\ line \in Int /\ space \in Int
  <2> HIDE DEF effective
  <2>1. \A pat : Len(pat) \in Nat => LastIndex(s, effective, pat) \in Int
    <3> TAKE pat
    <3> HAVE Len(pat) \in Nat
    <3> DEFINE k == LastIndex(s, effective, pat)
    <3> HIDE DEF k
    <3>1. k = -1 \/ k \in Nat
      BY <1>0, <1>1, LastIndexIs DEF k
    <3> QED BY <3>1 DEF k
  <2> QED BY <2>1
<1> HIDE DEF effective, paragraph, line, space
<1>4. CASE paragraph > 0
  <2>1. paragraph + 2 \in 1..effective /\ (ValidText(s) => RuneStartAt(s, paragraph + 2))
    <3>1. Len(<<NL, NL>>) = 2 /\ NL \in {NL, SP} /\ <<NL, NL>>[2] = NL
      OBVIOUS
    <3> QED BY <1>1, <1>4, <3>1, AfterPattern DEF paragraph
  <2> QED BY <1>0, <1>1, <1>2, <1>3, <1>4, <2>1
<1>5. CASE paragraph <= 0 /\ line > 0
  <2>1. line + 1 \in 1..effective /\ (ValidText(s) => RuneStartAt(s, line + 1))
    <3>1. Len(<<NL>>) = 1 /\ NL \in {NL, SP} /\ <<NL>>[1] = NL
      OBVIOUS
    <3> QED BY <1>1, <1>5, <3>1, AfterPattern DEF line
  <2> QED BY <1>0, <1>1, <1>2, <1>3, <1>5, <2>1
<1>6. CASE paragraph <= 0 /\ line <= 0 /\ space > 0
  <2>1. space + 1 \in 1..effective /\ (ValidText(s) => RuneStartAt(s, space + 1))
    <3>1. Len(<<SP>>) = 1 /\ SP \in {NL, SP} /\ <<SP>>[1] = SP
      OBVIOUS
    <3> QED BY <1>1, <1>6, <3>1, AfterPattern DEF space
  <2> QED BY <1>0, <1>1, <1>2, <1>3, <1>6, <2>1
<1>7. CASE paragraph <= 0 /\ line <= 0 /\ space <= 0
  <2>1. cut = runeAlignedCut(s, effective)
    BY <1>2, <1>3, <1>7
  <2>2. s # << >>
    BY <1>1
  <2>3. /\ cut \in 1..Len(s) /\ RuneStartAt(s, cut)
        /\ cut <= effective \/ \A k \in 2..cut : ~RuneStart(s[k])
    BY <1>0, <1>1, <2>1, <2>2, RuneAlignedIs
  <2> QED BY <1>1, <2>3
<1> QED BY <1>3, <1>4, <1>5, <1>6, <1>7

-----------------------------------------------------------------------------
(* SplitMessage.                                                           *)

Rest(content, from) == SubSeq(content, from + 1, Len(content))

Cut(content, maxLen, from) == findCutPoint(Rest(content, from), maxLen)

ChunksFrom(f, content, maxLen, from) ==
  IF Rest(content, from) = <<>> THEN <<>>
  ELSE IF Len(Rest(content, from)) <= maxLen THEN <<Rest(content, from)>>
  ELSE <<SubSeq(Rest(content, from), 1, Cut(content, maxLen, from))>>
         \o f[from + Cut(content, maxLen, from)]

LEMMA RestIs ==
  ASSUME NEW content \in Text, NEW from \in 0..Len(content), NEW rest, rest = Rest(content, from)
  PROVE  /\ rest \in Text /\ Len(rest) \in Nat /\ Len(rest) = Len(content) - from
         /\ \A i \in 1..Len(rest) : rest[i] = content[from + i]
<1>1. Len(content) \in Nat /\ \A i \in (from + 1)..Len(content) : content[i] \in STRING
  BY DEF Text
<1>2. /\ rest \in Seq(STRING)
      /\ Len(rest) = IF from + 1 <= Len(content) THEN Len(content) - (from + 1) + 1 ELSE 0
      /\ \A i \in 1..(Len(content) - (from + 1) + 1) : rest[i] = content[(from + 1) + i - 1]
  BY <1>1, SubSeqProperties DEF Rest
<1>3. Len(rest) = Len(content) - from /\ Len(content) - (from + 1) + 1 = Len(rest)
  BY <1>1, <1>2
<1>4. ASSUME NEW i \in 1..Len(rest) PROVE rest[i] = content[from + i]
  <2>1. (from + 1) + i - 1 = from + i
    BY <1>1, <1>3
  <2> QED BY <1>2, <1>3, <2>1
<1> QED BY <1>1, <1>2, <1>3, <1>4 DEF Text

LEMMA CutWithin ==
  ASSUME NEW content \in Text, NEW maxLen \in Nat \ {0}, NEW from \in 0..Len(content),
         NEW rest, rest = Rest(content, from), ~(Len(rest) <= maxLen),
         NEW cut, cut = Cut(content, maxLen, from)
  PROVE  /\ cut \in 1..Len(rest) /\ from + cut \in 0..Len(content) /\ from < from + cut
         /\ ValidText(rest) => RuneStartAt(rest, cut)
         /\ cut <= maxLen \/ \A k \in 2..cut : ~RuneStart(rest[k])
<1>1. rest \in Text /\ Len(rest) \in Nat /\ Len(rest) = Len(content) - from
  BY RestIs
<1>2. maxLen < Len(rest) /\ cut = findCutPoint(rest, maxLen)
  BY <1>1 DEF Cut
<1>3. /\ cut \in 1..Len(rest) /\ (ValidText(rest) => RuneStartAt(rest, cut))
      /\ cut <= maxLen \/ \A k \in 2..cut : ~RuneStart(rest[k])
  BY <1>1, <1>2, CutIs
<1>4. Len(content) \in Nat
  BY DEF Text
<1> QED BY <1>1, <1>3, <1>4

\* The rest of the rest, and what was cut off.
LEMMA RestOfRest ==
  ASSUME NEW content \in Text, NEW from \in 0..Len(content),
         NEW rest, rest = Rest(content, from), NEW cut \in 1..Len(rest)
  PROVE  /\ SubSeq(rest, 1, cut) \in Text /\ Len(SubSeq(rest, 1, cut)) = cut
         /\ \A i \in 1..cut : SubSeq(rest, 1, cut)[i] = rest[i]
         /\ rest = SubSeq(rest, 1, cut) \o Rest(content, from + cut)
         /\ ValidText(rest) /\ RuneStartAt(rest, cut) => ValidText(Rest(content, from + cut))
<1>1. /\ rest \in Text /\ Len(rest) \in Nat /\ Len(rest) = Len(content) - from
      /\ \A i \in 1..Len(rest) : rest[i] = content[from + i]
  BY RestIs
<1>2. from + cut \in 0..Len(content) /\ Len(content) \in Nat
  BY <1>1 DEF Text
<1> DEFINE tail == Rest(content, from + cut)
<1>3. /\ tail \in Text /\ Len(tail) \in Nat /\ Len(tail) = Len(content) - (from + cut)
      /\ \A i \in 1..Len(tail) : tail[i] = content[from + cut + i]
  BY <1>2, RestIs
<1> HIDE DEF tail
<1>4. \A i \in 1..Len(tail) : tail[i] = rest[cut + i] /\ cut + i \in 1..Len(rest)
  <2> TAKE i \in 1..Len(tail)
  <2>1. cut + i \in 1..Len(rest) /\ from + cut + i = from + (cut + i)
    BY <1>1, <1>2, <1>3
  <2> QED BY <1>1, <1>3, <2>1
<1> DEFINE piece == SubSeq(rest, 1, cut)
<1>5. /\ piece \in Text /\ Len(piece) = cut /\ \A i \in 1..cut : piece[i] = rest[i]
  <2>1. \A i \in 1..cut : rest[i] \in STRING
    BY <1>1 DEF Text
  <2>2. /\ piece \in Seq(STRING) /\ Len(piece) = IF 1 <= cut THEN cut - 1 + 1 ELSE 0
        /\ \A i \in 1..(cut - 1 + 1) : piece[i] = rest[1 + i - 1]
    BY <2>1, SubSeqProperties
  <2>3. cut - 1 + 1 = cut /\ \A i \in 1..cut : 1 + i - 1 = i
    OBVIOUS
  <2> HIDE DEF piece
  <2> QED BY <2>2, <2>3 DEF Text
<1> HIDE DEF piece
<1>6. rest = piece \o tail
  <2>0. piece \in Seq(STRING) /\ tail \in Seq(STRING)
    BY <1>3, <1>5 DEF Text
  <2>1. /\ piece \o tail \in Seq(STRING) /\ Len(piece \o tail) = Len(piece) + Len(tail)
        /\ \A i \in 1..(Len(piece) + Len(tail)) :
             (piece \o tail)[i] = IF i <= Len(piece) THEN piece[i] ELSE tail[i - Len(piece)]
    BY <2>0, ConcatProperties
  <2>2. Len(piece \o tail) = Len(rest)
    BY <1>1, <1>2, <1>3, <1>5, <2>1
  <2>3. ASSUME NEW i \in 1..Len(rest) PROVE rest[i] = (piece \o tail)[i]
    <3>1. (piece \o tail)[i] = IF i <= cut THEN piece[i] ELSE tail[i - cut]
      BY <1>5, <2>1, <2>2, <2>3
    <3>2. CASE i <= cut
      BY <1>5, <2>3, <3>1, <3>2
    <3>3. CASE ~(i <= cut)
      <4>1. i - cut \in 1..Len(tail) /\ cut + (i - cut) = i
        BY <1>1, <1>2, <1>3, <2>3, <3>3
      <4>2. tail[i - cut] = rest[cut + (i - cut)]
        BY <1>4, <4>1
      <4>3. (piece \o tail)[i] = tail[i - cut]
        BY <3>1, <3>3
      <4> QED BY ONLY <4>1, <4>2, <4>3
    <3> QED BY <3>2, <3>3
  <2> QED BY <1>1, <2>1, <2>2, <2>3, SeqEqual DEF Text
<1>7. ASSUME ValidText(rest), RuneStartAt(rest, cut) PROVE ValidText(tail)
  <2> SUFFICES ASSUME NEW i \in 1..Len(tail), tail[i] = "cont"
               PROVE  i > 1 /\ tail[i - 1] \in {"lead", "cont"}
    BY <1>3 DEF ValidText
  <2>1. rest[cut + i] = "cont" /\ cut + i \in 1..Len(rest)
    BY <1>4
  <2>2. rest[cut + i - 1] \in {"lead", "cont"}
    BY <1>7, <2>1 DEF ValidText
  <2>3. i # 1
    <3>1. SUFFICES ASSUME i = 1 PROVE FALSE
      OBVIOUS
    <3>2. cut # Len(rest) /\ rest[cut + 1] = "cont"
      BY <1>1, <1>3, <2>1, <3>1
    <3>3. RuneStartAt(rest, cut)
      BY <1>7
    <3> QED BY ONLY <3>2, <3>3 DEF RuneStartAt, RuneStart
  <2>4. i - 1 \in 1..Len(tail) /\ cut + (i - 1) = cut + i - 1
    BY <1>3, <2>3
  <2>5. tail[i - 1] = rest[cut + (i - 1)] /\ i > 1
    BY <1>4, <2>3, <2>4
  <2> QED BY ONLY <2>2, <2>4, <2>5
<1> QED BY <1>5, <1>6, <1>7 DEF tail, piece

LEMMA ChunksExist ==
  ASSUME NEW content \in Text, NEW maxLen \in Nat \ {0}
  PROVE  \E f : \A from \in 0..Len(content) : f[from] = ChunksFrom(f, content, maxLen, from)
<1> DEFINE D == 0..Len(content)
           V == Seq(Text)
           H == [p \in [D -> V] \X D |-> ChunksFrom(p[1], content, maxLen, p[2])]
           m == [from \in D |-> Len(content) - from]
           b == Len(content) + 1
           rest(from) == Rest(content, from)
           cut(from) == Cut(content, maxLen, from)
           last(from) == Len(rest(from)) <= maxLen
<1>0. Len(content) \in Nat
  BY DEF Text
<1>1. V # {} /\ m \in [D -> Nat] /\ b \in Nat /\ \A x \in D : m[x] < b
  <2>1. << >> \in V
    BY EmptySeq
  <2>2. \A x \in D : m[x] \in Nat /\ m[x] < b
    BY <1>0
  <2>3. m \in [D -> Nat] /\ b \in Nat
    BY <1>0, <2>2
  <2> HIDE DEF V, m, b, D
  <2> QED BY <2>1, <2>2, <2>3
<1>2. \A from \in D : /\ rest(from) \in Text
                      /\ ~last(from) =>
                           /\ from + cut(from) \in D /\ m[from + cut(from)] < m[from]
                           /\ SubSeq(rest(from), 1, cut(from)) \in Text
  <2> TAKE from \in D
  <2>1. rest(from) \in Text
    BY RestIs
  <2>2. ASSUME ~last(from)
        PROVE  /\ from + cut(from) \in D /\ m[from + cut(from)] < m[from]
               /\ SubSeq(rest(from), 1, cut(from)) \in Text
    <3> DEFINE r == rest(from)
               c == cut(from)
    <3>0. r = Rest(content, from) /\ c = Cut(content, maxLen, from) /\ ~(Len(r) <= maxLen)
      BY <2>2
    <3> HIDE DEF r, c
    <3>1. c \in 1..Len(r) /\ from + c \in 0..Len(content) /\ from < from + c
      BY <3>0, CutWithin
    <3>2. SubSeq(r, 1, c) \in Text
      BY <3>0, <3>1, RestOfRest
    <3>3. m[from + c] < m[from]
      BY <1>0, <3>1
    <3> QED BY <3>1, <3>2, <3>3 DEF r, c
  <2> QED BY <2>1, <2>2
<1>3. \A f \in [D -> V], from \in D :
        H[<<f, from>>] = IF rest(from) = << >> THEN << >>
                         ELSE IF last(from) THEN <<rest(from)>>
                         ELSE <<SubSeq(rest(from), 1, cut(from))>> \o f[from + cut(from)]
  BY DEF ChunksFrom
<1>4. \A f \in [D -> V], from \in D : H[<<f, from>>] \in V
  <2> TAKE f \in [D -> V], from \in D
  <2>1. << >> \in V /\ \A x \in Text : <<x>> \in V
    BY EmptySeq
  <2>2. ~last(from) => <<SubSeq(rest(from), 1, cut(from))>> \o f[from + cut(from)] \in V
    <3> HAVE ~last(from)
    <3> DEFINE x == <<SubSeq(rest(from), 1, cut(from))>>
               y == f[from + cut(from)]
    <3>1. x \in V /\ y \in V
      <4> HIDE DEF last, D, V, rest, cut
      <4> QED BY <1>2, <2>1
    <3>2. x \o y \in V
      <4> HIDE DEF x, y
      <4> QED BY <3>1, ConcatProperties
    <3> QED BY <3>2
  <2> HIDE DEF H, D, V, rest, cut, last
  <2> QED BY <1>2, <1>3, <2>1, <2>2
<1>5. H \in [[D -> V] \X D -> V]
  <2>1. \A p \in [D -> V] \X D : H[p] \in V
    <3> TAKE p \in [D -> V] \X D
    <3>1. p = <<p[1], p[2]>> /\ p[1] \in [D -> V] /\ p[2] \in D
      OBVIOUS
    <3> HIDE DEF H, D, V
    <3> QED BY <1>4, <3>1
  <2> QED BY <2>1
<1>6. \A f, g \in [D -> V] : \A x \in D :
        (\A y \in D : m[y] < m[x] => f[y] = g[y]) => H[<<f, x>>] = H[<<g, x>>]
  <2> TAKE f, g \in [D -> V]
  <2> TAKE from \in D
  <2> HAVE \A y \in D : m[y] < m[from] => f[y] = g[y]
  <2>1. ~last(from) => f[from + cut(from)] = g[from + cut(from)]
    <3> HIDE DEF last, m, D, V, cut, rest
    <3> QED BY <1>2
  <2> HIDE DEF H, m, D, V, last, cut, rest
  <2> QED BY <1>3, <2>1
<1> HIDE DEF m, V, b
<1>7. Recursive(D, V, m, b, H)
  <2> HIDE DEF H, D
  <2> QED BY <1>1, <1>5, <1>6 DEF Recursive
<1>8. PICK f : Solves(f, D, V, H)
  <2> HIDE DEF H, D
  <2> QED BY <1>7, Recursion
<1>9. \A from \in D : f[from] = ChunksFrom(f, content, maxLen, from)
  BY <1>8 DEF Solves
<1> QED BY <1>9

\* What a chunk is.
ChunkOk(x, maxLen) ==
  /\ x # <<>> /\ RuneStart(x[1])
  /\ Len(x) <= maxLen \/ \A k \in 2..Len(x) : ~RuneStart(x[k])

Cuts(cs, whole, maxLen) ==
  /\ cs \in Seq(Text) /\ FlattenSeq(cs) = whole
  /\ \A i \in 1..Len(cs) : ChunkOk(cs[i], maxLen)

\* The pieces of a text that starts with a piece.
LEMMA CutsCons ==
  ASSUME NEW x \in Text, NEW cs, NEW whole, NEW maxLen, Cuts(cs, whole, maxLen), ChunkOk(x, maxLen)
  PROVE  Cuts(<<x>> \o cs, x \o whole, maxLen)
<1> DEFINE ds == <<x>> \o cs
<1>1. <<x>> \in Seq(Text) /\ Len(<<x>>) = 1 /\ <<x>>[1] = x /\ cs \in Seq(Text) /\ Len(cs) \in Nat
  BY DEF Cuts
<1>2. /\ ds \in Seq(Text) /\ Len(ds) = 1 + Len(cs)
      /\ \A i \in 1..(1 + Len(cs)) : ds[i] = IF i <= 1 THEN x ELSE cs[i - 1]
  <2> DEFINE one == <<x>>
  <2>1. one \in Seq(Text) /\ Len(one) = 1 /\ one[1] = x
    BY <1>1
  <2> HIDE DEF one
  <2>2. /\ one \o cs \in Seq(Text) /\ Len(one \o cs) = Len(one) + Len(cs)
        /\ \A i \in 1..(Len(one) + Len(cs)) :
             (one \o cs)[i] = IF i <= Len(one) THEN one[i] ELSE cs[i - Len(one)]
    BY <1>1, <2>1, ConcatProperties
  <2>3. \A i \in 1..(1 + Len(cs)) : (one \o cs)[i] = IF i <= 1 THEN x ELSE cs[i - 1]
    BY <1>1, <2>1, <2>2
  <2> QED BY <2>1, <2>2, <2>3 DEF one
<1>3. FlattenSeq(<<x>>) = x
  <2>1. << >> \in Seq(Text) /\ Append(<< >>, x) = <<x>>
    BY EmptySeq
  <2>2. FlattenSeq(Append(<< >>, x)) = FlattenSeq(<< >>) \o x
    BY <2>1, FlattenAppend DEF Text
  <2>3. << >> \o x = x
    BY ConcatEmptySeq DEF Text
  <2> QED BY <2>1, <2>2, <2>3, FlattenEmpty
<1>4. FlattenSeq(ds) = x \o whole
  <2>1. FlattenSeq(<<x>> \o cs) = FlattenSeq(<<x>>) \o FlattenSeq(cs)
    BY <1>1, FlattenConcat DEF Text
  <2> QED BY <1>3, <2>1 DEF Cuts
<1> HIDE DEF ds
<1>5. ASSUME NEW i \in 1..Len(ds) PROVE ChunkOk(ds[i], maxLen)
  <2>1. CASE i = 1
    BY <1>1, <1>2, <1>5, <2>1
  <2>2. CASE i # 1
    <3>1. i - 1 \in 1..Len(cs) /\ ds[i] = cs[i - 1]
      BY <1>1, <1>2, <1>5, <2>2
    <3> QED BY <3>1 DEF Cuts
  <2> QED BY <2>1, <2>2
<1> QED BY <1>2, <1>4, <1>5 DEF Cuts, ds

LEMMA NothingCut == ASSUME NEW maxLen PROVE Cuts(<< >>, << >>, maxLen)
BY EmptySeq, FlattenEmpty DEF Cuts

LEMMA OneCut ==
  ASSUME NEW x \in Text, NEW maxLen, ChunkOk(x, maxLen)
  PROVE  Cuts(<<x>>, x, maxLen)
<1>1. Cuts(<<x>> \o << >>, x \o << >>, maxLen)
  BY NothingCut, CutsCons
<1>2. x \in Seq(STRING) /\ <<x>> \in Seq(Text)
  BY DEF Text
<1>3. <<x>> \o << >> = <<x>> /\ x \o << >> = x
  BY <1>2, ConcatEmptySeq
<1> QED BY <1>1, <1>3

LEMMA ValidStart ==
  ASSUME NEW x, ValidText(x), x # << >> PROVE x \in Text /\ RuneStart(x[1])
<1>1. x \in Text /\ 1 \in 1..Len(x)
  BY DEF ValidText, Text
<1> QED BY <1>1 DEF ValidText, RuneStart

LEMMA ChunksCut ==
  ASSUME NEW content \in Text, NEW maxLen \in Nat \ {0}, NEW f,
         \A from \in 0..Len(content) : f[from] = ChunksFrom(f, content, maxLen, from),
         NEW start \in 0..Len(content), ValidText(Rest(content, start))
  PROVE  Cuts(f[start], Rest(content, start), maxLen)
<1> DEFINE Good(from) == Cuts(f[from], Rest(content, from), maxLen)
           Bad == {from \in 0..Len(content) : ValidText(Rest(content, from)) /\ ~Good(from)}
           T == {Len(content) - from : from \in Bad}
<1> SUFFICES ASSUME start \in Bad PROVE FALSE
  OBVIOUS
<1>0. Len(content) \in Nat
  BY DEF Text
<1>1. T \subseteq Nat /\ T # {}
  <2>1. \A from \in Bad : Len(content) - from \in Nat
    BY <1>0
  <2> HIDE DEF Bad
  <2> QED BY <2>1
<1>2. PICK d \in T : \A e \in T : d <= e
  BY <1>1, Least
<1>3. PICK from \in Bad : d = Len(content) - from
  OBVIOUS
<1>4. from \in 0..Len(content) /\ ValidText(Rest(content, from)) /\ ~Good(from)
  OBVIOUS
<1> DEFINE rest == Rest(content, from)
           cut == Cut(content, maxLen, from)
<1>5. rest \in Text /\ Len(rest) \in Nat /\ rest = Rest(content, from) /\ ValidText(rest)
  BY <1>4, RestIs
<1>6. f[from] = ChunksFrom(f, content, maxLen, from)
  BY <1>4
<1>7. CASE rest = << >>
  <2>1. f[from] = << >>
    BY <1>6, <1>7 DEF ChunksFrom
  <2> QED BY <1>4, <1>7, <2>1, NothingCut
<1>8. rest # << >> => RuneStart(rest[1])
  <2> HIDE DEF rest
  <2> QED BY <1>5, ValidStart
<1>9. CASE rest # << >> /\ Len(rest) <= maxLen
  <2>1. f[from] = <<rest>>
    BY <1>6, <1>9 DEF ChunksFrom
  <2>2. ChunkOk(rest, maxLen)
    <3> HIDE DEF rest
    <3> QED BY <1>8, <1>9 DEF ChunkOk
  <2>3. Cuts(<<rest>>, rest, maxLen)
    <3> HIDE DEF rest
    <3> QED BY <1>5, <2>2, OneCut
  <2> QED BY <1>4, <2>1, <2>3
<1>10. CASE rest # << >> /\ ~(Len(rest) <= maxLen)
  <2> DEFINE piece == SubSeq(rest, 1, cut)
             next == from + cut
  <2>1. f[from] = <<piece>> \o f[next]
    BY <1>6, <1>10 DEF ChunksFrom
  <2> HIDE DEF rest, cut
  <2>2. /\ cut \in 1..Len(rest) /\ next \in 0..Len(content) /\ from < next
        /\ ValidText(rest) => RuneStartAt(rest, cut)
        /\ cut <= maxLen \/ \A k \in 2..cut : ~RuneStart(rest[k])
    BY <1>4, <1>5, <1>10, CutWithin DEF cut
  <2>3. /\ piece \in Text /\ Len(piece) = cut /\ \A i \in 1..cut : piece[i] = rest[i]
        /\ rest = piece \o Rest(content, next)
        /\ ValidText(Rest(content, next))
    BY <1>4, <1>5, <2>2, RestOfRest, SMTT(30)
  <2> HIDE DEF piece
  <2>4. ChunkOk(piece, maxLen)
    <3>1. 1 \in 1..cut /\ \A k \in 2..cut : k \in 1..cut
      BY <2>2
    <3>2. piece # << >>
      BY <2>2, <2>3
    <3>3. piece[1] = rest[1] /\ \A k \in 2..cut : piece[k] = rest[k]
      BY <2>3, <3>1
    <3> QED BY <1>8, <1>10, <2>2, <2>3, <3>2, <3>3 DEF ChunkOk
  <2>5. Good(next)
    <3> HIDE DEF Good
    <3>1. SUFFICES ASSUME ~Good(next) PROVE FALSE
      OBVIOUS
    <3>2. next \in Bad
      BY <2>2, <2>3, <3>1
    <3>3. Len(content) - from <= Len(content) - next
      <4> HIDE DEF Bad, next
      <4> QED BY <1>2, <1>3, <3>2
    <3> QED BY <1>0, <1>4, <2>2, <3>3
  <2>6. Cuts(<<piece>> \o f[next], piece \o Rest(content, next), maxLen)
    <3> HIDE DEF next
    <3> QED BY <2>3, <2>4, <2>5, CutsCons
  <2> QED BY <1>4, <1>5, <2>1, <2>3, <2>6
<1> QED BY <1>7, <1>9, <1>10

LEMMA SplitCuts ==
  ASSUME NEW content, ValidText(content), content # << >>, NEW maxLen \in Nat \ {0}
  PROVE  Cuts(SplitMessage(content, maxLen), content, maxLen)
<1> DEFINE n == Len(content)
           E(f) == f = [from \in 0..n |->
             LET rest == SubSeq(content, from + 1, n) IN
             IF rest = <<>> THEN <<>>
             ELSE IF Len(rest) <= maxLen THEN <<rest>>
             ELSE LET cut == findCutPoint(rest, maxLen)
                  IN  <<SubSeq(rest, 1, cut)>> \o f[from + cut]]
           c == CHOOSE f : E(f)
<1>0. content \in Text /\ n \in Nat
  BY DEF ValidText, Text
<1>1. SplitMessage(content, maxLen) = IF n <= maxLen THEN <<content>> ELSE c[0]
  <2>1. SplitMessage(content, maxLen) = IF maxLen <= 0 \/ n <= maxLen THEN <<content>> ELSE c[0]
    BY Zenon DEF SplitMessage
  <2>2. ~(maxLen <= 0)
    OBVIOUS
  <2> HIDE DEF c
  <2> QED BY <2>1, <2>2
<1>2. ASSUME NEW f PROVE E(f) <=> f = [from \in 0..n |-> ChunksFrom(f, content, maxLen, from)]
  BY DEF ChunksFrom, Rest, Cut
<1>3. \E f : E(f)
  <2>1. PICK g : \A from \in 0..n : g[from] = ChunksFrom(g, content, maxLen, from)
    BY <1>0, ChunksExist
  <2> DEFINE f == [from \in 0..n |-> g[from]]
  <2>2. \A from \in 0..n : f[from] = ChunksFrom(f, content, maxLen, from)
    <3> TAKE from \in 0..n
    <3>1. ~(Len(Rest(content, from)) <= maxLen) => from + Cut(content, maxLen, from) \in 0..n
      BY <1>0, CutWithin
    <3> QED BY <2>1, <3>1 DEF ChunksFrom
  <2>3. f = [from \in 0..n |-> f[from]]
    OBVIOUS
  <2> HIDE DEF f
  <2>4. f = [from \in 0..n |-> ChunksFrom(f, content, maxLen, from)]
    BY <2>2, <2>3
  <2>5. E(f)
    BY <1>2, <2>4
  <2> HIDE DEF E
  <2> QED BY <2>5
<1>4. E(c)
  <2> HIDE DEF E
  <2> QED BY <1>3
<1>5. \A from \in 0..n : c[from] = ChunksFrom(c, content, maxLen, from)
  <2> HIDE DEF c
  <2>1. c = [from \in 0..n |-> ChunksFrom(c, content, maxLen, from)]
    BY <1>2, <1>4
  <2> QED BY <2>1
<1>6. Rest(content, 0) = content
  BY <1>0, SubSeqFull DEF Rest, Text
<1>7. Cuts(c[0], content, maxLen)
  <2> HIDE DEF c
  <2>1. 0 \in 0..n /\ ValidText(Rest(content, 0))
    BY <1>0, <1>6
  <2> QED BY <1>0, <1>5, <1>6, <2>1, ChunksCut
<1>8. n <= maxLen => Cuts(<<content>>, content, maxLen)
  <2> HAVE n <= maxLen
  <2>1. ChunkOk(content, maxLen)
    BY ValidStart DEF ChunkOk
  <2> QED BY <1>0, <2>1, OneCut
<1> HIDE DEF c
<1> QED BY <1>1, <1>7, <1>8

\* Every text that is valid UTF-8 is cut, for every limit, into chunks that are
\* not empty, begin at the start of a rune and fit (unless they are one rune
\* that does not), and that are, one after the other, the text.
THEOREM SplitIsCorrect ==
  ASSUME NEW content, ValidText(content), content # << >>, NEW maxLen \in Nat \ {0}
  PROVE  SplitCorrect(content, maxLen)
<1> DEFINE cs == SplitMessage(content, maxLen)
<1>1. Cuts(cs, content, maxLen)
  BY SplitCuts
<1> HIDE DEF cs
<1>2. DOMAIN cs = 1..Len(cs)
  BY <1>1, LenProperties DEF Cuts
<1>3. /\ FlattenSeq(cs) = content
      /\ \A i \in DOMAIN cs : /\ cs[i] # <<>> /\ RuneStart(cs[i][1])
                              /\ Len(cs[i]) <= maxLen \/ \A k \in 2..Len(cs[i]) : ~RuneStart(cs[i][k])
  BY <1>1, <1>2 DEF Cuts, ChunkOk
<1> QED BY <1>3 DEF SplitCorrect, cs

-----------------------------------------------------------------------------
(* The invariant of Channels.                                              *)

Phases == {"none", "queued", "starting", "locking", "turn", "send", "sent", "working",
           "deliver", "armed", "ended", "lost"}

TypeOK ==
  /\ sessions \subseteq Chats
  /\ row \in [Sessions -> {None, "channel", "webchat"}]
  /\ inbound \in Seq([type : {"message", "answer"}, msg : Msgs])
  /\ phase \in [Jobs -> Phases]
  /\ chat \in [Jobs -> Sessions \union {None}]
  /\ parent \in [Tasks -> Jobs \union {None}]
  /\ cards \subseteq Msgs
  /\ DOMAIN results \subseteq Tasks /\ results = [s \in DOMAIN results |-> results[s]]
  /\ \A s \in DOMAIN results : results[s] \in {"running", "done"}
  /\ age \in [Tasks -> {"new", "old"}]
  /\ taken \in [Tasks -> Nat]

\* Messages wait in the channel once, and no other job does.
QueueInv ==
  /\ \A i \in 1..Len(inbound) : inbound[i].type = "message" => phase[inbound[i].msg] = "queued"
  /\ \A i, k \in 1..Len(inbound) :
       inbound[i].type = "message" /\ inbound[k].type = "message" /\ inbound[i].msg = inbound[k].msg
         => i = k

\* Which jobs get how far.
KindInv ==
  \A j \in Jobs :
    /\ phase[j] = "queued" => j \in Msgs
    /\ phase[j] \in {"starting", "locking", "turn"} => j \in Msgs \union Timers
    /\ phase[j] = "armed" => j \in Timers
    /\ phase[j] \in {"working", "deliver"} => j \in Tasks

Live(j) == phase[j] \notin {"none", "ended", "lost"}

\* A job at work has a session, and the adapter knows its chat; what the adapter
\* may send to has a row that only its own messages make.
ChatInv ==
  /\ \A j \in Jobs : Live(j) => chat[j] \in Web \union sessions
  /\ \A j \in Jobs : phase[j] \in {"queued", "send", "sent"} => chat[j] \in Chats
  /\ \A m \in cards : chat[m] \in Chats /\ phase[m] # "none"
  /\ \A w \in Web : row[w] # "channel"

\* The entry of a spawned agent is there before it works and until somebody takes it.
SpawnInv ==
  /\ SpawnAccounted
  /\ \A s \in Tasks :
       /\ phase[s] = "none" => parent[s] = None /\ s \notin DOMAIN results /\ taken[s] = 0
       /\ phase[s] = "working" => s \in DOMAIN results /\ results[s] = "running"
       /\ s \in DOMAIN results => taken[s] = 0

Sending(j) == phase[j] \in {"send", "sent"}

\* What the chat of an answer shows, followed by what is not sent yet, is the
\* answer; no other chat shows any of it, and none is left when sending is over.
AnswerInv ==
  /\ text \in [Jobs -> Text] /\ chunks \in [Jobs -> Seq(Text)]
  /\ shown \in [Chats -> [Jobs -> Seq(Text)]]
  /\ \A j \in Jobs : Sending(j) =>
       /\ FlattenSeq(shown[chat[j]][j] \o chunks[j]) = text[j]
       /\ phase[j] = "sent" <=> chunks[j] = <<>>
  /\ \A j \in Jobs, c \in Chats : shown[c][j] # <<>> => Sending(j) /\ chat[j] = c

IInv == TypeOK /\ QueueInv /\ KindInv /\ ChatInv /\ SpawnInv

-----------------------------------------------------------------------------
(* Steps.                                                                  *)

LEMMA JobSets == Msgs \subseteq Jobs /\ Timers \subseteq Jobs /\ Tasks \subseteq Jobs
BY DEF Jobs

LEMMA InitInv == Init => IInv
<1> SUFFICES ASSUME Init PROVE IInv
  OBVIOUS
<1>1. TypeOK
  BY DEF Init, TypeOK, Phases
<1>2. Len(inbound) = 0
  BY DEF Init
<1>3. QueueInv /\ KindInv
  BY <1>2, JobSets DEF Init, QueueInv, KindInv
<1>4. ChatInv
  BY JobSets DEF Init, ChatInv, Live, Sessions, None
<1>5. SpawnInv
  BY JobSets DEF Init, SpawnInv, SpawnAccounted, Spawned
<1> QED BY <1>1, <1>3, <1>4, <1>5 DEF IInv

\* A job at work goes on, to a phase its kind may reach.
LEMMA JobMoves ==
  ASSUME IInv, NEW j \in Jobs, Live(j), phase[j] \notin {"queued", "working"},
         NEW p \in {"starting", "locking", "turn", "send", "sent", "ended"},
         phase' = [phase EXCEPT ![j] = p],
         p \in {"starting", "locking", "turn"} => j \in Msgs \union Timers,
         p \in {"send", "sent"} => chat[j] \in Chats,
         row' \in [Sessions -> {None, "channel", "webchat"}], \A w \in Web : row'[w] # "channel",
         UNCHANGED <<sessions, inbound, chat, parent, cards, results, age, taken>>
  PROVE  IInv'
<1> USE DEF IInv
<1>1. TypeOK'
  BY DEF TypeOK, Phases
<1>2. QueueInv'
  BY DEF TypeOK, QueueInv
<1>3. KindInv'
  BY DEF TypeOK, KindInv
<1>4. ChatInv'
  BY JobSets DEF TypeOK, ChatInv, Live
<1>5. SpawnInv'
  BY JobSets DEF TypeOK, SpawnInv, SpawnAccounted, Spawned, Live
<1> QED BY <1>1, <1>2, <1>3, <1>4, <1>5

\* A job that has not begun gets a session.
LEMMA JobStarts ==
  ASSUME IInv, NEW j \in Jobs, phase[j] = "none",
         NEW p \in {"queued", "turn", "working", "deliver", "armed"},
         phase' = [phase EXCEPT ![j] = p],
         NEW c \in Sessions, chat' = [chat EXCEPT ![j] = c], c \in Web \union sessions',
         p = "turn" => j \in Msgs, p = "armed" => j \in Timers,
         p \in {"working", "deliver"} => j \in Tasks, p = "queued" => c \in Chats /\ j \in Msgs,
         sessions \subseteq sessions', sessions' \subseteq Chats,
         row' \in [Sessions -> {None, "channel", "webchat"}], \A w \in Web : row'[w] # "channel",
         UNCHANGED cards
  PROVE  /\ phase' \in [Jobs -> Phases] /\ chat' \in [Jobs -> Sessions \union {None}]
         /\ KindInv' /\ ChatInv'
<1> USE DEF IInv
<1>1. phase' \in [Jobs -> Phases] /\ chat' \in [Jobs -> Sessions \union {None}]
  BY DEF TypeOK, Phases
<1>2. KindInv'
  BY DEF TypeOK, KindInv
<1>3. ChatInv'
  <2>1. j \notin cards /\ cards \subseteq Jobs
    BY JobSets DEF ChatInv, TypeOK
  <2>2. \A m \in cards' : chat'[m] \in Chats /\ phase'[m] # "none"
    BY <2>1 DEF ChatInv, TypeOK
  <2>3. \A k \in Jobs : phase'[k] \in {"queued", "send", "sent"} => chat'[k] \in Chats
    BY DEF ChatInv, TypeOK
  <2>4. \A k \in Jobs : Live(k)' => chat'[k] \in Web \union sessions'
    BY DEF ChatInv, TypeOK, Live
  <2> QED BY <2>2, <2>3, <2>4 DEF ChatInv
<1> QED BY <1>1, <1>2, <1>3

\* Nothing moves: users answer, requests come and go, results expire.
LEMMA NobodyMoves ==
  ASSUME IInv, UNCHANGED <<row, phase, chat, parent>>,
         sessions \subseteq sessions', sessions' \subseteq Chats,
         cards' \subseteq Msgs, \A m \in cards' : chat[m] \in Chats /\ phase[m] # "none",
         inbound' \in Seq([type : {"message", "answer"}, msg : Msgs]), QueueInv',
         results' = [s \in DOMAIN results' |-> results[s]], DOMAIN results' \subseteq DOMAIN results,
         age' \in [Tasks -> {"new", "old"}], taken' \in [Tasks -> Nat],
         \A s \in Tasks :
           /\ age[s] = "old" => age'[s] = "old"
           /\ \/ taken'[s] = taken[s] /\ (s \in DOMAIN results' <=> s \in DOMAIN results)
              \/ taken'[s] = taken[s] /\ results[s] = "done" /\ age[s] = "old"
              \/ /\ taken'[s] = taken[s] + 1 /\ s \in DOMAIN results /\ s \notin DOMAIN results'
                 /\ results[s] = "done"
  PROVE  IInv'
<1> USE DEF IInv
<1>1. TypeOK'
  BY DEF TypeOK
<1>2. KindInv' /\ ChatInv'
  BY DEF KindInv, ChatInv, Live
<1>3. ASSUME NEW s \in Tasks
      PROVE  /\ phase'[s] = "none" => parent'[s] = None /\ s \notin DOMAIN results' /\ taken'[s] = 0
             /\ phase'[s] = "working" => s \in DOMAIN results' /\ results'[s] = "running"
             /\ s \in DOMAIN results' => taken'[s] = 0
             /\ taken'[s] <= 1
             /\ Spawned(s)' => s \in DOMAIN results' \/ taken'[s] = 1 \/ age'[s] = "old"
  <2>1. /\ phase[s] = "none" => parent[s] = None /\ s \notin DOMAIN results /\ taken[s] = 0
        /\ phase[s] = "working" => s \in DOMAIN results /\ results[s] = "running"
        /\ s \in DOMAIN results => taken[s] = 0
        /\ taken[s] <= 1 /\ taken[s] \in Nat
        /\ Spawned(s) => s \in DOMAIN results \/ taken[s] = 1 \/ age[s] = "old"
    BY DEF SpawnInv, SpawnAccounted, TypeOK
  <2>2. s \in DOMAIN results' => s \in DOMAIN results /\ results'[s] = results[s]
    OBVIOUS
  <2>3. phase'[s] = phase[s] /\ parent'[s] = parent[s] /\ (Spawned(s)' <=> Spawned(s))
    BY DEF Spawned
  <2> HIDE DEF IInv
  <2>4. CASE taken'[s] = taken[s] /\ (s \in DOMAIN results' <=> s \in DOMAIN results)
    BY <2>1, <2>2, <2>3, <2>4
  <2>5. CASE taken'[s] = taken[s] /\ results[s] = "done" /\ age[s] = "old"
    BY <2>1, <2>2, <2>3, <2>5
  <2>6. CASE /\ taken'[s] = taken[s] + 1 /\ s \in DOMAIN results /\ s \notin DOMAIN results'
             /\ results[s] = "done"
    BY <2>1, <2>2, <2>3, <2>6
  <2>7. \/ taken'[s] = taken[s] /\ (s \in DOMAIN results' <=> s \in DOMAIN results)
        \/ taken'[s] = taken[s] /\ results[s] = "done" /\ age[s] = "old"
        \/ /\ taken'[s] = taken[s] + 1 /\ s \in DOMAIN results /\ s \notin DOMAIN results'
           /\ results[s] = "done"
    OBVIOUS
  <2> QED BY <2>4, <2>5, <2>6, <2>7
<1>4. SpawnInv'
  BY <1>3 DEF SpawnInv, SpawnAccounted
<1> QED BY <1>1, <1>2, <1>4

\* The entries, the parents and the counters of tasks, where the job is no task or
\* not yet one.
LEMMA SpawnKept ==
  ASSUME IInv, NEW j \in Jobs, NEW p \in Phases \ {"none", "working"},
         phase' = [phase EXCEPT ![j] = p],
         j \in Tasks => parent'[j] # None, \A s \in Tasks : s # j => parent'[s] = parent[s],
         UNCHANGED <<results, age, taken>>
  PROVE  SpawnInv'
BY DEF IInv, TypeOK, SpawnInv, SpawnAccounted, Spawned

\* The queue, when no message joins it or leaves it.
LEMMA QueueKept ==
  ASSUME QueueInv, inbound' = inbound, inbound \in Seq([type : {"message", "answer"}, msg : Msgs]),
         \A m \in Msgs : phase[m] = "queued" => phase'[m] = "queued"
  PROVE  QueueInv'
<1>1. \A i \in 1..Len(inbound) : inbound[i].msg \in Msgs
  <2> SUFFICES ASSUME NEW i \in 1..Len(inbound) PROVE inbound[i].msg \in Msgs
    OBVIOUS
  <2>1. inbound[i] \in [type : {"message", "answer"}, msg : Msgs]
    BY ElementOfSeq
  <2> QED BY <2>1
<1> QED BY <1>1 DEF QueueInv

LEMMA QueueGrows ==
  ASSUME IInv, NEW m \in Msgs, NEW type \in {"message", "answer"},
         inbound' = Append(inbound, [type |-> type, msg |-> m]),
         \/ type = "answer" /\ phase' = phase
         \/ type = "message" /\ phase[m] = "none" /\ phase' = [phase EXCEPT ![m] = "queued"]
  PROVE  inbound' \in Seq([type : {"message", "answer"}, msg : Msgs]) /\ QueueInv'
<1> DEFINE Entry == [type : {"message", "answer"}, msg : Msgs]
           e == [type |-> type, msg |-> m]
<1>1. inbound \in Seq(Entry) /\ e \in Entry /\ e.type = type /\ e.msg = m
  BY DEF IInv, TypeOK
<1> HIDE DEF e
<1>2. /\ inbound' \in Seq(Entry) /\ Len(inbound') = Len(inbound) + 1 /\ Len(inbound) \in Nat
      /\ \A i \in 1..Len(inbound) : inbound'[i] = inbound[i] /\ inbound[i] \in Entry
      /\ inbound'[Len(inbound) + 1] = e
  <2> DEFINE f == [type |-> type, msg |-> m]
  <2>1. inbound' = Append(inbound, f) /\ f = e /\ f \in Entry
    BY <1>1 DEF e
  <2> HIDE DEF f
  <2>2. Len(inbound) \in Nat /\ \A i \in 1..Len(inbound) : inbound[i] \in Entry
    BY <1>1, LenProperties, ElementOfSeq
  <2> HIDE DEF Entry
  <2> QED BY <1>1, <2>1, <2>2, AppendProperties
<1>3. \A n \in Msgs : phase[n] = "queued" => phase'[n] = "queued" /\ (type = "message" => n # m)
  BY JobSets DEF IInv, TypeOK
<1>4. \A i \in 1..Len(inbound) : inbound[i].type = "message" =>
        inbound[i].msg \in Msgs /\ phase[inbound[i].msg] = "queued"
  BY <1>2 DEF IInv, QueueInv
<1>5. \A i \in 1..Len(inbound') : i \in 1..Len(inbound) \/ i = Len(inbound) + 1
  BY <1>2
<1>6. type = "message" => phase'[m] = "queued"
  BY JobSets DEF IInv, TypeOK
<1>7. \A i \in 1..Len(inbound') : inbound'[i].type = "message" => phase'[inbound'[i].msg] = "queued"
  BY <1>1, <1>2, <1>3, <1>4, <1>5, <1>6
<1>8. ASSUME NEW i \in 1..Len(inbound'), NEW k \in 1..Len(inbound'), inbound'[i].type = "message",
             inbound'[k].type = "message", inbound'[i].msg = inbound'[k].msg
      PROVE  i = k
  <2>1. CASE i \in 1..Len(inbound) /\ k \in 1..Len(inbound)
    BY <1>2, <1>8, <2>1 DEF IInv, QueueInv
  <2>2. CASE i \in 1..Len(inbound) /\ k = Len(inbound) + 1
    BY <1>1, <1>2, <1>3, <1>4, <1>8, <2>2
  <2>3. CASE k \in 1..Len(inbound) /\ i = Len(inbound) + 1
    BY <1>1, <1>2, <1>3, <1>4, <1>8, <2>3
  <2> QED BY <1>5, <2>1, <2>2, <2>3
<1>9. QueueInv'
  BY <1>7, <1>8 DEF QueueInv
<1> QED BY <1>2, <1>9

\* The head of the queue leaves it.
LEMMA QueueShrinks ==
  ASSUME IInv, inbound # <<>>, inbound' = Tail(inbound),
         \/ Head(inbound).type = "answer" /\ phase' = phase
         \/ /\ Head(inbound).type = "message"
            /\ phase' = [phase EXCEPT ![Head(inbound).msg] = "starting"]
  PROVE  /\ inbound' \in Seq([type : {"message", "answer"}, msg : Msgs]) /\ QueueInv'
         /\ Head(inbound).msg \in Msgs
         /\ Head(inbound).type = "message" => phase[Head(inbound).msg] = "queued"
<1> DEFINE Entry == [type : {"message", "answer"}, msg : Msgs]
           e == Head(inbound)
<1>1. inbound \in Seq(Entry)
  BY DEF IInv, TypeOK
<1>2. /\ e = inbound[1] /\ e \in Entry /\ Len(inbound) \in Nat /\ Len(inbound) >= 1
      /\ inbound' \in Seq(Entry) /\ Len(inbound') = Len(inbound) - 1
      /\ \A i \in 1..Len(inbound') : inbound'[i] = inbound[i + 1] /\ i + 1 \in 1..Len(inbound)
  <2> HIDE DEF Entry
  <2>1. Len(inbound) \in Nat /\ Len(inbound) # 0
    BY <1>1, EmptySeq, LenProperties
  <2>2. /\ inbound' \in Seq(Entry) /\ Len(inbound') = Len(inbound) - 1 /\ e \in Entry
        /\ \A i \in 1..Len(inbound') : inbound'[i] = inbound[i + 1]
    BY <1>1, HeadTailProperties
  <2>3. e = inbound[1]
    BY <1>1
  <2> QED BY <2>1, <2>2, <2>3
<1>3. \A i \in 1..Len(inbound) : inbound[i] \in Entry
  BY <1>1, ElementOfSeq
<1> HIDE DEF e
<1>4. 1 \in 1..Len(inbound) /\ \A i \in 1..Len(inbound') : i + 1 # 1
  BY <1>2
<1>5. \A i \in 1..Len(inbound) :
        inbound[i].type = "message" => inbound[i].msg \in Msgs /\ phase[inbound[i].msg] = "queued"
  BY <1>3 DEF IInv, QueueInv
<1>6. \A i \in 1..Len(inbound') : inbound'[i].type = "message" => phase'[inbound'[i].msg] = "queued"
  <2> SUFFICES ASSUME NEW i \in 1..Len(inbound'), inbound'[i].type = "message"
               PROVE  phase'[inbound'[i].msg] = "queued"
    OBVIOUS
  <2>1. /\ inbound'[i] = inbound[i + 1] /\ i + 1 \in 1..Len(inbound) /\ i + 1 # 1
        /\ inbound[i + 1].msg \in Msgs /\ phase[inbound[i + 1].msg] = "queued"
    BY <1>2, <1>4, <1>5
  <2>2. e.type = "message" => inbound[i + 1].msg # e.msg
    BY <1>2, <1>4, <2>1 DEF IInv, QueueInv
  <2> QED BY <1>2, <2>1, <2>2, JobSets DEF IInv, TypeOK, e
<1>7. ASSUME NEW i \in 1..Len(inbound'), NEW k \in 1..Len(inbound'), inbound'[i].type = "message",
             inbound'[k].type = "message", inbound'[i].msg = inbound'[k].msg
      PROVE  i = k
  <2>1. i + 1 = k + 1
    BY <1>2, <1>7 DEF IInv, QueueInv
  <2> QED BY <1>2, <2>1
<1>8. QueueInv'
  BY <1>6, <1>7 DEF QueueInv
<1> QED BY <1>2, <1>4, <1>5, <1>8 DEF e

\* Every step keeps the invariant.
LEMMA StepInv == IInv /\ [Next]_vars => IInv'
<1> SUFFICES ASSUME IInv, [Next]_vars PROVE IInv'
  OBVIOUS
<1> USE DEF process, incoming, approvals, answers, spawns
<1>a. TypeOK /\ QueueInv /\ KindInv /\ ChatInv /\ SpawnInv
  BY DEF IInv
<1>b. /\ row \in [Sessions -> {None, "channel", "webchat"}] /\ \A w \in Web : row[w] # "channel"
      /\ results = [s \in DOMAIN results |-> results[s]]
  BY <1>a DEF TypeOK, ChatInv
<1>c. None \notin Jobs /\ Chats \intersect Web = {} /\ Sessions = Chats \union Web
  BY ChannelsAssumption DEF Sessions
<1>1. ASSUME NEW m \in Msgs, NEW c \in Chats, HandleMessage(m, c) PROVE IInv'
  <2>1. /\ phase[m] = "none" /\ sessions' = sessions \union {c} /\ phase' = [phase EXCEPT ![m] = "queued"]
        /\ chat' = [chat EXCEPT ![m] = c] /\ inbound' = Append(inbound, [type |-> "message", msg |-> m])
        /\ UNCHANGED <<row, parent, cards, results, age, taken>>
    BY <1>1 DEF HandleMessage, Fresh, GetOrCreate, Goto
  <2>2. inbound' \in Seq([type : {"message", "answer"}, msg : Msgs]) /\ QueueInv'
    BY <2>1, QueueGrows
  <2>3. /\ phase' \in [Jobs -> Phases] /\ chat' \in [Jobs -> Sessions \union {None}]
        /\ KindInv' /\ ChatInv'
    BY <1>a, <1>b, <1>c, <2>1, JobSets, JobStarts DEF TypeOK
  <2>4. SpawnInv'
    BY <1>c, <2>1, JobSets, ChannelsAssumption, SpawnKept DEF Phases
  <2>5. TypeOK'
    BY <1>a, <2>1, <2>2, <2>3 DEF TypeOK
  <2> QED BY <2>2, <2>3, <2>4, <2>5 DEF IInv
<1>2. ASSUME NEW m \in Msgs, IgnoreMessage(m) PROVE IInv'
  <2>1. /\ phase[m] = "none" /\ phase' = [phase EXCEPT ![m] = "ended"] /\ m \in Jobs
        /\ UNCHANGED <<sessions, inbound, row, chat, parent, cards, results, age, taken>>
    BY <1>2, JobSets DEF IgnoreMessage, Fresh, Goto
  <2>2. QueueInv'
    BY <1>a, <2>1, JobSets, QueueKept DEF TypeOK
  <2>3. SpawnInv'
    BY <2>1, ChannelsAssumption, SpawnKept DEF Phases
  <2>4. TypeOK' /\ KindInv'
    BY <1>a, <2>1 DEF TypeOK, KindInv, Phases
  <2>5. ChatInv'
    BY <1>a, <2>1, JobSets DEF TypeOK, ChatInv, Live
  <2> QED BY <2>2, <2>3, <2>4, <2>5 DEF IInv
<1>3. ASSUME NEW m \in Msgs, Answer(m), cards' \subseteq cards PROVE IInv'
  <2>1. /\ m \in cards /\ sessions \subseteq sessions' /\ sessions' \subseteq sessions \union {chat[m]}
        /\ inbound' = Append(inbound, [type |-> "answer", msg |-> m])
        /\ UNCHANGED <<row, phase, chat, parent, results, age, taken>>
    BY <1>3 DEF Answer, GetOrCreate
  <2>2. sessions' \subseteq Chats /\ \A n \in cards' : chat[n] \in Chats /\ phase[n] # "none"
    BY <1>3, <1>a, <2>1 DEF TypeOK, ChatInv
  <2>3. inbound' \in Seq([type : {"message", "answer"}, msg : Msgs]) /\ QueueInv'
    BY <2>1, QueueGrows
  <2>4. cards' \subseteq Msgs /\ age' \in [Tasks -> {"new", "old"}] /\ taken' \in [Tasks -> Nat]
    BY <1>3, <1>a, <2>1 DEF TypeOK
  <2> QED BY <1>b, <2>1, <2>2, <2>3, <2>4, NobodyMoves
<1>4. CASE Listen
  <2> DEFINE e == Head(inbound)
  <2>1. inbound # <<>> /\ inbound' = Tail(inbound)
    BY <1>4 DEF Listen
  <2>2. CASE e.type = "answer" /\ Respond(e.msg) /\ UNCHANGED <<phase, row, typing>>
    <3>1. inbound' \in Seq([type : {"message", "answer"}, msg : Msgs]) /\ QueueInv'
      BY <2>1, <2>2, QueueShrinks
    <3>2. UNCHANGED <<sessions, row, phase, chat, parent, cards, results, age, taken>>
      BY <1>4, <2>2 DEF Listen
    <3>3. sessions' \subseteq Chats /\ cards' \subseteq Msgs /\ age' \in [Tasks -> {"new", "old"}]
          /\ taken' \in [Tasks -> Nat] /\ \A n \in cards' : chat[n] \in Chats /\ phase[n] # "none"
      BY <1>a, <3>2 DEF TypeOK, ChatInv
    <3> HIDE DEF e
    <3> QED BY <1>b, <3>1, <3>2, <3>3, NobodyMoves
  <2>3. CASE /\ e.type = "message" /\ EnsureSession(chat[e.msg]) /\ startTypingLoop(e.msg)
             /\ Goto(e.msg, "starting") /\ UNCHANGED approval
    <3>1. /\ phase' = [phase EXCEPT ![e.msg] = "starting"]
          /\ UNCHANGED <<sessions, chat, parent, cards, results, age, taken>>
      BY <1>4, <2>3 DEF Listen, Goto
    <3>2. /\ inbound' \in Seq([type : {"message", "answer"}, msg : Msgs]) /\ QueueInv'
          /\ e.msg \in Msgs /\ phase[e.msg] = "queued"
      BY <2>1, <2>3, <3>1, QueueShrinks
    <3>3. row' = [row EXCEPT ![chat[e.msg]] = "channel"] \/ row' = row
      BY <2>3 DEF EnsureSession
    <3> HIDE DEF e
    <3>4. chat[e.msg] \in Chats /\ e.msg \in Jobs
      BY <1>a, <3>2, JobSets DEF ChatInv
    <3>5. row' \in [Sessions -> {None, "channel", "webchat"}] /\ \A w \in Web : row'[w] # "channel"
      BY <1>b, <1>c, <3>3, <3>4
    <3>6. TypeOK'
      <4>1. phase' \in [Jobs -> Phases]
        BY <1>a, <3>1 DEF TypeOK, Phases
      <4> QED BY <1>a, <3>1, <3>2, <3>5, <4>1, SMTT(30) DEF TypeOK
    <3>7. KindInv'
      BY <1>a, <3>1, <3>2 DEF TypeOK, KindInv
    <3>8. ChatInv'
      BY <1>a, <3>1, <3>2, <3>4, <3>5, JobSets DEF TypeOK, ChatInv, Live
    <3>9. SpawnInv'
      BY <3>1, <3>2, <3>4, ChannelsAssumption, SpawnKept DEF Phases
    <3> QED BY <3>2, <3>6, <3>7, <3>8, <3>9 DEF IInv
  <2> QED BY <1>4, <2>2, <2>3 DEF Listen
<1>5. ASSUME NEW j \in Jobs, ResolveSession(j) \/ RunTurn(j) \/ RunTurnFails(j) \/ TurnEnds(j)
                             \/ SendChunk(j) \/ SendReturns(j)
      PROVE  IInv'
  <2>0. /\ UNCHANGED <<sessions, inbound, chat, parent, cards, results, age, taken>>
        /\ phase[j] \in {"starting", "locking", "turn", "send", "sent"}
    BY <1>5 DEF ResolveSession, RunTurn, RunTurnFails, TurnEnds, SendChunk, SendReturns, InTurn
  <2>1. phase[j] \in {"starting", "locking", "turn"} => j \in Msgs \union Timers
    BY <1>a DEF KindInv
  <2>2. Live(j) /\ phase[j] \notin {"queued", "working"} /\ chat[j] \in Sessions
    BY <1>a, <2>0, <1>c DEF Live, ChatInv, TypeOK
  <2>3. row' \in [Sessions -> {None, "channel", "webchat"}] /\ \A w \in Web : row'[w] # "channel"
    <3>1. row' = row \/ row' = [row EXCEPT ![chat[j]] = "webchat"]
      BY <1>5 DEF ResolveSession, RunTurn, RunTurnFails, TurnEnds, SendChunk, SendReturns
    <3> QED BY <1>b, <1>c, <2>2, <3>1
  <2>4. PICK p \in {"starting", "locking", "turn", "send", "sent", "ended"} :
          /\ phase' = [phase EXCEPT ![j] = p]
          /\ p \in {"starting", "locking", "turn"} => phase[j] \in {"starting", "locking", "turn"}
          /\ p \in {"send", "sent"} => phase[j] = "send" \/ chat[j] \in Chats
    BY <1>5 DEF ResolveSession, RunTurn, RunTurnFails, TurnEnds, SendChunk, SendReturns, Goto
  <2>5. phase[j] = "send" => chat[j] \in Chats
    BY <1>a DEF ChatInv
  <2> QED BY <2>0, <2>1, <2>2, <2>3, <2>4, <2>5, JobMoves
<1>6. ASSUME NEW n \in Tasks, SendToSession(n) PROVE IInv'
  <2>1. /\ UNCHANGED <<sessions, inbound, row, chat, parent, cards, results, age, taken>>
        /\ phase[n] = "deliver" /\ n \in Jobs
    BY <1>6, JobSets DEF SendToSession
  <2>2. PICK p \in {"send", "ended"} :
          phase' = [phase EXCEPT ![n] = p] /\ (p = "send" => row[chat[n]] = "channel")
    BY <1>6 DEF SendToSession, AdapterForSession, Goto
  <2>3. Live(n) /\ chat[n] \in Web \union sessions /\ sessions \subseteq Chats
    BY <1>a, <2>1 DEF Live, ChatInv, TypeOK
  <2>4. p = "send" => chat[n] \in Chats
    BY <1>b, <2>2, <2>3
  <2> QED BY <1>b, <2>1, <2>2, <2>3, <2>4, JobMoves
<1>7. ASSUME NEW t \in Timers, RunAndDeliver(t) PROVE IInv'
  <2>1. /\ UNCHANGED <<sessions, inbound, row, chat, parent, cards, results, age, taken>>
        /\ phase[t] = "armed" /\ t \in Jobs /\ Live(t)
    BY <1>7, JobSets DEF RunAndDeliver, Live
  <2>2. PICK p \in {"starting", "ended"} : phase' = [phase EXCEPT ![t] = p]
    BY <1>7 DEF RunAndDeliver, Goto
  <2> QED BY <1>b, <2>1, <2>2, JobMoves
<1>8. ASSUME NEW m \in Msgs, NEW w \in Web, WebTurn(m, w) PROVE IInv'
  <2>1. /\ phase[m] = "none" /\ phase' = [phase EXCEPT ![m] = "turn"] /\ m \in Jobs
        /\ chat' = [chat EXCEPT ![m] = w] /\ row' = [row EXCEPT ![w] = "webchat"]
        /\ UNCHANGED <<sessions, inbound, parent, cards, results, age, taken>>
    BY <1>8, JobSets DEF WebTurn, Fresh, Goto
  <2>2. row' \in [Sessions -> {None, "channel", "webchat"}] /\ \A x \in Web : row'[x] # "channel"
    BY <1>b, <1>c, <2>1
  <2>3. w \in Sessions /\ sessions \subseteq Chats
    BY <1>a, <1>c DEF TypeOK
  <2>4. /\ phase' \in [Jobs -> Phases] /\ chat' \in [Jobs -> Sessions \union {None}]
        /\ KindInv' /\ ChatInv'
    BY <2>1, <2>2, <2>3, JobStarts
  <2>5. SpawnInv'
    BY <2>1, ChannelsAssumption, SpawnKept DEF Phases
  <2>6. QueueInv'
    BY <1>a, <2>1, JobSets, QueueKept DEF TypeOK
  <2>7. TypeOK'
    BY <1>a, <2>1, <2>2, <2>4 DEF TypeOK
  <2> QED BY <2>4, <2>5, <2>6, <2>7 DEF IInv
\* The tools of a turn or of a spawned agent start work for its session.
<1>9. ASSUME NEW j \in Jobs, NEW k \in Jobs, phase[k] = "none",
             InTurn(j) \/ phase[j] = "working",
             NEW p \in {"working", "deliver", "armed"}, phase' = [phase EXCEPT ![k] = p],
             p = "armed" => k \in Timers, p \in {"working", "deliver"} => k \in Tasks,
             chat' = [chat EXCEPT ![k] = chat[j]], UNCHANGED <<sessions, inbound, row, cards>>
      PROVE  /\ phase' \in [Jobs -> Phases] /\ chat' \in [Jobs -> Sessions \union {None}]
             /\ KindInv' /\ ChatInv' /\ QueueInv'
  <2>1. chat[j] \in Web \union sessions /\ sessions \subseteq Chats
    BY <1>9, <1>a DEF InTurn, Live, ChatInv, TypeOK
  <2>2. chat[j] \in Sessions
    BY <1>c, <2>1
  <2>3. /\ phase' \in [Jobs -> Phases] /\ chat' \in [Jobs -> Sessions \union {None}]
        /\ KindInv' /\ ChatInv'
    BY <1>9, <1>b, <2>1, <2>2, JobStarts
  <2>4. QueueInv'
    BY <1>9, <1>a, JobSets, QueueKept DEF TypeOK
  <2> QED BY <2>3, <2>4
<1>10. ASSUME NEW j \in Jobs, NEW s \in Tasks, RunSpawnAgent(j, s) PROVE IInv'
  <2>1. /\ InTurn(j) /\ phase[s] = "none" /\ phase' = [phase EXCEPT ![s] = "working"] /\ s \in Jobs
        /\ chat' = [chat EXCEPT ![s] = chat[j]]
        /\ results' = [t \in DOMAIN results \union {s} |-> IF t = s THEN "running" ELSE results[t]]
        /\ UNCHANGED <<sessions, inbound, row, parent, cards, age, taken>>
    BY <1>10, JobSets DEF RunSpawnAgent, Goto
  <2>2. /\ phase' \in [Jobs -> Phases] /\ chat' \in [Jobs -> Sessions \union {None}]
        /\ KindInv' /\ ChatInv' /\ QueueInv'
    BY <1>9, <2>1
  <2>3. SpawnInv'
    BY <1>a, <2>1, JobSets DEF TypeOK, SpawnInv, SpawnAccounted, Spawned
  <2>4. TypeOK'
    BY <1>a, <2>1, <2>2 DEF TypeOK
  <2> QED BY <2>2, <2>3, <2>4 DEF IInv
<1>11. ASSUME NEW j \in Jobs, NEW n \in Tasks, NotifySend(j, n) PROVE IInv'
  <2>1. /\ InTurn(j) \/ phase[j] = "working"
        /\ phase[n] = "none" /\ phase' = [phase EXCEPT ![n] = "deliver"] /\ n \in Jobs
        /\ chat' = [chat EXCEPT ![n] = chat[j]] /\ parent' = [parent EXCEPT ![n] = j]
        /\ UNCHANGED <<sessions, inbound, row, cards, results, age, taken>>
    BY <1>11, JobSets DEF NotifySend, Goto
  <2>2. /\ phase' \in [Jobs -> Phases] /\ chat' \in [Jobs -> Sessions \union {None}]
        /\ KindInv' /\ ChatInv' /\ QueueInv'
    BY <1>9, <2>1
  <2>3. parent'[n] # None /\ \A s \in Tasks : s # n => parent'[s] = parent[s]
    BY <1>a, <1>c, <2>1 DEF TypeOK
  <2>4. SpawnInv'
    BY <2>1, <2>3, SpawnKept DEF Phases
  <2>5. TypeOK'
    BY <1>a, <2>1, <2>2 DEF TypeOK
  <2> QED BY <2>2, <2>4, <2>5 DEF IInv
<1>12. ASSUME NEW j \in Jobs, NEW t \in Timers, NotifySchedule(j, t) PROVE IInv'
  <2>1. /\ InTurn(j) \/ phase[j] = "working"
        /\ phase[t] = "none" /\ phase' = [phase EXCEPT ![t] = "armed"] /\ t \in Jobs
        /\ chat' = [chat EXCEPT ![t] = chat[j]]
        /\ UNCHANGED <<sessions, inbound, row, parent, cards, results, age, taken>>
    BY <1>12, JobSets DEF NotifySchedule, Goto
  <2>2. /\ phase' \in [Jobs -> Phases] /\ chat' \in [Jobs -> Sessions \union {None}]
        /\ KindInv' /\ ChatInv' /\ QueueInv'
    BY <1>9, <2>1
  <2>3. SpawnInv'
    BY <2>1, ChannelsAssumption, SpawnKept DEF Phases
  <2>4. TypeOK'
    BY <1>a, <2>1, <2>2 DEF TypeOK
  <2> QED BY <2>2, <2>3, <2>4 DEF IInv
<1>13. ASSUME NEW s \in Tasks, SpawnDone(s) PROVE IInv'
  <2>1. PICK p \in {"deliver", "ended"} :
          /\ phase[s] = "working" /\ phase' = [phase EXCEPT ![s] = p] /\ s \in Jobs
          /\ results' = [t \in DOMAIN results \union {s} |-> IF t = s THEN "done" ELSE results[t]]
          /\ UNCHANGED <<sessions, inbound, row, chat, parent, cards, age, taken>>
    BY <1>13, JobSets DEF SpawnDone, Goto
  <2>2. QueueInv'
    BY <1>a, <2>1, JobSets, QueueKept DEF TypeOK
  <2>3. TypeOK' /\ KindInv'
    BY <1>a, <2>1 DEF TypeOK, KindInv, Phases
  <2>4. ChatInv'
    BY <1>a, <2>1, JobSets DEF TypeOK, ChatInv, Live
  <2>5. SpawnInv'
    BY <1>a, <2>1, JobSets DEF TypeOK, SpawnInv, SpawnAccounted, Spawned
  <2> QED BY <2>2, <2>3, <2>4, <2>5 DEF IInv
\* The phases stay, and so does what the users see but for a new request.
<1>14. ASSUME UNCHANGED <<sessions, inbound, row, phase, chat, parent, results, age, taken>>,
              cards' \subseteq Msgs, \A m \in cards' : chat[m] \in Chats /\ phase[m] # "none"
       PROVE  IInv'
  <2>1. QueueInv' /\ inbound' \in Seq([type : {"message", "answer"}, msg : Msgs])
    BY <1>14, <1>a DEF QueueInv, TypeOK
  <2>2. sessions' \subseteq Chats /\ age' \in [Tasks -> {"new", "old"}] /\ taken' \in [Tasks -> Nat]
    BY <1>14, <1>a DEF TypeOK
  <2> QED BY <1>14, <1>b, <2>1, <2>2, NobodyMoves
<1>15. ASSUME NEW m \in Msgs, AskApproval(m) \/ RequestApproval(m) \/ ApprovalEnds(m) PROVE IInv'
  <2>1. /\ UNCHANGED <<sessions, inbound, row, phase, chat, parent, results, age, taken>>
        /\ \/ cards' = cards
           \/ cards' = cards \union {m} /\ chat[m] \in Chats /\ phase[m] = "turn"
    BY <1>15 DEF AskApproval, RequestApproval, ApprovalEnds, InTurn
  <2>2. cards' \subseteq Msgs /\ \A n \in cards' : chat[n] \in Chats /\ phase[n] # "none"
    BY <1>a, <2>1 DEF TypeOK, ChatInv
  <2> QED BY <1>14, <2>1, <2>2
\* Results are taken or expire.
<1>16. ASSUME UNCHANGED <<sessions, inbound, row, phase, chat, parent, cards>>,
              results' = [s \in DOMAIN results' |-> results[s]], DOMAIN results' \subseteq DOMAIN results,
              age' \in [Tasks -> {"new", "old"}], taken' \in [Tasks -> Nat],
              \A s \in Tasks :
                /\ age[s] = "old" => age'[s] = "old"
                /\ \/ taken'[s] = taken[s] /\ (s \in DOMAIN results' <=> s \in DOMAIN results)
                   \/ taken'[s] = taken[s] /\ results[s] = "done" /\ age[s] = "old"
                   \/ /\ taken'[s] = taken[s] + 1 /\ s \in DOMAIN results /\ s \notin DOMAIN results'
                      /\ results[s] = "done"
       PROVE  IInv'
  <2>1. QueueInv' /\ inbound' \in Seq([type : {"message", "answer"}, msg : Msgs])
    BY <1>16, <1>a DEF QueueInv, TypeOK
  <2>2. sessions' \subseteq Chats /\ cards' \subseteq Msgs
        /\ \A m \in cards' : chat[m] \in Chats /\ phase[m] # "none"
    BY <1>16, <1>a DEF TypeOK, ChatInv
  <2> QED BY <1>16, <2>1, <2>2, NobodyMoves
<1>17. ASSUME NEW j \in Jobs, NEW s \in Tasks, CheckSpawn(j, s) PROVE IInv'
  <2>1. /\ s \in DOMAIN results /\ results[s] = "done" /\ age' = age
        /\ results' = [t \in DOMAIN results \ {s} |-> results[t]] /\ taken' = [taken EXCEPT ![s] = @ + 1]
        /\ UNCHANGED <<sessions, inbound, row, phase, chat, parent, cards>>
    BY <1>17 DEF CheckSpawn
  <2>2. /\ DOMAIN results' = DOMAIN results \ {s} /\ results' = [t \in DOMAIN results' |-> results[t]]
        /\ age' \in [Tasks -> {"new", "old"}] /\ taken' \in [Tasks -> Nat]
        /\ taken'[s] = taken[s] + 1 /\ \A t \in Tasks : t # s => taken'[t] = taken[t]
    BY <1>a, <2>1 DEF TypeOK
  <2> QED BY <1>16, <2>1, <2>2
<1>18. CASE cleanupSpawnResults
  <2> DEFINE old == {s \in DOMAIN results : results[s] = "done" /\ age[s] = "old"}
  <2>1. /\ results' = [s \in DOMAIN results \ old |-> results[s]] /\ age' = age /\ taken' = taken
        /\ UNCHANGED <<sessions, inbound, row, phase, chat, parent, cards>>
    BY <1>18 DEF cleanupSpawnResults
  <2>2. /\ DOMAIN results' = DOMAIN results \ old /\ results' = [t \in DOMAIN results' |-> results[t]]
        /\ age' \in [Tasks -> {"new", "old"}] /\ taken' \in [Tasks -> Nat]
    BY <1>a, <2>1 DEF TypeOK
  <2> QED BY <1>16, <2>1, <2>2
<1>19. ASSUME NEW s \in Tasks, Expire(s) PROVE IInv'
  <2>1. /\ age' = [age EXCEPT ![s] = "old"]
        /\ UNCHANGED <<sessions, inbound, row, phase, chat, parent, cards, results, taken>>
    BY <1>19 DEF Expire
  <2>2. /\ age' \in [Tasks -> {"new", "old"}] /\ taken' \in [Tasks -> Nat]
        /\ \A t \in Tasks : age[t] = "old" => age'[t] = "old"
    BY <1>a, <2>1 DEF TypeOK
  <2> QED BY <1>16, <1>b, <2>1, <2>2
<1>20. CASE Restart
  <2>1. /\ sessions' = {} /\ inbound' = <<>> /\ results' = << >> /\ row' = row /\ cards' = cards
        /\ age' = [s \in Tasks |-> "new"] /\ taken' = [s \in Tasks |-> 0]
        /\ phase' = [j \in Jobs |-> IF phase[j] = "none" THEN "none" ELSE "lost"]
        /\ parent' = [n \in Tasks |-> None]
        /\ chat' = [j \in Jobs |-> IF j \in cards THEN chat[j] ELSE None]
    BY <1>20 DEF Restart
  <2>2. Len(inbound') = 0 /\ inbound' \in Seq([type : {"message", "answer"}, msg : Msgs])
    BY <2>1
  <2>3. DOMAIN results' = {}
    BY <2>1
  <2>4. TypeOK'
    BY <1>a, <2>1, <2>2, <2>3 DEF TypeOK, Phases
  <2>5. QueueInv' /\ KindInv'
    BY <1>a, <2>1, <2>2 DEF QueueInv, KindInv
  <2>6. ChatInv'
    BY <1>a, <2>1, JobSets DEF ChatInv, Live, TypeOK
  <2>7. SpawnInv'
    BY <2>1, <2>3, JobSets DEF SpawnInv, SpawnAccounted, Spawned
  <2> QED BY <2>4, <2>5, <2>6, <2>7 DEF IInv
<1>21. CASE UNCHANGED vars
  <2>1. UNCHANGED <<sessions, inbound, row, phase, chat, parent, cards, results, age, taken>>
    BY <1>21 DEF vars
  <2> QED BY <1>14, <1>a, <2>1 DEF TypeOK, ChatInv
<1>22. CASE User
  BY <1>1, <1>2, <1>3, <1>8, <1>22 DEF User, handleCallbackQuery, handleInteraction, AnswerAgain
<1>23. ASSUME NEW j \in Jobs, Goroutine(j) \/ Tools(j) PROVE IInv'
  BY <1>5, <1>6, <1>10, <1>11, <1>12, <1>13, <1>15, <1>17, <1>23 DEF Goroutine, Tools
<1> QED
  BY <1>4, <1>7, <1>15, <1>18, <1>19, <1>20, <1>21, <1>22, <1>23 DEF Next

LEMMA Invariance == Spec => []IInv
<1>1. Init => IInv
  BY InitInv
<1>2. IInv /\ [Next]_vars => IInv'
  BY StepInv
<1> QED BY <1>1, <1>2, PTL DEF Spec

\* Whoever sends to a chat was started from it by this process, so that the
\* adapter knows the chat: no answer and no notification fails for that.
THEOREM SendersFindChats == Spec => []SendFindsChat
<1>1. IInv => SendFindsChat
  BY ChannelsAssumption DEF IInv, TypeOK, ChatInv, Live, SendFindsChat
<1> QED BY <1>1, Invariance, PTL

\* The result of a spawned agent is handed out at most once, and is there until it
\* was handed out or has expired.
THEOREM SpawnsAreAccounted == Spec => []SpawnAccounted
<1>1. IInv => SpawnAccounted
  BY DEF IInv, SpawnInv
<1> QED BY <1>1, Invariance, PTL

-----------------------------------------------------------------------------
(* The answers.                                                            *)

LEMMA AnswerInit == Init => AnswerInv
<1> SUFFICES ASSUME Init PROVE AnswerInv
  OBVIOUS
<1>1. << >> \in Text /\ << >> \in Seq(Text)
  BY EmptySeq DEF Text
<1> QED BY <1>1 DEF Init, NoText, AnswerInv, Sending

\* The chunks of a text an answer may have.
LEMMA ReplyChunks ==
  ASSUME NEW r \in Replies
  PROVE  /\ r.text \in Text /\ r.chunks \in Seq(Text) /\ r.chunks # <<>>
         /\ FlattenSeq(<<>> \o r.chunks) = r.text
<1>1. ValidText(r.text) /\ r.text # <<>> /\ r.chunks = SplitMessage(r.text, MaxLen)
      /\ MaxLen \in Nat \ {0}
  BY ChannelsAssumption
<1>2. Cuts(SplitMessage(r.text, MaxLen), r.text, MaxLen)
  BY <1>1, SplitCuts
<1>3. Cuts(r.chunks, r.text, MaxLen)
  BY <1>1, <1>2
<1>4. r.chunks \in Seq(Text) /\ FlattenSeq(r.chunks) = r.text
  BY <1>3 DEF Cuts
<1>5. r.chunks # <<>>
  BY <1>1, <1>4, FlattenEmpty
<1>6. <<>> \o r.chunks = r.chunks
  BY <1>4, ConcatEmptySeq
<1> QED BY <1>1, <1>4, <1>5, <1>6 DEF ValidText

\* Steps that neither begin nor end an answer nor send of one.
LEMMA AnswerKept ==
  ASSUME AnswerInv, UNCHANGED <<text, chunks, shown>>,
         \A j \in Jobs : \/ phase'[j] = phase[j] /\ chat'[j] = chat[j]
                         \/ phase[j] \notin {"send", "sent"} /\ phase'[j] \notin {"send", "sent"}
  PROVE  AnswerInv'
<1>1. ASSUME NEW j \in Jobs PROVE Sending(j)' => Sending(j) /\ phase'[j] = phase[j] /\ chat'[j] = chat[j]
  BY DEF Sending
<1>2. ASSUME NEW j \in Jobs PROVE Sending(j) => Sending(j)' /\ chat'[j] = chat[j]
  BY DEF Sending
<1> QED BY <1>1, <1>2 DEF AnswerInv

\* The answer is there, and nothing of it is sent.
LEMMA AnswerBegins ==
  ASSUME TypeOK, AnswerInv, NEW j \in Jobs, ~Sending(j), NEW r \in Replies, StartSend(j, r),
         Goto(j, "send"), chat' = chat, chat[j] \in Chats
  PROVE  AnswerInv'
<1>1. /\ text' = [text EXCEPT ![j] = r.text] /\ chunks' = [chunks EXCEPT ![j] = r.chunks]
      /\ shown' = shown /\ phase' = [phase EXCEPT ![j] = "send"]
  BY DEF StartSend, Goto
<1>2. /\ r.text \in Text /\ r.chunks \in Seq(Text) /\ r.chunks # <<>>
      /\ FlattenSeq(<<>> \o r.chunks) = r.text
  BY ReplyChunks
<1>3. \A c \in Chats : shown[c][j] = <<>>
  BY DEF AnswerInv
<1>4. text' \in [Jobs -> Text] /\ chunks' \in [Jobs -> Seq(Text)]
  BY <1>1, <1>2 DEF AnswerInv
<1>5. Sending(j)' /\ \A k \in Jobs : k # j => (Sending(k)' <=> Sending(k)) /\ phase'[k] = phase[k]
  BY <1>1 DEF Sending, TypeOK
<1>6. ASSUME NEW k \in Jobs, Sending(k)'
      PROVE  /\ FlattenSeq(shown'[chat'[k]][k] \o chunks'[k]) = text'[k]
             /\ phase'[k] = "sent" <=> chunks'[k] = <<>>
  <2>1. CASE k = j
    <3>1. text'[j] = r.text /\ chunks'[j] = r.chunks /\ shown'[chat'[j]][j] = <<>>
          /\ phase'[j] = "send"
      BY <1>1, <1>3 DEF AnswerInv, TypeOK
    <3> QED BY <1>2, <2>1, <3>1
  <2>2. CASE k # j
    BY <1>1, <1>5, <1>6, <2>2 DEF AnswerInv
  <2> QED BY <2>1, <2>2
<1>7. \A k \in Jobs, c \in Chats : shown'[c][k] # <<>> => Sending(k)' /\ chat'[k] = c
  BY <1>1, <1>3, <1>5 DEF AnswerInv
<1> QED BY <1>1, <1>4, <1>6, <1>7 DEF AnswerInv

\* A chunk moves from what is not sent to what is shown.
LEMMA ChunkMoves ==
  ASSUME NEW s \in Seq(Text), NEW t \in Seq(Text), t # <<>>
  PROVE  /\ Append(s, Head(t)) \in Seq(Text) /\ Tail(t) \in Seq(Text)
         /\ Append(s, Head(t)) # <<>> /\ (Len(t) = 1 <=> Tail(t) = <<>>)
         /\ Append(s, Head(t)) \o Tail(t) = s \o t
<1>1. Head(t) \in Text /\ Tail(t) \in Seq(Text) /\ Len(t) \in Nat \ {0} /\ Len(Tail(t)) = Len(t) - 1
  BY HeadTailProperties, EmptySeq, LenProperties
<1>2. Append(s, Head(t)) \in Seq(Text) /\ Append(s, Head(t)) # <<>>
  BY <1>1, AppendProperties
<1>3. Len(t) = 1 <=> Tail(t) = <<>>
  <2>1. Len(Tail(t)) = 0 <=> Tail(t) = <<>>
    BY ONLY <1>1, EmptySeq
  <2> QED BY ONLY <1>1, <2>1
<1>4. Append(s, Head(t)) \o Tail(t) = s \o t
  BY <1>1
<1> QED BY <1>1, <1>2, <1>3, <1>4

LEMMA AnswerGoesOn ==
  ASSUME TypeOK, ChatInv, AnswerInv, NEW j \in Jobs, SendChunk(j)
  PROVE  AnswerInv'
<1> DEFINE c == chat[j]
           old == shown[c][j]
           new == Append(old, Head(chunks[j]))
           p == IF Len(chunks[j]) = 1 THEN "sent" ELSE "send"
<1>1. /\ phase[j] = "send" /\ phase' = [phase EXCEPT ![j] = p] /\ chat' = chat /\ text' = text
      /\ shown' = [shown EXCEPT ![c][j] = new] /\ chunks' = [chunks EXCEPT ![j] = Tail(chunks[j])]
  BY DEF SendChunk, Goto, AnswerInv
<1>2. Sending(j) /\ c \in Chats
  BY <1>1 DEF Sending, ChatInv
<1>3. old \in Seq(Text) /\ chunks[j] \in Seq(Text) /\ chunks[j] # <<>>
      /\ FlattenSeq(old \o chunks[j]) = text[j]
  BY <1>1, <1>2 DEF AnswerInv
<1>4. /\ new \in Seq(Text) /\ new # <<>> /\ Tail(chunks[j]) \in Seq(Text)
      /\ Len(chunks[j]) = 1 <=> Tail(chunks[j]) = <<>>
      /\ new \o Tail(chunks[j]) = old \o chunks[j]
  <2> HIDE DEF old
  <2> QED BY <1>3, ChunkMoves
<1>5. phase'[j] = p /\ p \in {"sent", "send"} /\ \A k \in Jobs : k # j => phase'[k] = phase[k]
  BY <1>1 DEF TypeOK
<1>6. p = "sent" <=> Tail(chunks[j]) = <<>>
  BY <1>4
<1> HIDE DEF new, p
<1>7. /\ shown' \in [Chats -> [Jobs -> Seq(Text)]] /\ shown'[c][j] = new
      /\ \A d \in Chats, k \in Jobs : d # c \/ k # j => shown'[d][k] = shown[d][k]
  BY <1>1, <1>2, <1>4 DEF AnswerInv
<1>8. /\ chunks' \in [Jobs -> Seq(Text)] /\ chunks'[j] = Tail(chunks[j])
      /\ \A k \in Jobs : k # j => chunks'[k] = chunks[k]
  BY <1>1, <1>4 DEF AnswerInv
<1>9. \A k \in Jobs : Sending(k)' <=> Sending(k)
  BY <1>2, <1>5 DEF Sending
<1>10. ASSUME NEW k \in Jobs, Sending(k)'
       PROVE  /\ FlattenSeq(shown'[chat'[k]][k] \o chunks'[k]) = text'[k]
              /\ phase'[k] = "sent" <=> chunks'[k] = <<>>
  <2>1. CASE k = j
    <3>1. /\ shown'[chat'[k]][k] = new /\ chunks'[k] = Tail(chunks[j]) /\ text'[k] = text[j]
          /\ phase'[k] = p
      BY <1>1, <1>5, <1>7, <1>8, <2>1
    <3> HIDE DEF old
    <3>2. FlattenSeq(new \o Tail(chunks[j])) = text[j]
      BY <1>3, <1>4
    <3> QED BY <1>6, <3>1, <3>2
  <2>2. CASE k # j
    <3>1. Sending(k) /\ chat[k] \in Chats
      BY <1>9, <1>10 DEF ChatInv, Sending
    <3>2. shown'[chat'[k]][k] = shown[chat[k]][k] /\ chunks'[k] = chunks[k] /\ phase'[k] = phase[k]
      BY <1>1, <1>5, <1>7, <1>8, <2>2, <3>1
    <3> QED BY <1>1, <3>1, <3>2 DEF AnswerInv
  <2> QED BY <2>1, <2>2
<1>11. \A k \in Jobs, d \in Chats : shown'[d][k] # <<>> => Sending(k)' /\ chat'[k] = d
  BY <1>1, <1>2, <1>7, <1>9 DEF AnswerInv
<1> QED BY <1>1, <1>7, <1>8, <1>10, <1>11 DEF AnswerInv

\* Send returns: the answer is not followed any further.
LEMMA AnswerEnds ==
  ASSUME TypeOK, ChatInv, AnswerInv, NEW j \in Jobs, SendReturns(j)
  PROVE  AnswerInv'
<1>1. /\ phase' = [phase EXCEPT ![j] = "ended"] /\ chat' = chat
      /\ text' = [text EXCEPT ![j] = <<>>] /\ chunks' = [chunks EXCEPT ![j] = <<>>]
      /\ shown' = [c \in Chats |-> [shown[c] EXCEPT ![j] = <<>>]]
  BY DEF SendReturns, Goto
<1>2. << >> \in Text /\ << >> \in Seq(Text)
  BY EmptySeq DEF Text
<1>3. text' \in [Jobs -> Text] /\ chunks' \in [Jobs -> Seq(Text)] /\ shown' \in [Chats -> [Jobs -> Seq(Text)]]
  BY <1>1, <1>2 DEF AnswerInv
<1>4. /\ ~Sending(j)'
      /\ \A k \in Jobs : k # j => (Sending(k)' <=> Sending(k)) /\ phase'[k] = phase[k]
                                /\ chunks'[k] = chunks[k] /\ text'[k] = text[k]
  BY <1>1 DEF Sending, TypeOK, AnswerInv
<1>5. \A c \in Chats : shown'[c][j] = <<>> /\ \A k \in Jobs : k # j => shown'[c][k] = shown[c][k]
  BY <1>1 DEF AnswerInv
<1>6. ASSUME NEW k \in Jobs, Sending(k)'
      PROVE  /\ FlattenSeq(shown'[chat'[k]][k] \o chunks'[k]) = text'[k]
             /\ phase'[k] = "sent" <=> chunks'[k] = <<>>
  <2>1. k # j /\ Sending(k) /\ chat[k] \in Chats
    BY <1>4, <1>6 DEF ChatInv, Sending
  <2>2. shown'[chat'[k]][k] = shown[chat[k]][k] /\ chunks'[k] = chunks[k] /\ phase'[k] = phase[k]
        /\ text'[k] = text[k]
    BY <1>1, <1>4, <1>5, <2>1
  <2> QED BY <2>1, <2>2 DEF AnswerInv
<1>7. \A k \in Jobs, c \in Chats : shown'[c][k] # <<>> => Sending(k)' /\ chat'[k] = c
  BY <1>1, <1>4, <1>5 DEF AnswerInv
<1> QED BY <1>3, <1>6, <1>7 DEF AnswerInv

LEMMA PrefixOfConcat ==
  ASSUME NEW S, NEW s \in Seq(S), NEW t \in Seq(S)
  PROVE  IsPrefix(s, s \o t)
<1>1. Len(s \o t) = Len(s) + Len(t) /\ Len(s) \in Nat /\ Len(t) \in Nat /\ s \o t \in Seq(S)
  BY ConcatProperties, LenProperties
<1>2. SubSeq(s, 1, Len(s)) = s
  BY SubSeqFull
<1>3. SubSeq(s \o t, 1, Len(s)) = s
  BY SubSeqOfConcat1
<1> QED BY <1>1, <1>2, <1>3 DEF IsPrefix

LEMMA AnswerStep == IInv /\ AnswerInv /\ [Next]_vars => AnswerInv'
<1> SUFFICES ASSUME IInv, AnswerInv, [Next]_vars PROVE AnswerInv'
  OBVIOUS
<1>a. TypeOK /\ ChatInv
  BY DEF IInv
\* Most steps leave the answers, and the phase and the chat of who is sending.
<1>1. CASE UNCHANGED <<phase, chat, answers>>
  BY <1>1, AnswerKept DEF answers
<1>2. ASSUME NEW j \in Jobs, ~Sending(j), UNCHANGED answers,
             NEW p \in Phases \ {"send", "sent"}, phase' = [phase EXCEPT ![j] = p],
             \A k \in Jobs : k # j => chat'[k] = chat[k]
      PROVE  AnswerInv'
  <2>1. \A k \in Jobs : \/ phase'[k] = phase[k] /\ chat'[k] = chat[k]
                        \/ phase[k] \notin {"send", "sent"} /\ phase'[k] \notin {"send", "sent"}
    BY <1>2, <1>a DEF TypeOK, Sending
  <2> QED BY <1>2, <2>1, AnswerKept DEF answers
\* These begin or end an answer, or show some of it.
<1>3. ASSUME NEW j \in Jobs, TurnEnds(j) PROVE AnswerInv'
  <2>1. phase[j] = "turn" /\ ~Sending(j) /\ chat' = chat
    BY <1>3 DEF TurnEnds, InTurn, Sending
  <2>2. CASE \E r \in Replies : chat[j] \in Chats /\ StartSend(j, r) /\ Goto(j, "send")
    BY <1>a, <2>1, <2>2, AnswerBegins
  <2>3. CASE Goto(j, "ended") /\ UNCHANGED answers
    BY <1>2, <2>1, <2>3 DEF Goto, Phases
  <2> QED BY <1>3, <2>2, <2>3 DEF TurnEnds
<1>4. ASSUME NEW n \in Tasks, SendToSession(n) PROVE AnswerInv'
  <2>1. n \in Jobs /\ phase[n] = "deliver" /\ ~Sending(n) /\ chat' = chat
    BY <1>4, JobSets DEF SendToSession, Sending
  <2>2. CASE AdapterForSession(chat[n]) /\ (\E r \in Replies : StartSend(n, r)) /\ Goto(n, "send")
    <3>1. Live(n) /\ chat[n] \in Chats
      BY <1>a, <2>1, <2>2 DEF AdapterForSession, ChatInv, Live, TypeOK
    <3> QED BY <1>a, <2>1, <2>2, <3>1, AnswerBegins
  <2>3. CASE Goto(n, "ended") /\ UNCHANGED answers
    BY <1>2, <2>1, <2>3 DEF Goto, Phases
  <2> QED BY <1>4, <2>2, <2>3 DEF SendToSession
<1>5. ASSUME NEW j \in Jobs, SendChunk(j) \/ SendReturns(j) PROVE AnswerInv'
  BY <1>5, <1>a, AnswerGoesOn, AnswerEnds
<1>6. CASE Restart
  <2>1. /\ text' = NoText /\ chunks' = NoText /\ shown' = [c \in Chats |-> NoText]
        /\ phase' = [j \in Jobs |-> IF phase[j] = "none" THEN "none" ELSE "lost"]
    BY <1>6 DEF Restart
  <2>2. \A j \in Jobs : ~Sending(j)'
    BY <2>1 DEF Sending
  <2>3. << >> \in Text /\ << >> \in Seq(Text)
    BY EmptySeq DEF Text
  <2> QED BY <2>1, <2>2, <2>3 DEF NoText, AnswerInv
<1>7. CASE User
  <2>1. ASSUME NEW m \in Msgs, NEW c \in Chats, HandleMessage(m, c) PROVE AnswerInv'
    BY <1>2, <1>a, <2>1, JobSets DEF HandleMessage, Fresh, Goto, Sending, Phases, TypeOK
  <2>2. ASSUME NEW m \in Msgs, IgnoreMessage(m) PROVE AnswerInv'
    BY <1>2, <2>2, JobSets DEF IgnoreMessage, Fresh, Goto, Sending, Phases
  <2>3. ASSUME NEW m \in Msgs, Answer(m) PROVE AnswerInv'
    BY <1>1, <2>3 DEF Answer
  <2>4. ASSUME NEW m \in Msgs, NEW w \in Web, WebTurn(m, w) PROVE AnswerInv'
    BY <1>2, <1>a, <2>4, JobSets DEF WebTurn, Fresh, Goto, Sending, Phases, TypeOK
  <2> QED BY <1>7, <2>1, <2>2, <2>3, <2>4 DEF User, handleCallbackQuery, handleInteraction, AnswerAgain
<1>8. CASE Listen
  <2> DEFINE e == Head(inbound)
  <2>1. inbound # <<>> /\ inbound' = Tail(inbound) /\ UNCHANGED <<chat, answers>>
    BY <1>8 DEF Listen
  <2>2. CASE e.type = "answer" /\ UNCHANGED phase
    BY <1>1, <2>1, <2>2
  <2>3. CASE e.type = "message" /\ Goto(e.msg, "starting")
    <3>1. e.msg \in Jobs /\ phase[e.msg] = "queued"
      BY <2>1, <2>3, QueueShrinks, JobSets DEF Goto
    <3> HIDE DEF e
    <3> QED BY <1>2, <2>1, <2>3, <3>1 DEF Goto, Sending, Phases
  <2> QED BY <1>8, <2>2, <2>3 DEF Listen
<1>9. ASSUME NEW j \in Jobs, ResolveSession(j) \/ RunTurn(j) \/ RunTurnFails(j) PROVE AnswerInv'
  BY <1>2, <1>9 DEF ResolveSession, RunTurn, RunTurnFails, Goto, Sending, Phases
<1>10. ASSUME NEW s \in Tasks, SpawnDone(s) PROVE AnswerInv'
  BY <1>2, <1>10, JobSets DEF SpawnDone, Goto, Sending, Phases
<1>11. ASSUME NEW m, AskApproval(m) \/ RequestApproval(m) \/ ApprovalEnds(m) PROVE AnswerInv'
  BY <1>1, <1>11 DEF AskApproval, RequestApproval, ApprovalEnds
<1>12. ASSUME NEW j \in Jobs, Tools(j) PROVE AnswerInv'
  <2>1. ASSUME NEW s \in Tasks, RunSpawnAgent(j, s) \/ NotifySend(j, s) PROVE AnswerInv'
    <3>1. s \in Jobs /\ ~Sending(s) /\ UNCHANGED answers /\ chat' = [chat EXCEPT ![s] = chat[j]]
      BY <2>1, JobSets DEF RunSpawnAgent, NotifySend, Sending
    <3>2. \A k \in Jobs : k # s => chat'[k] = chat[k]
      BY <1>a, <3>1 DEF TypeOK
    <3>3. PICK p \in {"working", "deliver"} : phase' = [phase EXCEPT ![s] = p]
      BY <2>1 DEF RunSpawnAgent, NotifySend, Goto
    <3> QED BY <1>2, <3>1, <3>2, <3>3 DEF Phases
  <2>2. ASSUME NEW s \in Tasks, CheckSpawn(j, s) PROVE AnswerInv'
    BY <1>1, <2>2 DEF CheckSpawn
  <2>3. ASSUME NEW t \in Timers, NotifySchedule(j, t) PROVE AnswerInv'
    BY <1>2, <1>a, <2>3, JobSets DEF NotifySchedule, Goto, Sending, Phases, TypeOK
  <2> QED BY <1>12, <2>1, <2>2, <2>3 DEF Tools
<1>13. ASSUME NEW t \in Timers, RunAndDeliver(t) PROVE AnswerInv'
  BY <1>2, <1>13, JobSets DEF RunAndDeliver, Goto, Sending, Phases
<1>14. CASE cleanupSpawnResults \/ \E s \in Tasks : Expire(s)
  BY <1>1, <1>14 DEF cleanupSpawnResults, Expire
<1>15. CASE UNCHANGED vars
  BY <1>1, <1>15 DEF vars, answers
<1>16. ASSUME NEW j \in Jobs, Goroutine(j) PROVE AnswerInv'
  BY <1>3, <1>4, <1>5, <1>9, <1>10, <1>11, <1>16 DEF Goroutine
<1> QED
  BY <1>6, <1>7, <1>8, <1>11, <1>12, <1>13, <1>14, <1>15, <1>16 DEF Next

\* What a chat shows of an answer is a beginning of it, in the chat that asked, for
\* every text and limit and however the answers of a chat are interleaved; and all of
\* it once the last chunk is sent.
THEOREM ChunksReachTheirChat == Spec => []ChunksHome
<1>1. Init => IInv /\ AnswerInv
  BY InitInv, AnswerInit
<1>2. IInv /\ AnswerInv /\ [Next]_vars => (IInv /\ AnswerInv)'
  BY StepInv, AnswerStep
<1>3. IInv /\ AnswerInv => ChunksHome
  <2> SUFFICES ASSUME IInv, AnswerInv, NEW c \in Chats, NEW j \in Jobs
               PROVE  /\ shown[c][j] # <<>> => chat[j] = c /\ IsPrefix(FlattenSeq(shown[c][j]), text[j])
                      /\ phase[j] = "sent" /\ chat[j] = c => FlattenSeq(shown[c][j]) = text[j]
    BY DEF ChunksHome
  <2>1. shown[c][j] \in Seq(Text) /\ chunks[j] \in Seq(Text)
    BY DEF AnswerInv
  <2>2. ASSUME Sending(j), chat[j] = c
        PROVE  /\ FlattenSeq(shown[c][j]) \in Text /\ FlattenSeq(chunks[j]) \in Text
               /\ text[j] = FlattenSeq(shown[c][j]) \o FlattenSeq(chunks[j])
    <3>1. FlattenSeq(shown[c][j]) \in Text /\ FlattenSeq(chunks[j]) \in Text
      <4>1. << >> \in Text
        BY EmptySeq DEF Text
      <4> QED BY <2>1, <4>1, FlattenAppend DEF Text
    <3>2. FlattenSeq(shown[c][j] \o chunks[j]) = FlattenSeq(shown[c][j]) \o FlattenSeq(chunks[j])
      BY <2>1, FlattenConcat DEF Text
    <3> QED BY <2>2, <3>1, <3>2 DEF AnswerInv
  <2>3. ASSUME shown[c][j] # <<>>
        PROVE  chat[j] = c /\ IsPrefix(FlattenSeq(shown[c][j]), text[j])
    <3>1. Sending(j) /\ chat[j] = c
      BY <2>3 DEF AnswerInv
    <3> QED BY <2>2, <3>1, PrefixOfConcat DEF Text
  <2>4. ASSUME phase[j] = "sent", chat[j] = c PROVE FlattenSeq(shown[c][j]) = text[j]
    <3>1. Sending(j) /\ chunks[j] = <<>>
      BY <2>4 DEF AnswerInv, Sending
    <3>2. FlattenSeq(shown[c][j]) \o <<>> = FlattenSeq(shown[c][j])
      BY <2>2, <2>4, <3>1, ConcatEmptySeq DEF Text
    <3> QED BY <2>2, <2>4, <3>1, <3>2, FlattenEmpty
  <2> QED BY <2>3, <2>4
<1> QED BY <1>1, <1>2, <1>3, PTL DEF Spec
=============================================================================
