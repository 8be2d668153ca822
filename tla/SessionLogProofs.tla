--------------------------- MODULE SessionLogProofs ---------------------------
(***************************************************************************)
(* SessionLog keeps tool results next to their own calls and the turns of  *)
(* a session apart, for any sets of sessions and turns.                    *)
(***************************************************************************)
EXTENDS SessionLog, SequenceTheorems, TLAPS

-----------------------------------------------------------------------------
(* What the operators of Transcript return, position by position. *)

\* A slice of a sequence that lies inside it.
LEMMA SliceProperties ==
  ASSUME NEW S, NEW q \in Seq(S), NEW a \in Nat, NEW b \in Nat,
         a >= 1, b <= Len(q), a <= b + 1
  PROVE  /\ SubSeq(q, a, b) \in Seq(S)
         /\ Len(SubSeq(q, a, b)) = b - a + 1
         /\ \A i \in 1 .. b - a + 1 : SubSeq(q, a, b)[i] = q[a + i - 1]
<1>1. Len(q) \in Nat /\ \A i \in 1 .. Len(q) : q[i] \in S
  BY LenProperties, ElementOfSeq
<1>2. a \in Int /\ b \in Int /\ \A i \in a .. b : q[i] \in S
  BY <1>1
<1>3. /\ SubSeq(q, a, b) \in Seq(S)
      /\ Len(SubSeq(q, a, b)) = IF a <= b THEN b - a + 1 ELSE 0
      /\ \A i \in 1 .. b - a + 1 : SubSeq(q, a, b)[i] = q[a + i - 1]
  BY <1>2, SubSeqProperties
<1> QED BY <1>1, <1>3

\* A suffix of a sequence has its last elements.
LEMMA SuffixProperties ==
  ASSUME NEW S, NEW q \in Seq(S), NEW n \in Nat
  PROVE  /\ Suffix(q, n) \in Seq(S)
         /\ Len(Suffix(q, n)) \in Nat
         /\ Len(Suffix(q, n)) = IF n >= Len(q) THEN Len(q) ELSE n
         /\ \A i \in 1 .. Len(Suffix(q, n)) :
              Suffix(q, n)[i] = q[Len(q) - Len(Suffix(q, n)) + i]
<1>0. Len(q) \in Nat
  BY LenProperties
<1>1. CASE n >= Len(q)
  BY <1>0, <1>1 DEF Suffix
<1>2. CASE n < Len(q)
  <2> DEFINE a == Len(q) - n + 1
             b == Len(q)
  <2>1. a \in Nat /\ b \in Nat /\ a >= 1 /\ b <= Len(q) /\ a <= b + 1 /\ b - a + 1 = n
        /\ \A i \in 1 .. n : a + i - 1 = Len(q) - n + i
    BY <1>0, <1>2
  <2>2. Suffix(q, n) = SubSeq(q, a, b)
    BY <1>0, <1>2 DEF Suffix
  <2> HIDE DEF a, b
  <2>3. /\ SubSeq(q, a, b) \in Seq(S) /\ Len(SubSeq(q, a, b)) = n
        /\ \A i \in 1 .. n : SubSeq(q, a, b)[i] = q[a + i - 1]
    BY <2>1, SliceProperties
  <2>4. ASSUME NEW i \in 1 .. n
        PROVE  SubSeq(q, a, b)[i] = q[Len(q) - n + i]
    <3>1. SubSeq(q, a, b)[i] = q[a + i - 1] /\ a + i - 1 = Len(q) - n + i
      BY <2>1, <2>3
    <3> QED BY <3>1
  <2>5. ~ n >= Len(q)
    BY <1>0, <1>2
  <2> QED BY <2>2, <2>3, <2>4, <2>5
<1> QED BY <1>0, <1>1, <1>2

\* A cut leaves what is in front of it and moves the rest down.
LEMMA CutProperties ==
  ASSUME NEW S, NEW q \in Seq(S), NEW k \in Nat, NEW n \in Nat, k + n <= Len(q)
  PROVE  /\ Cut(q, k, n) \in Seq(S)
         /\ Len(Cut(q, k, n)) = Len(q) - n
         /\ \A i \in 1 .. Len(q) - n :
              Cut(q, k, n)[i] = IF i <= k THEN q[i] ELSE q[i + n]
<1>0. Len(q) \in Nat
  BY LenProperties
<1> DEFINE l == SubSeq(q, 1, k)
           a == k + n + 1
           b == Len(q)
           r == SubSeq(q, a, b)
<1>1. l \in Seq(S) /\ Len(l) = k /\ \A i \in 1 .. k : l[i] = q[i]
  <2>1. 1 \in Nat /\ 1 >= 1 /\ k <= Len(q) /\ 1 <= k + 1
    BY <1>0
  <2>2. /\ l \in Seq(S) /\ Len(l) = k - 1 + 1
        /\ \A i \in 1 .. k - 1 + 1 : l[i] = q[1 + i - 1]
    BY <2>1, SliceProperties
  <2> QED BY <2>2
<1>2. /\ a \in Nat /\ b \in Nat /\ a >= 1 /\ b <= Len(q) /\ a <= b + 1
      /\ b - a + 1 = Len(q) - n - k
  BY <1>0
<1>3. Cut(q, k, n) = l \o r
  BY DEF Cut
<1> HIDE DEF a, b
<1>4. /\ r \in Seq(S) /\ Len(r) = Len(q) - n - k
      /\ \A i \in 1 .. Len(q) - n - k : r[i] = q[a + i - 1]
  BY <1>2, SliceProperties
<1> HIDE DEF l, r
<1>5. /\ l \o r \in Seq(S) /\ Len(l \o r) = Len(l) + Len(r)
      /\ \A i \in 1 .. Len(l) + Len(r) :
            (l \o r)[i] = IF i <= Len(l) THEN l[i] ELSE r[i - Len(l)]
  BY <1>1, <1>4, ConcatProperties
<1>6. ASSUME NEW i \in 1 .. Len(q) - n
      PROVE  (l \o r)[i] = IF i <= k THEN q[i] ELSE q[i + n]
  <2>1. CASE i <= k
    BY <1>0, <1>1, <1>4, <1>5, <2>1
  <2>2. CASE i > k
    <3>1. i \in 1 .. Len(l) + Len(r) /\ ~ i <= Len(l) /\ i - k \in 1 .. Len(q) - n - k
      BY <1>0, <1>1, <1>4, <2>2
    <3>2. (l \o r)[i] = r[i - k] /\ r[i - k] = q[a + (i - k) - 1]
      BY <1>1, <1>4, <1>5, <3>1
    <3>3. a + (i - k) - 1 = i + n
      BY <1>0 DEF a
    <3> QED BY <2>2, <3>2, <3>3
  <2>3. i <= k \/ i > k
    BY <1>0
  <2> QED BY <2>1, <2>2, <2>3
<1> QED BY <1>0, <1>1, <1>3, <1>4, <1>5, <1>6

\* An insertion moves the elements behind it up.
LEMMA InsertProperties ==
  ASSUME NEW S, NEW q \in Seq(S), NEW m \in S, NEW p \in 1 .. Len(q) + 1
  PROVE  /\ InsertAt(q, p, m) \in Seq(S)
         /\ Len(InsertAt(q, p, m)) = Len(q) + 1
         /\ \A i \in 1 .. Len(q) + 1 :
              InsertAt(q, p, m)[i] =
                IF i < p THEN q[i] ELSE IF i = p THEN m ELSE q[i - 1]
<1>0. Len(q) \in Nat /\ p \in Nat
  BY LenProperties
<1> DEFINE e == p - 1
           l == SubSeq(q, 1, e)
           b == Len(q)
           r == SubSeq(q, p, b)
<1>1. l \in Seq(S) /\ Len(l) = p - 1 /\ \A i \in 1 .. p - 1 : l[i] = q[i]
  <2>1. 1 \in Nat /\ e \in Nat /\ 1 >= 1 /\ e <= Len(q) /\ 1 <= e + 1 /\ e - 1 + 1 = p - 1
    BY <1>0
  <2> HIDE DEF e
  <2>2. /\ l \in Seq(S) /\ Len(l) = p - 1
        /\ \A i \in 1 .. p - 1 : l[i] = q[1 + i - 1]
    BY <2>1, SliceProperties
  <2> QED BY <1>0, <2>2
<1>2. /\ b \in Nat /\ p >= 1 /\ b <= Len(q) /\ p <= b + 1
      /\ b - p + 1 = Len(q) - p + 1
  BY <1>0
<1>3. InsertAt(q, p, m) = l \o <<m>> \o r
  BY DEF InsertAt
<1> HIDE DEF b
<1>4. /\ r \in Seq(S) /\ Len(r) = Len(q) - p + 1
      /\ \A i \in 1 .. Len(q) - p + 1 : r[i] = q[p + i - 1]
  BY <1>0, <1>2, SliceProperties
<1>5. <<m>> \in Seq(S) /\ Len(<<m>>) = 1 /\ <<m>>[1] = m
  OBVIOUS
<1> DEFINE lm == l \o <<m>>
<1> HIDE DEF l, r
<1>6. /\ lm \in Seq(S) /\ Len(lm) = p
      /\ \A i \in 1 .. p : lm[i] = IF i <= p - 1 THEN l[i] ELSE <<m>>[i - (p - 1)]
  BY <1>0, <1>1, <1>5, ConcatProperties
<1>7. \A i \in 1 .. p : lm[i] = IF i < p THEN q[i] ELSE m
  <2> SUFFICES ASSUME NEW i \in 1 .. p
               PROVE  lm[i] = IF i < p THEN q[i] ELSE m
    OBVIOUS
  <2>1. CASE i < p
    BY <1>0, <1>1, <1>6, <2>1
  <2>2. CASE i = p
    <3>1. lm[i] = <<m>>[i - (p - 1)] /\ i - (p - 1) = 1 /\ ~ i < p
      BY <1>0, <1>6, <2>2
    <3>2. lm[i] = <<m>>[1] /\ ~ i < p
      BY <3>1
    <3> QED BY <1>5, <3>2
  <2>3. i < p \/ i = p
    BY <1>0
  <2> QED BY <2>1, <2>2, <2>3
<1> HIDE DEF lm
<1>8. /\ lm \o r \in Seq(S) /\ Len(lm \o r) = Len(lm) + Len(r)
      /\ \A i \in 1 .. Len(lm) + Len(r) :
            (lm \o r)[i] = IF i <= Len(lm) THEN lm[i] ELSE r[i - Len(lm)]
  BY <1>4, <1>6, ConcatProperties
<1>9. ASSUME NEW i \in 1 .. Len(q) + 1
      PROVE  (lm \o r)[i] = IF i < p THEN q[i] ELSE IF i = p THEN m ELSE q[i - 1]
  <2>1. CASE i <= p
    BY <1>0, <1>4, <1>6, <1>7, <1>8, <2>1
  <2>2. CASE i > p
    <3>1. i \in 1 .. Len(lm) + Len(r) /\ ~ i <= Len(lm) /\ i - p \in 1 .. Len(q) - p + 1
      BY <1>0, <1>4, <1>6, <2>2
    <3>2. (lm \o r)[i] = r[i - p] /\ r[i - p] = q[p + (i - p) - 1]
      BY <1>4, <1>6, <1>8, <3>1
    <3>3. p + (i - p) - 1 = i - 1
      BY <1>0
    <3> QED BY <1>0, <2>2, <3>2, <3>3
  <2>3. i <= p \/ i > p
    BY <1>0
  <2> QED BY <2>1, <2>2, <2>3
<1>10. InsertAt(q, p, m) = lm \o r
  BY <1>3 DEF lm
<1> QED BY <1>0, <1>4, <1>6, <1>8, <1>9, <1>10

-----------------------------------------------------------------------------
(* Serial conversations. *)

\* A message made by Msg is a message, and its fields are what they were given.
LEMMA MsgFields ==
  ASSUME NEW k \in {"user", "text", "calls", "results", "summary", "notify"},
         NEW t \in Turns \cup {NoTurn}, NEW i \in Stamps
  PROVE  /\ Msg(k, t, i) \in Message
         /\ Msg(k, t, i).kind = k /\ Msg(k, t, i).turn = t /\ Msg(k, t, i).iter = i
BY DEF Msg, Message

\* What the invariant says of the conversation of one session, so that an action
\* on session s has to be looked at for s only; rc says that s is raced.
SessionInv(lg, ow, op, re, rc) ==
  /\ lg \in Seq(Message) /\ ow \in Turns \cup {NoTurn} /\ op \in SUBSET Message
  /\ ow # NoTurn => ow \in re
  /\ \A i \in 1 .. Len(lg) : \/ lg[i].turn \in re
                             \/ lg[i].turn = NoTurn /\ lg[i].kind = "notify"
  /\ ow # NoTurn =>
       \A i, j \in 1 .. Len(lg) :
         i < j /\ lg[i].turn = ow /\ lg[i].kind # "summary" =>
           lg[j].turn = ow \/ lg[j].kind \in {"summary", "notify"}
  /\ \A m \in op : /\ ow # NoTurn
                   /\ m.kind = "calls" /\ m.turn = ow
                   /\ Len(lg) > 0 /\ lg[Len(lg)].kind = "calls" => lg[Len(lg)] = m
  /\ Contiguous(lg)
  /\ ~rc => WellPaired(lg) /\ SummaryAtHead(lg)

LEMMA InvBySession ==
  ASSUME log = [s \in Sessions |-> log[s]], owner = [s \in Sessions |-> owner[s]],
         open = [s \in Sessions |-> open[s]], retired \subseteq Turns, raced \subseteq Sessions
  PROVE  IInv <=> \A s \in Sessions :
                    SessionInv(log[s], owner[s], open[s], retired, s \in raced)
BY DEF IInv, TypeOK, Fresh, OwnerAtTail, OpenAtTail, Serial, SessionInv

\* A message of the owner, or a notification, at the end keeps the session
\* invariant, provided results are the ones that are open.
LEMMA AppendKeepsInv ==
  ASSUME NEW lg, NEW ow, NEW op, NEW re, NEW rc, SessionInv(lg, ow, op, re, rc),
         NEW m \in Message, NEW op2 \in SUBSET Message,
         NoTurn \notin Turns, re \subseteq Turns,
         m.kind # "summary",
         m.kind = "notify" \/ (ow # NoTurn /\ m.turn = ow),
         m.kind = "notify" => m.turn = NoTurn,
         m.kind = "results" => \E c \in op : c.turn = m.turn /\ c.iter = m.iter,
         \A c \in op2 : (c = m /\ m.kind = "calls") \/ (c \in op /\ m.kind = "notify")
  PROVE  SessionInv(Append(lg, m), ow, op2, re, rc)
<1> DEFINE l2 == Append(lg, m)
<1>1. /\ l2 \in Seq(Message) /\ Len(l2) = Len(lg) + 1 /\ Len(lg) \in Nat
      /\ \A i \in 1 .. Len(lg) : l2[i] = lg[i]
      /\ l2[Len(lg) + 1] = m
  BY AppendProperties, LenProperties DEF SessionInv
<1> HIDE DEF l2
<1>2. \A i \in 1 .. Len(l2) : \/ l2[i].turn \in re
                              \/ l2[i].turn = NoTurn /\ l2[i].kind = "notify"
  BY <1>1 DEF SessionInv
<1>3. ow # NoTurn =>
       \A i, j \in 1 .. Len(l2) :
         i < j /\ l2[i].turn = ow /\ l2[i].kind # "summary" =>
           l2[j].turn = ow \/ l2[j].kind \in {"summary", "notify"}
  BY <1>1 DEF SessionInv
<1>4. \A c \in op2 : /\ ow # NoTurn
                   /\ c.kind = "calls" /\ c.turn = ow
                   /\ Len(l2) > 0 /\ l2[Len(l2)].kind = "calls" => l2[Len(l2)] = c
  BY <1>1 DEF SessionInv
<1>5. ~rc => SummaryAtHead(l2)
  BY <1>1 DEF SessionInv, SummaryAtHead
<1>6. ~rc => WellPaired(l2)
  <2> SUFFICES ASSUME ~rc, NEW i \in 2 .. Len(l2), l2[i].kind = "results", l2[i-1].kind = "calls"
               PROVE  l2[i].turn = l2[i-1].turn /\ l2[i].iter = l2[i-1].iter
    BY DEF WellPaired
  <2>1. CASE i <= Len(lg)
    <3>1. i \in 2 .. Len(lg) /\ i \in 1 .. Len(lg) /\ i - 1 \in 1 .. Len(lg)
      BY <1>1, <2>1
    <3>2. l2[i] = lg[i] /\ l2[i - 1] = lg[i - 1]
      BY <1>1, <3>1
    <3> QED BY <3>1, <3>2 DEF SessionInv, WellPaired
  <2>2. CASE i = Len(lg) + 1
    <3>1. PICK c \in op : c.turn = m.turn /\ c.iter = m.iter
      BY <1>1, <2>2
    <3>2. Len(lg) > 0 /\ i - 1 = Len(lg) /\ l2[i - 1] = lg[Len(lg)]
      BY <1>1, <2>2
    <3>3. lg[Len(lg)] = c
      BY <3>2 DEF SessionInv
    <3> QED BY <1>1, <2>2, <3>1, <3>2, <3>3
  <2> QED BY <1>1, <2>1, <2>2
<1>7. Contiguous(l2)
  <2> SUFFICES ASSUME NEW i \in 1 .. Len(l2), NEW j \in 1 .. Len(l2), NEW k \in 1 .. Len(l2),
                      i < j, j < k, l2[i].turn = l2[k].turn,
                      l2[i].kind \notin {"summary", "notify"},
                      l2[k].kind \notin {"summary", "notify"}
               PROVE  l2[j].turn = l2[i].turn \/ l2[j].kind \in {"summary", "notify"}
    BY DEF Contiguous
  <2>1. CASE k <= Len(lg)
    BY <1>1, <2>1 DEF SessionInv, Contiguous
  <2>2. CASE k = Len(lg) + 1
    BY <1>1, <2>2 DEF SessionInv
  <2> QED BY <1>1, <2>1, <2>2
<1> QED BY <1>1, <1>2, <1>3, <1>4, <1>5, <1>6, <1>7 DEF SessionInv, l2

\* Messages that keep their order, with summaries among them, keep what the
\* invariant says of the order of turns.
LEMMA OrderKept ==
  ASSUME NEW lg, NEW ow, NEW re, NEW rc, SessionInv(lg, ow, {}, re, rc), ow \in re,
         NEW l2 \in Seq(Message), NEW f,
         \A i \in 1 .. Len(l2) :
           \/ l2[i].kind = "summary" /\ l2[i].turn = ow
           \/ f[i] \in 1 .. Len(lg) /\ l2[i] = lg[f[i]],
         \A i, j \in 1 .. Len(l2) :
           i < j /\ f[i] \in 1 .. Len(lg) /\ f[j] \in 1 .. Len(lg) => f[i] < f[j],
         ~rc => WellPaired(l2) /\ SummaryAtHead(l2)
  PROVE  SessionInv(l2, ow, {}, re, rc)
<1>1. \A i \in 1 .. Len(l2) : l2[i].turn \in re \/ (l2[i].turn = NoTurn /\ l2[i].kind = "notify")
  BY DEF SessionInv
<1>2. ow # NoTurn =>
       \A i, j \in 1 .. Len(l2) :
         i < j /\ l2[i].turn = ow /\ l2[i].kind # "summary" =>
           l2[j].turn = ow \/ l2[j].kind \in {"summary", "notify"}
  BY DEF SessionInv
<1>3. Contiguous(l2)
  <2> SUFFICES ASSUME NEW i \in 1 .. Len(l2), NEW j \in 1 .. Len(l2), NEW k \in 1 .. Len(l2),
                      i < j, j < k, l2[i].turn = l2[k].turn,
                      l2[i].kind \notin {"summary", "notify"},
                      l2[k].kind \notin {"summary", "notify"},
                      l2[j].kind # "summary"
               PROVE  l2[j].turn = l2[i].turn \/ l2[j].kind \in {"summary", "notify"}
    BY DEF Contiguous
  <2>1. /\ f[i] \in 1 .. Len(lg) /\ f[j] \in 1 .. Len(lg) /\ f[k] \in 1 .. Len(lg)
        /\ l2[i] = lg[f[i]] /\ l2[j] = lg[f[j]] /\ l2[k] = lg[f[k]]
    OBVIOUS
  <2>2. f[i] < f[j] /\ f[j] < f[k]
    BY <2>1
  <2>3. /\ lg[f[i]].turn = lg[f[k]].turn
        /\ lg[f[i]].kind \notin {"summary", "notify"} /\ lg[f[k]].kind \notin {"summary", "notify"}
    BY <2>1
  <2>4. Contiguous(lg)
    BY DEF SessionInv
  <2>5. lg[f[j]].turn = lg[f[i]].turn \/ lg[f[j]].kind \in {"summary", "notify"}
    BY ONLY <2>1, <2>2, <2>3, <2>4 DEF Contiguous
  <2> QED BY <2>1, <2>5
<1> QED BY <1>1, <1>2, <1>3 DEF SessionInv

\* Forgetting messages keeps the session invariant; the pairs are only kept when
\* nothing stays in front of them.
LEMMA ForgetKeepsInv ==
  ASSUME NEW lg, NEW ow, NEW re, NEW rc, SessionInv(lg, ow, {}, re, rc), ow # NoTurn,
         NEW k \in 0 .. Len(lg), NEW n \in 1 .. Len(lg), k + n <= Len(lg),
         NEW rc2, rc => rc2, k > 0 => rc2
  PROVE  SessionInv(Cut(lg, k, n), ow, {}, re, rc2)
<1> DEFINE l2 == Cut(lg, k, n)
           f == [i \in 1 .. Len(l2) |-> IF i <= k THEN i ELSE i + n]
<1>0. lg \in Seq(Message) /\ Len(lg) \in Nat /\ k \in Nat /\ n \in Nat /\ ow \in re
  BY LenProperties DEF SessionInv
<1>1. /\ l2 \in Seq(Message) /\ Len(l2) = Len(lg) - n
      /\ \A i \in 1 .. Len(lg) - n : l2[i] = IF i <= k THEN lg[i] ELSE lg[i + n]
  BY <1>0, CutProperties
<1> HIDE DEF l2
<1>2. \A i \in 1 .. Len(l2) : f[i] \in 1 .. Len(lg) /\ l2[i] = lg[f[i]]
  BY <1>0, <1>1
<1>3. \A i, j \in 1 .. Len(l2) : i < j => f[i] < f[j]
  BY <1>0, <1>1
<1>4. ASSUME ~rc2
      PROVE  WellPaired(l2) /\ SummaryAtHead(l2)
  <2>1. ~rc /\ \A i \in 1 .. Len(l2) : l2[i] = lg[i + n] /\ i + n \in 2 .. Len(lg)
    BY <1>0, <1>1, <1>4
  <2>2. SummaryAtHead(l2)
    <3>1. \A i \in 1 .. Len(lg) : lg[i].kind = "summary" => i = 1
      BY <2>1 DEF SessionInv, SummaryAtHead
    <3>2. \A i \in 1 .. Len(l2) : i + n \in 1 .. Len(lg) /\ i + n # 1
      BY <1>0, <1>1, <2>1
    <3> QED BY <2>1, <3>1, <3>2 DEF SummaryAtHead
  <2>3. WellPaired(l2)
    <3> SUFFICES ASSUME NEW i \in 2 .. Len(l2), l2[i].kind = "results", l2[i-1].kind = "calls"
                 PROVE  l2[i].turn = l2[i-1].turn /\ l2[i].iter = l2[i-1].iter
      BY DEF WellPaired
    <3>1. i \in 1 .. Len(l2) /\ i - 1 \in 1 .. Len(l2) /\ (i - 1) + n = (i + n) - 1
      BY <1>0, <1>1
    <3>2. l2[i] = lg[i + n] /\ i + n \in 2 .. Len(lg) /\ l2[i - 1] = lg[(i - 1) + n]
      BY <2>1, <3>1
    <3>3. l2[i - 1] = lg[(i + n) - 1]
      BY <3>1, <3>2
    <3>4. WellPaired(lg)
      BY <2>1 DEF SessionInv
    <3>5. lg[i + n].kind = "results" /\ lg[(i + n) - 1].kind = "calls"
      BY <3>2, <3>3
    <3>6. lg[i + n].turn = lg[(i + n) - 1].turn /\ lg[i + n].iter = lg[(i + n) - 1].iter
      BY ONLY <3>2, <3>4, <3>5 DEF WellPaired
    <3> QED BY <3>2, <3>3, <3>6
  <2> QED BY <2>2, <2>3
<1>5. SessionInv(lg, ow, {}, re, rc2)
  BY DEF SessionInv
<1> HIDE DEF f
<1>6. /\ l2 \in Seq(Message)
      /\ \A i \in 1 .. Len(l2) :
           \/ l2[i].kind = "summary" /\ l2[i].turn = ow
           \/ f[i] \in 1 .. Len(lg) /\ l2[i] = lg[f[i]]
      /\ \A i, j \in 1 .. Len(l2) :
           i < j /\ f[i] \in 1 .. Len(lg) /\ f[j] \in 1 .. Len(lg) => f[i] < f[j]
      /\ ~rc2 => WellPaired(l2) /\ SummaryAtHead(l2)
  BY <1>1, <1>2, <1>3, <1>4
<1>7. SessionInv(l2, ow, {}, re, rc2)
  BY <1>0, <1>5, <1>6, OrderKept
<1> QED BY <1>7 DEF l2

\* A summary keeps the session invariant: a first one in front, or any in a raced
\* session.
LEMMA SummaryKeepsInv ==
  ASSUME NEW lg, NEW ow, NEW re, NEW rc, SessionInv(lg, ow, {}, re, rc), ow # NoTurn,
         NEW p \in 1 .. Len(lg) + 1,
         rc \/ (p = 1 /\ \A i \in 1 .. Len(lg) : lg[i].kind # "summary"),
         NEW m \in Message, m.kind = "summary", m.turn = ow
  PROVE  SessionInv(InsertAt(lg, p, m), ow, {}, re, rc)
<1> DEFINE l2 == InsertAt(lg, p, m)
           f == [i \in 1 .. Len(l2) |-> IF i < p THEN i ELSE IF i = p THEN 0 ELSE i - 1]
<1>0. lg \in Seq(Message) /\ Len(lg) \in Nat /\ p \in Nat /\ ow \in re
  BY LenProperties DEF SessionInv
<1>1. /\ l2 \in Seq(Message) /\ Len(l2) = Len(lg) + 1
      /\ \A i \in 1 .. Len(lg) + 1 :
           l2[i] = IF i < p THEN lg[i] ELSE IF i = p THEN m ELSE lg[i - 1]
  <2> HIDE DEF f
  <2> DEFINE M == Message
  <2>1. lg \in Seq(M) /\ m \in M /\ p \in 1 .. Len(lg) + 1
    BY <1>0
  <2>2. Seq(M) = Seq(Message)
    OBVIOUS
  <2> HIDE DEF M, l2
  <2>3. /\ InsertAt(lg, p, m) \in Seq(M) /\ Len(InsertAt(lg, p, m)) = Len(lg) + 1
        /\ \A i \in 1 .. Len(lg) + 1 :
             InsertAt(lg, p, m)[i] = IF i < p THEN lg[i] ELSE IF i = p THEN m ELSE lg[i - 1]
    BY <2>1, InsertProperties
  <2> QED BY <2>2, <2>3 DEF l2
<1> HIDE DEF l2
<1>2. ASSUME NEW i \in 1 .. Len(l2)
      PROVE  \/ l2[i].kind = "summary" /\ l2[i].turn = ow
             \/ f[i] \in 1 .. Len(lg) /\ l2[i] = lg[f[i]]
  <2>1. i < p \/ i = p \/ i > p
    BY <1>0, <1>1
  <2>2. CASE i = p
    BY <1>0, <1>1, <2>2
  <2>3. CASE i < p
    BY <1>0, <1>1, <2>3
  <2>4. CASE i > p
    <3>1. i - 1 \in 1 .. Len(lg) /\ l2[i] = lg[i - 1] /\ f[i] = i - 1
      BY <1>0, <1>1, <2>4
    <3> QED BY <3>1
  <2> QED BY <2>1, <2>2, <2>3, <2>4
<1>3. \A i, j \in 1 .. Len(l2) :
        i < j /\ f[i] \in 1 .. Len(lg) /\ f[j] \in 1 .. Len(lg) => f[i] < f[j]
  BY <1>0, <1>1
<1>4. ASSUME ~rc
      PROVE  WellPaired(l2) /\ SummaryAtHead(l2)
  <2>1. /\ l2[1] = m /\ \A i \in 2 .. Len(l2) : l2[i] = lg[i - 1] /\ i - 1 \in 1 .. Len(lg)
        /\ \A i \in 1 .. Len(lg) : lg[i].kind # "summary"
    BY <1>0, <1>1, <1>4
  <2>2. SummaryAtHead(l2)
    BY <1>0, <1>1, <2>1 DEF SummaryAtHead
  <2>3. WellPaired(l2)
    <3> SUFFICES ASSUME NEW i \in 2 .. Len(l2), l2[i].kind = "results", l2[i-1].kind = "calls"
                 PROVE  l2[i].turn = l2[i-1].turn /\ l2[i].iter = l2[i-1].iter
      BY DEF WellPaired
    <3>1. i # 2
      BY <2>1
    <3>2. i - 1 \in 2 .. Len(lg) /\ i - 1 \in 2 .. Len(l2)
      BY <1>0, <1>1, <3>1
    <3>3. l2[i] = lg[i - 1] /\ l2[i - 1] = lg[(i - 1) - 1]
      BY <2>1, <3>2
    <3> QED BY <1>4, <3>2, <3>3 DEF SessionInv, WellPaired
  <2> QED BY <2>2, <2>3
<1> HIDE DEF f
<1>5. SessionInv(l2, ow, {}, re, rc)
  BY <1>0, <1>1, <1>2, <1>3, <1>4, OrderKept
<1> QED BY <1>5 DEF l2

\* Ending an ownership, or knowing more turns to be retired, keeps it too.
LEMMA LeaveKeepsInv ==
  ASSUME NEW lg, NEW ow, NEW op, NEW re, NEW rc, SessionInv(lg, ow, op, re, rc),
         NEW re2, re \subseteq re2
  PROVE  SessionInv(lg, ow, op, re2, rc) /\ SessionInv(lg, NoTurn, {}, re2, rc)
BY DEF SessionInv

LEMMA InitInv == Init /\ 0 \in Stamps => IInv
BY EmptySeq DEF Init, IInv, TypeOK, Fresh, OwnerAtTail, OpenAtTail, Serial,
   WellPaired, Contiguous, SummaryAtHead

\* Every step of SessionLog preserves its invariant.
LEMMA StepInv ==
  ASSUME NoTurn \notin Turns, KeepRecent \in Nat, IInv, [Next]_vars
  PROVE  IInv'
<1> USE DEF vars
<1>0. TypeOK /\ \A s \in Sessions : SessionInv(log[s], owner[s], open[s], retired, s \in raced)
  BY InvBySession DEF IInv, TypeOK
<1>a. ASSUME log' = [s \in Sessions |-> log'[s]],
             owner' = [s \in Sessions |-> owner'[s]],
             open' = [s \in Sessions |-> open'[s]],
             retired' \subseteq Turns, raced' \subseteq Sessions,
             \A s \in Sessions : SessionInv(log'[s], owner'[s], open'[s], retired', s \in raced')
      PROVE  IInv'
  BY <1>a DEF IInv, TypeOK, Fresh, OwnerAtTail, OpenAtTail, Serial, SessionInv
\* An action that changes one session and adds nothing to retired and raced.
<1>b. ASSUME NEW s \in Sessions, NEW l2, NEW op2,
             SessionInv(l2, owner[s], op2, retired, s \in raced),
             log' = [log EXCEPT ![s] = l2], open' = [open EXCEPT ![s] = op2],
             UNCHANGED <<owner, retired, raced>>
      PROVE  IInv'
  BY <1>0, <1>a, <1>b DEF TypeOK
<1>1. ASSUME NEW s \in Sessions, NEW t \in Turns, Begin(s, t)
      PROVE  IInv'
  <2>1. PICK i \in Stamps : log' = [log EXCEPT ![s] = Append(@, Msg("user", t, i))]
    BY <1>1 DEF Begin, Add
  <2>2. /\ Msg("user", t, i) \in Message /\ Msg("user", t, i).kind = "user"
        /\ Msg("user", t, i).turn = t
    BY MsgFields
  <2>3. open[s] = {} /\ t # NoTurn /\ owner[s] = NoTurn /\ t \notin retired
    BY <1>0, <1>1 DEF Begin, SessionInv
  <2>4. SessionInv(log[s], t, {}, retired \cup {t}, s \in raced)
    <3>1. \A j \in 1 .. Len(log[s]) : log[s][j].turn # t
      BY <1>0, <2>3 DEF SessionInv
    <3> QED BY <1>0, <2>3, <3>1 DEF SessionInv
  <2>5. SessionInv(Append(log[s], Msg("user", t, i)), t, {}, retired \cup {t}, s \in raced)
    BY <1>0, <2>2, <2>3, <2>4, AppendKeepsInv DEF TypeOK
  <2>6. \A q \in Sessions : SessionInv(log[q], owner[q], open[q], retired \cup {t}, q \in raced)
    BY <1>0, LeaveKeepsInv
  <2> QED BY <1>0, <1>1, <1>a, <2>1, <2>3, <2>5, <2>6 DEF Begin, TypeOK
<1>2. ASSUME NEW s \in Sessions, Say(s)
      PROVE  IInv'
  <2>1. PICK i \in Stamps : log' = [log EXCEPT ![s] = Append(@, Msg("text", owner[s], i))]
    BY <1>2 DEF Say, Add
  <2> DEFINE m == Msg("text", owner[s], i)
  <2>2. m \in Message /\ m.kind = "text" /\ m.turn = owner[s] /\ owner[s] # NoTurn
    BY <1>0, <1>2, MsgFields DEF Say, TypeOK
  <2> HIDE DEF m
  <2>3. SessionInv(Append(log[s], m), owner[s], {}, retired, s \in raced)
    BY <1>0, <2>2, AppendKeepsInv DEF TypeOK
  <2>4. open' = [open EXCEPT ![s] = {}] /\ log' = [log EXCEPT ![s] = Append(log[s], m)]
    BY <1>0, <1>2, <2>1 DEF Say, TypeOK, m
  <2> QED BY <1>2, <1>b, <2>3, <2>4 DEF Say
<1>3. ASSUME NEW s \in Sessions, CallTools(s)
      PROVE  IInv'
  <2>1. PICK i \in Stamps :
          /\ log' = [log EXCEPT ![s] = Append(@, Msg("calls", owner[s], i))]
          /\ open' = [open EXCEPT ![s] = {Msg("calls", owner[s], i)}]
    BY <1>3 DEF CallTools, Add
  <2> DEFINE m == Msg("calls", owner[s], i)
  <2>2. m \in Message /\ m.kind = "calls" /\ m.turn = owner[s] /\ owner[s] # NoTurn
    BY <1>0, <1>3, MsgFields DEF CallTools, TypeOK
  <2>3. open' = [open EXCEPT ![s] = {m}] /\ log' = [log EXCEPT ![s] = Append(log[s], m)]
    BY <2>1
  <2> HIDE DEF m
  <2>4. SessionInv(Append(log[s], m), owner[s], {m}, retired, s \in raced)
    <3> DEFINE op2 == {m}
    <3>1. /\ op2 \in SUBSET Message
          /\ \A c \in op2 : c = m /\ m.kind = "calls"
      BY <2>2
    <3> HIDE DEF op2
    <3>2. SessionInv(log[s], owner[s], open[s], retired, s \in raced) /\ retired \subseteq Turns
      BY <1>0 DEF TypeOK
    <3>3. /\ m.kind # "summary"
          /\ m.kind = "notify" \/ (owner[s] # NoTurn /\ m.turn = owner[s])
          /\ m.kind = "notify" => m.turn = NoTurn
          /\ m.kind = "results" => \E c \in open[s] : c.turn = m.turn /\ c.iter = m.iter
      BY <2>2
    <3>4. SessionInv(Append(log[s], m), owner[s], op2, retired, s \in raced)
      BY <2>2, <3>1, <3>2, <3>3, AppendKeepsInv
    <3> QED BY <3>4 DEF op2
  <2> QED BY <1>3, <1>b, <2>3, <2>4 DEF CallTools
<1>4. ASSUME NEW s \in Sessions, AnswerCalls(s)
      PROVE  IInv'
  <2>1. PICK c \in open[s] : log' = [log EXCEPT ![s] = Append(@, Msg("results", c.turn, c.iter))]
    BY <1>4 DEF AnswerCalls, Add
  <2> DEFINE m == Msg("results", c.turn, c.iter)
  <2>2. /\ c \in Message /\ c.turn = owner[s] /\ owner[s] # NoTurn
    BY <1>0 DEF SessionInv
  <2>3. m \in Message /\ m.kind = "results" /\ m.turn = owner[s] /\ m.iter = c.iter
    BY <1>0, <2>2, MsgFields DEF Message, TypeOK
  <2>4. log' = [log EXCEPT ![s] = Append(log[s], m)]
    BY <1>0, <2>1 DEF TypeOK
  <2> HIDE DEF m
  <2>5. SessionInv(Append(log[s], m), owner[s], {}, retired, s \in raced)
    BY <1>0, <2>2, <2>3, AppendKeepsInv DEF TypeOK
  <2> QED BY <1>4, <1>b, <2>4, <2>5 DEF AnswerCalls
<1>5. ASSUME NEW s \in Sessions, Notify(s)
      PROVE  IInv'
  <2>1. PICK i \in Stamps : log' = [log EXCEPT ![s] = Append(@, Msg("notify", NoTurn, i))]
    BY <1>5 DEF Notify, Add
  <2> DEFINE m == Msg("notify", NoTurn, i)
  <2>2. m \in Message /\ m.kind = "notify" /\ m.turn = NoTurn
    BY MsgFields
  <2>3. open' = [open EXCEPT ![s] = open[s]] /\ log' = [log EXCEPT ![s] = Append(log[s], m)]
    BY <1>0, <1>5, <2>1 DEF Notify, TypeOK
  <2> HIDE DEF m
  <2>4. SessionInv(Append(log[s], m), owner[s], open[s], retired, s \in raced)
    BY <1>0, <2>2, AppendKeepsInv DEF TypeOK
  <2> QED BY <1>5, <1>b, <2>3, <2>4 DEF Notify
<1>6. ASSUME NEW s \in Sessions, Forget(s)
      PROVE  IInv'
  <2>1. PICK k \in 0 .. Len(log[s]), n \in 1 .. Len(log[s]) :
          /\ k + n + KeepRecent <= Len(log[s])
          /\ log' = [log EXCEPT ![s] = Cut(@, k, n)]
          /\ raced' = IF k > 0 THEN raced \cup {s} ELSE raced
    BY <1>6 DEF Forget
  <2>2. k + n <= Len(log[s])
    <3>1. Len(log[s]) \in Nat
      BY <1>0, LenProperties DEF SessionInv
    <3> QED BY <2>1, <3>1
  <2>3. /\ raced' \subseteq Sessions
        /\ (s \in raced => s \in raced') /\ (k > 0 => s \in raced')
        /\ \A q \in Sessions : q # s => (q \in raced' <=> q \in raced)
    BY <1>0, <2>1 DEF TypeOK
  <2>4. SessionInv(Cut(log[s], k, n), owner[s], {}, retired, s \in raced')
    <3>1. owner[s] # NoTurn /\ SessionInv(log[s], owner[s], {}, retired, s \in raced)
      BY <1>0, <1>6 DEF Forget
    <3> QED BY <2>2, <2>3, <3>1, ForgetKeepsInv
  <2>5. /\ open' = open /\ owner' = owner /\ retired' = retired /\ open[s] = {}
        /\ log' = [log EXCEPT ![s] = Cut(log[s], k, n)]
    BY <1>0, <1>6, <2>1 DEF Forget, TypeOK
  <2>6. ASSUME NEW q \in Sessions
        PROVE  SessionInv(log'[q], owner'[q], open'[q], retired', q \in raced')
    <3>1. CASE q = s
      <4>1. log'[s] = Cut(log[s], k, n)
        BY <1>0, <2>5 DEF TypeOK
      <4> QED BY <2>4, <2>5, <3>1, <4>1
    <3>2. CASE q # s
      <4>1. log'[q] = log[q] /\ (q \in raced' <=> q \in raced)
        BY <1>0, <2>3, <2>5, <3>2 DEF TypeOK
      <4>2. SessionInv(log[q], owner[q], open[q], retired, q \in raced')
        BY <1>0, <4>1 DEF SessionInv
      <4> QED BY <2>5, <4>1, <4>2
    <3> QED BY <3>1, <3>2
  <2>7. /\ log' = [q \in Sessions |-> log'[q]] /\ owner' = [q \in Sessions |-> owner'[q]]
        /\ open' = [q \in Sessions |-> open'[q]] /\ retired' \subseteq Turns
    BY <1>0, <2>5 DEF TypeOK
  <2> QED BY <1>a, <2>3, <2>6, <2>7
<1>7. ASSUME NEW s \in Sessions, Summarise(s)
      PROVE  IInv'
  <2>1. PICK p \in 1 .. Len(log[s]) + 1, i \in Stamps :
          /\ s \in raced \/ (p = 1 /\ \A j \in 1 .. Len(log[s]) : log[s][j].kind # "summary")
          /\ log' = [log EXCEPT ![s] = InsertAt(@, p, Msg("summary", owner[s], i))]
    BY <1>7 DEF Summarise
  <2> DEFINE m == Msg("summary", owner[s], i)
  <2>2. m \in Message /\ m.kind = "summary" /\ m.turn = owner[s]
    BY <1>0, MsgFields DEF TypeOK
  <2>3. /\ open' = [open EXCEPT ![s] = {}]
        /\ log' = [log EXCEPT ![s] = InsertAt(log[s], p, m)]
    BY <1>0, <1>7, <2>1 DEF Summarise, TypeOK
  <2> HIDE DEF m
  <2>4. SessionInv(InsertAt(log[s], p, m), owner[s], {}, retired, s \in raced)
    <3>1. owner[s] # NoTurn /\ SessionInv(log[s], owner[s], {}, retired, s \in raced)
      BY <1>0, <1>7 DEF Summarise
    <3> QED BY <2>1, <2>2, <3>1, SummaryKeepsInv
  <2> QED BY <1>7, <1>b, <2>3, <2>4 DEF Summarise
<1>8. ASSUME NEW E \in SUBSET Sessions, NEW T \in SUBSET Turns, Leave(E, T)
      PROVE  IInv'
  <2>1. \A s \in Sessions : /\ SessionInv(log[s], owner[s], open[s], retired \cup T, s \in raced)
                            /\ SessionInv(log[s], NoTurn, {}, retired \cup T, s \in raced)
    BY <1>0, LeaveKeepsInv
  <2> QED BY <1>0, <1>8, <1>a, <2>1 DEF Leave, TypeOK
<1>9. CASE UNCHANGED vars
  BY <1>9, <1>0, <1>a DEF TypeOK
<1> QED BY <1>1, <1>2, <1>3, <1>4, <1>5, <1>6, <1>7, <1>8, <1>9 DEF Next

\* The two promises hold of every behaviour that SessionLog allows.
THEOREM SerialConversations ==
  ASSUME NoTurn \notin Turns, KeepRecent \in Nat, 0 \in Stamps
  PROVE  Spec => [](IInv /\ Serial)
<1>1. Init => IInv
  BY InitInv
<1>2. IInv /\ [Next]_vars => IInv'
  BY StepInv
<1>3. IInv => Serial
  BY DEF IInv
<1> QED BY <1>1, <1>2, <1>3, PTL DEF Spec
=============================================================================
