-------------------------------- MODULE Split --------------------------------
(***************************************************************************)
(* SplitMessage: how an adapter cuts an answer into messages of at most    *)
(* maxLen bytes.  A text is a sequence of bytes; of the bytes the cuts     *)
(* tell apart only the backquote, the newline, the space and the           *)
(* continuation bytes of UTF-8 ("cont"), which follow a "lead" byte.       *)
(* Offsets count from zero, as in the code.                                *)
(***************************************************************************)
EXTENDS Integers, Sequences, SequencesExt, FiniteSetsExt

NL == "nl"
SP == "sp"
Fence == <<"bq", "bq", "bq">>

Text == Seq(STRING)

\* UTF-8: a continuation byte follows the first byte of its rune or another one.
ValidText(s) ==
  /\ s \in Text
  /\ \A i \in 1..Len(s) : s[i] = "cont" => i > 1 /\ s[i - 1] \in {"lead", "cont"}

HasPrefixAt(s, i, pat) ==
  i + Len(pat) <= Len(s) /\ SubSeq(s, i + 1, i + Len(pat)) = pat

\* strings.LastIndex(s[:end], pat), -1 if there is none.
LastIndex(s, end, pat) ==
  Max({-1} \union {i \in 0..(end - Len(pat)) : HasPrefixAt(s, i, pat)})

\* The first newline at or after i, or the end of the text.
LineEnd(s, i) == Min({Len(s)} \union {k \in i..(Len(s) - 1) : s[k + 1] = NL})

\* The loop over the fences: where it is, whether a block is open, and where to
\* cut if it stays open.
Walk(s) == [i : 0..Len(s), open : BOOLEAN, lastFenceEnd : 0..Len(s)]

\* One round: past a byte, past the line that opens a block or past the fence
\* that closes it.
Step(s, maxLen, w) ==
  IF ~HasPrefixAt(s, w.i, Fence) THEN [w EXCEPT !.i = @ + 1]
  ELSE IF ~w.open
  THEN [i |-> LineEnd(s, w.i + 3), open |-> TRUE,
        lastFenceEnd |-> IF w.i > 0 THEN w.i ELSE w.lastFenceEnd]
  ELSE LET fenceEnd == Min({Len(s), LineEnd(s, w.i + 3) + 1})
       IN  [i |-> w.i + 3, open |-> FALSE,
            lastFenceEnd |-> IF fenceEnd <= maxLen THEN fenceEnd ELSE w.lastFenceEnd]

\* Walks over the fences that begin before maxLen; if one is left open, the
\* cut comes before it, or after the last block that was closed.
findCodeBlockSafeCut(s, maxLen) ==
  LET scan[w \in Walk(s)] ==
        IF w.i < Len(s) /\ w.i < maxLen THEN scan[Step(s, maxLen, w)]
        ELSE IF w.open THEN w.lastFenceEnd ELSE 0
  IN  scan[[i |-> 0, open |-> FALSE, lastFenceEnd |-> 0]]

RuneStart(b) == b # "cont"

\* The last start of a rune at or before maxLen; the whole first rune if that
\* is the start of the text.
runeAlignedCut(s, maxLen) ==
  LET starts == {i \in 0..(Len(s) - 1) : RuneStart(s[i + 1])}
      cut == Max({i \in starts \union {0} : i <= maxLen})
  IN  IF maxLen >= Len(s) THEN Len(s)
      ELSE IF cut > 0 THEN cut
      ELSE Min({Len(s)} \union {i \in starts : i > 0})

findCutPoint(s, maxLen) ==
  LET codeBlockCut == findCodeBlockSafeCut(s, maxLen)
      effective == IF codeBlockCut > 0 THEN codeBlockCut ELSE maxLen
      paragraph == LastIndex(s, effective, <<NL, NL>>)
      line == LastIndex(s, effective, <<NL>>)
      space == LastIndex(s, effective, <<SP>>)
  IN  CASE paragraph > 0 -> paragraph + 2
        [] paragraph <= 0 /\ line > 0 -> line + 1
        [] paragraph <= 0 /\ line <= 0 /\ space > 0 -> space + 1
        [] OTHER -> runeAlignedCut(s, effective)

SplitMessage(content, maxLen) ==
  LET n == Len(content)
      chunks[from \in 0..n] ==
        LET rest == SubSeq(content, from + 1, n) IN
        IF rest = <<>> THEN <<>>
        ELSE IF Len(rest) <= maxLen THEN <<rest>>
        ELSE LET cut == findCutPoint(rest, maxLen)
             IN  <<SubSeq(rest, 1, cut)>> \o chunks[from + cut]
  IN  IF maxLen <= 0 \/ n <= maxLen THEN <<content>> ELSE chunks[0]

-----------------------------------------------------------------------------
\* What callers rely on: the chunks are the text, cut at starts of runes into
\* pieces that are not empty and fit, unless one rune alone does not.
SplitCorrect(content, maxLen) ==
  LET cs == SplitMessage(content, maxLen) IN
  /\ FlattenSeq(cs) = content
  /\ \A i \in DOMAIN cs :
       /\ cs[i] # <<>> /\ RuneStart(cs[i][1])
       /\ Len(cs[i]) <= maxLen \/ \A k \in 2..Len(cs[i]) : ~RuneStart(cs[i][k])
=============================================================================
