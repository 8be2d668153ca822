------------------------------ MODULE Transcript ------------------------------
(***************************************************************************)
(* Operators on a conversation, a sequence of messages with a kind, the    *)
(* turn that wrote them and the iteration of that turn.                    *)
(***************************************************************************)
EXTENDS Integers, SequencesExt

\* The last n elements of a sequence, or all of them.
Suffix(seq, n) ==
  IF n >= Len(seq) THEN seq ELSE SubSeq(seq, Len(seq) - n + 1, Len(seq))

\* The sequence without the n elements that follow the first k.
Cut(seq, k, n) == SubSeq(seq, 1, k) \o SubSeq(seq, k + n + 1, Len(seq))

\* Tool results directly after tool calls answer those calls.
WellPaired(seq) ==
  \A i \in 2 .. Len(seq) :
    seq[i].kind = "results" /\ seq[i-1].kind = "calls" =>
      seq[i].turn = seq[i-1].turn /\ seq[i].iter = seq[i-1].iter

\* Between two messages of one turn there are only messages of that turn,
\* notifications and summaries.
Contiguous(seq) ==
  \A i, j, k \in 1 .. Len(seq) :
    /\ i < j /\ j < k
    /\ seq[i].turn = seq[k].turn
    /\ seq[i].kind \notin {"summary", "notify"} /\ seq[k].kind \notin {"summary", "notify"}
    => seq[j].turn = seq[i].turn \/ seq[j].kind \in {"summary", "notify"}

\* Only the first message can be a summary.
SummaryAtHead(seq) == \A i \in 1 .. Len(seq) : seq[i].kind = "summary" => i = 1
=============================================================================
