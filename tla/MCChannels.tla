----------------------------- MODULE MCChannels -----------------------------
(* A finite instance of Channels, and SplitMessage on all short texts. *)
EXTENDS Channels

MCOrder == <<"m1", "m2">>

MCReplies == { [text |-> <<"a", NL, "lead", "cont">>,
                chunks |-> << <<"a", NL>>, <<"lead", "cont">> >>] }

Tokens == { Fence, <<NL>>, <<SP>>, <<"a">>, <<"lead", "cont">> }

\* SplitMessage does what it should for every text of at most four such
\* pieces and every limit up to six bytes.
ASSUME SplitChecked ==
  \A pieces \in SeqOf(Tokens, 4) \ {<<>>} : \A maxLen \in 1..6 :
    SplitCorrect(FlattenSeq(pieces), maxLen)
=============================================================================
