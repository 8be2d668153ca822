---------------------------- MODULE MCChatStream ----------------------------
(* A finite instance of ChatStream. *)
EXTENDS ChatStream

T(n) == [call |-> FALSE, name |-> "", frags |-> n]
C(name, n) == [call |-> TRUE, name |-> name, frags |-> n]

\* A text, a text before a call, two calls that can interleave (of one tool,
\* of two tools), a call without arguments.
MCAnswers == { <<T(2)>>, <<T(1), C("shell", 2)>>, <<C("shell", 1), C("shell", 1)>>,
               <<C("shell", 0), C("http", 2)>> }
=============================================================================
