---------------------------- MODULE MCToolBatch ----------------------------
(* Finite instances of ToolBatch: a turn with two tool calls, the first of    *)
(* which may be a subagent with one tool of its own; and a turn with a        *)
(* subagent beside a background agent.                                        *)
EXTENDS ToolBatch, TLC

CONSTANTS c1, c2, c3, c4, turn, sub, spawn

MCCallsOf == (turn :> <<c1>>) @@ (sub :> <<c3>>) @@ (spawn :> <<c4>>)
MCHostOf  == (turn :> NoCall) @@ (sub :> c1) @@ (spawn :> NoCall)

PlainCallsOf == turn :> <<c1, c2>>
PlainHostOf  == turn :> NoCall
=============================================================================
