----------------------------- MODULE MCBrowser -----------------------------
(* A finite instance of Browser; calls and sessions are interchangeable. *)
EXTENDS Browser, TLC

Symmetric == Permutations(Sessions) \union Permutations(Calls)
=============================================================================
