----------------------------- MODULE MCWebChat -----------------------------
(* A finite instance of WebChat. *)
EXTENDS WebChat
=============================================================================
