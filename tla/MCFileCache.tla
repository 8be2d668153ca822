---------------------------- MODULE MCFileCache ----------------------------
(* A finite instance of FileCache: two files and room for one of them. *)
EXTENDS FileCache

CONSTANTS p1, p2, r1, w1
=============================================================================
