------------------------------ MODULE MCMemory ------------------------------
(* A finite instance of Memory: one immutable and one other key, both seeded. *)
EXTENDS Memory, TLC

CONSTANTS id, fact, v1, v2

MCSeeds == (id :> v1) @@ (fact :> v1)

Symmetric == Permutations(Conversations) \union Permutations(Setters)
=============================================================================
