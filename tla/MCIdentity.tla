------------------------------ MODULE MCIdentity ------------------------------
(* Small instances of Identity for TLC.                                        *)
EXTENDS Identity, TLC

CONSTANTS h1, h2, c1, r1, r2

IdsInOrder == (h1 :> 1) @@ (h2 :> 2)
SingleUse == [c \in Codes |-> 1]

RequestSymmetry == Permutations(Requests)
=============================================================================
