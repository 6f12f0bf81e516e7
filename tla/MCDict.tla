------------------------------- MODULE MCDict -----------------------------------
(* An instance of Dict for TLC. *)
EXTENDS DictScan

\* Four keys whose hashes collide in small tables and part in larger ones.
FourKeys == 1..4
FourHashes == <<0, 1, 3, 7>>

\* No property is about the answer of the last operation.
WithoutAnswer == <<dict, scanVars>>
=============================================================================
