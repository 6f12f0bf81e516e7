----------------------------- MODULE MCKeyspace -----------------------------
(* Instances of Keyspace for TLC. *)
EXTENDS Keyspace, TLC

CONSTANTS k1, k2, a

TwoKeys == {k1, k2}

OneElement == {a}

Symmetry == Permutations(TwoKeys)
=============================================================================
