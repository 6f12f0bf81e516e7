------------------------------ MODULE ByteQueue ------------------------------
(***************************************************************************)
(* What a reply buffer promises: bytes leave in the order they came.  They *)
(* are numbered modulo Modulus as they come.                               *)
(***************************************************************************)
EXTENDS Integers, Sequences

CONSTANT Modulus

VARIABLES queue, next, out   \* bytes waiting; the next byte; the last write

Push == \E n \in 1..Modulus :
            /\ queue' = queue \o [i \in 1..n |-> (next + i - 1) % Modulus]
            /\ next' = (next + n) % Modulus
            /\ out' = <<>>

Pull == queue = out' \o queue' /\ next' = next

QueueSpec == /\ queue = <<>> /\ next = 0 /\ out = <<>>
             /\ [][Push \/ Pull]_<<queue, next, out>>
=============================================================================
