------------------------------- MODULE MCAof -------------------------------
(* Instances of Aof for TLC. *)
EXTENDS AofProperties, TLC

\* Commands of two sizes; the third does not fit a queue that holds another.
Sizes == 1 :> 1 @@ 2 :> 2 @@ 3 :> 1

\* Two snapshot blocks, the second larger than the whole snapshot queue.
Snapshot == <<1, 3>>
=============================================================================
