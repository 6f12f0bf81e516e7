------------------------------- MODULE MCServer -------------------------------
(* Small instances of the server for TLC.                                  *)
EXTENDS ServerProperties, TLC

Symmetry == Permutations(Clients)
TwoFds == {1, 2}
OneFd == {1}
=============================================================================
