-------------------------- MODULE MCConnectionPool --------------------------
(***************************************************************************)
(* A small instance of ConnectionPool: four threads, two connections.      *)
(***************************************************************************)
EXTENDS ConnectionPool, TLC

CONSTANTS c1, c2, c3, c4

MCClients == {c1, c2, c3, c4}
MCSymmetry == Permutations(MCClients)
=============================================================================
