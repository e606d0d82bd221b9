------------------------------- MODULE MCHset -------------------------------
(***************************************************************************)
(* A small instance of Hset: three workers and one field.                  *)
(***************************************************************************)
EXTENDS Hset, TLC

CONSTANTS w1, w2, w3, f1

MCWorkers == {w1, w2, w3}
MCFields == {f1}
Symmetry == Permutations(MCWorkers)
=============================================================================
