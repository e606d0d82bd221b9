--------------------------- MODULE MCPersistence ---------------------------
(***************************************************************************)
(* Small instances of Persistence: two workers, each with a key of its own.*)
(***************************************************************************)
EXTENDS Persistence, TLC

CONSTANTS w1, w2, k1, k2

MCWorkers == {w1, w2}
MCKeys == {k1, k2}
MCKeysOf == (w1 :> {k1}) @@ (w2 :> {k2})
=============================================================================
