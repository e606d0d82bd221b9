--------------------------- MODULE MCReplicaSync ---------------------------
(***************************************************************************)
(* Small instances of ReplicaSync: a master with one worker that writes    *)
(* two keys, and one replica.  The packs have 2 and 4 bytes, one of them   *)
(* their length: the end of a read (3 bytes) or of a message (9) falls     *)
(* between two packs, in a length, in a body, or in a body with another    *)
(* read to come.                                                           *)
(***************************************************************************)
EXTENDS ReplicaSync, TLC

CONSTANTS w1, k1, k2

MCWorkers == {w1}
MCKeys == {k1, k2}
MCOneKey == {k1}
MCKeysOf == w1 :> Keys
MCPackLen == [c \in Cmd |-> 2 * c.n]
MCSymmetry == Permutations(MCKeys)
MCSlaveofOnce == {"NONE"}
MCSlaveofAny == {"NONE", "TRANSFOR", "CONNECTED"}
=============================================================================
