------------------------------ MODULE MCLibrary -----------------------------
(***************************************************************************)
(* The library code, one part of it per behaviour: Bytes objects, the dump *)
(* file, the checksum, or Connect objects.  The parts share no state.      *)
(***************************************************************************)
EXTENDS BytesUse, DumpFile, Crc, Connect, TLC

CONSTANTS x1, x2, k1, k2, k3, f1, f2, m1, n1, n2, d1, d2, d3

MCMessages == {[type |-> 1, body |-> <<>>], [type |-> 2, body |-> <<1, 0>>]}
MCBucket == [k \in Keys |-> 0]
MCBirths == {[create |-> 3, expire |-> 5]}
MCFirstBytes == 0..255
Symmetry ==
  UNION {Permutations(s) : s \in {Objects, Keys, Fields}}

VARIABLE part

vars == <<bvars, dvars, cvars, nvars, part>>

Init ==
  /\ part \in {"bytes", "dump", "crc", "connect"}
  /\ BInit /\ DInit /\ CInit /\ NInit

Next ==
  \/ part = "bytes" /\ BNext /\ UNCHANGED <<dvars, cvars, nvars, part>>
  \/ part = "dump" /\ DNext /\ UNCHANGED <<bvars, cvars, nvars, part>>
  \/ part = "crc" /\ CNext /\ UNCHANGED <<bvars, dvars, nvars, part>>
  \/ part = "connect" /\ NNext /\ UNCHANGED <<bvars, dvars, cvars, part>>

Spec == Init /\ [][Next]_vars

=============================================================================
