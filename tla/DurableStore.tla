--------------------------- MODULE DurableStore ---------------------------
(***************************************************************************)
(* What a server promises of the values it stores: writes, and crashes     *)
(* that take a key back to an older value, but never behind the value that *)
(* had become durable.                                                     *)
(***************************************************************************)
EXTENDS Naturals

CONSTANT Keys

VARIABLES store,    \* the value of a key: the number of the write that set it
          durable,  \* the value that is safe
          last      \* the number of the last write

vars == <<store, durable, last>>

Init ==
  /\ store = [k \in Keys |-> 0]
  /\ durable = [k \in Keys |-> 0]
  /\ last = 0

Write(k) ==
  /\ last' = last + 1
  /\ store' = [store EXCEPT ![k] = last + 1]
  /\ UNCHANGED durable

(* Values become durable; none is taken back.                              *)
Harden ==
  /\ \A k \in Keys : durable[k] <= durable'[k] /\ durable'[k] <= store[k]
  /\ UNCHANGED <<store, last>>

(* A crash: some values that were about to become durable still do.        *)
Lose ==
  /\ \A k \in Keys : /\ durable[k] <= durable'[k]
                     /\ durable'[k] <= store'[k]
                     /\ store'[k] <= store[k]
  /\ UNCHANGED last

Next == Harden \/ Lose \/ (\E k \in Keys : Write(k))

Spec == Init /\ [][Next]_vars
=============================================================================
