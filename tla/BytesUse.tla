------------------------------ MODULE BytesUse ------------------------------
(***************************************************************************)
(* Bytes objects in the hands of their users: every operation of           *)
(* utils/bytes.h on a few objects, in any order.  What a user may rely on  *)
(* is followed by two histories: the numbers that went through an object   *)
(* as through a queue, and the pack that was put at its front.             *)
(***************************************************************************)
EXTENDS Bytes, FiniteSets

CONSTANTS Objects,     \* the Bytes objects
          Numbers,     \* the numbers that are put, each in a byte or in SizeLen bytes
          Messages,    \* the messages that are put: records of a type and a body
          Positions,   \* the indices, sizes and read positions that are given
          Capacity,    \* bound: the size of an object
          MaxOps       \* bound: operations

ASSUME UseAssumption ==
  /\ Numbers \subseteq 0..(Wrap - 1)
  /\ Messages \subseteq [type : 0..(Power(Base, TypeLen) - 1), body : Seq(Byte)]
  /\ Capacity \in 0..(Wrap - 1) /\ Positions \subseteq 0..Capacity
  /\ MaxOps \in Nat

NoPack == [type |-> -1, body |-> <<>>]
Widths(v) == IF v < Base THEN {1, SizeLen} ELSE {SizeLen}

VARIABLES
  obj,    \* the objects
  put,    \* history: the numbers put since the object was emptied, with their widths
  got,    \* history: what the relative reads gave
  queue,  \* history: the object has been used as a queue since
  pack,   \* history: the message whose pack is at the front
  ops     \* operations so far

bvars == <<obj, put, got, queue, pack, ops>>

BInit ==
  /\ obj = [x \in Objects |-> NewBytes]
  /\ put = [x \in Objects |-> <<>>]
  /\ got = [x \in Objects |-> <<>>]
  /\ queue = [x \in Objects |-> TRUE]
  /\ pack = [x \in Objects |-> NoPack]
  /\ ops = 0

Busy == ops < MaxOps /\ ops' = ops + 1

(* The object has nothing put in it and nothing read from it.              *)
Fresh(x) ==
  /\ put' = [put EXCEPT ![x] = <<>>]
  /\ got' = [got EXCEPT ![x] = <<>>]
  /\ pack' = [pack EXCEPT ![x] = NoPack]

(* The pack at the front is out of the way of a write at the position at.  *)
Spared(x, at) == IF at >= HeadLen + Len(pack[x].body) THEN pack[x] ELSE NoPack

-----------------------------------------------------------------------------
(* putInt, putShort, putChar, put ... at the write position.               *)
PutNumber(x, v, w) ==
  /\ Busy
  /\ obj[x].wpos + w <= Capacity
  /\ obj' = [obj EXCEPT ![x] = Put(@, Digits(v, w))]
  /\ put' = [put EXCEPT ![x] = Append(@, [v |-> v, w |-> w])]
  /\ pack' = [pack EXCEPT ![x] = Spared(x, obj[x].wpos)]
  /\ UNCHANGED <<got, queue>>

(* getInt, getShort, getChar, get ... at the read position.  A user of a   *)
(* queue reads what was put, in the widths in which it was put; a read     *)
(* beyond it ends the use as a queue.                                      *)
GetNumber(x, w) ==
  LET next == Len(got[x]) + 1
  IN  /\ Busy
      /\ obj[x].rpos + w <= Capacity
      /\ obj' = [obj EXCEPT ![x] = Advanced(@, w)]
      /\ got' = [got EXCEPT ![x] = Append(@, Get(obj[x], obj[x].rpos, w))]
      /\ queue' = [queue EXCEPT ![x] = @ /\ next <= Len(put[x]) /\ put[x][next].w = w]
      /\ UNCHANGED <<put, pack>>

(* putInt, putShort ... at an index.                                       *)
PutNumberAt(x, v, w, at) ==
  /\ Busy
  /\ obj' = [obj EXCEPT ![x] = PutAt(@, Digits(v, w), at)]
  /\ queue' = [queue EXCEPT ![x] = @ /\ obj'[x] = obj[x]]
  /\ pack' = [pack EXCEPT ![x] = IF obj'[x] = obj[x] THEN @ ELSE Spared(x, at)]
  /\ UNCHANGED <<put, got>>

(* putBytes at an index.                                                   *)
PutArrayAt(x, s, at) ==
  /\ Busy
  /\ at + Len(s) <= Capacity
  /\ obj' = [obj EXCEPT ![x] = PutBytesAt(@, s, at)]
  /\ queue' = [queue EXCEPT ![x] = FALSE]
  /\ pack' = [pack EXCEPT ![x] = Spared(x, at)]
  /\ UNCHANGED <<put, got>>

(* putMessage, Pack::serialize.                                            *)
PutPack(x, m) ==
  /\ Busy
  /\ obj[x].wpos + HeadLen + Len(m.body) <= Capacity
  /\ obj' = [obj EXCEPT ![x] = PutMessage(@, m.type, m.body)]
  /\ queue' = [queue EXCEPT ![x] = FALSE]
  /\ pack' = [pack EXCEPT ![x] = IF obj[x].wpos = 0 THEN m ELSE Spared(x, obj[x].wpos)]
  /\ UNCHANGED <<put, got>>

(* put(Bytes&): all of another object, whatever has been read of it.       *)
PutAll(x, y) ==
  /\ Busy
  /\ x # y
  /\ obj[x].wpos + Size(obj[y]) <= Capacity
  /\ obj' = [obj EXCEPT ![x] = Put(@, obj[y].buf)]
  /\ IF obj[y].buf = FlattenSeq([i \in 1..Len(put[y]) |-> Digits(put[y][i].v, put[y][i].w)])
       THEN put' = [put EXCEPT ![x] = @ \o put[y]] /\ UNCHANGED queue
       ELSE queue' = [queue EXCEPT ![x] = FALSE] /\ UNCHANGED put
  /\ pack' = [pack EXCEPT ![x] = IF obj[x].wpos = 0 THEN pack[y]
                                 ELSE Spared(x, obj[x].wpos)]
  /\ UNCHANGED got

Clear(x) ==
  /\ Busy
  /\ obj' = [obj EXCEPT ![x] = NewBytes]
  /\ Fresh(x)
  /\ queue' = [queue EXCEPT ![x] = TRUE]

(* resize keeps the old bytes, but both positions are at the front.        *)
ResizeTo(x, n) ==
  /\ Busy
  /\ obj' = [obj EXCEPT ![x] = Resize(@, n)]
  /\ Fresh(x)
  /\ queue' = [queue EXCEPT ![x] = TRUE]

(* y becomes a clone of x: its numbers can be read from the first one on.  *)
CloneTo(x, y) ==
  /\ Busy
  /\ x # y
  /\ obj' = [obj EXCEPT ![y] = Clone(obj[x])]
  /\ put' = [put EXCEPT ![y] = <<>>]
  /\ got' = [got EXCEPT ![y] = <<>>]
  /\ queue' = [queue EXCEPT ![y] = TRUE]
  /\ pack' = [pack EXCEPT ![y] = pack[x]]

(* y takes the contents of x.  x keeps its positions: it can be used as a  *)
(* queue again if all of it had been read.                                 *)
MoveTo(x, y) ==
  /\ Busy
  /\ x # y
  /\ obj' = [obj EXCEPT ![y] = obj[x], ![x] = MovedFrom(@)]
  /\ put' = [put EXCEPT ![y] = put[x], ![x] = <<>>]
  /\ got' = [got EXCEPT ![y] = got[x], ![x] = <<>>]
  /\ queue' = [queue EXCEPT ![y] = queue[x], ![x] = obj[x].rpos = obj[x].wpos]
  /\ pack' = [pack EXCEPT ![y] = pack[x], ![x] = NoPack]

(* replace.                                                                *)
ReplaceIn(x, key, rep, first) ==
  /\ Busy
  /\ obj' = [obj EXCEPT ![x] = Replace(@, key, rep, 0, first)]
  /\ queue' = [queue EXCEPT ![x] = @ /\ obj'[x] = obj[x]]
  /\ pack' = [pack EXCEPT ![x] = IF obj'[x] = obj[x] THEN @ ELSE NoPack]
  /\ UNCHANGED <<put, got>>

(* reset and setReadPos.                                                   *)
SetReadPos(x, at) ==
  /\ Busy
  /\ obj' = [obj EXCEPT ![x].rpos = at]
  /\ queue' = [queue EXCEPT ![x] = @ /\ at = obj[x].rpos]
  /\ UNCHANGED <<put, got, pack>>

BNext ==
  \E x \in Objects :
    \/ \E v \in Numbers : \E w \in Widths(v) :
         \/ PutNumber(x, v, w)
         \/ \E at \in Positions : PutNumberAt(x, v, w, at)
    \/ \E w \in {1, SizeLen} : GetNumber(x, w)
    \/ \E m \in Messages :
         \/ PutPack(x, m)
         \/ \E at \in Positions : PutArrayAt(x, m.body, at)
    \/ Clear(x)
    \/ \E n \in Positions : ResizeTo(x, n) \/ SetReadPos(x, n)
    \/ \E y \in Objects : PutAll(x, y) \/ CloneTo(x, y) \/ MoveTo(x, y)
    \/ \E key, rep \in {0} \cup (Numbers \cap Byte), first \in BOOLEAN : ReplaceIn(x, key, rep, first)

BSpec == BInit /\ [][BNext]_bvars

-----------------------------------------------------------------------------
(* Every variable has its type; no object outgrows the bound.              *)
BytesTypeOK ==
  /\ \A x \in Objects :
       /\ obj[x].buf \in Seq(Byte) /\ Size(obj[x]) <= Capacity
       /\ obj[x].rpos \in 0..Capacity /\ obj[x].wpos \in 0..Capacity
       /\ \A i \in 1..Len(put[x]) : put[x][i].v \in Numbers /\ put[x][i].w \in {1, SizeLen}
       /\ got[x] \in Seq(0..(Wrap - 1))
       /\ pack[x] \in Messages \cup {NoPack}
  /\ queue \in [Objects -> BOOLEAN]
  /\ ops \in 0..MaxOps

(* Relative reads give the numbers that relative writes put, in order and  *)
(* whatever their widths, also in an object that was resized over old      *)
(* bytes, was appended whole to another, was moved, or was moved from when *)
(* all of it had been read (bytes.h, append and read).                     *)
FirstInFirstOut ==
  \A x \in Objects : queue[x] => \A i \in 1..Len(got[x]) : got[x][i] = put[x][i].v

(* A pack at the front is found by Pack::deSerialize whatever has been     *)
(* read, whatever follows it, and whatever bytes the object held before    *)
(* (bytes.cpp putMessage, pack.cpp deSerialize).                           *)
PackAtFront ==
  \A x \in Objects : pack[x] # NoPack => DeSerialize(obj[x]) = pack[x]

=============================================================================
