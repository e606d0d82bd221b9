------------------------------- MODULE Bytes -------------------------------
(***************************************************************************)
(* utils::Bytes and utils::Pack: a growing buffer with a read and a write  *)
(* position, and the packs that are put in it.                             *)
(*                                                                         *)
(* A byte is a digit of base Base, and a number of w bytes is its w digits *)
(* with the least significant first, as the memcpy and the cast in bytes.h *)
(* give on the machines the server is built for.  The lengths of the head  *)
(* of a pack are parameters: 4, 2 and 2 in protocol/message_type.h.        *)
(***************************************************************************)
EXTENDS Integers, Sequences, SequencesExt, FiniteSetsExt, Numerals

CONSTANTS Base,      \* the values of a byte
          SizeLen,   \* PACK_SIZE_LEN, also the width of uint32_t
          FlagLen,   \* PACK_FLAG_LEN
          TypeLen    \* PACK_MSG_TYPE_LEN

ASSUME BytesAssumption ==
  /\ Base \in Nat /\ Base > 1
  /\ {SizeLen, FlagLen, TypeLen} \subseteq Nat \ {0}

HeadLen == SizeLen + FlagLen + TypeLen       \* PACK_HEAD_LEN
Byte == 0..(Base - 1)
Wrap == Power(Base, SizeLen)                 \* 2^32

Digits(v, w) == DigitsOf(Base, v, w)
Number(s) == NumberOf(Base, s)
Zeros(w) == [i \in 1..w |-> 0]

NewBytes == [buf |-> <<>>, rpos |-> 0, wpos |-> 0]

Size(b) == Len(b.buf)

(* bytesRemaining: unsigned, so a read position behind the end gives a     *)
(* number close to 2^32.                                                   *)
Remaining(b) == (Size(b) - b.rpos) % Wrap

(* The memory after vector::resize to n bytes.                             *)
Resized(buf, n) == SubSeq(buf \o Zeros(n), 1, n)

(* The memory after memcpy of s to index at.                               *)
Copied(buf, at, s) ==
  [i \in 1..Len(buf) |-> IF i \in (at + 1)..(at + Len(s)) THEN s[i - at] ELSE buf[i]]

-----------------------------------------------------------------------------
(* Reading.  A read that does not fit gives 0; a relative one moves the    *)
(* read position all the same.                                             *)

ReadAt(b, at, w) == IF at + w <= Size(b) THEN SubSeq(b.buf, at + 1, at + w) ELSE Zeros(w)

Advanced(b, w) == [b EXCEPT !.rpos = @ + w]

Get(b, at, w) == Number(ReadAt(b, at, w))

-----------------------------------------------------------------------------
(* Writing.                                                                *)

(* Mutant of Put: the write position stays.                                *)
Put_NoAdvance(b, s) ==
  [b EXCEPT !.buf = Copied(IF Size(b) < b.wpos + Len(s)
                           THEN Resized(b.buf, b.wpos + Len(s)) ELSE b.buf, b.wpos, s)]

(* append<T>, put, putBytes: at the write position.                        *)
Put(b, s) ==
  LET grown == IF Size(b) < b.wpos + Len(s) THEN Resized(b.buf, b.wpos + Len(s)) ELSE b.buf
  IN  [b EXCEPT !.buf = Copied(grown, b.wpos, s), !.wpos = @ + Len(s)]

(* insert<T>: at an index; nothing happens if it does not fit.  The write  *)
(* position follows.                                                       *)
PutAt(b, s, at) ==
  IF at + Len(s) > Size(b) THEN b
  ELSE [b EXCEPT !.buf = Copied(@, at, s), !.wpos = at + Len(s)]

(* putBytes at an index does grow the buffer.                              *)
PutBytesAt(b, s, at) == Put([b EXCEPT !.wpos = at], s)

(* Mutant of PackOf: the type comes before the flag.                       *)
PackOf_TypeFirst(type, body) ==
  Digits(HeadLen + Len(body), SizeLen) \o Digits(type, TypeLen) \o Zeros(FlagLen) \o body

(* A pack as putMessage and Pack::serialize build it.                      *)
PackOf(type, body) ==
  Digits(HeadLen + Len(body), SizeLen) \o Zeros(FlagLen) \o Digits(type, TypeLen) \o body

PutMessage(b, type, body) == Put(b, PackOf(type, body))

(* Pack::deSerialize: the pack at the front, wherever the positions are.   *)
(* ParseFromArray gets as many bytes as the head says.                     *)
DeSerialize(b) ==
  LET n == (Get(b, 0, SizeLen) - HeadLen) % Wrap
  IN  [type |-> Get(b, SizeLen + FlagLen, TypeLen),
       body |-> SubSeq(b.buf, HeadLen + 1, HeadLen + n)]

-----------------------------------------------------------------------------
(* The whole buffer.                                                       *)

Resize(b, n) == [buf |-> Resized(b.buf, n), rpos |-> 0, wpos |-> 0]

(* replace of the first occurrence, or of all of them up to a 0.           *)
Replace(b, key, rep, start, first) ==
  LET stops == {i \in start..(Size(b) - 1) : key # 0 /\ b.buf[i + 1] = 0}
      hits == {i \in start..(Size(b) - 1) : b.buf[i + 1] = key /\ \A s \in stops : i < s}
      done == IF first /\ hits # {} THEN {Min(hits)} ELSE hits
  IN  [b EXCEPT !.buf = [i \in 1..Len(@) |-> IF i - 1 \in done THEN rep ELSE @[i]]]

(* clone: the contents, with both positions at the front.                  *)
Clone(b) == [buf |-> b.buf, rpos |-> 0, wpos |-> 0]

(* What a move leaves behind: no contents, but the positions.              *)
MovedFrom(b) == [b EXCEPT !.buf = <<>>]

=============================================================================
