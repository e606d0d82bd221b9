------------------------- MODULE ReplicaSyncProofs -------------------------
(***************************************************************************)
(* Proofs about ReplicaSync, for every number of workers, keys, commands,  *)
(* crashes and faults, every length of packs and reads, and every number   *)
(* of reads to a message.                                                  *)
(*                                                                         *)
(* Once the sender has gone on behind packs it had not sent, only types    *)
(* and places are kept; what follows holds until then, and never ends for  *)
(* files no longer than one read (the last theorem).                       *)
(*                                                                         *)
(* That a replica has what lies before the place it reports is not         *)
(* inductive: it rests on what the link carries, which is the master's log *)
(* from the place of the replica to that of the sender, piece by piece,    *)
(* and on the dump that a transfer brings.  The master keeps the invariant *)
(* of Persistence, as every step here is one of its steps or leaves it     *)
(* alone.                                                                  *)
(***************************************************************************)
EXTENDS ReplicaSync, PersistenceProofs

(* A place on the link: inside a pack only behind packs not sent.          *)
PackParts == IF strayed THEN Nat ELSE {0}
LinkPlace == [name : 0..Len(aof), off : Nat, part : PackParts]

Replicas ==
  [run : {"up", "down", "aborted"}, state : States, reads : {"none", "sync", "bulk", "incr"},
   pos : LinkPlace, cached : LinkPlace, known : BOOLEAN, mem : Data, backlog : Seq(Cmd),
   file : [cached : LinkPlace, known : BOOLEAN], dump : Data, log : Seq(Cmd)]
Messages == [type : {"bulk", "aof"}, cmds : Seq(Cmd), dump : Data, pos : LinkPlace]
Outs == [mode : {"idle", "bulk", "incr", "undefined"}, pos : LinkPlace, dump : Data]

ReplicaTypes ==
  /\ replica \in Replicas
  /\ link \in BOOLEAN
  /\ chan \in Seq(Messages)
  /\ out \in Outs
  /\ faults \in 0..MaxFaults
  /\ scrashes \in 0..MaxSlaveCrashes
  /\ cut \in BOOLEAN
  /\ strayed \in BOOLEAN

-----------------------------------------------------------------------------
(* Places in the files, and what lies between them.                        *)
NotAfter(c, d) == c.name < d.name \/ (c.name = d.name /\ c.off <= d.off)

Adjacent(files, a, b) ==
  /\ NotAfter(a, b)
  /\ \A f \in 1..Len(files) : \A i \in 1..Len(files[f]) : Before(f, i, b) => Before(f, i, a)

At(g, o) == [name |-> g, off |-> o, part |-> 0]

(* s is what lies between the places a and b, in order: a part of one      *)
(* file, with nothing between it and either place.                         *)
PieceAt(files, s, a, b, g, o) ==
  /\ Adjacent(files, a, At(g, o))
  /\ o + Len(s) <= Len(files[g])
  /\ \A j \in 1..Len(s) : s[j] = files[g][o + j]
  /\ Adjacent(files, At(g, o + Len(s)), b)
Piece(files, s, a, b) ==
  \E g \in 1..Len(files) : \E o \in 0..Len(files[g]) : PieceAt(files, s, a, b, g, o)

-----------------------------------------------------------------------------
(* The inductive invariant, part by part.                                  *)

Inside ==
  /\ IsPlace(aof, replica.pos) /\ IsPlace(aof, replica.cached)
  /\ IsPlace(aof, replica.file.cached) /\ IsPlace(aof, out.pos)
  /\ \A i \in 1..Len(chan) : IsPlace(aof, chan[i].pos)
  /\ out.mode # "idle" => out.pos.name > 0

(* The handlers agree with the link: nothing is on a link that is lost or  *)
(* has not been synchronised, and the sender is in the phase that the      *)
(* replica's read handler expects.                                         *)
Handlers ==
  /\ ~link => chan = <<>> /\ out = Idle
  /\ replica.run # "up" => ~link
  /\ link => replica.reads # "none"
  /\ replica.reads = "sync" => chan = <<>> /\ out = Idle
  /\ link /\ replica.reads = "incr" => out.mode = "incr"
  /\ replica.state = "TRANSFOR" => replica.reads = "bulk"
  /\ replica.run = "down" => scrashes > 0 /\ replica.reads = "none"

(* The cached place is never ahead of the place on a link in use.          *)
CachedBehind ==
  /\ replica.reads = "bulk" => replica.cached = replica.pos
  /\ replica.reads = "incr" => NotAfter(replica.cached, replica.pos)

(* The place in front of message i, and behind all messages.               *)
Prev(i) == IF i = 1 THEN replica.pos ELSE chan[i - 1].pos

(* The messages are the log from the place of the replica to that of the   *)
(* sender, piece by piece (onSendIncrToSlave, CommandAof).                 *)
CarriesLog ==
  /\ \A i \in 1..Len(chan) : Piece(aof, chan[i].cmds, Prev(i), chan[i].pos)
  /\ out.mode = "incr" => Adjacent(aof, Prev(Len(chan) + 1), out.pos)

(* A dump on its way holds what lies before the place it was promised for. *)
CarriesDump ==
  link /\ replica.reads = "bulk" =>
    \/ /\ out.mode = "bulk" /\ chan = <<>> /\ out.pos = replica.pos
       /\ HoldsBefore(aof, out.dump, replica.pos)
    \/ /\ out.mode = "incr" /\ chan # <<>> /\ chan[1].pos = replica.pos
       /\ HoldsBefore(aof, chan[1].dump, replica.pos)

HasAll ==
  Intact /\ Running /\ ~Transferring =>
    HoldsBefore(aof, replica.mem, replica.pos) /\ HoldsBefore(aof, replica.mem, replica.cached)

Linked == Handlers /\ CachedBehind /\ CarriesLog /\ CarriesDump
Placed == IInv /\ ReplicaTypes /\ Inside
RInv == ~strayed /\ Placed /\ Linked /\ HasAll
SInv == Placed /\ (~strayed => Linked /\ HasAll)

-----------------------------------------------------------------------------
(* What Apply does to a key, and that what was applied holds the piece.    *)
LastOf(s, k, j) == s[j].key = k /\ \A i \in 1..Len(s) : s[i].key = k => i <= j
NoneOf(s, k) == \A j \in 1..Len(s) : s[j].key # k
Applied(d, s, k) ==
  \/ Apply(d, s)[k] = d[k] /\ NoneOf(s, k)
  \/ \E j \in 1..Len(s) : LastOf(s, k, j) /\ Apply(d, s)[k] = s[j].n

LEMMA ApplyIs ==
  ASSUME NEW d \in Data, NEW s \in Seq(Cmd), NEW k \in Keys
  PROVE  Apply(d, s)[k] \in 0..MaxCmds /\ Applied(d, s, k)
<1> DEFINE js == {j \in 1..Len(s) : s[j].key = k}
<1>1. Apply(d, s)[k] = IF js = {} THEN d[k] ELSE s[Max(js)].n
  BY DEF Apply
<1>2. CASE js = {}
  BY <1>1, <1>2 DEF Data, Applied, NoneOf
<1>3. CASE js # {}
  <2>1. Len(s) \in Nat /\ js \in SUBSET (0..Len(s))
    OBVIOUS
  <2> DEFINE m == Max(js)
  <2>2. m \in js /\ \A y \in js : y <= m
    <3> HIDE DEF js
    <3> QED
      BY <1>3, <2>1, MaxOf
  <2>3. m \in 1..Len(s) /\ s[m].key = k /\ \A i \in 1..Len(s) : s[i].key = k => i <= m
    BY <2>2
  <2>4. Apply(d, s)[k] = s[m].n
    BY <1>1, <1>3
  <2> HIDE DEF m
  <2>5. s[m] \in Cmd
    BY <2>3
  <2>6. s[m].n \in 0..MaxCmds
    BY <2>5, BoundAssumption DEF Cmd
  <2> QED
    BY <2>3, <2>4, <2>6 DEF Applied, LastOf
<1> QED
  BY <1>2, <1>3

LEMMA ApplyType ==
  ASSUME NEW d \in Data, NEW s \in Seq(Cmd)
  PROVE  Apply(d, s) \in Data
<1>1. \A k \in Keys : Apply(d, s)[k] \in 0..MaxCmds
  BY ApplyIs
<1> QED
  BY <1>1 DEF Apply, Data

LEMMA ApplyHolds ==
  ASSUME TypeOK, LogOrdered, NEW d \in Data, NEW s \in Seq(Cmd),
         NEW a \in LinkPlace, NEW b \in LinkPlace,
         Piece(aof, s, a, b), HoldsBefore(aof, d, a)
  PROVE  HoldsBefore(aof, Apply(d, s), b)
<1>1. PICK g \in 1..Len(aof) : \E o \in 0..Len(aof[g]) : PieceAt(aof, s, a, b, g, o)
  BY DEF Piece
<1>2. PICK o \in 0..Len(aof[g]) : PieceAt(aof, s, a, b, g, o)
  BY <1>1
<1> SUFFICES ASSUME NEW f \in 1..Len(aof), NEW i \in 1..Len(aof[f]), Before(f, i, b)
             PROVE  aof[f][i].n <= Apply(d, s)[aof[f][i].key]
  BY DEF HoldsBefore
<1> DEFINE k == aof[f][i].key
<1>3. k \in Keys /\ aof[f][i].n \in Nat /\ Len(aof) \in Nat /\ Len(aof[f]) \in Nat
      /\ Len(aof[g]) \in Nat /\ Len(s) \in Nat
  <2>1. Len(aof) \in Nat /\ Len(aof[f]) \in Nat /\ Len(aof[g]) \in Nat
    BY CmdTypes
  <2>2. k \in Keys /\ aof[f][i].n \in Nat
    BY CmdTypes
  <2>3. Len(s) \in Nat
    OBVIOUS
  <2> QED
    BY <2>1, <2>2, <2>3
<1>4. /\ Before(f, i, At(g, o)) => Before(f, i, a)
      /\ Before(f, i, At(g, o + Len(s)))
  BY <1>2 DEF PieceAt, Adjacent
<1>5. /\ Before(f, i, At(g, o)) <=> f < g \/ (f = g /\ i <= o)
      /\ f < g \/ (f = g /\ i <= o + Len(s))
  BY <1>4 DEF Before, At
<1>6. ASSUME f = g, i > o
      PROVE  i - o \in 1..Len(s) /\ s[i - o] = aof[f][i]
  <2>1. i - o \in 1..Len(s) /\ o + (i - o) = i
    BY <1>3, <1>5, <1>6
  <2> QED
    BY <1>2, <1>6, <2>1 DEF PieceAt
<1>7. ASSUME Apply(d, s)[k] = d[k], NoneOf(s, k)
      PROVE  aof[f][i].n <= Apply(d, s)[k]
  <2>1. ~(f = g /\ i > o)
    BY <1>6, <1>7 DEF NoneOf
  <2>2. Before(f, i, a)
    BY <1>3, <1>4, <1>5, <2>1
  <2> QED
    BY <1>7, <2>2 DEF HoldsBefore
<1>8. ASSUME NEW j \in 1..Len(s), LastOf(s, k, j), Apply(d, s)[k] = s[j].n
      PROVE  aof[f][i].n <= Apply(d, s)[k]
  <2>1. o + j \in 1..Len(aof[g]) /\ s[j] = aof[g][o + j]
    BY <1>2, <1>3 DEF PieceAt
  <2>2. CASE f = g /\ i > o
    <3>1. i - o \in 1..Len(s) /\ s[i - o] = aof[f][i] /\ i - o <= j
      BY <1>6, <1>8, <2>2 DEF LastOf
    <3>2. CASE i = o + j
      BY <1>3, <1>8, <2>1, <2>2, <3>2
    <3>3. CASE i # o + j
      <4>1. i < o + j
        BY <1>3, <1>8, <3>1, <3>3
      <4> QED
        BY <1>8, <2>1, <2>2, <4>1 DEF LastOf, LogOrdered, OrderedFiles
    <3> QED
      BY <3>2, <3>3
  <2>3. CASE ~(f = g /\ i > o)
    <3>1. f < g \/ (f = g /\ i < o + j)
      BY <1>3, <1>5, <2>3
    <3> QED
      BY <1>8, <2>1, <3>1 DEF LastOf, LogOrdered, OrderedFiles
  <2> QED
    BY <2>2, <2>3
<1>9. Applied(d, s, k)
  BY <1>3, ApplyIs
<1> HIDE DEF k
<1>10. aof[f][i].n <= Apply(d, s)[k]
  BY <1>7, <1>8, <1>9 DEF Applied
<1> QED
  BY <1>10 DEF k

(* A place that is not after another one has less before it.               *)
LEMMA HoldsLess ==
  ASSUME TypeOK, NEW d, NEW a \in LinkPlace, NEW b \in LinkPlace, NotAfter(a, b), HoldsBefore(aof, d, b)
  PROVE  HoldsBefore(aof, d, a)
<1>1. \A f \in 1..Len(aof) : \A i \in 1..Len(aof[f]) : Before(f, i, a) => Before(f, i, b)
  <2>1. a.name \in Nat /\ b.name \in Nat /\ a.off \in Nat /\ b.off \in Nat
    BY DEF LinkPlace
  <2> QED
    BY <2>1, CmdTypes DEF Before, NotAfter
<1> QED
  BY <1>1 DEF HoldsBefore

-----------------------------------------------------------------------------
(* The files only grow, and what has been said about places stays.         *)
LEMMA StepGrows ==
  ASSUME TypeOK, [Next]_vars
  PROVE  \E b \in Seq(Cmd) : \E o \in Nat : Grows(aof', b, o)
<1> USE DEF disk
<1>1. /\ <<>> \in Seq(Cmd) /\ 0 \in Nat /\ backlog \in Seq(Cmd)
      /\ aof \in Seq(Seq(Cmd)) /\ Len(aof) \in Nat
  BY DEF TypeOK
<1>2. CASE UNCHANGED aof
  <2>1. Grows(aof', <<>>, 0)
    BY <1>1, <1>2 DEF Grows
  <2> QED
    BY <1>1, <2>1
<1>3. CASE Flush
  BY <1>1, <1>3, WriteGrows DEF Flush
<1>4. CASE CrashInFlush
  <2>1. PICK i \in 1..Len(backlog) : aof' = Write(aof, SubSeq(backlog, 1, i))
    BY <1>4 DEF CrashInFlush
  <2>2. SubSeq(backlog, 1, i) \in Seq(Cmd)
    BY <1>1
  <2> QED
    BY <2>1, <2>2, WriteGrows
<1>5. CASE Restart
  <2>1. Grows(aof', <<>>, 0)
    BY <1>5, NewFileGrows DEF Restart
  <2> QED
    BY <1>1, <2>1
<1>6. CASE \E w \in Workers : Feed(w) \/ \E k \in KeysOf[w] : Exec(w, k)
  BY <1>2, <1>6 DEF Feed, Exec
<1>7. CASE ConfFlush \/ Bgsave \/ BgsaveFinish \/ Crash \/ Stop
  BY <1>2, <1>7 DEF ConfFlush, Bgsave, BgsaveFinish, Crash, Stop
<1>8. CASE UNCHANGED vars
  BY <1>2, <1>8 DEF vars
<1> QED
  BY <1>3, <1>4, <1>5, <1>6, <1>7, <1>8 DEF Next

LEMMA GrowsBefore ==
  ASSUME TypeOK, NEW new, NEW b \in Seq(Cmd), NEW o \in Nat, Grows(new, b, o),
         NEW c \in LinkPlace, IsPlace(aof, c),
         NEW f \in 1..Len(new), NEW i \in 1..Len(new[f]), Before(f, i, c)
  PROVE  f \in 1..Len(aof) /\ i \in 1..Len(aof[f])
<1>1. /\ Len(aof) \in Nat /\ Len(new) \in Nat /\ Len(aof) <= Len(new)
      /\ c.name \in 0..Len(aof) /\ c.off \in Nat
  BY GrowsTypes DEF LinkPlace
<1>2. \A g \in 1..Len(aof) : Len(aof[g]) \in Nat
  BY CmdTypes
<1>3. f \in 1..Len(aof)
  BY <1>1 DEF Before
<1>4. CASE f < c.name
  <2>1. f # Len(new)
    BY <1>1, <1>4
  <2> QED
    BY <1>3, <2>1 DEF Grows
<1>5. CASE f = c.name /\ i <= c.off
  BY <1>1, <1>2, <1>3, <1>5 DEF IsPlace
<1> QED
  BY <1>4, <1>5 DEF Before

LEMMA GrowsAdjacent ==
  ASSUME TypeOK, NEW new, NEW b \in Seq(Cmd), NEW o \in Nat, Grows(new, b, o),
         NEW c, NEW d \in LinkPlace, IsPlace(aof, d), Adjacent(aof, c, d)
  PROVE  Adjacent(new, c, d)
<1> SUFFICES ASSUME NEW f \in 1..Len(new), NEW i \in 1..Len(new[f]), Before(f, i, d)
             PROVE  Before(f, i, c)
  BY DEF Adjacent
<1>1. f \in 1..Len(aof) /\ i \in 1..Len(aof[f])
  BY GrowsBefore
<1> QED
  BY <1>1 DEF Adjacent

LEMMA GrowsPiece ==
  ASSUME TypeOK, NEW new, NEW b \in Seq(Cmd), NEW o \in Nat, Grows(new, b, o),
         NEW s \in Seq(Cmd), NEW c, NEW d \in LinkPlace, IsPlace(aof, d), Piece(aof, s, c, d)
  PROVE  Piece(new, s, c, d)
<1>1. PICK g \in 1..Len(aof) : \E p \in 0..Len(aof[g]) : PieceAt(aof, s, c, d, g, p)
  BY DEF Piece
<1>2. PICK p \in 0..Len(aof[g]) : PieceAt(aof, s, c, d, g, p)
  BY <1>1
<1>3. /\ Len(aof) \in Nat /\ Len(new) \in Nat /\ Len(aof[g]) \in Nat /\ Len(s) \in Nat
      /\ g \in 1..Len(new) /\ Len(new[g]) \in Nat
  BY GrowsTypes
<1>4. At(g, p) \in LinkPlace /\ IsPlace(aof, At(g, p))
  BY <1>3 DEF At, LinkPlace, PackParts, IsPlace
<1>5. Adjacent(new, c, At(g, p)) /\ Adjacent(new, At(g, p + Len(s)), d)
  BY <1>2, <1>4, GrowsAdjacent DEF PieceAt
<1>6. Len(aof[g]) <= Len(new[g])
  BY GrowsTypes
<1>7. \A j \in 1..Len(s) : s[j] = new[g][p + j]
  <2> SUFFICES ASSUME NEW j \in 1..Len(s) PROVE s[j] = new[g][p + j]
    OBVIOUS
  <2>1. p + j \in 1..Len(aof[g]) /\ s[j] = aof[g][p + j]
    BY <1>2, <1>3 DEF PieceAt
  <2> QED
    BY <2>1 DEF Grows
<1>8. PieceAt(new, s, c, d, g, p) /\ p \in 0..Len(new[g])
  BY <1>2, <1>3, <1>5, <1>6, <1>7 DEF PieceAt
<1> QED
  BY <1>3, <1>8 DEF Piece

-----------------------------------------------------------------------------
(* Facts that many steps use.                                              *)
LEMMA StartFacts ==
  ASSUME TypeOK
  PROVE  /\ Unset \in LinkPlace /\ Empty \in Data /\ Idle \in Outs /\ Idle.pos = Unset
         /\ Idle.mode = "idle" /\ Unset.name = 0
         /\ IsPlace(aof, Unset) /\ \A d : HoldsBefore(aof, d, Unset)
<1>1. Len(aof) \in Nat \ {0}
  BY CmdTypes
<1>2. Unset \in LinkPlace /\ Empty \in Data
  BY <1>1, BoundAssumption DEF Unset, Boundary, Start, LinkPlace, PackParts, Empty, Data
<1>3. Idle \in Outs /\ Idle.pos = Unset /\ Idle.mode = "idle" /\ Unset.name = 0
  BY <1>2 DEF Idle, Outs, Unset, Boundary, Start
<1>4. IsPlace(aof, Unset) /\ \A d : HoldsBefore(aof, d, Unset)
  BY <1>1, <1>3 DEF IsPlace, HoldsBefore, Before
<1> QED
  BY <1>2, <1>3, <1>4

LEMMA ReplicaFields ==
  ASSUME NEW r \in Replicas
  PROVE  /\ r.run \in {"up", "down", "aborted"} /\ r.state \in States
         /\ r.reads \in {"none", "sync", "bulk", "incr"}
         /\ r.pos \in LinkPlace /\ r.cached \in LinkPlace /\ r.known \in BOOLEAN
         /\ r.mem \in Data /\ r.backlog \in Seq(Cmd)
         /\ r.file \in [cached : LinkPlace, known : BOOLEAN]
         /\ r.file.cached \in LinkPlace /\ r.file.known \in BOOLEAN
         /\ r.dump \in Data /\ r.log \in Seq(Cmd)
  BY DEF Replicas

LEMMA MessageFields ==
  ASSUME chan \in Seq(Messages)
  PROVE  /\ Len(chan) \in Nat
         /\ \A i \in 1..Len(chan) :
              /\ chan[i] \in Messages /\ chan[i].cmds \in Seq(Cmd)
              /\ chan[i].dump \in Data /\ chan[i].pos \in LinkPlace
<1>1. \A m \in Messages : m.cmds \in Seq(Cmd) /\ m.dump \in Data /\ m.pos \in LinkPlace
  BY DEF Messages
<1>2. Len(chan) \in Nat /\ \A i \in 1..Len(chan) : chan[i] \in Messages
  OBVIOUS
<1> QED
  BY <1>1, <1>2

(* Places are nonnegative.                                                 *)
LEMMA PlaceFields ==
  ASSUME NEW c \in LinkPlace
  PROVE  c.name \in Int /\ c.off \in Nat /\ NotAfter(c, c)
  BY DEF LinkPlace, NotAfter

(* The place of a boundary, as Persistence has it.                         *)
LEMMA PlaceOf ==
  ASSUME NEW c \in LinkPlace
  PROVE  \E e \in Place :
           /\ \A files : IsPlace(files, c) <=> IsPlace(files, e)
           /\ \A files : \A d : HoldsBefore(files, d, c) <=> HoldsBefore(files, d, e)
<1> DEFINE e == [name |-> c.name, off |-> c.off]
<1>1. e \in Place /\ e.name = c.name /\ e.off = c.off
  BY DEF LinkPlace, Place
<1> HIDE DEF e
<1>2. /\ \A files : IsPlace(files, c) <=> IsPlace(files, e)
      /\ \A files : \A d : HoldsBefore(files, d, c) <=> HoldsBefore(files, d, e)
  BY <1>1 DEF IsPlace, HoldsBefore, Before
<1> QED
  BY <1>1, <1>2

-----------------------------------------------------------------------------
(* The master's files grow: places and types stay.                         *)
LEMMA PlacesStay ==
  ASSUME TypeOK, [Next]_vars, strayed => strayed'
  PROVE  /\ \A c \in LinkPlace : c \in LinkPlace'
         /\ \A c \in LinkPlace : IsPlace(aof, c) =>
              IsPlace(aof', c) /\ \A d : HoldsBefore(aof, d, c) => HoldsBefore(aof', d, c)
         /\ \A c, d \in LinkPlace : IsPlace(aof, d) /\ Adjacent(aof, c, d) => Adjacent(aof', c, d)
         /\ \A s \in Seq(Cmd) : \A c, d \in LinkPlace :
              IsPlace(aof, d) /\ Piece(aof, s, c, d) => Piece(aof', s, c, d)
<1>1. PICK b \in Seq(Cmd) : \E o \in Nat : Grows(aof', b, o)
  BY StepGrows
<1>2. PICK o \in Nat : Grows(aof', b, o)
  BY <1>1
<1>3. Len(aof) \in Nat /\ Len(aof') \in Nat /\ Len(aof) <= Len(aof')
  BY <1>2, GrowsTypes
<1>4. \A c \in LinkPlace : c \in LinkPlace'
  BY <1>3 DEF LinkPlace, PackParts
<1>5. ASSUME NEW c \in LinkPlace, IsPlace(aof, c)
      PROVE  IsPlace(aof', c) /\ \A d : HoldsBefore(aof, d, c) => HoldsBefore(aof', d, c)
  <2>1. PICK e \in Place :
          /\ \A files : IsPlace(files, c) <=> IsPlace(files, e)
          /\ \A files : \A d : HoldsBefore(files, d, c) <=> HoldsBefore(files, d, e)
    BY PlaceOf
  <2>2. IsPlace(aof', e) /\ \A d : HoldsBefore(aof, d, e) => HoldsBefore(aof', d, e)
    BY <1>2, <1>5, <2>1, GrowsKeeps
  <2> QED
    BY <2>1, <2>2
<1>6. \A c, d \in LinkPlace : IsPlace(aof, d) /\ Adjacent(aof, c, d) => Adjacent(aof', c, d)
  BY <1>2, GrowsAdjacent
<1>7. \A s \in Seq(Cmd) : \A c, d \in LinkPlace :
        IsPlace(aof, d) /\ Piece(aof, s, c, d) => Piece(aof', s, c, d)
  BY <1>2, GrowsPiece
<1> QED
  BY <1>4, <1>5, <1>6, <1>7

LEMMA TypesStay ==
  ASSUME TypeOK, [Next]_vars, strayed => strayed'
  PROVE  /\ \A r \in Replicas : r \in Replicas'
         /\ \A s \in Seq(Messages) : s \in Seq(Messages')
         /\ \A x \in Outs : x \in Outs'
<1>1. \A c \in LinkPlace : c \in LinkPlace'
  BY PlacesStay
<1>2. \A r \in Replicas : r \in Replicas'
  BY <1>1 DEF Replicas
<1>3. \A m \in Messages : m \in Messages'
  BY <1>1 DEF Messages
<1>4. \A s \in Seq(Messages) : s \in Seq(Messages')
  <2> DEFINE M == Messages
             N == Messages'
  <2>1. \A m \in M : m \in N
    BY <1>3
  <2> HIDE DEF M, N
  <2>2. \A s \in Seq(M) : s \in Seq(N)
    BY <2>1
  <2> QED
    BY <2>2 DEF M, N
<1>5. \A x \in Outs : x \in Outs'
  BY <1>1 DEF Outs
<1> QED
  BY <1>2, <1>4, <1>5

LEMMA MasterMoves ==
  ASSUME RInv, [Next]_vars, UNCHANGED replicaVars
  PROVE  Linked' /\ HasAll'
<1> USE DEF replicaVars, linkVars
<1>1. TypeOK /\ ReplicaTypes /\ Inside /\ Linked /\ HasAll
  BY DEF RInv, Placed, IInv
<1>2. replica \in Replicas /\ chan \in Seq(Messages) /\ out \in Outs
  BY <1>1 DEF ReplicaTypes
<1>3. /\ replica.pos \in LinkPlace /\ replica.cached \in LinkPlace /\ replica.file.cached \in LinkPlace
      /\ out.pos \in LinkPlace /\ Len(chan) \in Nat
      /\ \A i \in 1..Len(chan) : chan[i].pos \in LinkPlace /\ chan[i].cmds \in Seq(Cmd)
  BY <1>2, ReplicaFields, MessageFields DEF Outs
<1>6. Handlers' /\ CachedBehind'
  BY <1>1 DEF Linked, Handlers, CachedBehind
<1>7. \A i \in 1..(Len(chan) + 1) : Prev(i) \in LinkPlace /\ Prev(i)' = Prev(i)
  <2>1. \A i \in 1..(Len(chan) + 1) : i # 1 => i - 1 \in 1..Len(chan)
    BY <1>3
  <2> QED
    BY <1>3, <2>1 DEF Prev
<1>8. CarriesLog'
  <2>1. ASSUME NEW i \in 1..Len(chan) PROVE Piece(aof', chan[i].cmds, Prev(i), chan[i].pos)
    <3>1. Piece(aof, chan[i].cmds, Prev(i), chan[i].pos) /\ IsPlace(aof, chan[i].pos)
      BY <1>1 DEF Linked, CarriesLog, Inside
    <3>2. Prev(i) \in LinkPlace
      BY <1>3, <1>7
    <3> QED
      BY <1>1, <1>3, <3>1, <3>2, PlacesStay
  <2>2. ASSUME out.mode = "incr" PROVE Adjacent(aof', Prev(Len(chan) + 1), out.pos)
    <3>1. Adjacent(aof, Prev(Len(chan) + 1), out.pos) /\ IsPlace(aof, out.pos)
      BY <1>1, <2>2 DEF Linked, CarriesLog, Inside
    <3>2. Prev(Len(chan) + 1) \in LinkPlace
      BY <1>3, <1>7
    <3> QED
      BY <1>1, <1>3, <3>1, <3>2, PlacesStay
  <2>3. \A i \in 1..Len(chan) : Prev(i)' = Prev(i)
    BY <1>3, <1>7
  <2>4. Prev(Len(chan) + 1)' = Prev(Len(chan) + 1)
    BY <1>3, <1>7
  <2> QED
    BY <2>1, <2>2, <2>3, <2>4 DEF CarriesLog
<1>9. \A d : HoldsBefore(aof, d, replica.pos) => HoldsBefore(aof', d, replica.pos)
  BY <1>1, <1>3, PlacesStay DEF Inside
<1>10. \A d : HoldsBefore(aof, d, replica.cached) => HoldsBefore(aof', d, replica.cached)
  BY <1>1, <1>3, PlacesStay DEF Inside
<1>11. CarriesDump'
  BY <1>1, <1>9 DEF Linked, CarriesDump
<1>12. HasAll'
  BY <1>1, <1>9, <1>10 DEF HasAll, Intact, Running, Transferring
<1> QED
  BY <1>6, <1>8, <1>11, <1>12 DEF Linked

(* The link is lost, with the master or without it: nothing is on it.      *)
LEMMA EmptyLink ==
  ASSUME chan' = <<>>, out' = Idle
  PROVE  Len(chan') = 0 /\ out'.mode = "idle" /\ CarriesLog'
<1>1. Len(chan') = 0 /\ out'.mode = "idle"
  BY DEF Idle
<1> QED
  BY <1>1 DEF CarriesLog

LEMMA LinkLost ==
  ASSUME RInv, ~strayed', [Next]_vars, NoLink, UNCHANGED <<replica, scrashes, cut>>
  PROVE  Linked' /\ HasAll'
<1>1. TypeOK /\ ReplicaTypes /\ Inside /\ Linked /\ HasAll /\ ~strayed
  BY DEF RInv, Placed, IInv
<1>2. replica \in Replicas /\ link' = FALSE /\ chan' = <<>> /\ out' = Idle
  BY <1>1 DEF ReplicaTypes, NoLink
<1>3. replica.pos \in LinkPlace /\ replica.cached \in LinkPlace
  BY <1>2, ReplicaFields
<1>4. out'.mode = "idle" /\ CarriesLog'
  BY <1>2, EmptyLink
<1>5. Handlers' /\ CachedBehind' /\ CarriesDump'
  BY <1>1, <1>2, <1>4 DEF Linked, Handlers, CachedBehind, CarriesDump
<1>6. /\ \A d : HoldsBefore(aof, d, replica.pos) => HoldsBefore(aof', d, replica.pos)
      /\ \A d : HoldsBefore(aof, d, replica.cached) => HoldsBefore(aof', d, replica.cached)
  BY <1>1, <1>3, PlacesStay DEF Inside
<1>7. HasAll'
  BY <1>1, <1>6 DEF HasAll, Intact, Running, Transferring
<1> QED
  BY <1>4, <1>5, <1>7 DEF Linked

-----------------------------------------------------------------------------
(* Steps of the replica that leave the link and its place on it alone.     *)
LEMMA SamePlace ==
  ASSUME RInv, UNCHANGED <<aof, chan, out>>, replica'.pos = replica.pos
  PROVE  CarriesLog'
<1>1. CarriesLog
  BY DEF RInv, Placed, Linked
<1>2. \A i : Prev(i)' = Prev(i)
  BY DEF Prev
<1> QED
  BY <1>1, <1>2 DEF CarriesLog

(* replConfFlush and the merge change the cached place to that of the      *)
(* link, and nothing else that matters.                                    *)
Reconfigured(r, q) ==
  /\ q \in Replicas
  /\ q.run = r.run /\ q.state = r.state /\ q.reads = r.reads /\ q.pos = r.pos /\ q.mem = r.mem
  /\ q.cached = r.cached \/ q.cached = r.pos
  /\ q.file.cached = r.file.cached \/ q.file.cached = q.cached

LEMMA FlushedIs ==
  ASSUME NEW r \in Replicas
  PROVE  Reconfigured(r, Flushed(r))
<1> DEFINE linked == r.pos.name # 0
           c == IF linked THEN r.pos ELSE r.cached
           known == r.known \/ linked
           q == [r EXCEPT !.cached = c, !.known = known, !.file = [cached |-> c, known |-> known]]
<1>1. Flushed(r) = q
  BY DEF Flushed
<1>2. /\ c \in LinkPlace /\ known \in BOOLEAN /\ (c = r.cached \/ c = r.pos)
  BY ReplicaFields
<1> HIDE DEF c, known, linked
<1>3. [cached |-> c, known |-> known] \in [cached : LinkPlace, known : BOOLEAN]
  BY <1>2
<1>4. q \in Replicas
  BY <1>2, <1>3 DEF Replicas
<1>5. /\ q.run = r.run /\ q.state = r.state /\ q.reads = r.reads /\ q.pos = r.pos
      /\ q.mem = r.mem /\ q.cached = c /\ q.file.cached = c
  BY DEF Replicas
<1> QED
  BY <1>1, <1>2, <1>4, <1>5 DEF Reconfigured

LEMMA MergedIs ==
  ASSUME NEW r \in Replicas
  PROVE  Reconfigured(r, Merged(r))
<1>1. CASE r.backlog = <<>>
  BY <1>1 DEF Merged, Reconfigured
<1>2. CASE r.backlog # <<>>
  <2> DEFINE q == [r EXCEPT !.log = r.log \o r.backlog, !.backlog = <<>>]
  <2>1. r.log \o r.backlog \in Seq(Cmd) /\ <<>> \in Seq(Cmd)
    BY ReplicaFields
  <2>2. q \in Replicas
    BY <2>1 DEF Replicas
  <2>3. /\ q.run = r.run /\ q.state = r.state /\ q.reads = r.reads /\ q.pos = r.pos
        /\ q.mem = r.mem /\ q.cached = r.cached /\ q.file = r.file
    BY DEF Replicas
  <2>4. Merged(r) = Flushed(q)
    BY <1>2 DEF Merged
  <2> HIDE DEF q
  <2> QED
    BY <2>2, <2>3, <2>4, FlushedIs DEF Reconfigured
<1> QED
  BY <1>1, <1>2

LEMMA ConfMoves ==
  ASSUME RInv, UNCHANGED <<vars, linkVars, scrashes, cut, strayed>>,
         Reconfigured(replica, replica')
  PROVE  Linked' /\ HasAll'
<1> USE DEF vars, disk, linkVars
<1>1. TypeOK /\ ReplicaTypes /\ Inside /\ Linked /\ HasAll
  BY DEF RInv, Placed, IInv
<1>2. UNCHANGED <<aof, link, chan, out>>
  OBVIOUS
<1>3. /\ replica'.run = replica.run /\ replica'.state = replica.state
      /\ replica'.reads = replica.reads /\ replica'.pos = replica.pos
      /\ replica'.mem = replica.mem
      /\ replica'.cached = replica.cached \/ replica'.cached = replica.pos
      /\ replica'.file.cached = replica.file.cached \/ replica'.file.cached = replica'.cached
      /\ replica' \in Replicas /\ replica \in Replicas
  BY <1>1 DEF Reconfigured, ReplicaTypes
<1>6. Handlers'
  BY <1>1, <1>2, <1>3 DEF Linked, Handlers
<1>7. CachedBehind'
  <2>1. NotAfter(replica.pos, replica.pos)
    BY <1>3, ReplicaFields, PlaceFields
  <2> QED
    BY <1>1, <1>3, <2>1 DEF Linked, CachedBehind
<1>8. CarriesLog'
  BY <1>2, <1>3, SamePlace
<1>9. CarriesDump'
  BY <1>1, <1>2, <1>3 DEF Linked, CarriesDump
<1>10. HasAll'
  BY <1>1, <1>2, <1>3 DEF HasAll, Intact, Running, Transferring
<1> QED
  BY <1>6, <1>7, <1>8, <1>9, <1>10 DEF Linked

LEMMA SlaveofStep ==
  ASSUME RInv, Slaveof
  PROVE  Linked' /\ HasAll'
<1>1. ReplicaTypes /\ Inside /\ Linked /\ HasAll /\ replica \in Replicas
  BY DEF RInv, Placed, ReplicaTypes
<1>2. UNCHANGED <<vars, link, chan, out, scrashes, cut, strayed, aof>>
  BY DEF Slaveof, Untouched, linkVars, vars, disk
<1>3. /\ replica' \in Replicas /\ replica'.state = "CONNECT"
      /\ replica'.run = replica.run /\ replica'.reads = replica.reads
      /\ replica'.pos = replica.pos /\ replica'.mem = replica.mem
      /\ replica'.cached = replica.cached /\ replica'.file = replica.file
  BY <1>1 DEF Slaveof, Replicas, States
<1>5. CarriesLog'
  BY <1>2, <1>3, SamePlace
<1>6. Handlers' /\ CachedBehind' /\ CarriesDump'
  BY <1>1, <1>2, <1>3 DEF Linked, Handlers, CachedBehind, CarriesDump
<1>7. HasAll'
  BY <1>1, <1>2, <1>3 DEF Linked, Handlers, HasAll, Intact, Running, Transferring
<1> QED
  BY <1>5, <1>6, <1>7 DEF Linked

(* PING is sent; or a handler finds the link lost.                         *)
LEMMA HandlerStep ==
  ASSUME RInv, SendPing \/ SyncError \/ BulkError \/ ReadError
  PROVE  Linked' /\ HasAll'
<1>1. ReplicaTypes /\ Inside /\ Linked /\ HasAll /\ replica \in Replicas
  BY DEF RInv, Placed, ReplicaTypes
<1>2. UNCHANGED <<vars, link, chan, out, scrashes, strayed, aof>>
  BY DEF SendPing, SyncError, BulkError, ReadError, Untouched, linkVars, vars, disk
<1>3. /\ replica' \in Replicas
      /\ replica'.pos = replica.pos /\ replica'.mem = replica.mem
      /\ replica'.cached = replica.cached /\ replica'.file = replica.file
  <2>1. CASE SendPing
    BY <1>1, <2>1 DEF SendPing, Replicas, States
  <2>2. CASE SyncError \/ ReadError
    <3>1. CASE SyncError
      BY <1>1, <3>1 DEF SyncError, Replicas, States
    <3>2. CASE ReadError
      BY <1>1, <3>2 DEF ReadError, Replicas
    <3> QED
      BY <2>2, <3>1, <3>2
  <2>3. CASE BulkError
    <3>1. CASE replica.state = "TRANSFOR"
      BY <1>1, <2>3, <3>1 DEF BulkError, AbortSyncTransfer, Replicas, States
    <3>2. CASE replica.state # "TRANSFOR"
      BY <1>1, <2>3, <3>2 DEF BulkError, Replicas
    <3> QED
      BY <3>1, <3>2
  <2> QED
    BY <2>1, <2>2, <2>3
<1>5. CarriesLog'
  BY <1>2, <1>3, SamePlace
<1>6. CASE SendPing
  <2>1. /\ replica'.state = "RECEIVE_PONG" /\ replica'.run = replica.run
        /\ replica'.reads = replica.reads /\ replica.reads = "sync" /\ cut' = cut
        /\ replica.state = "CONNECTING"
    BY <1>1, <1>6 DEF SendPing, Replicas, Untouched
  <2>2. Handlers' /\ CachedBehind' /\ CarriesDump'
    BY <1>1, <1>2, <1>3, <2>1 DEF Linked, Handlers, CachedBehind, CarriesDump
  <2>3. HasAll'
    BY <1>1, <1>2, <1>3, <2>1 DEF HasAll, Intact, Running, Transferring
  <2> QED
    BY <1>5, <2>2, <2>3 DEF Linked
<1>7. CASE SyncError \/ ReadError
  <2>1. /\ replica'.run = replica.run /\ replica'.reads = "none" /\ cut' = cut
        /\ replica'.state = "CONNECT" \/ replica'.state = replica.state
        /\ ~link /\ replica.reads \in {"sync", "incr"}
    BY <1>1, <1>7 DEF SyncError, ReadError, Replicas, Untouched
  <2>2. Handlers' /\ CachedBehind' /\ CarriesDump'
    BY <1>1, <1>2, <1>3, <2>1 DEF Linked, Handlers, CachedBehind, CarriesDump
  <2>3. HasAll'
    BY <1>1, <1>2, <1>3, <2>1 DEF Linked, Handlers, HasAll, Intact, Running, Transferring
  <2> QED
    BY <1>5, <2>2, <2>3 DEF Linked
<1>8. CASE BulkError
  <2>1. /\ ~link /\ cut' = TRUE /\ replica'.run # "down"
        /\ replica'.state = "TRANSFOR" => replica'.reads = "bulk"
        /\ replica'.reads = "none" \/ replica'.reads = replica.reads
    BY <1>1, <1>8 DEF BulkError, AbortSyncTransfer, Replicas, Running
  <2>2. Handlers' /\ CachedBehind' /\ CarriesDump'
    BY <1>1, <1>2, <1>3, <2>1 DEF Linked, Handlers, CachedBehind, CarriesDump
  <2>3. HasAll'
    BY <2>1 DEF HasAll, Intact
  <2> QED
    BY <1>5, <2>2, <2>3 DEF Linked
<1> QED
  BY <1>6, <1>7, <1>8

-----------------------------------------------------------------------------
(* onReplCron.                                                             *)
LEMMA TimedOutIs ==
  ASSUME NEW r \in Replicas
  PROVE  /\ TimedOut(r) \in Replicas
         /\ TimedOut(r).run = r.run /\ TimedOut(r).mem = r.mem /\ TimedOut(r).file = r.file
         /\ TimedOut(r).cached = r.cached \/ TimedOut(r).cached = r.pos
         /\ TimedOut(r).pos = r.pos
         /\ r.state \notin {"NONE", "CONNECT"} => TimedOut(r).state = "CONNECT"
<1>1. CASE r.state \in {"CONNECTING", "RECEIVE_PONG"}
  <2>1. TimedOut(r) = UndoConnectMaster(r)
    BY <1>1 DEF TimedOut
  <2> QED
    BY <2>1 DEF UndoConnectMaster, Replicas, States
<1>2. CASE r.state = "TRANSFOR"
  <2>1. TimedOut(r) = AbortSyncTransfer(r)
    BY <1>2 DEF TimedOut
  <2> QED
    BY <2>1 DEF AbortSyncTransfer, Replicas, States
<1>3. CASE r.state = "CONNECTED"
  <2>1. TimedOut(r) = [CacheMaster(r) EXCEPT !.reads = "none"]
    BY <1>3 DEF TimedOut
  <2> QED
    BY <2>1 DEF CacheMaster, Replicas, States
<1>4. CASE r.state \in {"NONE", "CONNECT"}
  <2>1. TimedOut(r) = r
    BY <1>4 DEF TimedOut
  <2> QED
    BY <1>4, <2>1
<1> QED
  BY <1>1, <1>2, <1>3, <1>4 DEF Replicas, States

LEMMA ConnectingIs ==
  ASSUME NEW r \in Replicas, Unset \in LinkPlace
  PROVE  /\ Connecting(r) \in Replicas
         /\ Connecting(r).run = r.run /\ Connecting(r).mem = r.mem
         /\ Connecting(r).file = r.file /\ Connecting(r).cached = r.cached
         /\ Connecting(r).pos = Unset /\ Connecting(r).state = "CONNECTING"
         /\ Connecting(r).reads = "sync"
  BY DEF Connecting, NewLink, Replicas, States

LEMMA CronStep ==
  ASSUME RInv, NEW timeout \in BOOLEAN, Cron(timeout)
  PROVE  Linked' /\ HasAll'
<1> DEFINE r == IF timeout THEN TimedOut(replica) ELSE replica
<1>1. ReplicaTypes /\ Inside /\ Linked /\ HasAll /\ replica \in Replicas /\ TypeOK
  BY DEF RInv, Placed, IInv, ReplicaTypes
<1>2. UNCHANGED <<vars, scrashes, strayed, aof>> /\ Running
  BY DEF Cron, vars, disk
<1>4. /\ r \in Replicas /\ r.run = replica.run /\ r.mem = replica.mem
      /\ r.file = replica.file /\ (r.cached = replica.cached \/ r.cached = replica.pos)
  BY <1>1, TimedOutIs
<1>5. cut' = (cut \/ (Transferring /\ ~Transferring'))
  BY DEF Cron
<1>6. CASE r.state = "CONNECT"
  <2> DEFINE q == Connecting(r)
  <2>1. /\ replica' = Merged(q) /\ link' = TRUE /\ chan' = <<>> /\ out' = Idle
    BY <1>6 DEF Cron
  <2>2. Unset \in LinkPlace /\ IsPlace(aof, Unset) /\ \A d : HoldsBefore(aof, d, Unset)
    BY <1>1, StartFacts
  <2>3. /\ q \in Replicas /\ q.run = r.run /\ q.mem = r.mem /\ q.file = r.file
        /\ q.cached = r.cached /\ q.pos = Unset /\ q.state = "CONNECTING"
        /\ q.reads = "sync"
    BY <1>4, <2>2, ConnectingIs
  <2> HIDE DEF q, r
  <2>4. Reconfigured(q, replica')
    BY <2>1, <2>3, MergedIs
  <2>5. /\ replica' \in Replicas /\ replica'.run = "up" /\ replica'.mem = replica.mem
        /\ replica'.pos = Unset /\ replica'.state = "CONNECTING" /\ replica'.reads = "sync"
        /\ \/ replica'.cached = Unset \/ replica'.cached = replica.cached
           \/ replica'.cached = replica.pos
        /\ \/ replica'.file.cached = replica.file.cached
           \/ replica'.file.cached = replica'.cached
    BY <1>2, <1>4, <2>3, <2>4 DEF Reconfigured, Running
  <2>6. out'.mode = "idle" /\ CarriesLog'
    BY <2>1, EmptyLink
  <2>10. Handlers' /\ CachedBehind' /\ CarriesDump'
    BY <2>1, <2>5, <2>6 DEF Handlers, CachedBehind, CarriesDump
  <2>11. ASSUME Intact'
         PROVE  /\ HoldsBefore(aof', replica'.mem, replica'.pos)
                /\ HoldsBefore(aof', replica'.mem, replica'.cached)
    <3>1. ~Transferring'
      BY <2>5 DEF Transferring
    <3>2. Intact /\ ~Transferring
      BY <1>2, <1>5, <2>11, <3>1 DEF Intact
    <3>3. /\ HoldsBefore(aof, replica.mem, replica.pos)
          /\ HoldsBefore(aof, replica.mem, replica.cached)
      BY <1>1, <1>2, <3>2 DEF HasAll
    <3> QED
      BY <1>2, <2>2, <2>5, <3>3
  <2>12. HasAll'
    BY <2>11 DEF HasAll
  <2> QED
    BY <2>6, <2>10, <2>12 DEF Linked
<1>7. CASE r.state # "CONNECT"
  <2>1. replica' = Merged(r) /\ UNCHANGED linkVars
    BY <1>7 DEF Cron
  <2>2. ~timeout /\ r = replica
    BY <1>1, <1>7, TimedOutIs DEF Cron
  <2> HIDE DEF r
  <2>3. Reconfigured(replica, replica')
    BY <1>1, <2>1, <2>2, MergedIs
  <2>4. cut' = cut
    <3>1. Transferring' = Transferring
      BY <2>3 DEF Transferring, Reconfigured
    <3> QED
      BY <1>1, <1>5, <3>1 DEF ReplicaTypes
  <2> QED
    BY <1>2, <2>1, <2>3, <2>4, ConfMoves
<1> QED
  BY <1>6, <1>7

-----------------------------------------------------------------------------
(* The replica reads.                                                      *)
LEMMA TailMessages ==
  ASSUME chan \in Seq(Messages), chan # <<>>
  PROVE  /\ Len(chan) \in Nat \ {0} /\ 1 \in 1..Len(chan) /\ Head(chan) = chan[1]
         /\ Tail(chan) \in Seq(Messages) /\ Len(Tail(chan)) = Len(chan) - 1
         /\ \A i \in 1..Len(Tail(chan)) : i + 1 \in 1..Len(chan) /\ Tail(chan)[i] = chan[i + 1]
<1> DEFINE M == Messages
<1>1. chan \in Seq(M) /\ chan # <<>>
  OBVIOUS
<1> HIDE DEF M
<1>2. /\ Len(chan) \in Nat \ {0} /\ 1 \in 1..Len(chan) /\ Head(chan) = chan[1]
      /\ Tail(chan) \in Seq(M) /\ Len(Tail(chan)) = Len(chan) - 1
  BY <1>1
<1>3. \A i \in 1..Len(Tail(chan)) : i + 1 \in 1..Len(chan) /\ Tail(chan)[i] = chan[i + 1]
  BY <1>1, <1>2
<1> QED
  BY <1>2, <1>3 DEF M

(* The first message is read, and its place taken over.                    *)
LEMMA FirstRead ==
  ASSUME RInv, chan # <<>>, chan' = Tail(chan), UNCHANGED <<aof, out>>,
         replica'.pos = chan[1].pos
  PROVE  CarriesLog'
<1>1. chan \in Seq(Messages) /\ CarriesLog
  BY DEF RInv, Placed, ReplicaTypes, Linked
<1>2. /\ Len(chan) \in Nat \ {0} /\ Len(chan') = Len(chan) - 1
      /\ \A i \in 1..Len(chan') : i + 1 \in 1..Len(chan) /\ chan'[i] = chan[i + 1]
  BY <1>1, TailMessages
<1>3. ASSUME NEW i \in 1..(Len(chan') + 1) PROVE Prev(i)' = Prev(i + 1)
  <2>1. CASE i = 1
    BY <1>2, <2>1 DEF Prev
  <2>2. CASE i # 1
    <3>1. i - 1 \in 1..Len(chan') /\ (i - 1) + 1 = i /\ (i + 1) - 1 = i /\ i + 1 # 1
      BY <1>2, <2>2
    <3>2. chan'[i - 1] = chan[i]
      BY <1>2, <3>1
    <3> QED
      BY <2>2, <3>1, <3>2 DEF Prev
  <2> QED
    BY <2>1, <2>2
<1>4. ASSUME NEW i \in 1..Len(chan')
      PROVE  Piece(aof, chan'[i].cmds, Prev(i)', chan'[i].pos)
  <2>1. i + 1 \in 1..Len(chan) /\ chan'[i] = chan[i + 1] /\ i \in 1..(Len(chan') + 1)
    BY <1>2
  <2>2. Piece(aof, chan[i + 1].cmds, Prev(i + 1), chan[i + 1].pos)
    BY <1>1, <2>1 DEF CarriesLog
  <2> QED
    BY <1>3, <2>1, <2>2
<1>5. Prev(Len(chan) + 1)' = Prev(Len(chan) + 1)
  <2>1. Len(chan') + 1 \in 1..(Len(chan') + 1)
    BY <1>2
  <2>2. PICK n \in 1..(Len(chan') + 1) : n = Len(chan') + 1
    BY <2>1
  <2>3. Prev(n)' = Prev(n + 1) /\ n + 1 = Len(chan) + 1
    BY <1>2, <1>3, <2>2
  <2>4. Prev(Len(chan) + 1)' = Prev(n)'
    BY <2>2 DEF Prev
  <2> QED
    BY <2>3, <2>4
<1>6. out'.mode = "incr" => Adjacent(aof', Prev(Len(chan) + 1)', out'.pos)
  BY <1>1, <1>5 DEF CarriesLog
<1> QED
  BY <1>4, <1>6 DEF CarriesLog

LEMMA ReadBulkStep ==
  ASSUME RInv, ReadBulk
  PROVE  Linked' /\ HasAll'
<1>1. TypeOK /\ ReplicaTypes /\ Inside /\ Linked /\ HasAll /\ replica \in Replicas
      /\ chan \in Seq(Messages)
  BY DEF RInv, Placed, IInv, ReplicaTypes
<1>2. /\ UNCHANGED <<vars, scrashes, cut, strayed, link, out, aof>> /\ chan # <<>>
      /\ chan' = Tail(chan) /\ replica.reads = "bulk" /\ replica.run = "up"
  BY DEF ReadBulk, Untouched, vars, disk, Running
<1>3. Head(chan) = chan[1] /\ chan[1].dump \in Data /\ 1 \in 1..Len(chan)
  BY <1>1, <1>2, TailMessages, MessageFields
<1>4. /\ replica' \in Replicas /\ replica'.mem = chan[1].dump
      /\ replica'.reads = "incr" /\ replica'.state = "CONNECTED"
      /\ replica'.pos = replica.pos /\ replica'.cached = replica.cached
      /\ replica'.file = replica.file /\ replica'.run = replica.run
  BY <1>1, <1>3 DEF ReadBulk, Replicas, States
<1>5. link /\ replica.cached = replica.pos
  BY <1>1, <1>2 DEF Linked, Handlers, CachedBehind
<1>6. /\ out.mode = "incr" /\ chan[1].pos = replica.pos
      /\ HoldsBefore(aof, chan[1].dump, replica.pos)
  BY <1>1, <1>2, <1>5 DEF Linked, CarriesDump
<1>9. CarriesLog'
  BY <1>2, <1>4, <1>6, FirstRead
<1>10. NotAfter(replica.pos, replica.pos)
  BY <1>1, ReplicaFields, PlaceFields
<1>11. Handlers' /\ CachedBehind' /\ CarriesDump'
  BY <1>1, <1>2, <1>4, <1>5, <1>6, <1>10 DEF Linked, Handlers, CachedBehind, CarriesDump
<1>12. HasAll'
  BY <1>2, <1>4, <1>5, <1>6 DEF HasAll
<1> QED
  BY <1>9, <1>11, <1>12 DEF Linked

LEMMA PieceForward ==
  ASSUME TypeOK, NEW s \in Seq(Cmd), NEW a \in LinkPlace, NEW b \in LinkPlace, Piece(aof, s, a, b),
         NEW c \in LinkPlace, NotAfter(c, a)
  PROVE  NotAfter(c, b)
<1>1. PICK g \in 1..Len(aof) : \E o \in 0..Len(aof[g]) : PieceAt(aof, s, a, b, g, o)
  BY DEF Piece
<1>2. PICK o \in 0..Len(aof[g]) : PieceAt(aof, s, a, b, g, o)
  BY <1>1
<1>3. NotAfter(a, At(g, o)) /\ NotAfter(At(g, o + Len(s)), b)
  BY <1>2 DEF PieceAt, Adjacent
<1>4. /\ a.name \in Int /\ b.name \in Int /\ c.name \in Int
      /\ a.off \in Nat /\ b.off \in Nat /\ c.off \in Nat
  BY PlaceFields
<1>5. Len(s) \in Nat /\ g \in Int /\ o \in Int
  BY CmdTypes
<1>6. /\ a.name < g \/ (a.name = g /\ a.off <= o)
      /\ g < b.name \/ (g = b.name /\ o + Len(s) <= b.off)
  BY <1>3 DEF NotAfter, At
<1>7. c.name < a.name \/ (c.name = a.name /\ c.off <= a.off)
  BY DEF NotAfter
<1> QED
  BY <1>4, <1>5, <1>6, <1>7 DEF NotAfter

LEMMA ReadIncrStep ==
  ASSUME RInv, ReadIncr
  PROVE  Linked' /\ HasAll'
<1>1. /\ TypeOK /\ LogOrdered /\ ReplicaTypes /\ Inside /\ Linked /\ HasAll
      /\ replica \in Replicas /\ chan \in Seq(Messages)
  BY DEF RInv, Placed, IInv, ReplicaTypes
<1>2. /\ UNCHANGED <<vars, scrashes, cut, strayed, link, out, aof>> /\ chan # <<>>
      /\ chan' = Tail(chan) /\ replica.reads = "incr" /\ replica.run = "up"
  BY DEF ReadIncr, Untouched, vars, disk, Running
<1> DEFINE m == chan[1]
<1>3. Head(chan) = m /\ m.cmds \in Seq(Cmd) /\ m.pos \in LinkPlace /\ 1 \in 1..Len(chan)
  BY <1>1, <1>2, TailMessages, MessageFields
<1>4. /\ replica.mem \in Data /\ replica.backlog \in Seq(Cmd)
      /\ replica.pos \in LinkPlace /\ replica.cached \in LinkPlace
  BY <1>1, ReplicaFields
<1> HIDE DEF m
<1>5. Apply(replica.mem, m.cmds) \in Data /\ replica.backlog \o m.cmds \in Seq(Cmd)
  BY <1>3, <1>4, ApplyType
<1>6. /\ replica' \in Replicas /\ replica'.mem = Apply(replica.mem, m.cmds)
      /\ replica'.pos = m.pos /\ replica'.cached = replica.cached
      /\ replica'.file = replica.file /\ replica'.run = replica.run
      /\ replica'.reads = "incr" /\ replica'.state = replica.state
  <2>1. replica' = [replica EXCEPT !.mem = Apply(replica.mem, m.cmds),
                                   !.backlog = replica.backlog \o m.cmds, !.pos = m.pos]
    BY <1>3 DEF ReadIncr, Received
  <2> QED
    BY <1>1, <1>2, <1>3, <1>5, <2>1 DEF Replicas
<1>10. CarriesLog'
  BY <1>2, <1>6, FirstRead DEF m
<1>11. Piece(aof, m.cmds, replica.pos, m.pos)
  <2>1. Piece(aof, chan[1].cmds, Prev(1), chan[1].pos)
    BY <1>1, <1>3 DEF Linked, CarriesLog
  <2> QED
    BY <2>1 DEF Prev, m
<1>12. NotAfter(replica.cached, m.pos)
  BY <1>1, <1>2, <1>3, <1>4, <1>11, PieceForward DEF Linked, CachedBehind
<1>13. Handlers' /\ CachedBehind' /\ CarriesDump'
  <2>1. link /\ out.mode = "incr"
    BY <1>1, <1>2 DEF Linked, Handlers
  <2> QED
    BY <1>1, <1>2, <1>6, <1>12, <2>1 DEF Linked, Handlers, CachedBehind, CarriesDump
<1>14. HasAll'
  <2> SUFFICES ASSUME Intact', Running', ~Transferring'
               PROVE  /\ HoldsBefore(aof', replica'.mem, replica'.pos)
                      /\ HoldsBefore(aof', replica'.mem, replica'.cached)
    BY DEF HasAll
  <2>1. HoldsBefore(aof, replica.mem, replica.pos)
    BY <1>1, <1>2, <1>6 DEF HasAll, Intact, Running, Transferring
  <2>2. HoldsBefore(aof, replica'.mem, m.pos)
    BY <1>1, <1>3, <1>4, <1>6, <1>11, <2>1, ApplyHolds
  <2>3. HoldsBefore(aof, replica'.mem, replica.cached)
    BY <1>1, <1>3, <1>4, <1>12, <2>2, HoldsLess
  <2> QED
    BY <1>2, <1>6, <2>2, <2>3
<1> QED
  BY <1>10, <1>13, <1>14 DEF Linked

-----------------------------------------------------------------------------
(* The bytes of the packs of a file.                                       *)

(* The recursive function of Bytes, up to n.                               *)
Sums(f, s, n) == f = [i \in 0..n |-> IF i = 0 THEN 0 ELSE f[i - 1] + PackLen[s[i]]]

LEMMA SumsExist ==
  ASSUME NEW s, NEW n \in Nat
  PROVE  \E f : Sums(f, s, n)
<1> DEFINE d(i) == PackLen[s[i]]
           Q(f, k) == f = [i \in 0..k |-> IF i = 0 THEN 0 ELSE f[i - 1] + d(i)]
           P == {k \in Nat : \E f : Q(f, k)}
<1>0. ASSUME NEW f, NEW k PROVE Q(f, k) <=> Sums(f, s, k)
  BY DEF Sums
<1> HIDE DEF d
<1>1. 0 \in P
  <2> DEFINE f == [i \in 0..0 |-> 0]
  <2>1. f = [i \in 0..0 |-> IF i = 0 THEN 0 ELSE f[i - 1] + d(i)]
    OBVIOUS
  <2> QED
    BY <2>1
<1>2. ASSUME NEW k \in 0..(n - 1), k \in P PROVE k + 1 \in P
  <2>1. PICK f : Q(f, k)
    BY <1>2
  <2> DEFINE g == [i \in 0..(k + 1) |-> IF i <= k THEN f[i] ELSE f[k] + d(k + 1)]
             h == [i \in 0..(k + 1) |-> IF i = 0 THEN 0 ELSE g[i - 1] + d(i)]
  <2>2. \A i \in 0..k : f[i] = IF i = 0 THEN 0 ELSE f[i - 1] + d(i)
    BY <2>1
  <2>3. ASSUME NEW i \in 0..(k + 1) PROVE g[i] = h[i]
    <3>1. CASE i = 0
      BY <3>1, <2>2
    <3>2. CASE i # 0 /\ i <= k
      <4>1. i \in 0..k /\ i - 1 \in 0..(k + 1) /\ i - 1 <= k
        BY <3>2
      <4>2. g[i] = f[i] /\ g[i - 1] = f[i - 1] /\ h[i] = g[i - 1] + d(i)
        BY <3>2, <4>1
      <4> QED
        BY <2>2, <3>2, <4>1, <4>2
    <3>3. CASE i = k + 1
      <4>1. k \in 0..(k + 1) /\ k + 1 \in 0..(k + 1) /\ ~(k + 1 <= k) /\ (k + 1) - 1 = k /\ k + 1 # 0
        OBVIOUS
      <4>2. g[k] = f[k] /\ g[k + 1] = f[k] + d(k + 1)
            /\ h[k + 1] = g[(k + 1) - 1] + d(k + 1)
        BY <4>1
      <4> QED
        BY <3>3, <4>1, <4>2
    <3> QED
      BY <3>1, <3>2, <3>3
  <2>4. g = h
    BY <2>3
  <2>5. Q(g, k + 1)
    BY <2>4
  <2>6. \E e : Q(e, k + 1)
    <3> HIDE DEF Q
    <3> QED
      BY <2>5
  <2> HIDE DEF g, h, Q
  <2> QED
    BY <2>6
<1>3. \A k \in 0..n : k \in P
  <2> HIDE DEF P
  <2> QED
    BY <1>1, <1>2, InductionTo
<1>4. PICK f : Q(f, n)
  BY <1>3
<1> QED
  BY <1>0, <1>4

(* The bytes up to a pack and up to the next: none is lost or negative.    *)
Summed(s) ==
  /\ Bytes(s, 0) = 0
  /\ \A i \in 1..Len(s) : Bytes(s, i) = Bytes(s, i - 1) + PackLen[s[i]]
  /\ \A i \in 1..Len(s) : PackLen[s[i]] \in Nat /\ PackLen[s[i]] > SizeLen

LEMMA BytesAre ==
  ASSUME NEW s \in Seq(Cmd)
  PROVE  Summed(s)
<1> DEFINE c == CHOOSE f : Sums(f, s, Len(s))
<1>1. Len(s) \in Nat
  OBVIOUS
<1>2. Sums(c, s, Len(s))
  BY <1>1, SumsExist
<1>3. \A i : Bytes(s, i) = c[i]
  BY DEF Bytes, Sums
<1> HIDE DEF c
<1>4. \A i \in 0..Len(s) : c[i] = IF i = 0 THEN 0 ELSE c[i - 1] + PackLen[s[i]]
  BY <1>2 DEF Sums
<1>5. \A i \in 1..Len(s) : i # 0 /\ i \in 0..Len(s) /\ PackLen[s[i]] \in Nat /\ PackLen[s[i]] > SizeLen
  BY PackAssumption
<1>6. Bytes(s, 0) = 0
  BY <1>1, <1>3, <1>4
<1>7. \A i \in 1..Len(s) : Bytes(s, i) = Bytes(s, i - 1) + PackLen[s[i]]
  BY <1>3, <1>4, <1>5
<1> QED
  BY <1>5, <1>6, <1>7 DEF Summed

LEMMA BytesGrow ==
  ASSUME NEW s \in Seq(Cmd)
  PROVE  /\ \A i \in 0..Len(s) : Bytes(s, i) \in Nat
         /\ \A i, j \in 0..Len(s) : j <= i => Bytes(s, j) <= Bytes(s, i)
<1> DEFINE b(i) == Bytes(s, i)
           P == {i \in Nat : b(i) \in Nat /\ \A j \in 0..i : b(j) \in Nat /\ b(j) <= b(i)}
<1>1. Len(s) \in Nat /\ Summed(s)
  BY BytesAre
<1>2. /\ b(0) = 0
      /\ \A i \in 1..Len(s) : b(i) = b(i - 1) + PackLen[s[i]] /\ PackLen[s[i]] \in Nat
  BY <1>1 DEF Summed
<1> HIDE DEF b
<1>3. 0 \in P
  BY <1>2
<1>4. ASSUME NEW i \in 0..(Len(s) - 1), i \in P PROVE i + 1 \in P
  <2>1. i + 1 \in 1..Len(s) /\ (i + 1) - 1 = i /\ i + 1 \in Nat
    BY <1>1
  <2>2. b(i + 1) = b(i) + PackLen[s[i + 1]] /\ PackLen[s[i + 1]] \in Nat /\ b(i) \in Nat
    BY <1>2, <1>4, <2>1
  <2>3. b(i + 1) \in Nat /\ b(i) <= b(i + 1)
    BY <2>2
  <2>4. ASSUME NEW j \in 0..(i + 1) PROVE b(j) \in Nat /\ b(j) <= b(i + 1)
    <3>1. CASE j = i + 1
      BY <2>3, <3>1
    <3>2. CASE j # i + 1
      <4>1. j \in 0..i
        BY <3>2
      <4>2. b(j) \in Nat /\ b(j) <= b(i)
        BY <1>4, <4>1
      <4> QED
        BY <2>2, <2>3, <4>2
    <3> QED
      BY <3>1, <3>2
  <2> QED
    BY <2>1, <2>3, <2>4
<1>5. \A i \in 0..Len(s) : i \in P
  <2> HIDE DEF P
  <2> QED
    BY <1>1, <1>3, <1>4, InductionTo
<1>6. /\ \A i \in 0..Len(s) : b(i) \in Nat
      /\ \A i, j \in 0..Len(s) : j <= i => b(j) <= b(i)
  BY <1>1, <1>5
<1> QED
  BY <1>6 DEF b

-----------------------------------------------------------------------------
(* What a read makes of a file.                                            *)
SenderAt(c) ==
  /\ c.name \in 1..Len(aof) /\ aof[c.name] \in Seq(Cmd) /\ Len(aof[c.name]) \in Nat
  /\ c.off \in 0..Len(aof[c.name]) /\ c.part \in Nat
  /\ FileSize(c.name) = Bytes(aof[c.name], Len(aof[c.name]))

LEMMA SenderIs ==
  ASSUME TypeOK, NEW c \in LinkPlace, c.name > 0, IsPlace(aof, c)
  PROVE  SenderAt(c)
<1>1. c.name \in 1..Len(aof) /\ c.off \in Nat /\ c.part \in Nat /\ Len(aof) \in Nat
  BY CmdTypes DEF LinkPlace, PackParts
<1>2. aof[c.name] \in Seq(Cmd) /\ Len(aof[c.name]) \in Nat
  BY <1>1, CmdTypes
<1>3. FileSize(c.name) = Bytes(aof[c.name], Len(aof[c.name]))
  BY <1>1 DEF FileSize
<1> QED
  BY <1>1, <1>2, <1>3 DEF SenderAt, IsPlace

LEMMA TransferIs == TransferLen \in Nat \ {0} /\ ReadBytes <= TransferLen
<1>1. ReadBytes \in Nat \ {0} /\ MaxReads \in Nat \ {0}
  BY ReadAssumption
<1>2. 1 * ReadBytes <= MaxReads * ReadBytes
  BY <1>1, MulMono
<1>3. MaxReads * ReadBytes \in Nat
  BY <1>1
<1> QED
  BY <1>1, <1>2, <1>3 DEF TransferLen

LEMMA ReadIs ==
  ASSUME NEW c, SenderAt(c)
  PROVE  /\ Read(c).from = Bytes(aof[c.name], c.off) + c.part
         /\ Read(c).from \in Nat /\ Read(c).to \in Nat /\ Read(c).eof \in BOOLEAN
         /\ Read(c).eof => Read(c).to = FileSize(c.name)
         /\ FileSize(c.name) <= ReadBytes => Read(c).to = FileSize(c.name)
<1> DEFINE from == ByteOf(c)
           size == FileSize(c.name)
           left == size - from
           eof == left < TransferLen
           to == from + (IF eof THEN left ELSE TransferLen)
<1>1. from = Bytes(aof[c.name], c.off) + c.part /\ from \in Nat /\ size \in Nat
  <2>1. /\ Bytes(aof[c.name], c.off) \in Nat
        /\ Bytes(aof[c.name], Len(aof[c.name])) \in Nat
    BY BytesGrow DEF SenderAt
  <2> QED
    BY <2>1 DEF SenderAt, ByteOf
<1>2. Read(c) = [from |-> from, to |-> to, eof |-> eof]
  BY DEF Read
<1> HIDE DEF from, size
<1>3. TransferLen \in Nat \ {0} /\ ReadBytes <= TransferLen /\ ReadBytes \in Nat
  BY TransferIs, ReadAssumption
<1>4. to \in Nat /\ (eof => to = size)
  BY <1>1, <1>3
<1>5. size <= ReadBytes => to = size
  BY <1>1, <1>3
<1>6. eof \in BOOLEAN
  OBVIOUS
<1> HIDE DEF to, eof
<1>7. Read(c).from = from /\ Read(c).to = to /\ Read(c).eof = eof
  BY <1>2
<1> QED
  BY <1>1, <1>4, <1>5, <1>6, <1>7 DEF size

(* The place at a byte of a file.                                          *)
LEMMA PlaceAtIs ==
  ASSUME NEW c, SenderAt(c), NEW byte \in Nat
  PROVE  /\ PlaceAt(c.name, byte).name = c.name
         /\ PlaceAt(c.name, byte).off \in 0..Len(aof[c.name])
         /\ PlaceAt(c.name, byte).part \in Nat
         /\ PlaceAt(c.name, byte).part
              = byte - Bytes(aof[c.name], PlaceAt(c.name, byte).off)
         /\ Bytes(aof[c.name], Len(aof[c.name])) <= byte =>
              PlaceAt(c.name, byte).off = Len(aof[c.name])
         /\ PlaceAt(c.name, byte) = [name |-> c.name, off |-> PlaceAt(c.name, byte).off,
                                     part |-> PlaceAt(c.name, byte).part]
<1> DEFINE s == aof[c.name]
           len == Len(s)
           js == {i \in 0..len : Bytes(s, i) <= byte}
           off == Max(js)
<1>1. /\ s \in Seq(Cmd) /\ len \in Nat /\ Bytes(s, 0) = 0
      /\ \A i \in 0..len : Bytes(s, i) \in Nat
  BY BytesAre, BytesGrow DEF SenderAt, Summed
<1>2. PlaceAt(c.name, byte) = [name |-> c.name, off |-> off, part |-> byte - Bytes(s, off)]
  BY DEF PlaceAt
<1> HIDE DEF s, len
<1>3. js \in SUBSET (0..len) /\ js # {} /\ (Bytes(s, len) <= byte => len \in js)
  BY <1>1
<1>4. off \in js /\ \A y \in js : y <= off
  <2> HIDE DEF js
  <2> QED
    BY <1>1, <1>3, MaxOf
<1>5. off \in 0..len /\ Bytes(s, off) <= byte /\ (Bytes(s, len) <= byte => off = len)
  BY <1>1, <1>3, <1>4
<1>6. byte - Bytes(s, off) \in Nat
  BY <1>1, <1>5
<1> HIDE DEF off, js
<1> QED
  BY <1>2, <1>5, <1>6 DEF s, len

(* How many packs are sent: those that are parsed, from the place on.      *)
LEMMA SentMost ==
  ASSUME NEW c, SenderAt(c), NEW m
  PROVE  /\ Sent(c, m) \in Nat /\ c.off + Sent(c, m) <= Len(aof[c.name])
         /\ Sent(c, m) > 0 => Parsed(aof[c.name], c.off + 1, m)
         /\ c.part = 0 /\ (\A i \in 1..Len(aof[c.name]) : Parsed(aof[c.name], i, m)) =>
              c.off + Sent(c, m) = Len(aof[c.name])
<1> DEFINE s == aof[c.name]
           left == Len(s) - c.off
           js == {n \in 0..left : \A i \in (c.off + 1)..(c.off + n) : Parsed(s, i, m)}
           sent == Max(js)
<1>1. c.off \in Nat /\ Len(s) \in Nat /\ left \in Nat /\ c.off + left = Len(s)
  BY DEF SenderAt
<1>2. Sent(c, m) = IF c.part # 0 THEN 0 ELSE sent
  BY DEF Sent
<1> HIDE DEF s, left
<1>3. js \in SUBSET (0..left) /\ js # {}
  <2>1. 0 \in js
    BY <1>1
  <2> QED
    BY <2>1
<1>4. sent \in js /\ \A y \in js : y <= sent
  <2> HIDE DEF js
  <2> QED
    BY <1>1, <1>3, MaxOf
<1>5. /\ sent \in 0..left
      /\ \A i \in (c.off + 1)..(c.off + sent) : Parsed(s, i, m)
  BY <1>4
<1>6. (\A i \in 1..Len(s) : Parsed(s, i, m)) => left \in js
  BY <1>1
<1> HIDE DEF sent
<1>7. (\A i \in 1..Len(s) : Parsed(s, i, m)) => sent = left
  BY <1>1, <1>4, <1>5, <1>6
<1>8. sent > 0 => Parsed(s, c.off + 1, m)
  BY <1>1, <1>5
<1>9. c.off + sent <= Len(s) /\ c.off + 0 <= Len(s) /\ sent \in Nat
  BY <1>1, <1>5
<1> QED
  BY <1>1, <1>2, <1>7, <1>8, <1>9 DEF s

(* The commands of a message are a part of the file.                       *)
LEMMA PartIs ==
  ASSUME NEW S, NEW s \in Seq(S), NEW o \in Nat, NEW n \in Nat, o + n <= Len(s)
  PROVE  /\ SubSeq(s, o + 1, o + n) \in Seq(S) /\ Len(SubSeq(s, o + 1, o + n)) = n
         /\ \A j \in 1..n : SubSeq(s, o + 1, o + n)[j] = s[o + j]
<1>1. \A i \in (o + 1)..(o + n) : s[i] \in S
  OBVIOUS
<1>2. Len(SubSeq(s, o + 1, o + n)) = n
  OBVIOUS
<1>3. \A j \in 1..n : SubSeq(s, o + 1, o + n)[j] = s[o + j]
  OBVIOUS
<1>4. SubSeq(s, o + 1, o + n) \in Seq(S)
  BY <1>1
<1> QED
  BY <1>2, <1>3, <1>4

(* What SendIncr does, with its parts by name.                             *)
Sending(m, sent, reached, pos) ==
  /\ m = Read(out.pos) /\ sent = Sent(out.pos, m) /\ reached = PlaceAt(out.pos.name, m.to)
  /\ pos = Advance(reached, m.eof)
  /\ \/ /\ out' = [out EXCEPT !.pos = pos]
        /\ chan' = IF m.to = m.from THEN chan
                     ELSE Append(chan, [type |-> "aof", dump |-> Empty, pos |-> pos,
                            cmds |-> SubSeq(aof[out.pos.name], out.pos.off + 1,
                                            out.pos.off + sent)])
     \/ /\ Astray(out.pos, m, sent)
        /\ out' = [out EXCEPT !.mode = "undefined"]
        /\ chan' = chan
  /\ strayed' = (strayed \/ reached # [out.pos EXCEPT !.off = out.pos.off + sent])

LEMMA SendIncrIs ==
  ASSUME SendIncr
  PROVE  /\ UNCHANGED <<vars, replica, link, faults, scrashes, cut, aof>>
         /\ link /\ out.mode = "incr"
         /\ \E m, sent, reached, pos : Sending(m, sent, reached, pos)
<1>1. /\ UNCHANGED <<vars, replica, link, faults, scrashes, cut, aof>>
      /\ link /\ out.mode = "incr"
  BY DEF SendIncr, vars, disk
<1> DEFINE m == Read(out.pos)
           sent == Sent(out.pos, m)
           reached == PlaceAt(out.pos.name, m.to)
           pos == Advance(reached, m.eof)
<1>2. Sending(m, sent, reached, pos)
  BY DEF SendIncr, Sending
<1> HIDE DEF m, sent, reached, pos
<1> QED
  BY <1>1, <1>2

-----------------------------------------------------------------------------
(* The master sends.                                                       *)
(* A message that carries the next piece is put behind the others.         *)
LEMMA LastSent ==
  ASSUME RInv, NEW m \in Messages, chan' = Append(chan, m), UNCHANGED <<aof, replica>>,
         Piece(aof, m.cmds, Prev(Len(chan) + 1), m.pos),
         out'.pos = m.pos
  PROVE  /\ chan' # <<>> /\ CarriesLog'
         /\ chan # <<>> => chan'[1] = chan[1]
         /\ chan = <<>> => chan'[1] = m
<1>1. chan \in Seq(Messages) /\ CarriesLog
  BY DEF RInv, Placed, ReplicaTypes, Linked
<1> DEFINE M == Messages
<1>2. /\ Len(chan) \in Nat /\ Len(chan') = Len(chan) + 1 /\ chan' \in Seq(M)
      /\ \A i \in 1..Len(chan) : chan'[i] = chan[i]
      /\ chan'[Len(chan) + 1] = m /\ chan' # <<>>
  <2>1. chan \in Seq(M) /\ m \in M
    BY <1>1
  <2> HIDE DEF M
  <2> QED
    BY <2>1
<1>3. /\ chan # <<>> => chan'[1] = chan[1]
      /\ chan = <<>> => chan'[1] = m
  BY <1>1, <1>2
<1>5. ASSUME NEW i \in 1..(Len(chan) + 1) PROVE Prev(i)' = Prev(i)
  <2>1. i # 1 => i - 1 \in 1..Len(chan)
    BY <1>2
  <2> QED
    BY <1>2, <2>1 DEF Prev
<1>6. ASSUME NEW i \in 1..Len(chan')
      PROVE  Piece(aof', chan'[i].cmds, Prev(i)', chan'[i].pos)
  <2>1. CASE i = Len(chan) + 1
    <3>1. chan'[i] = m /\ Prev(i)' = Prev(Len(chan) + 1)
      BY <1>2, <1>5, <2>1
    <3> QED
      BY <3>1
  <2>2. CASE i # Len(chan) + 1
    <3>1. i \in 1..Len(chan)
      BY <1>2, <2>2
    <3>2. chan'[i] = chan[i] /\ Prev(i)' = Prev(i)
      BY <1>2, <1>5, <3>1
    <3> QED
      BY <1>1, <3>1, <3>2 DEF CarriesLog
  <2> QED
    BY <2>1, <2>2
<1>7. Prev(Len(chan) + 1)' = m.pos
  <2>1. Len(chan') + 1 # 1 /\ (Len(chan') + 1) - 1 = Len(chan) + 1
    BY <1>2
  <2>2. Prev(Len(chan) + 1)' = chan'[(Len(chan') + 1) - 1].pos
    BY <2>1 DEF Prev
  <2> QED
    BY <1>2, <2>1, <2>2
<1>8. Adjacent(aof, m.pos, m.pos)
  BY PlaceFields DEF Messages, Adjacent
<1>9. CarriesLog'
  BY <1>6, <1>7, <1>8 DEF CarriesLog
<1> QED
  BY <1>2, <1>3, <1>9

LEMMA SendBulkStep ==
  ASSUME RInv, SendBulk
  PROVE  Linked' /\ HasAll'
<1>1. /\ TypeOK /\ ReplicaTypes /\ Inside /\ Linked /\ HasAll
      /\ replica \in Replicas /\ out \in Outs /\ chan \in Seq(Messages)
  BY DEF RInv, Placed, IInv, ReplicaTypes
<1>2. /\ UNCHANGED <<vars, replica, link, scrashes, cut, strayed, aof>>
      /\ link /\ out.mode = "bulk" /\ ~strayed
  BY DEF SendBulk, RInv, vars, disk
<1> DEFINE m == [type |-> "bulk", cmds |-> <<>>, dump |-> out.dump, pos |-> out.pos]
<1>3. m \in Messages /\ m.cmds = <<>> /\ m.pos = out.pos /\ m.dump = out.dump
  BY <1>1 DEF Messages, Outs
<1>4. chan' = Append(chan, m)
  BY DEF SendBulk
<1> HIDE DEF m
<1>5. out' \in Outs /\ out'.mode = "incr" /\ out'.pos = out.pos
  <2>1. Empty \in Data
    BY <1>1, StartFacts
  <2> QED
    BY <1>1, <2>1 DEF SendBulk, Outs
<1>6. replica.reads = "bulk"
  <2>1. Idle.mode = "idle"
    BY <1>1, StartFacts
  <2> QED
    BY <1>1, <1>2, <2>1, ReplicaFields DEF Linked, Handlers
<1>7. chan = <<>> /\ out.pos = replica.pos /\ HoldsBefore(aof, out.dump, replica.pos)
  BY <1>1, <1>2, <1>6 DEF Linked, CarriesDump
<1>8. out.pos.name > 0 /\ IsPlace(aof, out.pos) /\ out.pos \in LinkPlace
  BY <1>1, <1>2 DEF Inside, Outs
<1>9. Piece(aof, m.cmds, Prev(Len(chan) + 1), m.pos)
  <2>1. Prev(Len(chan) + 1) = out.pos
    BY <1>7 DEF Prev
  <2> DEFINE g == out.pos.name
             o == out.pos.off
  <2>2. g \in 1..Len(aof) /\ o \in 0..Len(aof[g]) /\ out.pos = At(g, o)
    BY <1>1, <1>2, <1>8, CmdTypes DEF LinkPlace, PackParts, IsPlace, At
  <2>3. Adjacent(aof, out.pos, out.pos)
    BY <1>8, PlaceFields DEF Adjacent
  <2>4. Len(m.cmds) = 0 /\ o + 0 = o
    BY <1>3, <2>2
  <2>5. o <= Len(aof[g])
    BY <2>2
  <2> HIDE DEF g, o
  <2>6. PieceAt(aof, m.cmds, out.pos, out.pos, g, o)
    BY <2>2, <2>3, <2>4, <2>5 DEF PieceAt
  <2> QED
    BY <1>3, <2>1, <2>2, <2>6 DEF Piece
<1>10. chan' # <<>> /\ CarriesLog' /\ chan'[1] = m
  BY <1>2, <1>3, <1>4, <1>5, <1>7, <1>9, LastSent
<1>13. Handlers' /\ CachedBehind' /\ CarriesDump'
  BY <1>1, <1>2, <1>3, <1>5, <1>6, <1>7, <1>8, <1>10
     DEF Linked, Handlers, CachedBehind, CarriesDump
<1>14. HasAll'
  BY <1>1, <1>2 DEF HasAll, Intact, Running, Transferring
<1> QED
  BY <1>10, <1>13, <1>14 DEF Linked

LEMMA AdjacentTrans ==
  ASSUME TypeOK, NEW a \in LinkPlace, NEW b \in LinkPlace, NEW c \in LinkPlace,
         Adjacent(aof, a, b), Adjacent(aof, b, c)
  PROVE  Adjacent(aof, a, c)
<1>1. /\ a.name \in Int /\ b.name \in Int /\ c.name \in Int
      /\ a.off \in Nat /\ b.off \in Nat /\ c.off \in Nat
  BY PlaceFields
<1>2. NotAfter(a, c)
  BY <1>1 DEF Adjacent, NotAfter
<1> QED
  BY <1>2 DEF Adjacent

(* The place behind what was sent: in the same file, or at the start of    *)
(* the next one when all of this file has been sent.                       *)
LEMMA AdvanceIs ==
  ASSUME TypeOK, NEW g \in 1..Len(aof), NEW o \in 0..Len(aof[g]), NEW eof \in BOOLEAN,
         eof => o = Len(aof[g])
  PROVE  /\ Advance(At(g, o), eof) \in LinkPlace
         /\ At(g, o) \in LinkPlace
         /\ Adjacent(aof, At(g, o), Advance(At(g, o), eof))
<1> DEFINE p == Advance(At(g, o), eof)
<1>1. /\ o \in Nat /\ Len(aof) \in Nat /\ At(g, o).name = g /\ At(g, o).off = o
      /\ \A f \in 1..Len(aof) : Len(aof[f]) \in Nat
  BY CmdTypes DEF At
<1>2. At(g, o) \in LinkPlace
  BY <1>1 DEF At, LinkPlace, PackParts
<1>3. CASE eof /\ g < Len(aof)
  <2>1. p = At(g + 1, 0)
    BY <1>1, <1>3 DEF Advance, Boundary, At
  <2>2. p \in LinkPlace
    <3>1. g + 1 \in 0..Len(aof) /\ 0 \in Nat /\ 0 \in PackParts
      BY <1>1, <1>3 DEF PackParts
    <3> QED
      BY <2>1, <3>1 DEF At, LinkPlace
  <2>3. o = Len(aof[g])
    BY <1>3
  <2> HIDE DEF p
  <2>4. Adjacent(aof, At(g, o), p)
    BY <1>1, <2>1, <2>3 DEF Adjacent, At, Before, NotAfter
  <2> QED
    BY <1>2, <2>2, <2>4 DEF p
<1>4. CASE ~(eof /\ g < Len(aof))
  <2>1. p = At(g, o)
    BY <1>1, <1>4 DEF Advance
  <2>2. Adjacent(aof, At(g, o), At(g, o))
    BY <1>2, PlaceFields DEF Adjacent
  <2> QED
    BY <1>2, <2>1, <2>2
<1> QED
  BY <1>3, <1>4

LEMMA SendIncrStep ==
  ASSUME RInv, SendIncr, ~strayed'
  PROVE  Linked' /\ HasAll'
<1>1. /\ TypeOK /\ ReplicaTypes /\ Inside /\ Linked /\ HasAll /\ ~strayed
      /\ replica \in Replicas /\ out \in Outs /\ chan \in Seq(Messages)
  BY DEF RInv, Placed, IInv, ReplicaTypes
<1>2. /\ UNCHANGED <<vars, replica, link, scrashes, cut, aof>>
      /\ link /\ out.mode = "incr"
  BY SendIncrIs
<1>3. PICK m, sent, reached, pos : Sending(m, sent, reached, pos)
  BY SendIncrIs
<1> DEFINE g == out.pos.name
           o == out.pos.off
           cmdsOf == SubSeq(aof[g], o + 1, o + sent)
           msg == [type |-> "aof", dump |-> Empty, pos |-> pos, cmds |-> cmdsOf]
<1>4. /\ out.pos \in LinkPlace /\ out.pos.name > 0 /\ IsPlace(aof, out.pos)
      /\ Adjacent(aof, Prev(Len(chan) + 1), out.pos)
  BY <1>1, <1>2 DEF Outs, Linked, Inside, CarriesLog
<1>5. SenderAt(out.pos)
  BY <1>1, <1>4, SenderIs
<1>6. /\ g \in 1..Len(aof) /\ o \in 0..Len(aof[g]) /\ out.pos = At(g, o) /\ out.pos.part = 0
      /\ Len(aof[g]) \in Nat /\ aof[g] \in Seq(Cmd) /\ o \in Nat
  BY <1>1, <1>4, <1>5 DEF SenderAt, LinkPlace, PackParts, At
<1>7. /\ m.from = Bytes(aof[g], o) /\ m.to \in Nat /\ m.eof \in BOOLEAN
      /\ m.eof => m.to = Bytes(aof[g], Len(aof[g]))
  <2>1. /\ m.from = Bytes(aof[g], o) + 0 /\ m.to \in Nat /\ m.eof \in BOOLEAN
        /\ m.eof => m.to = Bytes(aof[g], Len(aof[g]))
    BY <1>3, <1>5, <1>6, ReadIs DEF Sending, SenderAt
  <2>2. Bytes(aof[g], o) \in Nat
    BY <1>6, BytesGrow
  <2> QED
    BY <2>1, <2>2
<1>8. /\ sent \in Nat /\ o + sent <= Len(aof[g])
      /\ sent > 0 => Parsed(aof[g], o + 1, m)
  BY <1>3, <1>5, SentMost DEF Sending
<1>9. /\ reached = At(g, o + sent)
      /\ reached.part = m.to - Bytes(aof[g], reached.off)
      /\ m.eof => reached.off = Len(aof[g])
  <2>1. reached = [out.pos EXCEPT !.off = o + sent]
    BY <1>3 DEF Sending
  <2>2. reached = At(g, o + sent)
    BY <1>6, <2>1 DEF At
  <2>3. /\ reached.part = m.to - Bytes(aof[g], reached.off)
        /\ Bytes(aof[g], Len(aof[g])) <= m.to => reached.off = Len(aof[g])
    BY <1>3, <1>5, <1>7, PlaceAtIs DEF Sending
  <2>4. m.eof => Bytes(aof[g], Len(aof[g])) <= m.to
    BY <1>7
  <2> QED
    BY <2>2, <2>3, <2>4
<1>10. /\ m.to = Bytes(aof[g], o + sent) /\ o + sent \in 0..Len(aof[g])
       /\ m.eof => o + sent = Len(aof[g])
  <2>1. o + sent \in 0..Len(aof[g])
    BY <1>6, <1>8
  <2>2. Bytes(aof[g], o + sent) \in Nat
    BY <1>6, <2>1, BytesGrow
  <2>3. reached.off = o + sent /\ reached.part = 0
    BY <1>9 DEF At
  <2> QED
    BY <1>7, <1>9, <2>1, <2>2, <2>3
<1> HIDE DEF g, o
<1>11. /\ pos \in LinkPlace /\ At(g, o + sent) \in LinkPlace
       /\ Adjacent(aof, At(g, o + sent), pos)
  BY <1>1, <1>3, <1>6, <1>7, <1>9, <1>10, AdvanceIs DEF Sending
<1>12. ~Astray(out.pos, m, sent)
  <2>1. SUFFICES ASSUME o + sent < Len(aof[g]),
                        NEW end \in ReadEnds(m), end + ReadBytes < m.to,
                        Torn(aof[g], o + sent + 1, end)
                 PROVE  FALSE
    BY <1>6 DEF Astray, g, o
  <2>2. Bytes(aof[g], o + sent) + SizeLen < end
    <3>1. (o + sent + 1) - 1 = o + sent
      BY <1>6, <1>8
    <3> QED
      BY <2>1, <3>1 DEF Torn
  <2>3. SizeLen \in Nat /\ ReadBytes \in Nat /\ MaxReads \in Nat
    BY PackAssumption, ReadAssumption
  <2>4. Bytes(aof[g], o) \in Nat /\ m.from \in Nat
    BY <1>6, <1>7, BytesGrow
  <2>5. PICK n \in 1..(MaxReads - 1) : end = m.from + n * ReadBytes
    BY <2>1 DEF ReadEnds
  <2>6. n * ReadBytes \in Nat
    BY <2>3, <2>5
  <2>7. end \in Nat
    BY <2>4, <2>5, <2>6
  <2> QED
    BY <1>7, <1>10, <2>1, <2>2, <2>3, <2>7
<1>13. /\ out' = [out EXCEPT !.pos = pos]
       /\ chan' = IF m.to = m.from THEN chan ELSE Append(chan, msg)
  BY <1>3, <1>12 DEF Sending, g, o
<1>14. /\ cmdsOf \in Seq(Cmd) /\ Len(cmdsOf) = sent
       /\ \A j \in 1..sent : cmdsOf[j] = aof[g][o + j]
  BY <1>6, <1>8, PartIs
<1>15. Prev(Len(chan) + 1) \in LinkPlace
  <2>1. Len(chan) \in Nat /\ (Len(chan) + 1 # 1 => (Len(chan) + 1) - 1 \in 1..Len(chan))
    BY <1>1, MessageFields
  <2> QED
    BY <1>1, <2>1, ReplicaFields, MessageFields DEF Prev
<1>16. out'.mode = "incr" /\ out'.pos = pos
  BY <1>1, <1>2, <1>13 DEF Outs
<1>17. Empty \in Data
  BY <1>1, StartFacts
<1> HIDE DEF cmdsOf
<1>18. msg \in Messages /\ msg.cmds = cmdsOf /\ msg.pos = pos
  BY <1>11, <1>14, <1>17 DEF Messages
<1> HIDE DEF msg
<1>19. HasAll'
  BY <1>1, <1>2 DEF HasAll, Intact, Running, Transferring
<1>20. CASE m.to = m.from
  <2>1. chan' = chan
    BY <1>13, <1>20
  <2>2. sent = 0
    <3>1. ASSUME sent > 0 PROVE FALSE
      <4>1. Bytes(aof[g], o + 1) <= m.to /\ o + 1 \in 1..Len(aof[g]) /\ (o + 1) - 1 = o
        BY <1>6, <1>8, <3>1 DEF Parsed
      <4>2. Summed(aof[g]) /\ Bytes(aof[g], o) \in Nat
        BY <1>6, BytesAre, BytesGrow
      <4>3. /\ Bytes(aof[g], o + 1) = Bytes(aof[g], o) + PackLen[aof[g][o + 1]]
            /\ PackLen[aof[g][o + 1]] \in Nat /\ PackLen[aof[g][o + 1]] > SizeLen
        BY <4>1, <4>2 DEF Summed
      <4>4. SizeLen \in Nat
        BY PackAssumption
      <4> QED
        BY <1>7, <1>20, <4>1, <4>2, <4>3, <4>4
    <3> QED
      BY <1>8, <3>1
  <2>3. Adjacent(aof, Prev(Len(chan) + 1), pos)
    <3>1. At(g, o + sent) = out.pos
      BY <1>6, <2>2
    <3> QED
      BY <1>1, <1>4, <1>11, <1>15, <3>1, AdjacentTrans
  <2>4. \A i : Prev(i)' = Prev(i)
    BY <1>2, <2>1 DEF Prev
  <2>5. CarriesLog'
    <3>1. Prev(Len(chan) + 1)' = Prev(Len(chan) + 1)
      BY <1>2, <2>1 DEF Prev
    <3>2. \A i \in 1..Len(chan') : Piece(aof', chan'[i].cmds, Prev(i)', chan'[i].pos)
      BY <1>1, <1>2, <2>1, <2>4 DEF Linked, CarriesLog
    <3> QED
      BY <1>2, <1>16, <2>1, <2>3, <3>1, <3>2 DEF CarriesLog
  <2>6. Handlers' /\ CachedBehind' /\ CarriesDump'
    BY <1>1, <1>2, <1>16, <2>1 DEF Linked, Handlers, CachedBehind, CarriesDump, Idle
  <2> QED
    BY <1>19, <2>5, <2>6 DEF Linked
<1>21. CASE m.to # m.from
  <2>1. chan' = Append(chan, msg)
    BY <1>13, <1>21
  <2>2. Piece(aof, msg.cmds, Prev(Len(chan) + 1), msg.pos)
    <3>1. PieceAt(aof, cmdsOf, Prev(Len(chan) + 1), pos, g, o)
      BY <1>4, <1>6, <1>8, <1>11, <1>14 DEF PieceAt
    <3> QED
      BY <1>6, <1>18, <3>1 DEF Piece
  <2>3. /\ chan' # <<>> /\ CarriesLog'
        /\ chan # <<>> => chan'[1] = chan[1]
    BY <1>2, <1>16, <1>18, <2>1, <2>2, LastSent
  <2>4. Handlers' /\ CachedBehind' /\ CarriesDump'
    BY <1>1, <1>2, <1>16, <2>3 DEF Linked, Handlers, CachedBehind, CarriesDump, Idle
  <2> QED
    BY <1>19, <2>3, <2>4 DEF Linked
<1> QED
  BY <1>20, <1>21

-----------------------------------------------------------------------------
(* PSYNC: the answer is the place of the dump, a place the replica has     *)
(* already, or the start of the first file.                                *)
LEMMA BoundaryIs ==
  ASSUME NEW c \in Place
  PROVE  /\ Boundary(c) \in LinkPlace /\ Boundary(c).name = c.name /\ Boundary(c).off = c.off
         /\ IsPlace(aof, c) => IsPlace(aof, Boundary(c))
         /\ \A d : HoldsBefore(aof, d, c) => HoldsBefore(aof, d, Boundary(c))
<1>1. Boundary(c) \in LinkPlace
  BY DEF Boundary, Place, LinkPlace, PackParts
<1>2. Boundary(c).name = c.name /\ Boundary(c).off = c.off
  BY DEF Boundary
<1> QED
  BY <1>1, <1>2 DEF IsPlace, HoldsBefore, Before

LEMMA AnswerIs ==
  ASSUME IInv, NEW c \in LinkPlace, IsPlace(aof, c)
  PROVE  /\ Answer(c).type \in {"FULLSYNC", "PARTSYNC", "TRYSYNC"}
         /\ Answer(c).type = "FULLSYNC" => Answer(c).pos = Boundary(conf) /\ conf.name > 0
         /\ Answer(c).type = "PARTSYNC" =>
              /\ Answer(c).pos \in LinkPlace /\ Answer(c).pos.name > 0
              /\ IsPlace(aof, Answer(c).pos)
              /\ \A d : HoldsBefore(aof, d, c) => HoldsBefore(aof, d, Answer(c).pos)
<1> DEFINE full == IF conf.name = 0
                     THEN [type |-> "TRYSYNC", pos |-> Unset]
                     ELSE [type |-> "FULLSYNC", pos |-> Boundary(conf)]
           first == [type |-> "PARTSYNC", pos |-> Boundary([name |-> 1, off |-> 0])]
           same == [type |-> "PARTSYNC", pos |-> c]
<1>1. /\ Len(aof) \in Nat \ {0} /\ \A f \in 1..Len(aof) : Len(aof[f]) \in Nat
      /\ c.name \in 0..Len(aof) /\ conf.name \in 0..Len(aof)
  BY CmdTypes DEF IInv, TypeOK, Place, LinkPlace
<1>2. CASE Answer(c) = full
  BY <1>1, <1>2
<1>3. CASE Answer(c) = first
  <2>1. 1 \in 1..Len(aof) /\ Len(aof[1]) \in Nat
    BY <1>1
  <2>2. /\ At(1, 0) \in LinkPlace /\ At(1, 0).name > 0 /\ IsPlace(aof, At(1, 0))
        /\ \A d : HoldsBefore(aof, d, At(1, 0))
    BY <1>1, <2>1 DEF At, LinkPlace, PackParts, IsPlace, HoldsBefore, Before
  <2>3. Answer(c).type = "PARTSYNC" /\ Answer(c).pos = At(1, 0)
    BY <1>3 DEF At, Boundary
  <2> QED
    BY <2>2, <2>3
<1>4. CASE Answer(c) = same /\ c.name # 0
  <2>1. c.name > 0
    BY <1>1, <1>4
  <2>2. Answer(c).type = "PARTSYNC" /\ Answer(c).pos = c
    BY <1>4
  <2> QED
    BY <2>1, <2>2
<1>5. \/ Answer(c) = full \/ Answer(c) = first
      \/ Answer(c) = same /\ c.name # 0
  BY DEF Answer
<1> QED
  BY <1>2, <1>3, <1>4, <1>5

(* The replica takes over the place of the answer, and the sender starts   *)
(* there.                                                                  *)
LEMMA SyncedLink ==
  ASSUME RInv, UNCHANGED <<vars, link, chan, scrashes, cut, strayed>>, Exchanged,
         NEW state \in States, NEW reads \in {"bulk", "incr"},
         NEW pos \in LinkPlace, pos.name > 0, IsPlace(aof, pos), NEW dump \in Data,
         reads = "bulk" => HoldsBefore(aof, dump, pos),
         state = "TRANSFOR" => reads = "bulk",
         \A d : reads = "incr" /\ HoldsBefore(aof, d, replica.cached) => HoldsBefore(aof, d, pos),
         replica' = [replica EXCEPT !.state = state, !.reads = reads,
                                    !.pos = pos, !.cached = pos],
         out' = [mode |-> reads, pos |-> pos, dump |-> dump]
  PROVE  Linked' /\ HasAll'
<1>1. /\ TypeOK /\ ReplicaTypes /\ Inside /\ Linked /\ HasAll
      /\ replica \in Replicas /\ aof' = aof
  BY DEF RInv, Placed, IInv, ReplicaTypes, vars, disk
<1>2. link /\ replica.run = "up" /\ replica.reads = "sync" /\ replica.state = "RECEIVE_PONG"
  BY DEF Exchanged, Running
<1>3. chan = <<>> /\ chan' = <<>> /\ Len(chan') = 0
  BY <1>1, <1>2 DEF Linked, Handlers
<1>4. /\ replica' \in Replicas /\ replica'.run = "up" /\ replica'.state = state
      /\ replica'.reads = reads /\ replica'.pos = pos /\ replica'.cached = pos
      /\ replica'.mem = replica.mem /\ replica'.file = replica.file
  BY <1>1, <1>2 DEF Replicas
<1>5. out' \in Outs /\ out'.mode = reads /\ out'.pos = pos /\ out'.dump = dump
  BY DEF Outs
<1>8. NotAfter(pos, pos) /\ Adjacent(aof, pos, pos)
  BY PlaceFields DEF Adjacent
<1>9. Handlers' /\ CachedBehind' /\ CarriesDump'
  BY <1>1, <1>2, <1>3, <1>4, <1>5, <1>8 DEF Linked, Handlers, CachedBehind, CarriesDump
<1>10. CarriesLog'
  <2>1. Prev(Len(chan) + 1)' = pos
    BY <1>3, <1>4 DEF Prev
  <2> QED
    BY <1>1, <1>3, <1>5, <1>8, <2>1 DEF CarriesLog
<1>11. HasAll'
  <2>1. CASE reads = "bulk"
    BY <1>4, <2>1 DEF HasAll, Transferring
  <2>2. CASE reads = "incr"
    <3>1. Intact' => HoldsBefore(aof, replica.mem, replica.cached)
      BY <1>1, <1>2 DEF HasAll, Intact, Running, Transferring
    <3> QED
      BY <1>1, <1>4, <2>2, <3>1 DEF HasAll
  <2> QED
    BY <2>1, <2>2
<1> QED
  BY <1>9, <1>10, <1>11 DEF Linked

LEMMA PsyncStep ==
  ASSUME RInv, Psync
  PROVE  Linked' /\ HasAll'
<1> DEFINE a == Answer(replica.cached)
<1>1. /\ IInv /\ TypeOK /\ ReplicaTypes /\ Inside /\ Linked /\ HasAll
      /\ replica \in Replicas /\ replica.cached \in LinkPlace
  BY ReplicaFields DEF RInv, Placed, IInv, ReplicaTypes
<1>2. UNCHANGED <<scrashes, cut, strayed>> /\ Exchanged /\ ~strayed
  BY DEF Psync, RInv
<1>3. /\ a.type = "FULLSYNC" => a.pos = Boundary(conf) /\ conf.name > 0
      /\ a.type = "PARTSYNC" =>
           /\ a.pos \in LinkPlace /\ a.pos.name > 0 /\ IsPlace(aof, a.pos)
           /\ \A d : HoldsBefore(aof, d, replica.cached) => HoldsBefore(aof, d, a.pos)
  BY <1>1, AnswerIs DEF Inside
<1>4. ASSUME a.type = "FULLSYNC",
             replica' = [replica EXCEPT !.state = "TRANSFOR", !.reads = "bulk",
                                        !.pos = a.pos, !.cached = a.pos],
             out' = [mode |-> "bulk", pos |-> a.pos, dump |-> db],
             UNCHANGED <<vars, link, chan>>
      PROVE  Linked' /\ HasAll'
  <2>1. /\ conf \in Place /\ conf.name > 0 /\ a.pos = Boundary(conf) /\ IsPlace(aof, conf)
        /\ db \in Data /\ HoldsBefore(aof, db, conf) /\ "TRANSFOR" \in States
    BY <1>1, <1>3, <1>4 DEF IInv, TypeOK, PlacesInside, DumpCovers, States
  <2>2. /\ a.pos \in LinkPlace /\ a.pos.name > 0 /\ IsPlace(aof, a.pos)
        /\ HoldsBefore(aof, db, a.pos)
    BY <2>1, BoundaryIs
  <2> HIDE DEF a
  <2> QED
    BY <1>2, <1>4, <2>1, <2>2, SyncedLink
<1>5. ASSUME a.type = "PARTSYNC",
             replica' = [replica EXCEPT !.state = "CONNECTED", !.reads = "incr",
                                        !.pos = a.pos, !.cached = a.pos],
             out' = [Idle EXCEPT !.mode = "incr", !.pos = a.pos],
             UNCHANGED <<vars, link, chan>>
      PROVE  Linked' /\ HasAll'
  <2>1. out' = [mode |-> "incr", pos |-> a.pos, dump |-> Empty]
    BY <1>5 DEF Idle
  <2>2. Empty \in Data /\ "CONNECTED" \in States
    BY <1>1, StartFacts DEF States
  <2> HIDE DEF a
  <2> QED
    BY <1>2, <1>3, <1>5, <2>1, <2>2, SyncedLink
<1>6. ASSUME Bgsave \/ UNCHANGED vars, NoLink,
             replica' = [replica EXCEPT !.state = "CONNECT", !.reads = "none"]
      PROVE  Linked' /\ HasAll'
  <2>1. [Next]_vars /\ aof' = aof
    BY <1>6 DEF Next, Bgsave, vars, disk
  <2>3. replica.run = "up" /\ replica.reads = "sync" /\ replica.state = "RECEIVE_PONG"
    BY <1>2 DEF Exchanged, Running
  <2>4. /\ replica' \in Replicas /\ replica'.run = "up" /\ replica'.state = "CONNECT"
        /\ replica'.reads = "none" /\ replica'.pos = replica.pos
        /\ replica'.cached = replica.cached
        /\ replica'.mem = replica.mem /\ replica'.file = replica.file
    BY <1>1, <1>6, <2>3 DEF Replicas, States
  <2>5. link' = FALSE /\ chan' = <<>> /\ out' = Idle /\ Len(chan') = 0
    BY <1>6 DEF NoLink
  <2>6. out'.mode = "idle" /\ CarriesLog'
    BY <2>5, EmptyLink
  <2>9. Handlers' /\ CachedBehind' /\ CarriesDump'
    BY <1>1, <2>4, <2>5, <2>6 DEF Linked, Handlers, CachedBehind, CarriesDump
  <2>10. HasAll'
    BY <1>1, <1>2, <2>1, <2>3, <2>4 DEF HasAll, Intact, Running, Transferring
  <2> QED
    BY <2>6, <2>9, <2>10 DEF Linked
<1> QED
  BY <1>4, <1>5, <1>6 DEF Psync

-----------------------------------------------------------------------------
(* The replica dies and is started again: nothing is claimed about its     *)
(* memory from then on, and the places it has on disk lie in the files.    *)
LEMMA ReplicaDiesStep ==
  ASSUME RInv, ReplicaDies
  PROVE  Linked' /\ HasAll'
<1>1. /\ TypeOK /\ ReplicaTypes /\ Inside /\ Linked
      /\ replica \in Replicas /\ Unset \in LinkPlace /\ Empty \in Data /\ IsPlace(aof, Unset)
  BY StartFacts DEF RInv, Placed, IInv, ReplicaTypes
<1>2. link' = FALSE /\ chan' = <<>> /\ out' = Idle
  BY DEF ReplicaDies, NoLink
<1>3. scrashes' \in 0..MaxSlaveCrashes /\ scrashes' > 0
  BY <1>1, ReplicaBoundAssumption DEF ReplicaDies, ReplicaTypes
<1>4. /\ replica' \in Replicas /\ replica'.run = "down" /\ replica'.state = "NONE"
      /\ replica'.reads = "none" /\ replica'.pos = Unset /\ replica'.cached = Unset
      /\ replica'.file = replica.file
  <2>1. /\ replica.file \in [cached : LinkPlace, known : BOOLEAN]
        /\ replica.dump \in Data /\ replica.log \in Seq(Cmd) /\ <<>> \in Seq(Cmd)
    BY <1>1, ReplicaFields
  <2>2. [cached |-> Unset, known |-> FALSE] \in [cached : LinkPlace, known : BOOLEAN]
    BY <1>1
  <2>3. Fresh \in Replicas
    BY <1>1, <2>1, <2>2 DEF Fresh, Replicas, States
  <2>4. /\ Fresh.state = "NONE" /\ Fresh.reads = "none" /\ Fresh.pos = Unset
        /\ Fresh.cached = Unset
    BY DEF Fresh
  <2>5. replica' = [Fresh EXCEPT !.run = "down", !.file = replica.file,
                                 !.dump = replica.dump, !.log = replica.log]
    BY DEF ReplicaDies, Dead
  <2> QED
    BY <2>1, <2>3, <2>4, <2>5 DEF Replicas
<1>5. out'.mode = "idle" /\ CarriesLog'
  BY <1>2, EmptyLink
<1>8. Handlers' /\ CachedBehind' /\ CarriesDump'
  BY <1>2, <1>3, <1>4, <1>5 DEF Handlers, CachedBehind, CarriesDump
<1>9. HasAll'
  BY <1>4 DEF HasAll, Running
<1> QED
  BY <1>5, <1>8, <1>9 DEF Linked

LEMMA ReplicaRestartStep ==
  ASSUME RInv, ReplicaRestart
  PROVE  Linked' /\ HasAll'
<1>1. /\ TypeOK /\ ReplicaTypes /\ Inside /\ Linked /\ replica \in Replicas
      /\ scrashes \in Nat
  BY ReplicaBoundAssumption DEF RInv, Placed, IInv, ReplicaTypes
<1>2. /\ UNCHANGED <<vars, scrashes, link, chan, out, aof>>
      /\ replica.run = "down"
  BY DEF ReplicaRestart, Untouched, linkVars, vars, disk
<1>3. replica.reads = "none" /\ scrashes > 0 /\ ~link /\ chan = <<>> /\ out = Idle
  BY <1>1, <1>2 DEF Linked, Handlers
<1>4. /\ replica' \in Replicas /\ replica'.run = "up" /\ replica'.state \in {"CONNECT", "NONE"}
      /\ replica'.reads = "none" /\ replica'.pos = replica.pos
      /\ replica'.cached = replica.file.cached /\ replica'.file = replica.file
  <2> DEFINE data == Apply(replica.dump, replica.log)
             state == IF replica.file.known THEN "CONNECT" ELSE "NONE"
  <2>1. data \in Data /\ replica.file.cached \in LinkPlace /\ replica.file.known \in BOOLEAN
    BY <1>1, ReplicaFields, ApplyType
  <2>2. state \in {"CONNECT", "NONE"}
    OBVIOUS
  <2>3. replica' = [replica EXCEPT !.run = "up", !.mem = data,
                      !.cached = replica.file.cached, !.known = replica.file.known,
                      !.state = state]
    BY DEF ReplicaRestart
  <2> HIDE DEF data, state
  <2> QED
    BY <1>1, <1>3, <2>1, <2>2, <2>3 DEF Replicas, States
<1>7. Handlers' /\ CachedBehind' /\ CarriesDump'
  BY <1>1, <1>2, <1>3, <1>4 DEF Linked, Handlers, CachedBehind, CarriesDump
<1>8. CarriesLog'
  BY <1>2, <1>4, SamePlace
<1>9. HasAll'
  BY <1>1, <1>2, <1>3 DEF HasAll, Intact
<1> QED
  BY <1>7, <1>8, <1>9 DEF Linked

-----------------------------------------------------------------------------
(* Every step keeps types and places, whatever the sender does.            *)
(* A step here is a step of the master, or leaves it alone.                *)
LEMMA MasterStepOrNot ==
  ASSUME [ReplicaNext]_allVars
  PROVE  [Next]_vars
<1>1. CASE MasterStep
  BY <1>1 DEF MasterStep, Next
<1>2. CASE MasterDies
  BY <1>2 DEF MasterDies, Next
<1>3. CASE Psync
  BY <1>3 DEF Psync, Next
<1>4. CASE SendIncr \/ SendBulk
  BY <1>4 DEF SendIncr, SendBulk
<1>5. CASE Slaveof \/ ReplicaConfFlush \/ SendPing \/ SyncError \/ ReadBulk \/ ReadIncr
           \/ ReadError \/ Drop \/ ReplicaRestart
  BY <1>5 DEF Slaveof, ReplicaConfFlush, SendPing, SyncError, ReadBulk, ReadIncr, ReadError,
              Drop, ReplicaRestart, Untouched
<1>6. CASE BulkError \/ ReplicaDies \/ \E timeout \in BOOLEAN : Cron(timeout)
  BY <1>6 DEF BulkError, ReplicaDies, Cron
<1>7. CASE UNCHANGED allVars
  BY <1>7 DEF allVars
<1> QED
  BY <1>1, <1>2, <1>3, <1>4, <1>5, <1>6, <1>7 DEF ReplicaNext

Fits(r) ==
  /\ r \in Replicas
  /\ IsPlace(aof, r.pos) /\ IsPlace(aof, r.cached) /\ IsPlace(aof, r.file.cached)
ChanFits(c) == c \in Seq(Messages) /\ \A i \in 1..Len(c) : IsPlace(aof, c[i].pos)
OutFits(x) == x \in Outs /\ IsPlace(aof, x.pos) /\ (x.mode # "idle" => x.pos.name > 0)
Counted ==
  /\ link \in BOOLEAN /\ cut \in BOOLEAN /\ strayed \in BOOLEAN
  /\ faults \in 0..MaxFaults /\ scrashes \in 0..MaxSlaveCrashes

LEMMA FitsNow ==
  ASSUME Placed
  PROVE  Fits(replica) /\ ChanFits(chan) /\ OutFits(out)
  BY DEF Placed, ReplicaTypes, Inside, Fits, ChanFits, OutFits

LEMMA PlacedKept ==
  ASSUME Placed, IInv', [Next]_vars, strayed => strayed', Counted',
         Fits(replica'), ChanFits(chan'), OutFits(out')
  PROVE  Placed'
<1>1. TypeOK
  BY DEF Placed, IInv
<1>2. /\ replica' \in Replicas /\ chan' \in Seq(Messages) /\ out' \in Outs
      /\ IsPlace(aof, replica'.pos) /\ IsPlace(aof, replica'.cached)
      /\ IsPlace(aof, replica'.file.cached) /\ IsPlace(aof, out'.pos)
      /\ \A i \in 1..Len(chan') : IsPlace(aof, chan'[i].pos)
      /\ out'.mode # "idle" => out'.pos.name > 0
  BY DEF Fits, ChanFits, OutFits
<1>3. /\ replica'.pos \in LinkPlace /\ replica'.cached \in LinkPlace
      /\ replica'.file.cached \in LinkPlace /\ out'.pos \in LinkPlace
  BY <1>2, ReplicaFields DEF Outs
<1>4. \A i \in 1..Len(chan') : chan'[i].pos \in LinkPlace
  <2> SUFFICES ASSUME NEW i \in 1..Len(chan') PROVE chan'[i].pos \in LinkPlace
    OBVIOUS
  <2>1. chan'[i] \in Messages
    BY <1>2
  <2> QED
    BY <2>1 DEF Messages
<1>5. ReplicaTypes'
  <2>1. replica' \in Replicas' /\ chan' \in Seq(Messages') /\ out' \in Outs'
    BY <1>1, <1>2, TypesStay
  <2> QED
    BY <2>1 DEF ReplicaTypes, Counted
<1>6. Inside'
  BY <1>1, <1>2, <1>3, <1>4, PlacesStay DEF Inside
<1> QED
  BY <1>5, <1>6 DEF Placed

LEMMA CountedKept ==
  ASSUME ReplicaTypes, [ReplicaNext]_allVars
  PROVE  Counted'
<1> USE DEF Counted, replicaVars, linkVars
<1>1. Counted /\ MaxFaults \in Nat /\ MaxSlaveCrashes \in Nat
  BY ReplicaBoundAssumption DEF ReplicaTypes
<1>2. CASE MasterStep \/ UNCHANGED allVars
  BY <1>1, <1>2 DEF MasterStep, allVars
<1>3. CASE MasterDies
  BY <1>1, <1>3 DEF MasterDies, NoLink
<1>4. CASE SendIncr
  BY <1>1, <1>4 DEF SendIncr
<1>5. CASE SendBulk \/ SendPing \/ SyncError \/ ReadBulk \/ ReadIncr \/ ReadError
           \/ ReplicaConfFlush \/ ReplicaRestart
  BY <1>1, <1>5 DEF SendBulk, SendPing, SyncError, ReadBulk, ReadIncr, ReadError,
                    ReplicaConfFlush, ReplicaRestart, Untouched
<1>6. CASE Psync
  BY <1>1, <1>6 DEF Psync, NoLink
<1>7. CASE Slaveof
  BY <1>1, <1>7 DEF Slaveof, Untouched
<1>8. CASE BulkError
  BY <1>1, <1>8 DEF BulkError
<1>9. CASE Drop
  <2>1. /\ faults < MaxFaults /\ faults' = faults + 1 /\ link' = FALSE
        /\ UNCHANGED <<scrashes, cut, strayed>>
    BY <1>9 DEF Drop, Untouched, NoLink
  <2>2. faults' \in 0..MaxFaults /\ scrashes' \in 0..MaxSlaveCrashes
    BY <1>1, <2>1
  <2>3. link' \in BOOLEAN /\ cut' \in BOOLEAN /\ strayed' \in BOOLEAN
    BY <1>1, <2>1
  <2> QED
    BY <2>2, <2>3
<1>10. CASE ReplicaDies
  <2>1. /\ scrashes < MaxSlaveCrashes /\ scrashes' = scrashes + 1 /\ link' = FALSE
        /\ UNCHANGED <<faults, cut, strayed>>
    BY <1>10 DEF ReplicaDies, NoLink
  <2>2. faults' \in 0..MaxFaults /\ scrashes' \in 0..MaxSlaveCrashes
    BY <1>1, <2>1
  <2>3. link' \in BOOLEAN /\ cut' \in BOOLEAN /\ strayed' \in BOOLEAN
    BY <1>1, <2>1
  <2> QED
    BY <2>2, <2>3
<1>11. ASSUME NEW timeout \in BOOLEAN, Cron(timeout) PROVE Counted'
  <2>1. link' \in BOOLEAN
    BY <1>1, <1>11 DEF Cron
  <2>2. cut' \in BOOLEAN
    BY <1>11 DEF Cron
  <2>3. faults' \in 0..MaxFaults /\ scrashes' = scrashes /\ strayed' = strayed
    BY <1>1, <1>11 DEF Cron
  <2> QED
    BY <1>1, <2>1, <2>2, <2>3
<1> QED
  BY <1>2, <1>3, <1>4, <1>5, <1>6, <1>7, <1>8, <1>9, <1>10, <1>11 DEF ReplicaNext

(* The place that a read of the sender reaches lies in its file, or at the *)
(* start of the next.                                                      *)
LEMMA SendIncrPlaced ==
  ASSUME Placed, IInv', SendIncr, Counted'
  PROVE  Placed'
<1>1. /\ TypeOK /\ ReplicaTypes /\ Inside /\ replica \in Replicas /\ out \in Outs
      /\ chan \in Seq(Messages)
  BY DEF Placed, IInv, ReplicaTypes
<1>2. UNCHANGED <<vars, replica, aof>> /\ link /\ out.mode = "incr"
  BY SendIncrIs
<1>3. PICK m, sent, reached, pos : Sending(m, sent, reached, pos)
  BY SendIncrIs
<1>4. [Next]_vars /\ (strayed => strayed')
  BY <1>2, <1>3 DEF Sending
<1>5. /\ replica \in Replicas' /\ chan \in Seq(Messages') /\ out \in Outs'
  BY <1>1, <1>4, TypesStay
<1> DEFINE g == out.pos.name
<1>6. out.pos \in LinkPlace /\ out.pos.name > 0 /\ IsPlace(aof, out.pos)
  BY <1>1, <1>2 DEF Outs, Inside
<1>7. SenderAt(out.pos)
  BY <1>1, <1>6, SenderIs
<1>8. g \in 1..Len(aof) /\ Len(aof[g]) \in Nat /\ Len(aof) \in Nat
  BY <1>7, CmdTypes, <1>1 DEF SenderAt
<1>9. m.to \in Nat /\ m.eof \in BOOLEAN
  BY <1>3, <1>7, ReadIs DEF Sending
<1>10. sent \in Nat
  BY <1>3, <1>7, SentMost DEF Sending
<1>11. /\ reached.name = g /\ reached.off \in 0..Len(aof[g]) /\ reached.part \in Nat
       /\ reached = [name |-> g, off |-> reached.off, part |-> reached.part]
  BY <1>3, <1>7, <1>9, PlaceAtIs DEF Sending
<1>12. ~strayed' => reached.part = 0
  <2> SUFFICES ASSUME ~strayed' PROVE reached.part = 0
    OBVIOUS
  <2>1. reached = [out.pos EXCEPT !.off = out.pos.off + sent] /\ ~strayed
    BY <1>3 DEF Sending
  <2>2. out.pos.part = 0
    BY <1>6, <2>1 DEF LinkPlace, PackParts
  <2> QED
    BY <1>6, <2>1, <2>2 DEF LinkPlace
<1>13. pos \in LinkPlace' /\ pos.name > 0 /\ IsPlace(aof, pos)
  <2>1. CASE pos = reached
    <3>1. reached \in LinkPlace'
      BY <1>2, <1>8, <1>11, <1>12 DEF LinkPlace, PackParts
    <3> QED
      BY <1>8, <1>11, <2>1, <3>1 DEF IsPlace
  <2>2. CASE g < Len(aof) /\ pos = At(g + 1, 0)
    <3>1. pos.name = g + 1 /\ pos.off = 0 /\ g + 1 \in 1..Len(aof)
      BY <1>8, <2>2 DEF At
    <3>2. Len(aof[g + 1]) \in Nat
      BY <1>1, <3>1, CmdTypes
    <3>3. pos \in LinkPlace'
      BY <1>2, <1>8, <2>2 DEF At, LinkPlace, PackParts
    <3> QED
      BY <1>8, <3>1, <3>2, <3>3 DEF IsPlace
  <2>3. pos = reached \/ (g < Len(aof) /\ pos = At(g + 1, 0))
    BY <1>3, <1>11 DEF Sending, Advance, Boundary, At
  <2> QED
    BY <2>1, <2>2, <2>3
<1>14. out' \in Outs' /\ IsPlace(aof, out'.pos) /\ out'.pos.name > 0
  <2>1. CASE out' = [out EXCEPT !.pos = pos]
    BY <1>5, <1>13, <2>1 DEF Outs
  <2>2. CASE out' = [out EXCEPT !.mode = "undefined"]
    BY <1>5, <1>6, <2>2 DEF Outs
  <2> QED
    BY <1>3, <2>1, <2>2 DEF Sending
<1>15. chan' \in Seq(Messages') /\ \A i \in 1..Len(chan') : IsPlace(aof, chan'[i].pos)
  <2>1. CASE chan' = chan
    BY <1>1, <1>5, <2>1 DEF Inside
  <2>2. CASE chan' # chan
    <3> DEFINE part == SubSeq(aof[out.pos.name], out.pos.off + 1, out.pos.off + sent)
               msg == [type |-> "aof", dump |-> Empty, pos |-> pos, cmds |-> part]
               N == Messages'
    <3>1. chan' = Append(chan, msg)
      BY <1>3, <2>2 DEF Sending
    <3>2. part \in Seq(Cmd)
      <4>1. /\ out.pos.off \in Nat /\ aof[out.pos.name] \in Seq(Cmd)
            /\ out.pos.off + sent <= Len(aof[out.pos.name])
        <5>1. sent = Sent(out.pos, m)
          BY <1>3 DEF Sending
        <5>2. out.pos.off + sent <= Len(aof[out.pos.name])
          BY <1>7, <5>1, SentMost
        <5> QED
          BY <1>7, <1>8, <5>2 DEF SenderAt
      <4> QED
        BY <1>10, <4>1, PartIs
    <3>3. Empty \in Data
      BY <1>1, StartFacts
    <3> HIDE DEF part
    <3>4. msg \in Messages' /\ msg.pos = pos
      BY <1>13, <3>2, <3>3 DEF Messages
    <3>5. chan \in Seq(N) /\ msg \in N
      BY <1>5, <3>4
    <3> HIDE DEF msg, N
    <3>6. /\ chan' \in Seq(N) /\ Len(chan') = Len(chan) + 1 /\ Len(chan) \in Nat
          /\ chan'[Len(chan) + 1] = msg
          /\ \A i \in 1..Len(chan) : chan'[i] = chan[i]
      BY <3>1, <3>5
    <3>7. \A i \in 1..Len(chan') : i = Len(chan) + 1 \/ i \in 1..Len(chan)
      BY <3>6
    <3>8. \A i \in 1..Len(chan') : IsPlace(aof, chan'[i].pos)
      BY <1>1, <1>13, <3>4, <3>6, <3>7 DEF Inside
    <3> QED
      BY <3>6, <3>8 DEF N
  <2> QED
    BY <2>1, <2>2
<1>16. ReplicaTypes'
  BY <1>2, <1>5, <1>14, <1>15 DEF ReplicaTypes, Counted
<1>17. Inside'
  BY <1>1, <1>2, <1>14, <1>15 DEF Inside
<1> QED
  BY <1>16, <1>17 DEF Placed

(* What the replica and the link become in the other steps.                *)
LEMMA LinkFits ==
  ASSUME Placed, [ReplicaNext]_allVars, ~SendIncr
  PROVE  ChanFits(chan') /\ OutFits(out')
<1> USE DEF replicaVars, linkVars
<1>1. /\ IInv /\ TypeOK /\ ReplicaTypes /\ Inside /\ chan \in Seq(Messages) /\ out \in Outs
      /\ replica.cached \in LinkPlace /\ IsPlace(aof, replica.cached)
  BY ReplicaFields DEF Placed, IInv, ReplicaTypes, Inside
<1>2. /\ ChanFits(chan) /\ OutFits(out)
  BY FitsNow
<1>3. ChanFits(<<>>) /\ OutFits(Idle) /\ Empty \in Data
  BY <1>1, StartFacts DEF ChanFits, OutFits
<1>4. CASE UNCHANGED <<chan, out>>
  BY <1>2, <1>4
<1>5. CASE NoLink
  BY <1>3, <1>5 DEF NoLink
<1>6. CASE chan' = Tail(chan) /\ chan # <<>> /\ out' = out
  <2>1. /\ Tail(chan) \in Seq(Messages)
        /\ \A i \in 1..Len(Tail(chan)) : i + 1 \in 1..Len(chan) /\ Tail(chan)[i] = chan[i + 1]
    BY <1>1, <1>6, TailMessages
  <2> QED
    BY <1>1, <1>2, <1>6, <2>1 DEF ChanFits, Inside
<1>7. CASE SendBulk
  <2> DEFINE m == [type |-> "bulk", cmds |-> <<>>, dump |-> out.dump, pos |-> out.pos]
             M == Messages
  <2>1. m \in Messages /\ m.pos = out.pos /\ IsPlace(aof, out.pos) /\ out.pos.name > 0
    BY <1>1, <1>7 DEF SendBulk, Messages, Outs, Inside
  <2>2. chan' = Append(chan, m)
    BY <1>7 DEF SendBulk
  <2>3. chan \in Seq(M) /\ m \in M
    BY <1>1, <2>1
  <2> HIDE DEF m, M
  <2>4. /\ chan' \in Seq(M) /\ Len(chan') = Len(chan) + 1 /\ Len(chan) \in Nat
        /\ chan'[Len(chan) + 1] = m
        /\ \A i \in 1..Len(chan) : chan'[i] = chan[i]
    BY <2>2, <2>3
  <2>5. \A i \in 1..Len(chan') : i = Len(chan) + 1 \/ i \in 1..Len(chan)
    BY <2>4
  <2>6. ChanFits(chan')
    BY <1>1, <2>1, <2>4, <2>5 DEF ChanFits, Inside, M
  <2>7. OutFits(out')
    BY <1>1, <1>3, <1>7, <2>1 DEF SendBulk, Outs, OutFits
  <2> QED
    BY <2>6, <2>7
<1>8. ASSUME Psync PROVE ChanFits(chan') /\ OutFits(out')
  <2> DEFINE a == Answer(replica.cached)
  <2>1. /\ a.type = "FULLSYNC" => a.pos = Boundary(conf) /\ conf.name > 0
        /\ a.type = "PARTSYNC" =>
             a.pos \in LinkPlace /\ a.pos.name > 0 /\ IsPlace(aof, a.pos)
    BY <1>1, AnswerIs
  <2>2. /\ conf \in Place /\ db \in Data /\ IsPlace(aof, conf)
    BY <1>1 DEF IInv, TypeOK, PlacesInside
  <2>3. a.type \in {"FULLSYNC", "PARTSYNC"} =>
          a.pos \in LinkPlace /\ a.pos.name > 0 /\ IsPlace(aof, a.pos)
    BY <2>1, <2>2, BoundaryIs
  <2> HIDE DEF a
  <2>4. ASSUME NEW mode \in {"bulk", "incr"}, NEW dump \in Data,
               a.type \in {"FULLSYNC", "PARTSYNC"},
               out' = [mode |-> mode, pos |-> a.pos, dump |-> dump], chan' = chan
        PROVE  ChanFits(chan') /\ OutFits(out')
    BY <1>2, <2>3, <2>4 DEF Outs, OutFits
  <2>5. \/ NoLink
        \/ /\ a.type = "FULLSYNC" /\ chan' = chan
           /\ out' = [mode |-> "bulk", pos |-> a.pos, dump |-> db]
        \/ /\ a.type = "PARTSYNC" /\ chan' = chan
           /\ out' = [mode |-> "incr", pos |-> a.pos, dump |-> Empty]
    BY <1>8 DEF Psync, Idle, a
  <2> QED
    BY <1>3, <1>5, <2>2, <2>4, <2>5
<1>9. ASSUME NEW timeout \in BOOLEAN, Cron(timeout)
      PROVE  UNCHANGED <<chan, out>> \/ (chan' = <<>> /\ out' = Idle)
  BY <1>9 DEF Cron
<1>10. CASE chan' = <<>> /\ out' = Idle
  BY <1>3, <1>10
<1>11. CASE MasterStep \/ Slaveof \/ ReplicaConfFlush \/ SendPing \/ SyncError \/ BulkError
            \/ ReadError \/ ReplicaRestart \/ UNCHANGED allVars
  BY <1>4, <1>11 DEF MasterStep, Slaveof, ReplicaConfFlush, SendPing, SyncError, BulkError,
                     ReadError, ReplicaRestart, allVars
<1>12. CASE MasterDies \/ Drop \/ ReplicaDies
  BY <1>5, <1>12 DEF MasterDies, Drop, ReplicaDies
<1>13. CASE ReadBulk \/ ReadIncr
  BY <1>6, <1>13 DEF ReadBulk, ReadIncr
<1>14. CASE \E timeout \in BOOLEAN : Cron(timeout)
  BY <1>4, <1>9, <1>10, <1>14
<1> QED
  BY <1>7, <1>8, <1>11, <1>12, <1>13, <1>14 DEF ReplicaNext

LEMMA ReplicaFits ==
  ASSUME Placed, [ReplicaNext]_allVars
  PROVE  Fits(replica')
<1> USE DEF replicaVars
<1>1. /\ IInv /\ TypeOK /\ ReplicaTypes /\ Inside /\ chan \in Seq(Messages)
      /\ replica \in Replicas
  BY DEF Placed, IInv, ReplicaTypes
<1>2. /\ replica.pos \in LinkPlace /\ replica.cached \in LinkPlace
      /\ replica.file \in [cached : LinkPlace, known : BOOLEAN]
      /\ replica.mem \in Data /\ replica.dump \in Data
      /\ replica.backlog \in Seq(Cmd) /\ replica.log \in Seq(Cmd)
      /\ replica.file.cached \in LinkPlace /\ replica.file.known \in BOOLEAN
      /\ IsPlace(aof, replica.pos) /\ IsPlace(aof, replica.cached)
      /\ IsPlace(aof, replica.file.cached)
  BY <1>1, ReplicaFields DEF Inside
<1>3. Fits(replica)
  BY FitsNow
<1>4. Unset \in LinkPlace /\ IsPlace(aof, Unset) /\ Empty \in Data /\ <<>> \in Seq(Cmd)
  BY <1>1, StartFacts
<1>5. ASSUME NEW q \in Replicas, q.pos \in {replica.pos, Unset},
             q.cached \in {replica.pos, replica.cached, replica.file.cached, Unset},
             q.file = replica.file \/ q.file.cached \in {replica.file.cached, q.cached}
      PROVE  Fits(q)
  BY <1>2, <1>4, <1>5 DEF Fits
<1>6. ASSUME NEW q \in Replicas, Reconfigured(q, replica'), q.pos \in {replica.pos, Unset},
             q.cached \in {replica.pos, replica.cached}, q.file = replica.file
      PROVE  Fits(replica')
  BY <1>5, <1>6 DEF Reconfigured
<1>7. CASE UNCHANGED replica
  BY <1>3, <1>7
<1>8. CASE Psync
  <2> DEFINE a == Answer(replica.cached)
  <2>1. /\ a.type = "FULLSYNC" => a.pos = Boundary(conf) /\ conf.name > 0
        /\ a.type = "PARTSYNC" =>
             a.pos \in LinkPlace /\ a.pos.name > 0 /\ IsPlace(aof, a.pos)
    BY <1>1, <1>2, AnswerIs
  <2>2. /\ conf \in Place /\ IsPlace(aof, conf)
    BY <1>1 DEF IInv, TypeOK, PlacesInside
  <2>3. a.type \in {"FULLSYNC", "PARTSYNC"} => a.pos \in LinkPlace /\ IsPlace(aof, a.pos)
    BY <2>1, <2>2, BoundaryIs
  <2> HIDE DEF a
  <2>4. ASSUME NEW state \in States, NEW reads \in {"bulk", "incr"},
               a.type \in {"FULLSYNC", "PARTSYNC"},
               replica' = [replica EXCEPT !.state = state, !.reads = reads,
                                          !.pos = a.pos, !.cached = a.pos]
        PROVE  Fits(replica')
    <3>1. /\ replica' \in Replicas /\ replica'.pos = a.pos /\ replica'.cached = a.pos
          /\ replica'.file = replica.file
      BY <1>1, <2>3, <2>4 DEF Replicas
    <3> QED
      BY <1>2, <2>3, <2>4, <3>1 DEF Fits
  <2>5. ASSUME replica' = [replica EXCEPT !.state = "CONNECT", !.reads = "none"]
        PROVE  Fits(replica')
    <3>1. /\ replica' \in Replicas /\ replica'.pos = replica.pos
          /\ replica'.cached = replica.cached /\ replica'.file = replica.file
      BY <1>1, <2>5 DEF Replicas, States
    <3> QED
      BY <1>5, <3>1
  <2>6. "TRANSFOR" \in States /\ "CONNECTED" \in States
    BY DEF States
  <2>7. \/ /\ a.type = "FULLSYNC"
           /\ replica' = [replica EXCEPT !.state = "TRANSFOR", !.reads = "bulk",
                                          !.pos = a.pos, !.cached = a.pos]
        \/ /\ a.type = "PARTSYNC"
           /\ replica' = [replica EXCEPT !.state = "CONNECTED", !.reads = "incr",
                                          !.pos = a.pos, !.cached = a.pos]
        \/ replica' = [replica EXCEPT !.state = "CONNECT", !.reads = "none"]
    BY <1>8 DEF Psync, a
  <2> QED
    BY <2>4, <2>5, <2>6, <2>7
<1>9. CASE Slaveof \/ SendPing
  <2>1. PICK state \in States : replica' = [replica EXCEPT !.state = state]
    BY <1>9 DEF Slaveof, SendPing, States
  <2>2. /\ replica' \in Replicas /\ replica'.pos = replica.pos
        /\ replica'.cached = replica.cached /\ replica'.file = replica.file
    BY <1>1, <2>1 DEF Replicas
  <2> QED
    BY <1>5, <2>2
<1>10. CASE ReplicaConfFlush
  <2>1. Reconfigured(replica, replica')
    BY <1>1, <1>10, FlushedIs DEF ReplicaConfFlush
  <2> QED
    BY <1>1, <1>6, <2>1
<1>11. ASSUME NEW timeout \in BOOLEAN, Cron(timeout) PROVE Fits(replica')
  <2> DEFINE r == IF timeout THEN TimedOut(replica) ELSE replica
             q == IF r.state = "CONNECT" THEN Connecting(r) ELSE r
  <2>1. replica' = Merged(q)
    BY <1>11 DEF Cron
  <2>2. /\ r \in Replicas /\ r.pos = replica.pos /\ r.file = replica.file
        /\ r.cached \in {replica.cached, replica.pos}
    BY <1>1, TimedOutIs
  <2> HIDE DEF r
  <2>3. /\ q \in Replicas /\ q.pos \in {replica.pos, Unset} /\ q.file = replica.file
        /\ q.cached \in {replica.cached, replica.pos}
    BY <1>4, <2>2, ConnectingIs
  <2> HIDE DEF q
  <2>4. Reconfigured(q, replica')
    BY <2>1, <2>3, MergedIs
  <2> QED
    BY <1>6, <2>3, <2>4
<1>12. CASE SyncError \/ ReadError \/ BulkError
  <2>1. \/ \E state \in States : replica' = [replica EXCEPT !.state = state, !.reads = "none"]
        \/ replica' = [replica EXCEPT !.reads = "none"]
        \/ replica' = [replica EXCEPT !.run = "aborted"]
    BY <1>12 DEF SyncError, ReadError, BulkError, AbortSyncTransfer, States
  <2>2. /\ replica' \in Replicas /\ replica'.pos = replica.pos
        /\ replica'.cached = replica.cached /\ replica'.file = replica.file
    BY <1>1, <2>1 DEF Replicas
  <2> QED
    BY <1>5, <2>2
<1>13. CASE ReadBulk
  <2>1. Head(chan) = chan[1] /\ chan[1].dump \in Data
    BY <1>1, <1>13, TailMessages, MessageFields DEF ReadBulk
  <2>2. /\ replica' \in Replicas /\ replica'.pos = replica.pos
        /\ replica'.cached = replica.cached /\ replica'.file = replica.file
    BY <1>1, <1>13, <2>1 DEF ReadBulk, Replicas, States
  <2> QED
    BY <1>5, <2>2
<1>14. CASE ReadIncr
  <2> DEFINE m == chan[1]
  <2>1. /\ Head(chan) = m /\ m.cmds \in Seq(Cmd) /\ m.pos \in LinkPlace /\ IsPlace(aof, m.pos)
    BY <1>1, <1>14, TailMessages, MessageFields DEF ReadIncr, Inside
  <2> HIDE DEF m
  <2>2. Apply(replica.mem, m.cmds) \in Data /\ replica.backlog \o m.cmds \in Seq(Cmd)
    BY <1>2, <2>1, ApplyType
  <2>3. replica' = [replica EXCEPT !.mem = Apply(replica.mem, m.cmds),
                                   !.backlog = replica.backlog \o m.cmds, !.pos = m.pos]
    BY <1>14, <2>1 DEF ReadIncr, Received
  <2>4. /\ replica' \in Replicas /\ replica'.pos = m.pos
        /\ replica'.cached = replica.cached /\ replica'.file = replica.file
    BY <1>1, <2>1, <2>2, <2>3 DEF Replicas
  <2> QED
    BY <1>2, <2>1, <2>4 DEF Fits
<1>15. CASE ReplicaDies
  <2>1. [cached |-> Unset, known |-> FALSE] \in [cached : LinkPlace, known : BOOLEAN]
    BY <1>4
  <2>2. Fresh \in Replicas /\ Fresh.pos = Unset /\ Fresh.cached = Unset
    BY <1>4, <2>1 DEF Fresh, Replicas, States
  <2>3. replica' = [Fresh EXCEPT !.run = "down", !.file = replica.file,
                                 !.dump = replica.dump, !.log = replica.log]
    BY <1>15 DEF ReplicaDies, Dead
  <2>4. /\ replica' \in Replicas /\ replica'.pos = Unset
        /\ replica'.cached = Unset /\ replica'.file = replica.file
    BY <1>2, <2>2, <2>3 DEF Replicas
  <2> QED
    BY <1>5, <2>4
<1>16. CASE ReplicaRestart
  <2> DEFINE data == Apply(replica.dump, replica.log)
             state == IF replica.file.known THEN "CONNECT" ELSE "NONE"
  <2>1. data \in Data /\ state \in {"CONNECT", "NONE"}
    BY <1>2, ApplyType
  <2>2. replica' = [replica EXCEPT !.run = "up", !.mem = data,
                      !.cached = replica.file.cached, !.known = replica.file.known,
                      !.state = state]
    BY <1>16 DEF ReplicaRestart
  <2> HIDE DEF data, state
  <2>3. /\ replica' \in Replicas /\ replica'.pos = replica.pos
        /\ replica'.cached = replica.file.cached /\ replica'.file = replica.file
    BY <1>1, <1>2, <2>1, <2>2 DEF Replicas, States
  <2> QED
    BY <1>5, <2>3
<1>17. CASE MasterStep \/ MasterDies \/ SendIncr \/ SendBulk \/ Drop \/ UNCHANGED allVars
  BY <1>7, <1>17 DEF MasterStep, MasterDies, SendIncr, SendBulk, Drop, allVars
<1>18. CASE \E timeout \in BOOLEAN : Cron(timeout)
  BY <1>11, <1>18
<1> QED
  BY <1>8, <1>9, <1>10, <1>12, <1>13, <1>14, <1>15, <1>16, <1>17, <1>18 DEF ReplicaNext

(* Nothing but the sender strays.                                          *)
LEMMA OnlySenderStrays ==
  ASSUME [ReplicaNext]_allVars, ~SendIncr
  PROVE  strayed' = strayed
<1> USE DEF replicaVars
<1>1. ASSUME NEW timeout \in BOOLEAN, Cron(timeout) PROVE strayed' = strayed
  BY <1>1 DEF Cron
<1>2. CASE MasterStep \/ MasterDies \/ SendBulk \/ Psync \/ UNCHANGED allVars
  BY <1>2 DEF MasterStep, MasterDies, SendBulk, Psync, allVars
<1>3. CASE Slaveof \/ ReplicaConfFlush \/ SendPing \/ SyncError \/ ReadBulk \/ ReadIncr
           \/ ReadError \/ Drop \/ ReplicaRestart
  BY <1>3 DEF Slaveof, ReplicaConfFlush, SendPing, SyncError, ReadBulk, ReadIncr, ReadError,
              Drop, ReplicaRestart, Untouched
<1>4. CASE BulkError \/ ReplicaDies
  BY <1>4 DEF BulkError, ReplicaDies
<1> QED
  BY <1>1, <1>2, <1>3, <1>4 DEF ReplicaNext

LEMMA PlacedStep ==
  ASSUME OwnKeys, ~ChildMayDie, Placed, [ReplicaNext]_allVars
  PROVE  Placed' /\ (strayed => strayed')
<1>1. [Next]_vars /\ IInv' /\ Counted'
  BY MasterStepOrNot, InvStep, CountedKept DEF Placed
<1>2. CASE SendIncr
  <2>1. strayed => strayed'
    BY <1>2 DEF SendIncr
  <2> QED
    BY <1>1, <1>2, <2>1, SendIncrPlaced
<1>3. CASE ~SendIncr
  <2>1. strayed' = strayed
    BY <1>3, OnlySenderStrays
  <2>2. Fits(replica') /\ ChanFits(chan') /\ OutFits(out')
    BY <1>3, ReplicaFits, LinkFits
  <2> QED
    BY <1>1, <2>1, <2>2, PlacedKept
<1> QED
  BY <1>2, <1>3

-----------------------------------------------------------------------------
(* The invariant.                                                          *)
LEMMA RInvInit == ReplicaInit => RInv
<1> SUFFICES ASSUME ReplicaInit PROVE RInv
  OBVIOUS
<1>1. IInv /\ TypeOK
  BY InvInit DEF ReplicaInit, IInv
<1>2. /\ Unset \in LinkPlace /\ Empty \in Data /\ Idle \in Outs /\ Idle.pos = Unset
      /\ Idle.mode = "idle" /\ IsPlace(aof, Unset) /\ \A d : HoldsBefore(aof, d, Unset)
  BY <1>1, StartFacts
<1>3. /\ Fresh \in Replicas /\ Fresh.run = "up" /\ Fresh.state = "NONE"
      /\ Fresh.reads = "none" /\ Fresh.pos = Unset /\ Fresh.cached = Unset
      /\ Fresh.file.cached = Unset
  <2>1. /\ <<>> \in Seq(Cmd)
        /\ [cached |-> Unset, known |-> FALSE] \in [cached : LinkPlace, known : BOOLEAN]
    BY <1>2
  <2> QED
    BY <1>2, <2>1 DEF Fresh, Replicas, States
<1>4. /\ replica = Fresh /\ link = FALSE /\ chan = <<>> /\ out = Idle /\ Len(chan) = 0
      /\ faults = 0 /\ scrashes = 0 /\ cut = FALSE /\ strayed = FALSE
  BY DEF ReplicaInit
<1>5. ReplicaTypes
  <2>1. chan \in Seq(Messages)
    BY <1>4
  <2>2. faults \in 0..MaxFaults /\ scrashes \in 0..MaxSlaveCrashes
    BY <1>4, ReplicaBoundAssumption
  <2>3. replica \in Replicas /\ link \in BOOLEAN /\ out \in Outs /\ cut \in BOOLEAN
    BY <1>2, <1>3, <1>4
  <2> QED
    BY <1>4, <2>1, <2>2, <2>3 DEF ReplicaTypes
<1>6. Inside
  BY <1>2, <1>3, <1>4 DEF Inside
<1>7. Handlers /\ CachedBehind /\ CarriesLog /\ CarriesDump
  BY <1>2, <1>3, <1>4 DEF Handlers, CachedBehind, CarriesLog, CarriesDump
<1>8. HasAll
  BY <1>2, <1>3, <1>4 DEF HasAll
<1> QED
  BY <1>1, <1>4, <1>5, <1>6, <1>7, <1>8 DEF RInv, Placed, Linked

LEMMA RInvStep ==
  ASSUME OwnKeys, ~ChildMayDie, RInv, [ReplicaNext]_allVars, ~strayed'
  PROVE  Linked' /\ HasAll'
<1>1. [Next]_vars
  BY MasterStepOrNot
<1>2. CASE MasterStep \/ UNCHANGED allVars
  <2>1. UNCHANGED replicaVars
    BY <1>2 DEF MasterStep, allVars
  <2> QED
    BY <1>1, <2>1, MasterMoves
<1>3. CASE MasterDies \/ Drop
  <2>1. NoLink /\ UNCHANGED <<replica, scrashes, cut>>
    BY <1>3 DEF MasterDies, Drop, Untouched
  <2> QED
    BY <1>1, <2>1, LinkLost
<1>4. CASE ReplicaConfFlush
  <2>1. /\ UNCHANGED <<vars, linkVars, scrashes, cut, strayed>>
        /\ replica \in Replicas /\ replica' = Flushed(replica)
    BY <1>4 DEF ReplicaConfFlush, Untouched, RInv, Placed, ReplicaTypes
  <2>2. Reconfigured(replica, replica')
    BY <2>1, FlushedIs
  <2> QED
    BY <2>1, <2>2, ConfMoves
<1>5. ASSUME NEW timeout \in BOOLEAN, Cron(timeout) PROVE Linked' /\ HasAll'
  BY <1>5, CronStep
<1>6. CASE SendIncr \/ SendBulk \/ Psync \/ Slaveof
  BY <1>6, SendIncrStep, SendBulkStep, PsyncStep, SlaveofStep
<1>7. CASE SendPing \/ SyncError \/ BulkError \/ ReadError
  BY <1>7, HandlerStep
<1>8. CASE ReadBulk \/ ReadIncr \/ ReplicaDies \/ ReplicaRestart
  BY <1>8, ReadBulkStep, ReadIncrStep, ReplicaDiesStep, ReplicaRestartStep
<1>9. CASE \E timeout \in BOOLEAN : Cron(timeout)
  BY <1>5, <1>9
<1> QED
  BY <1>2, <1>3, <1>4, <1>6, <1>7, <1>8, <1>9 DEF ReplicaNext

LEMMA SInvStep ==
  ASSUME OwnKeys, ~ChildMayDie, SInv, [ReplicaNext]_allVars
  PROVE  SInv'
<1>1. Placed' /\ (strayed => strayed')
  BY PlacedStep DEF SInv
<1>2. ASSUME ~strayed' PROVE Linked' /\ HasAll'
  <2>1. RInv
    BY <1>1, <1>2 DEF SInv, RInv
  <2> QED
    BY <1>2, <2>1, RInvStep
<1> QED
  BY <1>1, <1>2 DEF SInv

LEMMA SInvAlways ==
  ASSUME OwnKeys, ~ChildMayDie
  PROVE  ReplicaSpec => []SInv
<1>1. ReplicaInit => SInv
  BY RInvInit DEF RInv, SInv
<1>2. SInv /\ [ReplicaNext]_allVars => SInv'
  BY SInvStep
<1> QED
  BY <1>1, <1>2, PTL DEF ReplicaSpec

-----------------------------------------------------------------------------
(* What the invariant says about the properties of ReplicaSync.            *)
LEMMA HoldsCovers ==
  ASSUME TypeOK, NEW d \in Data, NEW c, HoldsBefore(aof, d, c)
  PROVE  Covers(d, c)
<1> SUFFICES ASSUME NEW k \in Keys, NEW n \in LoggedBefore(k, c) PROVE d[k] >= n
  BY DEF Covers
<1>1. PICK f \in 1..Len(aof) : \E i \in 1..Len(aof[f]) :
        Before(f, i, c) /\ aof[f][i].key = k /\ n = aof[f][i].n
  BY DEF LoggedBefore, Before
<1>2. PICK i \in 1..Len(aof[f]) : Before(f, i, c) /\ aof[f][i].key = k /\ n = aof[f][i].n
  BY <1>1
<1>3. n <= d[k] /\ n \in Nat
  BY <1>2, CmdTypes DEF HoldsBefore
<1>4. d[k] \in Nat
  BY BoundAssumption DEF Data
<1> QED
  BY <1>3, <1>4

LEMMA SInvTypes == SInv => ReplicaTypeOK
<1> SUFFICES ASSUME SInv PROVE ReplicaTypeOK
  OBVIOUS
<1>1. TypeOK /\ ReplicaTypes /\ replica \in Replicas /\ chan \in Seq(Messages) /\ out \in Outs
  BY DEF SInv, Placed, IInv, ReplicaTypes
<1>2. \A c \in LinkPlace : InPlace(c)
  BY DEF LinkPlace, PackParts, InPlace
<1>3. /\ replica.run \in {"up", "down", "aborted"} /\ replica.state \in States
      /\ replica.reads \in {"none", "sync", "bulk", "incr"}
      /\ replica.known \in BOOLEAN /\ replica.file.known \in BOOLEAN
      /\ replica.mem \in Data /\ replica.dump \in Data
      /\ replica.backlog \in Seq(Cmd) /\ replica.log \in Seq(Cmd)
      /\ InPlace(replica.pos) /\ InPlace(replica.cached) /\ InPlace(replica.file.cached)
  BY <1>1, <1>2, ReplicaFields
<1>4. out.mode \in {"idle", "bulk", "incr", "undefined"} /\ out.dump \in Data /\ InPlace(out.pos)
  BY <1>1, <1>2 DEF Outs
<1>5. \A m \in Messages : /\ m.type \in {"bulk", "aof"} /\ m.cmds \in Seq(Cmd)
                          /\ m.dump \in Data /\ InPlace(m.pos)
  BY <1>2 DEF Messages
<1>6. \A i \in 1..Len(chan) : chan[i] \in Messages
  BY <1>1
<1>7. \A i \in 1..Len(chan) :
        /\ chan[i].type \in {"bulk", "aof"} /\ chan[i].cmds \in Seq(Cmd)
        /\ chan[i].dump \in Data /\ InPlace(chan[i].pos)
  BY <1>5, <1>6
<1>8. /\ link \in BOOLEAN /\ faults \in 0..MaxFaults /\ scrashes \in 0..MaxSlaveCrashes
      /\ cut \in BOOLEAN /\ strayed \in BOOLEAN
  BY <1>1 DEF ReplicaTypes
<1> QED
  BY <1>1, <1>3, <1>4, <1>7, <1>8 DEF ReplicaTypeOK

LEMMA SInvCovered == SInv => Covered /\ CachedCovered
<1> SUFFICES ASSUME SInv PROVE Covered /\ CachedCovered
  OBVIOUS
<1>1. /\ TypeOK /\ replica.mem \in Data
      /\ Intact => HasAll
  BY ReplicaFields DEF SInv, Placed, IInv, ReplicaTypes, Intact
<1>2. Covered
  <2> SUFFICES ASSUME Intact, Running, replica.state = "CONNECTED", replica.reads = "incr"
               PROVE  Covers(replica.mem, replica.pos)
    BY DEF Covered
  <2>1. HoldsBefore(aof, replica.mem, replica.pos)
    BY <1>1 DEF HasAll, Transferring
  <2> QED
    BY <1>1, <2>1, HoldsCovers
<1>3. CachedCovered
  <2> SUFFICES ASSUME Intact, Running, ~Transferring
               PROVE  Covers(replica.mem, replica.cached)
    BY DEF CachedCovered
  <2>1. HoldsBefore(aof, replica.mem, replica.cached)
    BY <1>1 DEF HasAll
  <2> QED
    BY <1>1, <2>1, HoldsCovers
<1> QED
  BY <1>2, <1>3

(* Every variable of the master, the replica and the link keeps its type,  *)
(* and no place on the link, in the replica's configuration or with the    *)
(* sender ever lies behind the master's last file, also with a sender that *)
(* went on behind packs it had not sent: it opens the next file only when  *)
(* there is one (onSendIncrToSlave).                                       *)
THEOREM ReplicaTypeCorrect ==
  ASSUME OwnKeys, ~ChildMayDie
  PROVE  ReplicaSpec => []ReplicaTypeOK
  BY SInvAlways, SInvTypes, PTL

(* A connected replica that never crashed and never gave up a transfer     *)
(* holds every command that lies before the place it has reached, through  *)
(* full and partial resynchronisation, rotations of the master's files,    *)
(* crashes of the master, lost links and SLAVEOF at any moment             *)
(* (CommandPsync::exec, onSendIncrToSlave, CommandAof::exec).  Nothing is  *)
(* claimed once the end of a read or of a message has fallen inside a pack *)
(* (Intact: ~strayed); StraysBeyondOneRead says when that can be.          *)
THEOREM ReplicaCovered ==
  ASSUME OwnKeys, ~ChildMayDie
  PROVE  ReplicaSpec => []Covered
  BY SInvAlways, SInvCovered, PTL

(* The place such a replica would report in its next PSYNC is one up to    *)
(* which it holds everything, unless a dump is under way: whether cached   *)
(* by the answer, by a timeout or by the flush of the configuration        *)
(* (_slave_try_partial_resynchronization, cacheMaster, replConfFlush).     *)
(* As above, until a pack has gone past the end of a read or message.      *)
THEOREM CachedPlaceCovered ==
  ASSUME OwnKeys, ~ChildMayDie
  PROVE  ReplicaSpec => []CachedCovered
  BY SInvAlways, SInvCovered, PTL

(* Until a pack goes past the end of a read or of a message, what the      *)
(* master has sent and the replica not yet read is the master's log from   *)
(* the place of the replica to that of the sender: each message begins     *)
(* where the one before it ended, holds the commands of one file in order, *)
(* and no command lies between two messages or behind the last one before  *)
(* the place of the sender (onSendIncrToSlave).                            *)
THEOREM LinkCarriesLog ==
  ASSUME OwnKeys, ~ChildMayDie
  PROVE  ReplicaSpec => [](~strayed => CarriesLog)
<1>1. SInv => (~strayed => CarriesLog)
  BY DEF SInv, Linked
<1> QED
  BY <1>1, SInvAlways, PTL

-----------------------------------------------------------------------------
(* Places as positions in the log that the files make up together.         *)

(* How many commands of files lie before place c.                          *)
IndexIn(files, c) == Len(FlattenSeq(SubSeq(files, 1, c.name - 1))) + c.off

(* A place in a file, and no further than its end.                         *)
Proper(files, c) ==
  /\ c.name \in 1..Len(files) /\ c.off \in Nat /\ c.off <= Len(files[c.name])

(* The n commands behind offset o of file g are in the whole log as well.  *)
PartOfLog(files, g, o, n) ==
  /\ IndexIn(files, At(g, o)) \in Nat
  /\ IndexIn(files, At(g, o)) + n <= Len(FlattenSeq(files))
  /\ IndexIn(files, At(g, o + n)) = IndexIn(files, At(g, o)) + n
  /\ \A j \in 1..n : FlattenSeq(files)[IndexIn(files, At(g, o)) + j] = files[g][o + j]

(* A part of a file is the part of the whole log at the same index.        *)
LEMMA FilePart ==
  ASSUME NEW S, NEW files \in Seq(Seq(S)), NEW g \in 1..Len(files),
         NEW o \in Nat, NEW n \in Nat, o + n <= Len(files[g])
  PROVE  PartOfLog(files, g, o, n)
<1> DEFINE all == FlattenSeq(files)
           a == FlattenSeq(SubSeq(files, 1, g - 1))
           b == files[g]
           ab == FlattenSeq(SubSeq(files, 1, g))
           c == FlattenSeq(SubSeq(files, g + 1, Len(files)))
<1>1. /\ g - 1 \in 0..(Len(files) - 1) /\ (g - 1) + 1 = g /\ g \in 0..Len(files)
      /\ g - 1 \in 0..Len(files)
  OBVIOUS
<1>2. ab = a \o b
  BY <1>1, FlattenNext
<1>3. all = ab \o c /\ ab \in Seq(S) /\ c \in Seq(S)
  BY <1>1, FlattenSplit
<1>4. a \in Seq(S) /\ b \in Seq(S)
  <2>1. a \in Seq(S)
    BY <1>1, FlattenSplit
  <2>2. b \in Seq(S)
    OBVIOUS
  <2> QED
    BY <2>1, <2>2
<1>5. /\ IndexIn(files, At(g, o)) = Len(a) + o
      /\ IndexIn(files, At(g, o + n)) = Len(a) + (o + n)
  BY DEF IndexIn, At
<1> HIDE DEF all, a, b, c, ab
<1>6. /\ Len(a) \in Nat /\ Len(b) \in Nat /\ Len(c) \in Nat
      /\ Len(ab) = Len(a) + Len(b) /\ Len(all) = Len(ab) + Len(c)
  BY <1>2, <1>3, <1>4, ConcatProperties
<1>7. o + n <= Len(b)
  BY DEF b
<1>8. ASSUME NEW j \in 1..n PROVE all[(Len(a) + o) + j] = b[o + j]
  <2>1. /\ (Len(a) + o) + j \in 1..(Len(ab) + Len(c)) /\ (Len(a) + o) + j <= Len(ab)
        /\ (Len(a) + o) + j \in 1..(Len(a) + Len(b)) /\ ~((Len(a) + o) + j <= Len(a))
        /\ ((Len(a) + o) + j) - Len(a) = o + j
    BY <1>6, <1>7
  <2> DEFINE k == (Len(a) + o) + j
  <2>2. k \in 1..(Len(ab) + Len(c)) /\ k <= Len(ab) /\ k \in 1..(Len(a) + Len(b))
        /\ ~(k <= Len(a)) /\ k - Len(a) = o + j
    BY <2>1
  <2> HIDE DEF k
  <2>3. all[k] = ab[k]
    BY <1>3, <2>2, ConcatProperties
  <2>4. ab[k] = b[k - Len(a)]
    BY <1>2, <1>4, <2>2, ConcatProperties
  <2> QED
    BY <2>2, <2>3, <2>4 DEF k
<1>9. /\ Len(a) + o \in Nat /\ (Len(a) + o) + n <= Len(all)
      /\ Len(a) + (o + n) = (Len(a) + o) + n
  BY <1>6, <1>7
<1> QED
  BY <1>5, <1>8, <1>9 DEF PartOfLog, all, b

(* Two places with nothing between them have the same index.               *)
LEMMA AdjacentIndex ==
  ASSUME NEW S, NEW files \in Seq(Seq(S)), NEW a, NEW b,
         Proper(files, a), Proper(files, b), Adjacent(files, a, b)
  PROVE  IndexIn(files, a) = IndexIn(files, b)
<1> DEFINE len(k) == Len(FlattenSeq(SubSeq(files, 1, k)))
<1>1. /\ a.name \in 1..Len(files) /\ a.off \in Nat /\ a.off <= Len(files[a.name])
      /\ b.name \in 1..Len(files) /\ b.off \in Nat /\ b.off <= Len(files[b.name])
      /\ \A f \in 1..Len(files) : Len(files[f]) \in Nat
  BY DEF Proper
<1>2. /\ a.name < b.name \/ (a.name = b.name /\ a.off <= b.off)
      /\ \A f \in 1..Len(files) : \A i \in 1..Len(files[f]) :
           (f < b.name \/ (f = b.name /\ i <= b.off)) => (f < a.name \/ (f = a.name /\ i <= a.off))
  BY DEF Adjacent, NotAfter, Before
<1>3. IndexIn(files, a) = len(a.name - 1) + a.off /\ IndexIn(files, b) = len(b.name - 1) + b.off
  BY DEF IndexIn
<1>4. ASSUME NEW k \in 0..(Len(files) - 1)
      PROVE  /\ len(k) \in Nat /\ len(k + 1) = len(k) + Len(files[k + 1])
  <2>1. FlattenSeq(SubSeq(files, 1, k + 1)) = FlattenSeq(SubSeq(files, 1, k)) \o files[k + 1]
    BY FlattenNext
  <2>2. k \in 0..Len(files) /\ k + 1 \in 1..Len(files)
    OBVIOUS
  <2>3. FlattenSeq(SubSeq(files, 1, k)) \in Seq(S)
    BY <2>2, FlattenSplit
  <2>4. files[k + 1] \in Seq(S)
    BY <2>2
  <2> DEFINE u == FlattenSeq(SubSeq(files, 1, k)) v == files[k + 1]
             w == FlattenSeq(SubSeq(files, 1, k + 1))
  <2>5. w = u \o v /\ u \in Seq(S) /\ v \in Seq(S)
    BY <2>1, <2>3, <2>4
  <2> HIDE DEF u, v, w
  <2>6. Len(u) \in Nat /\ Len(w) = Len(u) + Len(v)
    BY <2>5, ConcatProperties
  <2> QED
    BY <2>6 DEF u, v, w
<1> HIDE DEF len
<1>5. CASE a.name = b.name
  <2>1. a.off = b.off
    <3>1. ASSUME a.off < b.off PROVE FALSE
      <4>1. b.off \in 1..Len(files[b.name])
        BY <1>1, <3>1
      <4> QED
        BY <1>1, <1>2, <1>5, <3>1, <4>1
    <3> QED
      BY <1>1, <1>2, <1>5, <3>1
  <2> QED
    BY <1>3, <1>5, <2>1
<1>6. CASE a.name < b.name
  <2>1. b.off = 0
    <3>1. ASSUME b.off > 0 PROVE FALSE
      <4>1. b.off \in 1..Len(files[b.name])
        BY <1>1, <3>1
      <4>2. b.name < a.name \/ (b.name = a.name /\ b.off <= a.off)
        BY <1>1, <1>2, <4>1
      <4> QED
        BY <1>1, <1>6, <4>2
    <3> QED
      BY <1>1, <3>1
  <2>2. a.off = Len(files[a.name])
    <3>1. ASSUME a.off < Len(files[a.name]) PROVE FALSE
      <4>1. Len(files[a.name]) \in 1..Len(files[a.name]) /\ Len(files[a.name]) \in Nat
        BY <1>1, <3>1
      <4>2. Len(files[a.name]) <= a.off
        BY <1>1, <1>2, <1>6, <4>1, SMTT(30)
      <4> QED
        BY <1>1, <3>1, <4>2
    <3> QED
      BY <1>1, <3>1
  <2>3. ASSUME NEW f \in 1..Len(files), a.name < f, f < b.name PROVE Len(files[f]) = 0
    <3>1. ASSUME Len(files[f]) > 0 PROVE FALSE
      <4>1. 1 \in 1..Len(files[f])
        BY <1>1, <3>1
      <4> QED
        BY <1>1, <1>2, <2>3, <4>1, SMTT(30)
    <3> QED
      BY <1>1, <3>1
  <2> DEFINE N == (b.name - 1) - a.name
             P == {n \in Nat : len(a.name + n) = len(a.name - 1) + a.off}
  <2>4. N \in Nat /\ a.name + N = b.name - 1
    BY <1>1, <1>6
  <2>5. 0 \in P
    <3>1. a.name - 1 \in 0..(Len(files) - 1) /\ (a.name - 1) + 1 = a.name /\ a.name + 0 = a.name
      BY <1>1
    <3> QED
      BY <1>4, <2>2, <3>1
  <2>6. ASSUME NEW n \in 0..(N - 1), n \in P PROVE n + 1 \in P
    <3>1. /\ n \in Nat /\ a.name + n \in 0..(Len(files) - 1)
          /\ a.name + (n + 1) = (a.name + n) + 1
          /\ a.name < (a.name + n) + 1 /\ (a.name + n) + 1 < b.name
          /\ (a.name + n) + 1 \in 1..Len(files)
      <4> DEFINE x == a.name y == b.name z == Len(files)
      <4>1. x \in 1..z /\ y \in 1..z /\ z \in Nat /\ N \in Nat /\ x + N = y - 1
        BY <1>1, <2>4
      <4> HIDE DEF x, y, z, N
      <4>2. n \in Nat /\ x + n \in 0..(z - 1) /\ x + (n + 1) = (x + n) + 1
            /\ x < (x + n) + 1 /\ (x + n) + 1 < y /\ (x + n) + 1 \in 1..z
        BY <4>1
      <4> QED
        BY <4>2 DEF x, y, z
    <3>2. Len(files[(a.name + n) + 1]) = 0
      BY <2>3, <3>1
    <3>3. len(a.name + n) \in Nat /\ len((a.name + n) + 1) = len(a.name + n) + 0
      BY <1>4, <3>1, <3>2
    <3>4. len(a.name + n) = len(a.name - 1) + a.off
      BY <2>6
    <3>5. len(a.name + (n + 1)) = len(a.name - 1) + a.off
      BY <3>1, <3>3, <3>4
    <3> QED
      BY <3>1, <3>5
  <2>7. \A n \in 0..N : n \in P
    <3> HIDE DEF N, P
    <3> QED
      BY <2>4, <2>5, <2>6, InductionTo
  <2>8. len(a.name + N) = len(a.name - 1) + a.off
    <3>1. N \in 0..N
      BY <2>4
    <3>2. N \in P
      BY <3>1, <2>7
    <3> QED
      BY <3>2
  <2>9. len(b.name - 1) \in Nat
    <3>1. b.name - 1 \in 0..(Len(files) - 1)
      BY <1>1
    <3> QED
      BY <1>4, <3>1
  <2> QED
    BY <1>3, <2>1, <2>4, <2>8, <2>9
<1> QED
  BY <1>2, <1>5, <1>6

(* A piece between two places is the part of the log between their         *)
(* indices.                                                                *)
Between(files, s, a, b) ==
  /\ IndexIn(files, a) \in Nat
  /\ IndexIn(files, b) = IndexIn(files, a) + Len(s)
  /\ IndexIn(files, b) <= Len(FlattenSeq(files))
  /\ s = SubSeq(FlattenSeq(files), IndexIn(files, a) + 1, IndexIn(files, b))

LEMMA PieceIndex ==
  ASSUME NEW S, NEW files \in Seq(Seq(S)), NEW s \in Seq(S), NEW a, NEW b,
         Proper(files, a), Proper(files, b), Piece(files, s, a, b)
  PROVE  Between(files, s, a, b)
<1>1. PICK g \in 1..Len(files) : \E o \in 0..Len(files[g]) : PieceAt(files, s, a, b, g, o)
  BY DEF Piece
<1>2. PICK o \in 0..Len(files[g]) : PieceAt(files, s, a, b, g, o)
  BY <1>1
<1>3. /\ Len(files) \in Nat /\ files[g] \in Seq(S) /\ Len(files[g]) \in Nat
      /\ o \in Nat /\ Len(s) \in Nat /\ o + Len(s) <= Len(files[g])
  BY <1>2 DEF PieceAt
<1>4. Proper(files, At(g, o)) /\ Proper(files, At(g, o + Len(s)))
  BY <1>2, <1>3 DEF Proper, At
<1>5. IndexIn(files, a) = IndexIn(files, At(g, o))
  BY <1>2, <1>4, AdjacentIndex DEF PieceAt
<1>6. IndexIn(files, At(g, o + Len(s))) = IndexIn(files, b)
  BY <1>2, <1>4, AdjacentIndex DEF PieceAt
<1> DEFINE all == FlattenSeq(files)
           i == IndexIn(files, a)
           n == Len(s)
<1>7. /\ i \in Nat /\ i + n <= Len(all) /\ IndexIn(files, b) = i + n
      /\ \A j \in 1..n : all[i + j] = files[g][o + j]
  <2>1. /\ IndexIn(files, At(g, o)) \in Nat
        /\ IndexIn(files, At(g, o)) + Len(s) <= Len(FlattenSeq(files))
        /\ IndexIn(files, At(g, o + Len(s))) = IndexIn(files, At(g, o)) + Len(s)
        /\ \A j \in 1..Len(s) :
             FlattenSeq(files)[IndexIn(files, At(g, o)) + j] = files[g][o + j]
    <3>1. PartOfLog(files, g, o, Len(s))
      BY <1>3, FilePart
    <3> QED
      BY <3>1 DEF PartOfLog
  <2> QED
    BY <1>5, <1>6, <2>1
<1>8. \A j \in 1..n : s[j] = files[g][o + j]
  BY <1>2 DEF PieceAt
<1>9. all \in Seq(S) /\ n \in Nat
  BY FlattenType
<1>10. s = SubSeq(all, i + 1, i + n)
  <2> HIDE DEF all, i
  <2>1. \A j \in 1..Len(s) : s[j] = all[i + j]
    BY <1>7, <1>8
  <2> QED
    BY <1>7, <1>9, <2>1, IsPart
<1> QED
  BY <1>7, <1>10 DEF Between

(* A replica that reads a dump or commands has a place in a file.          *)
OnPlace == replica.reads \in {"bulk", "incr"} => replica.pos.name > 0

(* The places on the link lie in files, once the replica has one.          *)
LEMMA ProperPlaces ==
  ASSUME RInv, OnPlace, link, replica.reads \in {"bulk", "incr"}
  PROVE  /\ aof \in Seq(Seq(Cmd)) /\ Proper(aof, replica.pos) /\ Proper(aof, out.pos)
         /\ \A i \in 1..Len(chan) : Proper(aof, chan[i].pos) /\ chan[i].cmds \in Seq(Cmd)
<1>1. /\ TypeOK /\ ReplicaTypes /\ Inside /\ Handlers /\ CarriesLog /\ CarriesDump
  BY DEF RInv, Placed, IInv, Linked
<1>2. /\ aof \in Seq(Seq(Cmd)) /\ Len(aof) \in Nat
      /\ \A f \in 1..Len(aof) : Len(aof[f]) \in Nat
  BY <1>1 DEF TypeOK
<1>3. /\ replica.pos \in LinkPlace /\ out.pos \in LinkPlace /\ IsPlace(aof, replica.pos) /\ IsPlace(aof, out.pos)
      /\ chan \in Seq(Messages)
  BY <1>1 DEF ReplicaTypes, Replicas, Outs, Inside
<1>4. Proper(aof, replica.pos)
  BY <1>2, <1>3 DEF OnPlace, Proper, IsPlace, LinkPlace
<1>5. out.mode # "idle"
  BY <1>1 DEF Handlers, CarriesDump
<1>6. Proper(aof, out.pos)
  BY <1>1, <1>2, <1>3, <1>5 DEF Inside, Proper, IsPlace, LinkPlace
<1>7. ASSUME NEW i \in 1..Len(chan) PROVE Proper(aof, chan[i].pos) /\ chan[i].cmds \in Seq(Cmd)
  <2>1. chan[i] \in Messages
    BY <1>3
  <2>2. chan[i].pos \in LinkPlace /\ chan[i].cmds \in Seq(Cmd) /\ IsPlace(aof, chan[i].pos)
    BY <1>1, <2>1 DEF Messages, Inside
  <2>3. Piece(aof, chan[i].cmds, Prev(i), chan[i].pos)
    BY <1>1 DEF CarriesLog
  <2>4. PICK g \in 1..Len(aof) : \E o \in 0..Len(aof[g]) :
          PieceAt(aof, chan[i].cmds, Prev(i), chan[i].pos, g, o)
    BY <2>3 DEF Piece
  <2>5. \E o \in Nat : NotAfter(At(g, o), chan[i].pos)
    <3>1. PICK o \in 0..Len(aof[g]) : PieceAt(aof, chan[i].cmds, Prev(i), chan[i].pos, g, o)
      BY <2>4
    <3>2. o + Len(chan[i].cmds) \in Nat
      BY <1>2, <2>2
    <3>3. NotAfter(At(g, o + Len(chan[i].cmds)), chan[i].pos)
      BY <3>1 DEF PieceAt, Adjacent
    <3> QED
      BY <3>2, <3>3
  <2>6. chan[i].pos.name \in 0..Len(aof) /\ chan[i].pos.off \in Nat
    BY <2>2 DEF LinkPlace
  <2>7. chan[i].pos.name >= g
    BY <1>2, <2>5, <2>6 DEF NotAfter, At
  <2> QED
    BY <1>2, <2>2, <2>6, <2>7 DEF Proper, IsPlace
<1> QED
  BY <1>2, <1>4, <1>6, <1>7

(* The messages on the link, put together, are the log between the place   *)
(* of the replica and that of the sender: message by message, each a piece *)
(* that begins at the index where the one before it ended.                 *)
LEMMA SentIsLog ==
  ASSUME RInv, OnPlace, link, replica.reads \in {"bulk", "incr"}, out.mode = "incr"
  PROVE  FlattenSeq([i \in 1..Len(chan) |-> chan[i].cmds])
           = SubSeq(FlattenSeq(aof), IndexIn(aof, replica.pos) + 1, IndexIn(aof, out.pos))
<1> DEFINE all == FlattenSeq(aof)
           cs == [i \in 1..Len(chan) |-> chan[i].cmds]
           at(i) == IndexIn(aof, Prev(i))
           P == {n \in Nat : /\ at(n + 1) \in at(1)..Len(all)
                             /\ FlattenSeq(SubSeq(cs, 1, n)) = SubSeq(all, at(1) + 1, at(n + 1))}
<1>1. /\ aof \in Seq(Seq(Cmd)) /\ Proper(aof, replica.pos) /\ Proper(aof, out.pos)
      /\ \A i \in 1..Len(chan) : Proper(aof, chan[i].pos) /\ chan[i].cmds \in Seq(Cmd)
  BY ProperPlaces
<1>2. Len(chan) \in Nat
  BY DEF RInv, Placed, ReplicaTypes
<1>3. cs \in Seq(Seq(Cmd)) /\ Len(cs) = Len(chan) /\ \A i \in 1..Len(chan) : cs[i] = chan[i].cmds
  BY <1>1, <1>2
<1>4. all \in Seq(Cmd) /\ Len(all) \in Nat
  BY <1>1, FlattenType
<1>5. /\ Prev(1) = replica.pos
      /\ \A i \in 1..Len(chan) : Prev(i + 1) = chan[i].pos
      /\ \A i \in 1..(Len(chan) + 1) : Proper(aof, Prev(i))
  <2>1. Prev(1) = replica.pos
    BY DEF Prev
  <2>2. \A i \in 1..Len(chan) : Prev(i + 1) = chan[i].pos
    BY <1>2 DEF Prev
  <2>3. \A i \in 1..(Len(chan) + 1) : i = 1 \/ (i - 1 \in 1..Len(chan) /\ Prev(i) = chan[i - 1].pos)
    BY <1>2 DEF Prev
  <2> QED
    BY <1>1, <2>1, <2>2, <2>3
<1>6. ASSUME NEW i \in 1..Len(chan)
      PROVE  /\ at(i) \in Nat /\ Len(cs[i]) \in Nat /\ at(i + 1) = at(i) + Len(cs[i])
             /\ at(i + 1) <= Len(all) /\ cs[i] = SubSeq(all, at(i) + 1, at(i + 1))
  <2>1. Piece(aof, chan[i].cmds, Prev(i), chan[i].pos)
    BY DEF RInv, Placed, Linked, CarriesLog
  <2>2. i \in 1..(Len(chan) + 1) /\ i + 1 \in 1..(Len(chan) + 1)
    BY <1>2
  <2>3. Piece(aof, cs[i], Prev(i), Prev(i + 1)) /\ cs[i] \in Seq(Cmd) /\ Len(cs[i]) \in Nat
    BY <1>1, <1>3, <1>5, <2>1
  <2>4. Proper(aof, Prev(i)) /\ Proper(aof, Prev(i + 1))
    BY <1>5, <2>2
  <2> HIDE DEF cs
  <2>5. Between(aof, cs[i], Prev(i), Prev(i + 1))
    BY <1>1, <2>3, <2>4, PieceIndex
  <2> QED
    BY <2>3, <2>5 DEF Between
<1>7. at(1) \in Nat /\ at(1) <= Len(all)
  <2>1. replica.pos.name \in 1..Len(aof) /\ replica.pos.off \in Nat
        /\ replica.pos.off + 0 <= Len(aof[replica.pos.name]) /\ 0 \in Nat
    BY <1>1 DEF Proper
  <2>2. LET p == At(replica.pos.name, replica.pos.off)
        IN  IndexIn(aof, p) \in Nat /\ IndexIn(aof, p) + 0 <= Len(all)
    <3>1. PartOfLog(aof, replica.pos.name, replica.pos.off, 0)
      BY <1>1, <2>1, FilePart
    <3> QED
      BY <3>1 DEF PartOfLog
  <2>3. at(1) = IndexIn(aof, At(replica.pos.name, replica.pos.off))
    BY <1>5 DEF IndexIn, At
  <2> HIDE DEF at, all
  <2> QED
    BY <1>4, <2>2, <2>3
<1> HIDE DEF all, cs, at
<1>8. 0 \in P
  <2>1. SubSeq(cs, 1, 0) = <<>> /\ SubSeq(all, at(1) + 1, at(1)) = <<>>
    BY <1>7, SubSeqEmpty
  <2>2. FlattenSeq(SubSeq(cs, 1, 0)) = <<>>
    BY <2>1, FlattenEmpty
  <2>3. 0 + 1 = 1 /\ at(1) \in at(1)..Len(all)
    BY <1>4, <1>7
  <2> QED
    BY <2>1, <2>2, <2>3
<1>9. ASSUME NEW n \in 0..(Len(chan) - 1), n \in P PROVE n + 1 \in P
  <2> DEFINE m == n + 1
  <2>1. m \in 1..Len(chan) /\ n \in 0..(Len(cs) - 1) /\ n \in Nat /\ m \in Nat
    BY <1>2, <1>3
  <2>2. FlattenSeq(SubSeq(cs, 1, m)) = FlattenSeq(SubSeq(cs, 1, n)) \o cs[m]
    BY <1>3, <2>1, FlattenNext
  <2>3. /\ at(m) \in at(1)..Len(all)
        /\ FlattenSeq(SubSeq(cs, 1, n)) = SubSeq(all, at(1) + 1, at(m))
    BY <1>9
  <2> HIDE DEF m
  <2>4. /\ at(m) \in Nat /\ Len(cs[m]) \in Nat /\ at(m + 1) = at(m) + Len(cs[m])
        /\ at(m + 1) <= Len(all) /\ cs[m] = SubSeq(all, at(m) + 1, at(m + 1))
    BY <1>6, <2>1
  <2>5. at(m + 1) \in at(1)..Len(all) /\ at(m + 1) \in at(m)..Len(all)
    <3> DEFINE c == Len(cs[m]) e == Len(all) x == at(1) y == at(m) z == at(m + 1)
    <3>1. x \in Nat /\ e \in Nat /\ c \in Nat /\ z = y + c /\ z <= e /\ y \in x..e
      BY <1>4, <1>7, <2>3, <2>4
    <3> HIDE DEF c, e, x, y, z
    <3>2. z \in x..e /\ z \in y..e
      BY <3>1
    <3> QED
      BY <3>2 DEF c, e, x, y, z
  <2>6. SubSeq(all, at(1) + 1, at(m)) \o SubSeq(all, at(m) + 1, at(m + 1))
          = SubSeq(all, at(1) + 1, at(m + 1))
    <3> DEFINE x == at(1) + 1 y == at(m) z == at(m + 1)
    <3>1. x \in 1..(Len(all) + 1) /\ y \in (x - 1)..Len(all) /\ z \in y..Len(all)
      <4>1. at(1) \in Nat /\ Len(all) \in Nat /\ at(1) <= Len(all)
            /\ at(m) \in at(1)..Len(all)
        BY <1>4, <1>7, <2>3
      <4> QED
        BY <2>5, <4>1
    <3> HIDE DEF x, y, z
    <3>2. SubSeq(all, x, y) \o SubSeq(all, y + 1, z) = SubSeq(all, x, z)
      BY <1>4, <3>1, ConcatAdjacentSubSeq
    <3> QED
      BY <3>2 DEF x, y, z
  <2>7. FlattenSeq(SubSeq(cs, 1, m)) = SubSeq(all, at(1) + 1, at(m + 1))
    BY <2>2, <2>3, <2>4, <2>6
  <2> QED
    BY <2>1, <2>5, <2>7 DEF m
<1>10. \A n \in 0..Len(chan) : n \in P
  <2> HIDE DEF P
  <2> QED
    BY <1>2, <1>8, <1>9, InductionTo
<1>11. FlattenSeq(SubSeq(cs, 1, Len(chan))) = SubSeq(all, at(1) + 1, at(Len(chan) + 1))
  <2>1. Len(chan) \in P
    BY <1>2, <1>10
  <2> QED
    BY <2>1
<1>12. SubSeq(cs, 1, Len(chan)) = cs
  BY <1>3, SubSeqFull
<1>13. at(Len(chan) + 1) = IndexIn(aof, out.pos)
  <2>1. Adjacent(aof, Prev(Len(chan) + 1), out.pos)
    BY DEF RInv, Placed, Linked, CarriesLog
  <2>2. Proper(aof, Prev(Len(chan) + 1))
    BY <1>2, <1>5
  <2> QED
    BY <1>1, <2>1, <2>2, AdjacentIndex DEF at
<1>14. at(1) = IndexIn(aof, replica.pos)
  BY <1>5 DEF at
<1> QED
  BY <1>11, <1>12, <1>13, <1>14 DEF cs, all

LEMMA RInvInFlight == RInv /\ OnPlace => InFlightIsLog
<1> SUFFICES ASSUME RInv, OnPlace, link, replica.reads \in {"bulk", "incr"}
             PROVE  FlattenSeq([i \in 1..Len(chan) |-> chan[i].cmds])
                      = SubSeq(FlattenSeq(aof), Index(replica.pos) + 1, Index(out.pos))
  BY DEF InFlightIsLog
<1>1. Index(replica.pos) = IndexIn(aof, replica.pos) /\ Index(out.pos) = IndexIn(aof, out.pos)
  BY DEF Index, IndexIn
<1>2. CASE out.mode = "incr"
  BY <1>1, <1>2, SentIsLog
<1>3. CASE out.mode # "incr"
  <2>1. chan = <<>> /\ out.pos = replica.pos
    BY <1>3 DEF RInv, Placed, Linked, Handlers, CarriesDump
  <2>2. [i \in 1..Len(chan) |-> chan[i].cmds] = <<>>
    BY <2>1
  <2>3. SubSeq(FlattenSeq(aof), Index(out.pos) + 1, Index(out.pos)) = <<>>
    <3>1. Index(out.pos) \in Nat
      <4>1. aof \in Seq(Seq(Cmd)) /\ Proper(aof, out.pos)
        BY ProperPlaces
      <4>2. out.pos.name \in 1..Len(aof) /\ out.pos.off \in Nat
            /\ out.pos.off + 0 <= Len(aof[out.pos.name]) /\ 0 \in Nat
        BY <4>1 DEF Proper
      <4>3. IndexIn(aof, At(out.pos.name, out.pos.off)) \in Nat
        <5>1. PartOfLog(aof, out.pos.name, out.pos.off, 0)
          BY <4>1, <4>2, FilePart
        <5> QED
          BY <5>1 DEF PartOfLog
      <4> QED
        BY <1>1, <4>3 DEF IndexIn, At
    <3> QED
      BY <3>1, SubSeqEmpty
  <2> QED
    BY <2>1, <2>2, <2>3, FlattenEmpty
<1> QED
  BY <1>2, <1>3

LEMMA OnPlaceStep ==
  ASSUME RInv, OnPlace, [ReplicaNext]_allVars
  PROVE  OnPlace'
<1>1. /\ IInv /\ TypeOK /\ ReplicaTypes /\ Inside /\ Handlers /\ CarriesLog /\ CarriesDump
      /\ replica \in Replicas /\ replica.cached \in LinkPlace
  BY ReplicaFields DEF RInv, Placed, IInv, Linked, ReplicaTypes
<1>2. CASE UNCHANGED replica
  BY <1>2 DEF OnPlace
<1>3. CASE Psync
  <2> DEFINE a == Answer(replica.cached)
  <2>1. /\ a.type = "FULLSYNC" => a.pos.name > 0
        /\ a.type = "PARTSYNC" => a.pos.name > 0
    <3>1. conf.name > 0 => Boundary(conf).name > 0
      BY DEF Boundary
    <3> QED
      BY <1>1, <3>1, AnswerIs DEF Inside
  <2>2. ASSUME NEW state, NEW reads, a.pos.name > 0,
               replica' = [replica EXCEPT !.state = state, !.reads = reads,
                                          !.pos = a.pos, !.cached = a.pos]
        PROVE  OnPlace'
    <3> HIDE DEF a
    <3>1. replica'.pos = a.pos
      BY <1>1, <2>2 DEF Replicas
    <3> QED
      BY <2>2, <3>1 DEF OnPlace
  <2>3. ASSUME replica' = [replica EXCEPT !.state = "CONNECT", !.reads = "none"]
        PROVE  OnPlace'
    BY <1>1, <2>3 DEF Replicas, OnPlace
  <2> QED
    BY <1>3, <2>1, <2>2, <2>3 DEF Psync
<1>4. CASE Slaveof \/ SendPing
  <2>1. PICK state : replica' = [replica EXCEPT !.state = state]
    BY <1>4 DEF Slaveof, SendPing
  <2> QED
    BY <1>1, <2>1 DEF Replicas, OnPlace
<1>5. CASE ReplicaConfFlush
  BY <1>1, <1>5, FlushedIs DEF ReplicaConfFlush, Reconfigured, OnPlace
<1>6. ASSUME NEW timeout \in BOOLEAN, Cron(timeout) PROVE OnPlace'
  <2> DEFINE r == IF timeout THEN TimedOut(replica) ELSE replica
             q == IF r.state = "CONNECT" THEN Connecting(r) ELSE r
  <2>1. replica' = Merged(q)
    BY <1>6 DEF Cron
  <2>2. r \in Replicas /\ r.pos = replica.pos /\ r.reads \in {replica.reads, "none"}
    BY <1>1 DEF TimedOut, UndoConnectMaster, AbortSyncTransfer, CacheMaster, Replicas, States
  <2> HIDE DEF r
  <2>3. /\ q \in Replicas
        /\ q.reads \in {"bulk", "incr"} => q.pos = replica.pos /\ q.reads = replica.reads
    <3>1. CASE r.state = "CONNECT"
      <4>1. Unset \in LinkPlace
        BY <1>1, StartFacts
      <4>2. q = [r EXCEPT !.pos = Unset, !.state = "CONNECTING", !.reads = "sync"]
        BY <2>2, <3>1 DEF Connecting, NewLink, Replicas
      <4> HIDE DEF q
      <4> QED
        BY <2>2, <4>1, <4>2 DEF Replicas, States
    <3>2. CASE r.state # "CONNECT"
      BY <2>2, <3>2
    <3> QED
      BY <3>1, <3>2
  <2> HIDE DEF q
  <2>4. replica'.reads = q.reads /\ replica'.pos = q.pos
    BY <1>1, <2>1, <2>3, MergedIs DEF Reconfigured
  <2> QED
    BY <2>3, <2>4 DEF OnPlace
<1>7. CASE SyncError \/ BulkError \/ ReadError
  <2>1. \/ \E state : replica' = [replica EXCEPT !.state = state, !.reads = "none"]
        \/ replica' = [replica EXCEPT !.reads = "none"]
        \/ replica' = [replica EXCEPT !.run = "aborted"]
    BY <1>7 DEF SyncError, BulkError, ReadError, AbortSyncTransfer
  <2> QED
    BY <1>1, <2>1 DEF Replicas, OnPlace
<1>8. CASE ReadBulk
  <2>1. replica'.pos = replica.pos /\ replica.reads = "bulk"
    BY <1>1, <1>8 DEF ReadBulk, Replicas
  <2> QED
    BY <2>1 DEF OnPlace
<1>9. CASE ReadIncr
  <2>1. /\ replica.reads = "incr" /\ chan # <<>> /\ replica'.pos = chan[1].pos
    BY <1>1, <1>9 DEF ReadIncr, Received, Replicas, ReplicaTypes
  <2>2. link /\ 1 \in 1..Len(chan)
    <3>1. link
      BY <1>1, <2>1 DEF Handlers
    <3>2. 1 \in 1..Len(chan)
      BY <1>1, <2>1 DEF ReplicaTypes
    <3> QED
      BY <3>1, <3>2
  <2>3. Proper(aof, chan[1].pos)
    BY <2>1, <2>2, ProperPlaces
  <2>4. chan[1].pos.name > 0
    BY <1>1, <2>3 DEF Proper, TypeOK
  <2> QED
    BY <2>1, <2>4 DEF OnPlace
<1>10. CASE ReplicaDies \/ ReplicaRestart
  <2>1. replica'.reads = "none"
    <3>1. CASE ReplicaDies
      BY <3>1 DEF ReplicaDies, Dead, Fresh
    <3>2. CASE ReplicaRestart
      <4>1. replica.reads = "none"
        BY <1>1, <3>2 DEF ReplicaRestart, Handlers
      <4> QED
        BY <1>1, <3>2, <4>1 DEF ReplicaRestart, Replicas
    <3> QED
      BY <1>10, <3>1, <3>2
  <2> QED
    BY <2>1 DEF OnPlace
<1>11. CASE MasterStep \/ MasterDies \/ SendIncr \/ SendBulk \/ Drop \/ UNCHANGED allVars
  BY <1>2, <1>11 DEF MasterStep, MasterDies, SendIncr, SendBulk, Drop, allVars, replicaVars
<1>12. CASE \E timeout \in BOOLEAN : Cron(timeout)
  BY <1>6, <1>12
<1> QED
  BY <1>3, <1>4, <1>5, <1>7, <1>8, <1>9, <1>10, <1>11, <1>12 DEF ReplicaNext

(* What is under way on the link, put together, is exactly the part of the *)
(* master's whole log between the place of the replica and that of the     *)
(* sender: nothing is skipped, repeated or reordered where a read, a       *)
(* message or a file ends, while files rotate and the master crashes and   *)
(* restarts (onSendIncrToSlave).  InFlightIsLog says so until the end of a *)
(* read or message first falls inside a pack: the code sends nothing of    *)
(* that pack, and its offset goes on.                                      *)
THEOREM InFlightPartOfLog ==
  ASSUME OwnKeys, ~ChildMayDie
  PROVE  ReplicaSpec => []InFlightIsLog
<1> DEFINE I == SInv /\ (~strayed => OnPlace)
<1>1. ReplicaInit => I
  BY RInvInit DEF RInv, SInv, ReplicaInit, Fresh, OnPlace
<1>2. I /\ [ReplicaNext]_allVars => I'
  <2> SUFFICES ASSUME I, [ReplicaNext]_allVars PROVE I'
    OBVIOUS
  <2>1. SInv' /\ (strayed => strayed')
    BY SInvStep, PlacedStep DEF SInv
  <2>2. ASSUME ~strayed' PROVE OnPlace'
    <3>1. RInv
      BY <2>1, <2>2 DEF SInv, RInv
    <3> QED
      BY <2>1, <2>2, <3>1, OnPlaceStep
  <2> QED
    BY <2>1, <2>2
<1>3. I => InFlightIsLog
  <2>1. ASSUME I, ~strayed PROVE InFlightIsLog
    <3>1. RInv /\ OnPlace
      BY <2>1 DEF SInv, RInv
    <3> QED
      BY <3>1, RInvInFlight
  <2>2. ASSUME strayed PROVE InFlightIsLog
    BY <2>2 DEF InFlightIsLog
  <2> QED
    BY <2>1, <2>2
<1> QED
  BY <1>1, <1>2, <1>3, PTL DEF ReplicaSpec

-----------------------------------------------------------------------------
(* When the sender strays.                                                 *)
LEMMA PrefixBytes ==
  ASSUME NEW s \in Seq(Cmd), NEW t \in Seq(Cmd), Len(s) <= Len(t),
         \A i \in 1..Len(s) : t[i] = s[i]
  PROVE  Bytes(s, Len(s)) <= Bytes(t, Len(t))
<1> DEFINE b(i) == Bytes(s, i)
           c(i) == Bytes(t, i)
           P == {i \in Nat : b(i) = c(i)}
<1>1. Len(s) \in Nat /\ Len(t) \in Nat /\ Summed(s) /\ Summed(t)
  BY BytesAre
<1>2. /\ b(0) = 0 /\ c(0) = 0
      /\ \A i \in 1..Len(s) : b(i) = b(i - 1) + PackLen[s[i]]
      /\ \A i \in 1..Len(t) : c(i) = c(i - 1) + PackLen[t[i]]
  BY <1>1 DEF Summed
<1>3. /\ \A i \in 0..Len(t) : c(i) \in Nat
      /\ \A i, j \in 0..Len(t) : j <= i => c(j) <= c(i)
  BY BytesGrow
<1> HIDE DEF b, c
<1>4. 0 \in P
  BY <1>2
<1>5. ASSUME NEW i \in 0..(Len(s) - 1), i \in P PROVE i + 1 \in P
  <2>1. i + 1 \in 1..Len(s) /\ i + 1 \in 1..Len(t) /\ (i + 1) - 1 = i /\ i + 1 \in Nat
    BY <1>1
  <2>2. b(i + 1) = b(i) + PackLen[s[i + 1]] /\ c(i + 1) = c(i) + PackLen[t[i + 1]]
    BY <1>2, <2>1
  <2>3. t[i + 1] = s[i + 1] /\ b(i) = c(i)
    BY <1>5, <2>1
  <2> QED
    BY <2>1, <2>2, <2>3
<1>6. \A i \in 0..Len(s) : i \in P
  <2> HIDE DEF P
  <2> QED
    BY <1>1, <1>4, <1>5, InductionTo
<1>7. b(Len(s)) = c(Len(s))
  <2>1. Len(s) \in P
    BY <1>1, <1>6
  <2> QED
    BY <2>1
<1>8. c(Len(s)) <= c(Len(t))
  BY <1>1, <1>3
<1> QED
  BY <1>7, <1>8 DEF b, c

(* Some file is longer than one read.                                      *)
LongFile == \E f \in 1..Len(aof) : FileSize(f) > ReadBytes

LEMMA LongFilesStay ==
  ASSUME TypeOK, [Next]_vars, LongFile
  PROVE  LongFile'
<1>1. PICK f \in 1..Len(aof) : FileSize(f) > ReadBytes
  BY DEF LongFile
<1>2. PICK b \in Seq(Cmd) : \E o \in Nat : Grows(aof', b, o)
  BY StepGrows
<1>3. PICK o \in Nat : Grows(aof', b, o)
  BY <1>2
<1>4. /\ Len(aof) \in Nat /\ Len(aof') \in Nat /\ f \in 1..Len(aof')
      /\ Len(aof[f]) <= Len(aof'[f]) /\ Len(aof[f]) \in Nat
  BY <1>3, GrowsTypes
<1>5. aof[f] \in Seq(Cmd) /\ aof'[f] \in Seq(Cmd)
  <2>1. aof' \in Seq(Seq(Cmd))
    BY <1>3 DEF Grows
  <2>2. aof'[f] \in Seq(Cmd)
    BY <1>4, <2>1
  <2> QED
    BY <2>2, CmdTypes
<1>6. \A i \in 1..Len(aof[f]) : aof'[f][i] = aof[f][i]
  BY <1>3 DEF Grows
<1>7. Bytes(aof[f], Len(aof[f])) <= Bytes(aof'[f], Len(aof'[f]))
  BY <1>4, <1>5, <1>6, PrefixBytes
<1>8. /\ Bytes(aof[f], Len(aof[f])) \in Nat /\ Bytes(aof'[f], Len(aof'[f])) \in Nat
      /\ Len(aof'[f]) \in Nat
  <2>1. Len(aof'[f]) \in Nat
    BY <1>5
  <2> QED
    BY <1>4, <1>5, <2>1, BytesGrow
<1>9. /\ FileSize(f) = Bytes(aof[f], Len(aof[f]))
      /\ FileSize(f)' = Bytes(aof'[f], Len(aof'[f]))
  BY <1>4 DEF FileSize, Bytes
<1>10. FileSize(f)' > ReadBytes
  BY <1>1, <1>7, <1>8, <1>9, ReadAssumption
<1> QED
  BY <1>4, <1>10 DEF LongFile

(* A file that is read in one piece is parsed to its end.                  *)
LEMMA ShortFileSent ==
  ASSUME Placed, SendIncr, ~strayed, ~LongFile
  PROVE  ~strayed'
<1>1. /\ TypeOK /\ out \in Outs /\ Inside
  BY DEF Placed, IInv, ReplicaTypes
<1>2. out.mode = "incr"
  BY SendIncrIs
<1>3. PICK m, sent, reached, pos : Sending(m, sent, reached, pos)
  BY SendIncrIs
<1> DEFINE g == out.pos.name
           o == out.pos.off
           s == aof[g]
           len == Len(s)
<1>4. out.pos \in LinkPlace /\ out.pos.name > 0 /\ IsPlace(aof, out.pos)
  BY <1>1, <1>2 DEF Outs, Inside
<1>5. SenderAt(out.pos)
  BY <1>1, <1>4, SenderIs
<1>6. /\ g \in 1..Len(aof) /\ s \in Seq(Cmd) /\ len \in Nat /\ o \in 0..len
      /\ FileSize(g) = Bytes(s, len) /\ out.pos.part = 0 /\ out.pos = At(g, o)
  BY <1>4, <1>5 DEF SenderAt, LinkPlace, PackParts, At
<1>7. Bytes(s, len) \in Nat /\ \A i \in 1..len : Bytes(s, i) \in Nat /\ Bytes(s, i) <= Bytes(s, len)
  BY <1>6, BytesGrow
<1>8. Bytes(s, len) <= ReadBytes
  <2>1. ~(Bytes(s, len) > ReadBytes)
    BY <1>6 DEF LongFile
  <2> QED
    BY <1>7, <2>1, ReadAssumption
<1>9. m.from \in Nat /\ m.to = Bytes(s, len)
  BY <1>3, <1>5, <1>6, <1>8, ReadIs DEF Sending
<1>10. ASSUME NEW end \in ReadEnds(m) PROVE end \in Nat /\ Bytes(s, len) <= end
  <2>1. PICK n \in 1..(MaxReads - 1) : end = m.from + n * ReadBytes
    BY DEF ReadEnds
  <2>2. ReadBytes \in Nat /\ n \in Nat /\ 1 <= n
    BY <2>1, ReadAssumption
  <2>3. 1 * ReadBytes <= n * ReadBytes /\ n * ReadBytes \in Nat
    BY <2>2, MulMono
  <2> QED
    BY <1>7, <1>8, <1>9, <2>1, <2>2, <2>3
<1>11. ASSUME NEW i \in 1..len PROVE Parsed(s, i, m)
  <2>1. Bytes(s, i) <= m.to
    BY <1>7, <1>9
  <2>2. ASSUME NEW end \in ReadEnds(m) PROVE ~Torn(s, i, end)
    <3>1. ~(end < Bytes(s, i))
      BY <1>7, <1>10
    <3> QED
      BY <3>1 DEF Torn
  <2> QED
    BY <2>1, <2>2 DEF Parsed
<1>12. o + sent = len
  BY <1>3, <1>5, <1>6, <1>11, SentMost DEF Sending
<1>13. reached = At(g, len)
  <2>1. /\ reached.off = len /\ reached.part = m.to - Bytes(s, reached.off)
        /\ reached = [name |-> g, off |-> reached.off, part |-> reached.part]
    BY <1>3, <1>5, <1>7, <1>9, PlaceAtIs DEF Sending
  <2>2. reached.part = 0
    BY <1>7, <1>9, <2>1
  <2> QED
    BY <2>1, <2>2 DEF At
<1>14. reached = [out.pos EXCEPT !.off = o + sent]
  BY <1>6, <1>12, <1>13 DEF At
<1> QED
  BY <1>3, <1>14 DEF Sending

(* The sender goes on behind packs it has not sent only where a file is    *)
(* longer than what it reads at a time: for files of at most 4096 bytes,   *)
(* whatever their packs and however they are cut off and rotated, it       *)
(* parses all it reads, and what the theorems above say holds throughout   *)
(* (onSendIncrToSlave).                                                    *)
THEOREM StraysBeyondOneRead ==
  ASSUME OwnKeys, ~ChildMayDie
  PROVE  ReplicaSpec => []StraysOnlyBeyondOneRead
<1> DEFINE I == SInv /\ StraysOnlyBeyondOneRead
<1>1. ReplicaInit => I
  BY RInvInit DEF RInv, SInv, ReplicaInit, StraysOnlyBeyondOneRead
<1>2. I /\ [ReplicaNext]_allVars => I'
  <2> SUFFICES ASSUME I, [ReplicaNext]_allVars PROVE I'
    OBVIOUS
  <2>1. SInv' /\ [Next]_vars /\ TypeOK /\ Placed
    BY SInvStep, MasterStepOrNot DEF SInv, Placed, IInv
  <2>2. LongFile => LongFile'
    BY <2>1, LongFilesStay
  <2>3. ASSUME strayed' PROVE LongFile'
    <3>1. CASE strayed
      BY <2>2, <3>1 DEF StraysOnlyBeyondOneRead, LongFile
    <3>2. CASE ~strayed
      <4>1. SendIncr
        BY <2>3, <3>2, OnlySenderStrays
      <4>2. LongFile
        BY <2>1, <2>3, <3>2, <4>1, ShortFileSent
      <4> QED
        BY <2>2, <4>2
    <3> QED
      BY <3>1, <3>2
  <2> QED
    BY <2>1, <2>3 DEF StraysOnlyBeyondOneRead, LongFile
<1> QED
  BY <1>1, <1>2, PTL DEF ReplicaSpec
=============================================================================
