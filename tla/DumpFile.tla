------------------------------ MODULE DumpFile ------------------------------
(***************************************************************************)
(* The buckets, the objects in them, the dump file and its loading         *)
(* (database/*, utils/file.cpp), byte by byte where it matters: loadFile   *)
(* takes the file in chunks, and packs do not end where chunks do.         *)
(*                                                                         *)
(* A Features message is the row it was made from.  Of its serialised form *)
(* only the length follows the row; its bytes are all the same but the     *)
(* last, which is 0 (as the length of the last object is if the object has *)
(* the value 0).  Times are counted in fractions of a millisecond.         *)
(***************************************************************************)
EXTENDS Bytes, FiniteSets

CONSTANTS Keys, Fields, MapKeys,
          Values,       \* numbers and strings, 0 the one of a new object
          Bucket,       \* hash: the bucket of a key
          Chunks,       \* sizes of the buffer in File::loadFile
          BodyBytes,    \* the bytes that serialised messages may consist of
          Births,       \* times of creation, each with one to expire, 0 for none
          Ms,           \* the resolution of a time in a file: a millisecond
          MaxLen,       \* bound: the length of a list
          MaxChanges    \* bound: changes of the database

ASSUME DumpAssumption ==
  /\ 0 \in Values /\ Values \subseteq Nat
  /\ Bucket \in [Keys -> Nat]
  /\ Chunks \subseteq Nat \ {0}
  /\ BodyBytes \subseteq Byte
  /\ \A b \in Births : b.create \in Nat /\ b.expire \in Nat
  /\ Ms \in Nat \ {0}
  /\ MaxLen \in Nat /\ MaxChanges \in Nat
  /\ IsFiniteSet(Keys) /\ IsFiniteSet(Fields) /\ IsFiniteSet(MapKeys)
  /\ \A c \in Chunks : SizeLen + c < Wrap     \* a buffer of 4096 bytes
  /\ HeadLen + 1 + Cardinality(Fields) * (2 + MaxLen + Cardinality(MapKeys)) < Wrap

None == "none"                  \* no kind of the oneof
ReplObject == 1                 \* cmdtype::REPL_OBJECT

Scalars == {"INT", "FLOAT", "BYTES"}
Lists == {"INT_LIST", "FLOAT_LIST", "BYTES_LIST"}
Types == Scalars \cup Lists \cup {"MAP"}
Nothing == [x \in {} |-> 0]      \* an empty map

(* The objects the constructors make without an argument.                  *)
NewList == <<>>
NewMap == Nothing
NewObject(t) ==
  [type |-> t,
   data |-> CASE t \in Scalars -> 0 [] t \in Lists -> NewList [] t = "MAP" -> NewMap]

VARIABLES
  objs,     \* objs of the buckets: the columns of a key, the element of a field
  file,     \* the dump file: its packs, in order
  saved,    \* history: the rows when the file was written
  loader,   \* where loadFile is
  changes   \* changes of the database so far

dvars == <<objs, file, saved, loader, changes>>

Idle == [pc |-> "idle", chunk |-> 1, pos |-> 0, eof |-> FALSE, bytes |-> NewBytes]

DInit ==
  /\ objs = Nothing
  /\ file = <<>>
  /\ saved = Nothing
  /\ loader = Idle
  /\ changes = 0

Has(rows, k, f) == k \in DOMAIN rows /\ f \in DOMAIN rows[k]
HasOf(k, f, types) == Has(objs, k, f) /\ objs[k][f].obj.type \in types
Columns(rows, k) == IF k \in DOMAIN rows THEN rows[k] ELSE Nothing

(* emplace and insert of a map leave an element that is there.             *)
Joined(m, n) == [x \in DOMAIN m \cup DOMAIN n |-> IF x \in DOMAIN m THEN m[x] ELSE n[x]]
Emplace(m, x, v) == Joined(m, [y \in {x} |-> v])
Assign(m, x, v) == Joined([y \in {x} |-> v], m)

-----------------------------------------------------------------------------
(* Changes of the database while the server runs.                          *)

Change ==
  /\ loader.pc = "idle"
  /\ changes < MaxChanges
  /\ changes' = changes + 1
  /\ UNCHANGED <<file, saved, loader>>

(* bucket::put: emplace leaves an element that is there.                   *)
Emplaced(rows, k, f, e) == Assign(rows, k, Emplace(Columns(rows, k), f, e))

(* execMsg puts a new element: expire is set if there is a ttl, lru later. *)
PutNew(k, f, t, create, expire) ==
  /\ Change
  /\ objs' = Emplaced(objs, k, f, [create |-> create, lru |-> 0, expire |-> expire,
                                   obj |-> NewObject(t)])

(* bucket::del: the row stays, even without a column.                      *)
Del(k, f) ==
  /\ Change
  /\ k \in DOMAIN objs
  /\ objs' = [objs EXCEPT ![k] = Restrict(@, DOMAIN @ \ {f})]

Flush ==
  /\ Change
  /\ objs' = Nothing

SetData(k, f, d) == objs' = [objs EXCEPT ![k][f].obj.data = d]

(* The rest of execMsg: the value is set if the element is of the type of  *)
(* the value, lru in any case.                                             *)
SetScalar(k, f, t, v, now) ==
  /\ Change
  /\ Has(objs, k, f)
  /\ LET d == IF HasOf(k, f, {t}) THEN v ELSE objs[k][f].obj.data
     IN  objs' = [objs EXCEPT ![k][f] = [@ EXCEPT !.lru = now, !.obj.data = d]]

(* lpush puts at the end.                                                  *)
Lpush(k, f, v) ==
  /\ Change
  /\ HasOf(k, f, Lists)
  /\ Len(objs[k][f].obj.data) < MaxLen
  /\ SetData(k, f, Append(objs[k][f].obj.data, v))

(* lpop removes the last value (the one it returns is read past the end).  *)
(* Of an empty list nothing can be removed: the list is broken.            *)
Lpop(k, f) ==
  /\ loader.pc = "idle"
  /\ HasOf(k, f, Lists)
  /\ LET d == objs[k][f].obj.data
     IN  \/ d # <<>> /\ Change /\ SetData(k, f, Front(d))
         \/ /\ d = <<>>
            /\ loader' = [loader EXCEPT !.pc = "undefined"]
            /\ UNCHANGED <<objs, file, saved, changes>>

(* ltrim does nothing to an empty list, throws if start and end are not in *)
(* order or negative, and removes nothing if end is 0.  Else the condition *)
(* of its loop, it < it + end, is always true: it erases past the end.     *)
Ltrim(k, f, start, end) ==
  /\ loader.pc = "idle"
  /\ HasOf(k, f, Lists) /\ objs[k][f].obj.data # <<>>
  /\ 0 <= start /\ start <= end /\ 0 < end
  /\ loader' = [loader EXCEPT !.pc = "undefined"]
  /\ UNCHANGED <<objs, file, saved, changes>>

(* Map::put: insert leaves the value that is there.                        *)
MapPut(k, f, m, v) ==
  /\ Change
  /\ HasOf(k, f, {"MAP"})
  /\ SetData(k, f, Emplace(objs[k][f].obj.data, m, v))

MapDel(k, f, m) ==
  /\ Change
  /\ HasOf(k, f, {"MAP"})
  /\ LET d == objs[k][f].obj.data IN SetData(k, f, Restrict(d, DOMAIN d \ {m}))

-----------------------------------------------------------------------------
(* Dumping.                                                                *)

Count(obj) == IF obj.type \in Scalars THEN 1 ELSE Cardinality(DOMAIN obj.data)

(* object::serialize: a list or a map selects its kind of the oneof when   *)
(* its first value is added, so an empty one selects none.                 *)
ListKind(obj) == IF obj.data = NewList THEN None ELSE obj.type
MapKind(obj) == IF obj.data = NewMap THEN None ELSE "MAP"
Kind(obj) ==
  CASE obj.type \in Scalars -> obj.type
    [] obj.type \in Lists -> ListKind(obj)
    [] obj.type = "MAP" -> MapKind(obj)

(* Mutant of Feature: the type is not set.                                 *)
Feature_NoType(e) ==
  [type |-> "UNKNOW", kind |-> Kind(e.obj), value |-> e.obj.data,
   create |-> e.create \div Ms, lru |-> e.lru \div Ms, expire |-> e.lru \div Ms]

(* An element in bucket::dump.  What is stored as expire is lru.           *)
Feature(e) ==
  [type |-> e.obj.type, kind |-> Kind(e.obj), value |-> e.obj.data,
   create |-> e.create \div Ms, lru |-> e.lru \div Ms, expire |-> e.lru \div Ms]

(* The length of a message: of the id, and of each feature and its values. *)
MessageLen(row) == 1 + Cardinality(UNION {{f} \X (0..Count(row[f].obj)) : f \in DOMAIN row})

Serialized(n, byte) == [i \in 1..n |-> IF i = n THEN 0 ELSE byte]

PackOfRow(k, byte) ==
  [id |-> k,
   feature |-> [f \in DOMAIN objs[k] |-> Feature(objs[k][f])],
   cells |-> PackOf(ReplObject, Serialized(MessageLen(objs[k]), byte))]

(* The rows in the order of their buckets; within one, in any order.       *)
Orders ==
  {s \in SetToSeqs(DOMAIN objs) :
     \A i, j \in 1..Len(s) : i < j => Bucket[s[i]] <= Bucket[s[j]]}

(* Buckets::size counts the rows, also those without a column.             *)
Rows == Cardinality(DOMAIN objs)

(* Buckets::dump.  An empty database leaves the file as it is.             *)
Dump ==
  /\ loader.pc = "idle"
  /\ Rows # 0
  /\ \E s \in Orders, byte \in BodyBytes :
       file' = [i \in 1..Len(s) |-> PackOfRow(s[i], byte)]
  /\ saved' = objs
  /\ UNCHANGED <<objs, loader, changes>>

-----------------------------------------------------------------------------
(* Loading.                                                                *)

Content == FlattenSeq([i \in 1..Len(file) |-> file[i].cells])

(* The place of pack i in the file.                                        *)
StartOf(i) == Len(FlattenSeq([j \in 1..(i - 1) |-> file[j].cells]))

(* A restart: the memory is empty, and loadFile opens the file; peek finds *)
(* the end of an empty one.                                                *)
Restart ==
  /\ loader.pc = "idle"
  /\ objs' = Nothing
  /\ \E c \in Chunks :
       loader' = [Idle EXCEPT !.pc = "chunk", !.chunk = c, !.eof = (Len(Content) = 0)]
  /\ UNCHANGED <<file, saved, changes>>

ChunkEnd == Min({loader.pos + loader.chunk, Len(Content)})

ChunkRead == SubSeq(Content, loader.pos + 1, ChunkEnd)

(* The next chunk, which is the last one if it is not full: a file of      *)
(* whole chunks ends with an empty one.                                    *)
LoadChunk ==
  /\ loader.pc = "chunk"
  /\ loader' = IF loader.eof
                 THEN Idle
                 ELSE [loader EXCEPT !.pc = "packs", !.pos = ChunkEnd,
                                     !.eof = (ChunkEnd # loader.pos + loader.chunk),
                                     !.bytes = Put(@, ChunkRead)]
  /\ UNCHANGED <<objs, file, saved, changes>>

(* deSeralize of the class that the oneof asks for: it only takes a        *)
(* feature of its type.                                                    *)
DeSeralized(x) ==
  IF x.type = x.kind THEN [type |-> x.kind, data |-> x.value] ELSE NewObject(x.kind)

(* The element parse makes of a feature.                                   *)
Parsed(x) ==
  [create |-> x.create * Ms, lru |-> x.lru * Ms, expire |-> x.expire * Ms,
   obj |-> DeSeralized(x)]

(* Buckets::parse: a feature without a kind is passed over; the others are *)
(* put one by one, each for a field of its own.                            *)
ParsedRow(p, rows) ==
  LET fs == {f \in DOMAIN p.feature : p.feature[f].kind # None}
      row == [f \in fs |-> Parsed(p.feature[f])]
  IN  IF fs = {} THEN rows ELSE Assign(rows, p.id, Joined(Columns(rows, p.id), row))

EnoughForSize(b) == Remaining(b) > SizeLen

(* Mutant of EnoughForPack: the rest is compared with the whole length.    *)
EnoughForPack_Whole(b, n) == Remaining(b) >= n

(* pack_size - sizeof(pack_size) is of type size_t: no number of bytes is  *)
(* enough if pack_size is less than 4.                                     *)
EnoughForPack(b, n) == n >= SizeLen /\ Remaining(b) >= n - SizeLen

(* One round of the inner loop.  The length is consumed before it is known *)
(* whether the rest is there.  A length between PACK_SIZE_LEN and          *)
(* PACK_HEAD_LEN gives an array of almost 2^32 bytes: the process dies.    *)
(* Bytes that are not a body of the file, taken for one of a row, may be   *)
(* parsed to anything.                                                     *)
LoadPack ==
  LET b == loader.bytes
      n == Get(b, b.rpos, SizeLen)
      sized == Advanced(b, SizeLen)
      type == Get(sized, sized.rpos + FlagLen, TypeLen)
      at == {i \in 1..Len(file) : StartOf(i) = b.rpos /\ Len(file[i].cells) = n}
  IN  /\ loader.pc = "packs"
      /\ \/ /\ ~EnoughForSize(b)
            /\ loader' = [loader EXCEPT !.pc = "chunk"]
            /\ UNCHANGED objs
         \/ /\ EnoughForSize(b) /\ ~EnoughForPack(sized, n)
            /\ loader' = [loader EXCEPT !.pc = "chunk", !.bytes = sized]
            /\ UNCHANGED objs
         \/ /\ EnoughForSize(b) /\ EnoughForPack(sized, n) /\ n < HeadLen
            /\ loader' = [loader EXCEPT !.pc = "dead"]
            /\ UNCHANGED objs
         \/ /\ EnoughForSize(b) /\ EnoughForPack(sized, n) /\ n >= HeadLen
            /\ at = {} /\ type = ReplObject
            /\ loader' = [loader EXCEPT !.pc = "undefined"]
            /\ UNCHANGED objs
         \/ /\ EnoughForSize(b) /\ EnoughForPack(sized, n) /\ n >= HeadLen
            /\ at # {} \/ type # ReplObject
            /\ loader' = [loader EXCEPT !.bytes = Advanced(b, n)]
            /\ objs' = IF at = {} THEN objs ELSE ParsedRow(file[Min(at)], objs)
      /\ UNCHANGED <<file, saved, changes>>

DNext ==
  \/ \E k \in Keys, f \in Fields :
       \/ \E t \in Types, b \in Births : PutNew(k, f, t, b.create, b.expire)
       \/ Del(k, f)
       \/ Lpop(k, f) \/ \E end \in 0..MaxLen : Ltrim(k, f, 0, end)
       \/ \E v \in Values :
            \/ \E t \in Scalars, b \in Births : SetScalar(k, f, t, v, b.create)
            \/ Lpush(k, f, v)
            \/ \E m \in MapKeys : MapPut(k, f, m, v)
       \/ \E m \in MapKeys : MapDel(k, f, m)
  \/ Flush
  \/ Dump
  \/ Restart \/ LoadChunk \/ LoadPack

DSpec == DInit /\ [][DNext]_dvars

-----------------------------------------------------------------------------
(* Every variable has its type; the loader holds what it has read so far.  *)
DumpTypeOK ==
  /\ DOMAIN objs \subseteq Keys
  /\ \A k \in DOMAIN objs :
       /\ DOMAIN objs[k] \subseteq Fields
       /\ \A f \in DOMAIN objs[k] :
            objs[k][f].create \in Nat /\ objs[k][f].expire \in Nat /\ HasOf(k, f, Types)
  /\ \A i \in 1..Len(file) : file[i].id \in Keys /\ file[i].cells \in Seq(Byte)
  /\ loader.pc \in {"idle", "chunk", "packs", "undefined", "dead"}
  /\ loader.eof \in BOOLEAN
  /\ loader.pos \in 0..Len(Content) /\ loader.bytes.buf = SubSeq(Content, 1, loader.pos)
  /\ changes \in 0..MaxChanges

(* What a save and a load make of a row: an empty list or map is lost,     *)
(* times are cut to milliseconds, and the time to expire is that of the    *)
(* last access.                                                            *)
Restored(row) ==
  LET kept == {f \in DOMAIN row : row[f].obj.type \in Scalars \/ DOMAIN row[f].obj.data # {}}
      cut(t) == t - (t % Ms)
  IN  [f \in kept |-> [row[f] EXCEPT !.create = cut(@), !.lru = cut(@),
                                     !.expire = cut(row[f].lru)]]

(* Pack i goes past the end of the chunk in which its length is read.      *)
Split(i) ==
  \E n \in 1..Len(Content) :
    LET end == n * loader.chunk IN StartOf(i) + SizeLen < end /\ end < StartOf(i) + Len(file[i].cells)

Ended == loader.pc = "chunk" /\ loader.eof

(* After a save and a restart every row whose pack comes before the first  *)
(* one that straddles a chunk has the elements that Restored says, for     *)
(* each of the seven classes of objects and any order of the rows in the   *)
(* buckets (bucket::dump, Buckets::parse, File::loadFile).                 *)
Reloaded ==
  Ended =>
    \A i \in 1..Len(file) :
      (\A j \in 1..i : ~Split(j)) =>
         Columns(objs, file[i].id) = Restored(saved[file[i].id])

(* Nothing is in memory that was not saved: also when loadFile has lost    *)
(* the boundaries of the packs, as long as what it takes for the type of a *)
(* pack is not by chance that of an object (File::loadFile, parse).        *)
NothingInvented ==
  loader.pc \in {"chunk", "packs"} =>
    \A k \in DOMAIN objs : k \in DOMAIN saved /\ objs[k] = Restored(saved[k])

(* Every saved row is loaded.  loadFile leaves the inner loop when what it *)
(* has read is not a whole pack, to go on when it has read more            *)
(* (file.cpp:82), but it has consumed the length by then.                  *)
EveryPackLoaded ==
  Ended =>
    \A i \in 1..Len(file) : Columns(objs, file[i].id) = Restored(saved[file[i].id])

=============================================================================
