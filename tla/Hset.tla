-------------------------------- MODULE Hset --------------------------------
(***************************************************************************)
(* HSET and HGET on the buckets by several workers (command_hset.cpp,      *)
(* command_hget.cpp, database/buckets.cpp).  The lock of a bucket covers   *)
(* one get or one put; the element is changed, and the command fed to the  *)
(* backlog, outside of it.                                                 *)
(*                                                                         *)
(* A field stands for a key and a field of it.  A value is the number of   *)
(* the command that set it, 0 for the value of a new element.  Number<T>   *)
(* synchronises its accesses ("int", for int64 and float); String does not *)
(* ("bytes").  The backlog is the sequence of the packs fed: what its own  *)
(* races do to that sequence is the subject of Backlog.                    *)
(***************************************************************************)
EXTENDS Integers, Sequences, FiniteSets

CONSTANTS Workers,   \* the worker threads
          Fields,
          MaxSets,   \* bound: HSETs
          MaxGets    \* bound: HGETs

ASSUME WorkersAssumption == IsFiniteSet(Workers) /\ IsFiniteSet(Fields)
ASSUME BoundAssumption == MaxSets \in Nat /\ MaxGets \in Nat

Types == {"int", "bytes"}
Elems == 1..MaxSets             \* elements, named after the HSET that made them
Values == 0..MaxSets
None == 0                       \* nullptr
Absent == -1                    \* what HGET replies for a field that is not there
Cmds == [n : 1..MaxSets, field : Fields, type : Types]

VARIABLES
  table,    \* objs of the buckets: the element of a field
  elem,     \* the elements
  log,      \* the commands fed to the backlog
  pc,       \* where a worker is
  cmd,      \* the command it executes
  data,     \* the element it holds
  ok,       \* errcode of its reply is 0
  sets,     \* HSETs so far
  gets,     \* HGETs so far
  alone,    \* history: no other HSET of the field ran during the worker's HSET
  current,  \* history: per field, the values that may count as the latest
  seen,     \* history: per worker, the values its HGET may reply
  mixed,    \* history: the fields with overlapping HSETs of different types
  torn,     \* history: the elements two threads accessed at once, unsynchronised
  replayed  \* history: per field, what executing the log again gives

base == <<table, elem, log, sets, gets>>
history == <<alone, current, seen, mixed, torn, replayed>>
vars == <<base, pc, cmd, data, ok, history>>

NoCmd == [n |-> 0, field |-> CHOOSE f \in Fields : TRUE, type |-> "int"]

Init ==
  /\ table = [f \in Fields |-> None]
  /\ elem = [e \in Elems |-> [type |-> "int", value |-> 0]]
  /\ log = <<>>
  /\ pc = [w \in Workers |-> "idle"]
  /\ cmd = [w \in Workers |-> NoCmd]
  /\ data = [w \in Workers |-> None]
  /\ ok = [w \in Workers |-> TRUE]
  /\ sets = 0 /\ gets = 0
  /\ alone = [w \in Workers |-> TRUE]
  /\ current = [f \in Fields |-> {Absent}]
  /\ seen = [w \in Workers |-> {}]
  /\ mixed = {}
  /\ torn = {}
  /\ replayed = [f \in Fields |-> [type |-> "int", value |-> Absent]]

Setting(w) == pc[w] \in {"get", "put", "set", "write", "feed", "reply"}
Getting(w) == pc[w] \in {"hget", "look", "read"}
-----------------------------------------------------------------------------
(* HSET.                                                                   *)

(* A worker has read an HSET from one of its connections.                  *)
Begin(w, f, t) ==
  LET n == sets + 1
      others == {v \in Workers : Setting(v) /\ cmd[v].field = f}
      new == IF table[f] = None THEN {n, 0} ELSE {n}
  IN  /\ pc[w] = "idle" /\ sets < MaxSets
      /\ sets' = n
      /\ cmd' = [cmd EXCEPT ![w] = [n |-> n, field |-> f, type |-> t]]
      /\ pc' = [pc EXCEPT ![w] = "get"]
      /\ ok' = [ok EXCEPT ![w] = TRUE]
      /\ alone' = [v \in Workers |->
                     IF v = w THEN others = {} ELSE alone[v] /\ v \notin others]
      /\ current' = [current EXCEPT ![f] = @ \cup new]
      /\ seen' = [v \in Workers |->
                    IF Getting(v) /\ cmd[v].field = f
                    THEN seen[v] \cup new ELSE seen[v]]
      /\ mixed' = IF \E v \in others : cmd[v].type # t THEN mixed \cup {f} ELSE mixed
      /\ UNCHANGED <<table, elem, log, data, gets, torn, replayed>>

(* buckets->get, under the lock of the bucket.                             *)
Found_Never(w) == None
Found(w) == table[cmd[w].field]

Get(w) ==
  /\ pc[w] = "get"
  /\ data' = [data EXCEPT ![w] = Found(w)]
  /\ pc' = [pc EXCEPT ![w] = IF Found(w) = None THEN "put" ELSE "set"]
  /\ UNCHANGED <<base, cmd, ok, history>>

(* bucket::put: emplace leaves an element that is there.                   *)
Emplaced_Replaces(f, e) == [table EXCEPT ![f] = e]
Emplaced(f, e) == [table EXCEPT ![f] = IF @ = None THEN e ELSE @]

(* The value of an element that has not been set: 0 or the empty string.   *)
NewValue == 0

(* A new element of the type of the value, and put, under the lock.        *)
Put(w) ==
  /\ pc[w] = "put"
  /\ elem' = [elem EXCEPT ![cmd[w].n] = [type |-> cmd[w].type, value |-> NewValue]]
  /\ table' = Emplaced(cmd[w].field, cmd[w].n)
  /\ data' = [data EXCEPT ![w] = cmd[w].n]
  /\ pc' = [pc EXCEPT ![w] = "set"]
  /\ UNCHANGED <<log, sets, gets, cmd, ok, history>>

(* Another thread is in the middle of String::set or String::serialize.    *)
Clashing(w, phases) ==
  elem[data[w]].type = "bytes"
    /\ \E v \in Workers \ {w} : pc[v] \in phases /\ data[v] = data[w]
Touch(w, phases) ==
  torn' = IF Clashing(w, phases) THEN torn \cup {data[w]} ELSE torn

(* The types are compared; on a mismatch errcode is 1.                     *)
Matches_Always(w) == TRUE
Matches(w) == elem[data[w]].type = cmd[w].type

Set(w) ==
  /\ pc[w] = "set"
  /\ \/ /\ Matches(w)
        /\ Touch(w, {"write", "read"})
        /\ pc' = [pc EXCEPT ![w] = "write"]
        /\ UNCHANGED ok
     \/ /\ ~Matches(w)
        /\ ok' = [ok EXCEPT ![w] = FALSE]
        /\ pc' = [pc EXCEPT ![w] = "feed"]
        /\ UNCHANGED torn
  /\ UNCHANGED <<base, cmd, data, alone, current, seen, mixed, replayed>>

(* set is done.                                                            *)
Write(w) ==
  /\ pc[w] = "write"
  /\ elem' = [elem EXCEPT ![data[w]].value = cmd[w].n]
  /\ pc' = [pc EXCEPT ![w] = "feed"]
  /\ UNCHANGED <<table, log, sets, gets, cmd, data, ok, history>>

(* Executing command c of the log again, as _init and a replica do, when m *)
(* is what the commands before it gave (CommandHset::execMsg): a field     *)
(* takes the type of its first command and the values of the commands of   *)
(* that type.                                                              *)
Replay(m, c) ==
  [m EXCEPT ![c.field] =
     IF @.value = Absent \/ @.type = c.type
     THEN [type |-> c.type, value |-> c.n] ELSE @]

(* backlogFeed, if the command has been executed.                          *)
Feed(w) ==
  /\ pc[w] = "feed"
  /\ log' = IF ok[w] THEN Append(log, cmd[w]) ELSE log
  /\ replayed' = IF ok[w] THEN Replay(replayed, cmd[w]) ELSE replayed
  /\ pc' = [pc EXCEPT ![w] = "reply"]
  /\ UNCHANGED <<table, elem, sets, gets, cmd, data, ok, alone, current, seen, mixed, torn>>

(* sendMsg.  The client now knows the outcome.                             *)
Reply(w) ==
  /\ pc[w] = "reply"
  /\ current' = [current EXCEPT ![cmd[w].field] =
                   CASE ok[w] /\ alone[w] -> {cmd[w].n}
                     [] ~ok[w] -> @ \ {cmd[w].n}
                     [] OTHER -> @]
  /\ pc' = [pc EXCEPT ![w] = "idle"]
  /\ data' = [data EXCEPT ![w] = None]
  /\ UNCHANGED <<base, cmd, ok, alone, seen, mixed, torn, replayed>>
-----------------------------------------------------------------------------
(* HGET of one field; a request for several is one after the other.        *)

BeginGet(w, f) ==
  /\ pc[w] = "idle" /\ gets < MaxGets
  /\ gets' = gets + 1
  /\ cmd' = [cmd EXCEPT ![w] = [n |-> 0, field |-> f, type |-> "int"]]
  /\ seen' = [seen EXCEPT ![w] = current[f]]
  /\ pc' = [pc EXCEPT ![w] = "hget"]
  /\ UNCHANGED <<table, elem, log, sets, data, ok, alone, current, mixed, torn, replayed>>

(* buckets->get; without an element the feature of the reply stays empty.  *)
Lookup(w) ==
  /\ pc[w] = "hget"
  /\ data' = [data EXCEPT ![w] = table[cmd[w].field]]
  /\ pc' = [pc EXCEPT ![w] = "look"]
  /\ UNCHANGED <<base, cmd, ok, history>>

Serialize(w) ==
  /\ pc[w] = "look" /\ data[w] # None
  /\ Touch(w, {"write"})
  /\ pc' = [pc EXCEPT ![w] = "read"]
  /\ UNCHANGED <<base, cmd, data, ok, alone, current, seen, mixed, replayed>>

Answer(w) == IF data[w] = None THEN Absent ELSE elem[data[w]].value

SendGet(w) ==
  /\ pc[w] = "read" \/ (pc[w] = "look" /\ data[w] = None)
  /\ pc' = [pc EXCEPT ![w] = "idle"]
  /\ data' = [data EXCEPT ![w] = None]
  /\ UNCHANGED <<base, cmd, ok, history>>
-----------------------------------------------------------------------------
Next ==
  \E w \in Workers :
    \/ \E f \in Fields, t \in Types : Begin(w, f, t)
    \/ Get(w) \/ Put(w) \/ Set(w) \/ Write(w) \/ Feed(w) \/ Reply(w)
    \/ \E f \in Fields : BeginGet(w, f)
    \/ Lookup(w) \/ Serialize(w) \/ SendGet(w)

Spec == Init /\ [][Next]_vars
-----------------------------------------------------------------------------
(* Every variable has its type.                                            *)
TypeOK ==
  /\ table \in [Fields -> Elems \cup {None}]
  /\ elem \in [Elems -> [type : Types, value : Values]]
  /\ log \in Seq(Cmds) /\ Len(log) <= sets
  /\ pc \in [Workers -> {"idle", "get", "put", "set", "write", "feed", "reply",
                         "hget", "look", "read"}]
  /\ \A w \in Workers : cmd[w] \in Cmds \/ cmd[w].n = 0
  /\ data \in [Workers -> Elems \cup {None}]
  /\ ok \in [Workers -> BOOLEAN] /\ alone \in [Workers -> BOOLEAN]
  /\ sets \in 0..MaxSets /\ gets \in 0..MaxGets
  /\ current \in [Fields -> SUBSET (Values \cup {Absent})]
  /\ seen \in [Workers -> SUBSET (Values \cup {Absent})]
  /\ mixed \subseteq Fields
  /\ torn \subseteq Elems
  /\ replayed \in [Fields -> [type : Types, value : Values \cup {Absent}]]

Busy(f) == \E w \in Workers : Setting(w) /\ cmd[w].field = f
Defined(f) == table[f] # None /\ table[f] \notin torn

(* Memory and log agree on a field when no HSET of it is running and the   *)
(* last one that succeeded ran alone, whatever had happened before: HSETs  *)
(* that overlapped may have left the two apart, and the next one brings    *)
(* them together.  Excepted are fields on which HSETs of different types   *)
(* overlapped (CommandHset::exec: set first, feed afterwards).             *)
MemoryIsLog ==
  \A f \in Fields :
    (~Busy(f) /\ Defined(f) /\ f \notin mixed /\ Cardinality(current[f]) = 1)
      => elem[table[f]] = replayed[f]

(* HGET replies the value of an HSET that ran at the same time or that was *)
(* the latest when the HGET began: an acknowledged value that no HSET      *)
(* overlapped is read until another one begins.  While the first HSET of a *)
(* field runs, the reply may be the 0 or the empty string of the new       *)
(* element (CommandHget::exec, CommandHset::execMsg).                      *)
ReadsLatest ==
  \A w \in Workers :
    (pc[w] = "read" \/ (pc[w] = "look" /\ data[w] = None)) /\ data[w] \notin torn
      => Answer(w) \in seen[w]

(* A field keeps its element, and an element its type: no HSET makes the   *)
(* value of another worker unreachable once it can be found                *)
(* (bucket::put).                                                          *)
FieldKeepsElement ==
  [][\A f \in Fields :
       table[f] # None =>
         table'[f] = table[f] /\ elem'[table[f]].type = elem[table[f]].type]_vars
=============================================================================
