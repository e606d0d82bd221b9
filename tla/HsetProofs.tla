----------------------------- MODULE HsetProofs -----------------------------
(***************************************************************************)
(* Proofs about Hset, for any number of workers, fields, HSETs and HGETs.  *)
(*                                                                         *)
(* That HGET replies the latest value is a fact about one moment of one    *)
(* worker.  It rests on what holds of every field and every HSET at all    *)
(* times: which values the field may have, which elements an HSET may      *)
(* still change, and what an HSET that nobody overlapped has done.         *)
(***************************************************************************)
EXTENDS Hset, TLAPS, FiniteSetTheorems

Phases == {"idle", "get", "put", "set", "write", "feed", "reply", "hget", "look", "read"}
Replies == Values \cup {Absent}

Types0 ==
  /\ table \in [Fields -> Elems \cup {None}]
  /\ elem \in [Elems -> [type : Types, value : Values]]
  /\ pc \in [Workers -> Phases]
  /\ cmd \in [Workers -> [n : Values, field : Fields \cup {NoCmd.field}, type : Types]]
  /\ data \in [Workers -> Elems \cup {None}]
  /\ ok \in [Workers -> BOOLEAN] /\ alone \in [Workers -> BOOLEAN]
  /\ sets \in 0..MaxSets /\ gets \in 0..MaxGets
  /\ current \in [Fields -> SUBSET Replies]
  /\ seen \in [Workers -> SUBSET Replies]
  /\ mixed \in SUBSET Fields
  /\ torn \in SUBSET Elems
  /\ replayed \in [Fields -> [type : Types, value : Replies]]

(* The HSETs that run have numbers of their own.                           *)
Numbered ==
  /\ \A w \in Workers : Setting(w) =>
       cmd[w].field \in Fields /\ cmd[w].n \in 1..sets
  /\ \A w \in Workers : Getting(w) \/ cmd[w].n # 0 => cmd[w].field \in Fields
  /\ \A v, w \in Workers : Setting(v) /\ Setting(w) /\ cmd[v].n = cmd[w].n => v = w

(* A command is fed once.                                                  *)
FedOnce ==
  /\ log \in Seq(Cmds)
  /\ \A i \in 1..Len(log) : log[i].n <= sets
  /\ \A i, j \in 1..Len(log) : log[i].n = log[j].n => i = j
  /\ \A w \in Workers : Setting(w) /\ pc[w] # "reply" =>
       \A i \in 1..Len(log) : log[i].n # cmd[w].n

(* The element of a field is no other field's, and the element an HSET is  *)
(* about to make is not in use.                                            *)
OwnElements ==
  /\ \A f \in Fields : table[f] <= sets
  /\ \A w \in Workers : data[w] <= sets
  /\ \A f, g \in Fields : table[f] = table[g] /\ table[f] # None => f = g
  /\ \A w \in Workers : pc[w] \in {"get", "put"} =>
       /\ \A f \in Fields : table[f] # cmd[w].n
       /\ \A v \in Workers : data[v] # cmd[w].n

(* An HSET changes the element of its own field or one that no field has;  *)
(* an HGET reads the element of its field.                                 *)
Holding ==
  /\ \A w \in Workers : pc[w] \in {"set", "write", "feed", "reply"} =>
       /\ data[w] # None
       /\ \A f \in Fields : table[f] = data[w] => f = cmd[w].field
  /\ \A w \in Workers : pc[w] \in {"look", "read"} /\ data[w] # None =>
       data[w] = table[cmd[w].field]
  /\ \A w \in Workers : pc[w] = "read" => data[w] # None

(* What the field has now.                                                 *)
Value(f) == IF table[f] = None THEN Absent ELSE elem[table[f]].value

(* An HSET that no other one of the field overlapped has its element in    *)
(* the table, and has set it when it has been executed.                    *)
Undisturbed ==
  \A w \in Workers : alone[w] /\ Setting(w) =>
    /\ \A v \in Workers : Setting(v) /\ cmd[v].field = cmd[w].field => v = w
    /\ pc[w] = "put" => table[cmd[w].field] = None
    /\ pc[w] \in {"set", "write", "feed", "reply"} => data[w] = table[cmd[w].field]
    /\ pc[w] \in {"feed", "reply"} /\ ok[w] => elem[data[w]].value = cmd[w].n

(* An HSET has no error before the types are compared.                     *)
Executed == \A w \in Workers : pc[w] \in {"get", "put", "set", "write"} => ok[w]

(* No element has a value that was not written.                            *)
Written ==
  \A e \in Elems :
    /\ elem[e].value <= sets
    /\ \A w \in Workers :
         pc[w] \in {"get", "put", "set", "write"} \/ (pc[w] \in {"feed", "reply"} /\ ~ok[w])
           => elem[e].value # cmd[w].n

(* What a field has, or an HSET of it may yet give to it, counts as the    *)
(* latest ...                                                              *)
Counted ==
  /\ \A f \in Fields : Value(f) \in current[f]
  /\ \A w \in Workers : Setting(w) =>
       /\ cmd[w].n \in current[cmd[w].field]
       /\ pc[w] \in {"get", "put"} /\ table[cmd[w].field] = None => 0 \in current[cmd[w].field]

(* ... and may be replied by an HGET of it that runs.                      *)
Replied ==
  \A w \in Workers : Getting(w) =>
    /\ Value(cmd[w].field) \in seen[w]
    /\ pc[w] # "hget" /\ data[w] = None => Absent \in seen[w]
    /\ \A v \in Workers : Setting(v) /\ cmd[v].field = cmd[w].field =>
         /\ cmd[v].n \in seen[w]
         /\ pc[v] \in {"get", "put"} /\ table[cmd[v].field] = None => 0 \in seen[w]

IInv ==
  /\ Types0
  /\ Numbered
  /\ FedOnce
  /\ OwnElements
  /\ Holding
  /\ Undisturbed
  /\ Executed
  /\ Written
  /\ Counted
  /\ Replied

-----------------------------------------------------------------------------
(* What MemoryIsLog needs on top of it.  Only fields on which no HSETs of  *)
(* different types overlapped matter: those that run have one type,        *)
SameType ==
  \A v, w \in Workers :
    Setting(v) /\ Setting(w) /\ cmd[v].field = cmd[w].field /\ cmd[w].field \notin mixed
      => cmd[v].type = cmd[w].type

(* so that an element which lost the race of two puts has the type of the  *)
(* one that won it,                                                        *)
OneType ==
  \A w \in Workers : Setting(w) /\ cmd[w].field \notin mixed =>
    /\ pc[w] = "put" /\ table[cmd[w].field] # None => elem[table[cmd[w].field]].type = cmd[w].type
    /\ pc[w] \in {"set", "write", "feed", "reply"} =>
         /\ table[cmd[w].field] # None
         /\ elem[data[w]].type = elem[table[cmd[w].field]].type

(* the commands that succeed have it, and the log has no other.            *)
Succeeds(w) == pc[w] = "write" \/ (pc[w] \in {"feed", "reply"} /\ ok[w])
Matching == \A w \in Workers : Succeeds(w) => elem[data[w]].type = cmd[w].type
LogType ==
  \A f \in Fields : f \notin mixed =>
    \/ replayed[f].value = Absent
    \/ table[f] # None /\ replayed[f].type = elem[table[f]].type

(* The command of an HSET that nobody overlapped is the last in the log.   *)
LoggedLast ==
  \A w \in Workers :
    alone[w] /\ pc[w] = "reply" /\ ok[w] /\ cmd[w].field \notin mixed
      => replayed[cmd[w].field].value = cmd[w].n

(* The values that count as the latest are those of HSETs that have begun. *)
CountedBelow == \A f \in Fields : \A m \in current[f] : m <= sets

(* A value that counts as the latest and not because of an HSET that runs. *)
Settled(f, m) ==
  m \in current[f] /\ \A w \in Workers : Setting(w) /\ cmd[w].field = f => cmd[w].n # m

OneSettled(f) == \A l, m \in Replies : Settled(f, l) /\ Settled(f, m) => l = m
NoneSucceeds(f) == \A w \in Workers : Succeeds(w) => cmd[w].field # f

(* There always is one.  When there is only one, and no HSET that runs has *)
(* compared the types with success, memory and log agree: so an HSET that  *)
(* fails leaves them as they were.                                         *)
Agree ==
  \A f \in Fields : f \notin mixed =>
    /\ \E m \in Replies : Settled(f, m)
    /\ table[f] # None /\ OneSettled(f) /\ NoneSucceeds(f)
         => elem[table[f]].value = replayed[f].value

LInv ==
  /\ SameType
  /\ OneType
  /\ Matching
  /\ LogType
  /\ LoggedLast
  /\ CountedBelow
  /\ Agree

-----------------------------------------------------------------------------
LEMMA CmdFacts ==
  ASSUME IInv, NEW w \in Workers, Setting(w)
  PROVE  /\ cmd[w].field \in Fields /\ cmd[w].n \in 1..sets /\ cmd[w].n \in Elems
         /\ cmd[w].type \in Types /\ cmd[w] \in Cmds
         /\ sets \in Nat /\ cmd[w].n <= sets
<1>1. cmd[w] \in [n : Values, field : Fields \cup {NoCmd.field}, type : Types]
  BY DEF IInv, Types0
<1>2. cmd[w].field \in Fields /\ cmd[w].n \in 1..sets /\ sets \in 0..MaxSets
  BY DEF IInv, Numbered, Types0
<1>3. cmd[w].n \in Elems
  BY <1>2, BoundAssumption DEF Elems
<1>4. sets \in Nat /\ cmd[w].n <= sets
  BY <1>2, BoundAssumption
<1> QED
  BY <1>1, <1>2, <1>3, <1>4 DEF Cmds, Elems

LEMMA InvInit == Init => IInv
<1> SUFFICES ASSUME Init PROVE IInv
  OBVIOUS
<1>1. NoCmd \in [n : Values, field : Fields \cup {NoCmd.field}, type : Types]
  BY BoundAssumption DEF NoCmd, Values, Types
<1>2. [type |-> "int", value |-> 0] \in [type : Types, value : Values]
  BY BoundAssumption DEF Types, Values
<1>3. [type |-> "int", value |-> Absent] \in [type : Types, value : Replies]
  BY DEF Types, Replies
<1>4. Types0
  BY <1>1, <1>2, <1>3, BoundAssumption DEF Init, Types0, Phases, Replies, Elems, None
<1>5. \A w \in Workers : ~Setting(w) /\ ~Getting(w) /\ pc[w] = "idle" /\ data[w] = 0
  BY DEF Init, Setting, Getting, None
<1>6. Numbered
  BY <1>5 DEF Init, Numbered, NoCmd
<1>7. FedOnce /\ Holding /\ Undisturbed /\ Executed /\ Replied
  BY <1>5 DEF Init, FedOnce, Holding, Undisturbed, Executed, Replied
<1>8. OwnElements
  BY <1>5 DEF Init, OwnElements, None
<1>9. Written
  BY <1>5 DEF Init, Written
<1>10. Counted
  BY <1>5 DEF Init, Counted, Value
<1> QED
  BY <1>4, <1>6, <1>8, <1>9, <1>10, <1>7 DEF IInv

LEMMA BeginKeeps ==
  ASSUME IInv, NEW w \in Workers, NEW f \in Fields, NEW t \in Types, Begin(w, f, t)
  PROVE  IInv'
<1> DEFINE n == sets + 1
           new == IF table[f] = None THEN {n, 0} ELSE {n}
<1>1. /\ pc[w] = "idle" /\ ~Setting(w) /\ ~Getting(w) /\ sets < MaxSets /\ sets' = n
      /\ sets \in Nat /\ n \in Elems /\ n \in Values /\ MaxSets \in Nat
  BY BoundAssumption DEF Begin, IInv, Types0, Setting, Getting, Elems, Values
<1>2. /\ cmd'[w].n = n /\ cmd'[w].field = f /\ cmd'[w].type = t /\ pc'[w] = "get"
      /\ \A v \in Workers : v # w => cmd'[v] = cmd[v] /\ pc'[v] = pc[v]
  BY DEF Begin, IInv, Types0
<1>3. table' = table /\ elem' = elem /\ log' = log /\ data' = data
  BY DEF Begin
<1>4. \A v \in Workers : ok'[v] = IF v = w THEN TRUE ELSE ok[v]
  BY DEF Begin, IInv, Types0
<1>5. \A v \in Workers : v # w => (Setting(v)' <=> Setting(v)) /\ (Getting(v)' <=> Getting(v))
  BY <1>2 DEF Setting, Getting
<1>6. Setting(w)' /\ ~Getting(w)'
  BY <1>2 DEF Setting, Getting
<1>7. /\ \A g \in Fields : current'[g] = IF g = f THEN current[g] \cup new ELSE current[g]
      /\ \A v \in Workers :
           seen'[v] = IF Getting(v) /\ cmd[v].field = f THEN seen[v] \cup new ELSE seen[v]
  BY DEF Begin, IInv, Types0
<1>8. new \subseteq Replies
  BY <1>1 DEF Replies, Values
<1>9. Types0'
  <2>1. [n |-> n, field |-> f, type |-> t]
          \in [n : Values, field : Fields \cup {NoCmd.field}, type : Types]
    BY <1>1
  <2>2. /\ pc' \in [Workers -> Phases]
        /\ cmd' \in [Workers -> [n : Values, field : Fields \cup {NoCmd.field}, type : Types]]
        /\ ok' \in [Workers -> BOOLEAN] /\ mixed' \in SUBSET Fields
    BY <1>1, <2>1 DEF Begin, IInv, Types0, Phases
  <2>3. alone' \in [Workers -> BOOLEAN]
    BY DEF Begin, IInv, Types0
  <2>4. current' \in [Fields -> SUBSET Replies] /\ seen' \in [Workers -> SUBSET Replies]
    <3> HIDE DEF new
    <3>1. /\ current' = [current EXCEPT ![f] = @ \cup new]
          /\ seen' = [v \in Workers |-> IF Getting(v) /\ cmd[v].field = f
                                        THEN seen[v] \cup new ELSE seen[v]]
      BY DEF Begin, new
    <3> QED
      BY <1>8, <3>1 DEF IInv, Types0
  <2>5. sets' \in 0..MaxSets
    BY <1>1
  <2> QED
    BY <1>3, <2>2, <2>3, <2>4, <2>5 DEF Begin, IInv, Types0
<1> HIDE DEF new
<1>10. Numbered'
  BY <1>1, <1>2, <1>5, <1>6 DEF IInv, Numbered
<1>11. FedOnce'
  <2>1. ASSUME NEW i \in 1..Len(log) PROVE log[i].n \in Nat
    <3>1. log[i] \in Cmds
      BY DEF IInv, FedOnce
    <3> QED
      BY <3>1, BoundAssumption DEF Cmds
  <2> QED
    BY <1>1, <1>2, <1>3, <1>5, <1>6, <2>1 DEF IInv, FedOnce
<1>12. /\ \A g \in Fields : table[g] \in Nat /\ table[g] <= sets
       /\ \A v \in Workers : data[v] \in Nat /\ data[v] <= sets
       /\ \A e \in Elems : elem[e].value \in Nat /\ elem[e].value <= sets
  BY BoundAssumption DEF IInv, Types0, OwnElements, Written, Elems, Values, None
<1>13. OwnElements'
  BY <1>1, <1>2, <1>3, <1>12 DEF IInv, OwnElements
<1>14. Holding'
  BY <1>2, <1>3 DEF IInv, Holding
<1>15. Undisturbed'
  <2>1. \A v \in Workers : v # w =>
          alone'[v] = (alone[v] /\ ~(Setting(v) /\ cmd[v].field = f))
    BY DEF Begin
  <2>2. alone'[w] = ({v \in Workers : Setting(v) /\ cmd[v].field = f} = {})
    BY DEF Begin
  <2>3. ASSUME NEW v \in Workers, v # w, alone'[v], Setting(v)'
        PROVE  alone[v] /\ Setting(v) /\ cmd[v].field # f
    BY <1>5, <2>1, <2>3
  <2>4. ASSUME alone'[w], NEW v \in Workers, Setting(v), cmd[v].field = f
        PROVE  FALSE
    BY <2>2, <2>4
  <2> SUFFICES ASSUME NEW v \in Workers, alone'[v], Setting(v)'
               PROVE  /\ \A u \in Workers : Setting(u)' /\ cmd'[u].field = cmd'[v].field => u = v
                      /\ pc'[v] = "put" => table'[cmd'[v].field] = None
                      /\ pc'[v] \in {"set", "write", "feed", "reply"}
                           => data'[v] = table'[cmd'[v].field]
                      /\ pc'[v] \in {"feed", "reply"} /\ ok'[v] => elem'[data'[v]].value = cmd'[v].n
    BY DEF Undisturbed
  <2>5. CASE v = w
    BY <1>2, <1>3, <1>5, <2>4, <2>5
  <2>6. CASE v # w
    <3>1. alone[v] /\ Setting(v) /\ cmd[v].field # f
      BY <2>3, <2>6
    <3>2. /\ \A u \in Workers : Setting(u) /\ cmd[u].field = cmd[v].field => u = v
          /\ pc[v] = "put" => table[cmd[v].field] = None
          /\ pc[v] \in {"set", "write", "feed", "reply"} => data[v] = table[cmd[v].field]
          /\ pc[v] \in {"feed", "reply"} /\ ok[v] => elem[data[v]].value = cmd[v].n
      BY <3>1 DEF IInv, Undisturbed
    <3>3. cmd'[v] = cmd[v] /\ pc'[v] = pc[v] /\ ok'[v] = ok[v]
      BY <1>2, <1>4, <2>6
    <3>4. ASSUME NEW u \in Workers, Setting(u)', cmd'[u].field = cmd[v].field PROVE u = v
      <4>1. u # w
        BY <1>2, <3>1, <3>4
      <4> QED
        BY <1>2, <1>5, <3>2, <3>4, <4>1
    <3> QED
      BY <1>3, <3>2, <3>3, <3>4
  <2> QED
    BY <2>5, <2>6
<1>16. Written'
  <2> SUFFICES ASSUME NEW e \in Elems
               PROVE  /\ elem[e].value <= n
                      /\ \A v \in Workers :
                           pc'[v] \in {"get", "put", "set", "write"}
                             \/ (pc'[v] \in {"feed", "reply"} /\ ~ok'[v])
                           => elem[e].value # cmd'[v].n
    BY <1>1, <1>3 DEF Written
  <2>1. elem[e].value <= n /\ elem[e].value # n
    BY <1>1, <1>12
  <2> QED
    BY <1>2, <1>4, <2>1 DEF IInv, Written
<1>17. \A g \in Fields : Value(g)' = Value(g)
  BY <1>3 DEF Value
<1>18. n \in new /\ (table[f] = None => 0 \in new)
  BY DEF new
<1>19. Counted'
  <2>1. \A g \in Fields : current[g] \subseteq current'[g] /\ new \subseteq current'[f]
    BY <1>7
  <2>2. \A g \in Fields : Value(g)' \in current'[g]
    BY <1>17, <2>1 DEF IInv, Counted
  <2>3. ASSUME NEW v \in Workers, Setting(v)'
        PROVE  /\ cmd'[v].n \in current'[cmd'[v].field]
               /\ pc'[v] \in {"get", "put"} /\ table'[cmd'[v].field] = None
                    => 0 \in current'[cmd'[v].field]
    <3>1. CASE v = w
      BY <1>2, <1>3, <1>18, <2>1, <3>1
    <3>2. CASE v # w
      BY <1>2, <1>3, <1>5, <2>1, <2>3, <3>2 DEF IInv, Counted, Numbered
    <3> QED
      BY <3>1, <3>2
  <2> QED
    BY <2>2, <2>3 DEF Counted
<1>20. Replied'
  <2> SUFFICES ASSUME NEW v \in Workers, Getting(v)'
               PROVE  /\ (IF table'[cmd'[v].field] = None THEN Absent
                          ELSE elem'[table'[cmd'[v].field]].value) \in seen'[v]
                      /\ pc'[v] # "hget" /\ data'[v] = None => Absent \in seen'[v]
                      /\ \A u \in Workers : Setting(u)' /\ cmd'[u].field = cmd'[v].field =>
                           /\ cmd'[u].n \in seen'[v]
                           /\ pc'[u] \in {"get", "put"} /\ table'[cmd'[u].field] = None
                                => 0 \in seen'[v]
    BY DEF Replied, Value
  <2>1. v # w /\ Getting(v) /\ cmd'[v] = cmd[v] /\ pc'[v] = pc[v] /\ cmd[v].field \in Fields
    BY <1>2, <1>5, <1>6 DEF IInv, Numbered
  <2>2. seen[v] \subseteq seen'[v] /\ (cmd[v].field = f => new \subseteq seen'[v])
    BY <1>7, <2>1
  <2> QED
    BY <1>2, <1>3, <1>5, <1>6, <1>18, <2>1, <2>2 DEF IInv, Replied, Value
<1>21. Executed'
  BY <1>2, <1>4 DEF IInv, Executed
<1> QED
  BY <1>9, <1>10, <1>11, <1>13, <1>14, <1>15, <1>16, <1>19, <1>20, <1>21 DEF IInv

(* A step of worker w that changes neither the table nor an element: an    *)
(* HSET or HGET goes on or ends.                                           *)
Moves(w) ==
  /\ UNCHANGED <<table, elem, sets, gets, cmd, alone, seen, mixed>>
  /\ torn' \in SUBSET Elems /\ current' \in [Fields -> SUBSET Replies]
  /\ replayed' \in [Fields -> [type : Types, value : Replies]]
  /\ pc' \in [Workers -> Phases] /\ data' \in [Workers -> Elems \cup {None}]
  /\ ok' \in [Workers -> BOOLEAN]
  /\ \A v \in Workers : v # w => pc'[v] = pc[v] /\ data'[v] = data[v] /\ ok'[v] = ok[v]
  /\ Setting(w)' => Setting(w) /\ (pc[w] = "reply" => pc'[w] = "reply")
  /\ Getting(w)' => Getting(w)
  /\ pc'[w] \in {"get", "put"} => pc[w] \in {"get", "put"}
  /\ pc'[w] \in {"get", "put", "set", "write"} \/ (pc'[w] \in {"feed", "reply"} /\ ~ok'[w])
       => pc[w] \in {"get", "put", "set", "write"} \/ (pc[w] \in {"feed", "reply"} /\ ~ok[w])
  /\ data'[w] # data[w] /\ data'[w] # None =>
       cmd[w].field \in Fields /\ data'[w] = table[cmd[w].field]
  /\ pc'[w] \in {"set", "write", "feed", "reply"} =>
       /\ data'[w] # None
       /\ \A f \in Fields : table[f] = data'[w] => f = cmd[w].field
  /\ pc'[w] \in {"look", "read"} /\ data'[w] # None => data'[w] = table[cmd[w].field]
  /\ pc'[w] = "read" => data'[w] # None
  /\ alone[w] /\ Setting(w)' =>
       /\ pc'[w] = "put" => table[cmd[w].field] = None
       /\ pc'[w] \in {"set", "write", "feed", "reply"} => data'[w] = table[cmd[w].field]
       /\ pc'[w] \in {"feed", "reply"} /\ ok'[w] => elem[data'[w]].value = cmd[w].n
  /\ Getting(w)' /\ pc'[w] # "hget" /\ data'[w] = None => Absent \in seen[w]
  /\ pc'[w] \in {"get", "put", "set", "write"} => ok'[w]

LEMMA MovesKeep ==
  ASSUME IInv, NEW w \in Workers, Moves(w)
  PROVE  /\ Types0' /\ Numbered' /\ OwnElements' /\ Holding'
         /\ Undisturbed' /\ Executed' /\ Written' /\ Replied'
         /\ log' = log => FedOnce'
         /\ current' = current => Counted'
<1>1. /\ table' = table /\ elem' = elem /\ sets' = sets /\ gets' = gets /\ cmd' = cmd
      /\ alone' = alone /\ seen' = seen /\ mixed' = mixed
  BY DEF Moves
<1>2. \A v \in Workers : v # w => pc'[v] = pc[v] /\ data'[v] = data[v] /\ ok'[v] = ok[v]
  BY DEF Moves
<1>3. \A v \in Workers : (Setting(v)' => Setting(v)) /\ (Getting(v)' => Getting(v))
  BY <1>2 DEF Moves, Setting, Getting
<1>4. \A v \in Workers : pc'[v] \in {"get", "put"} => pc[v] \in {"get", "put"}
  BY <1>2 DEF Moves
<1>5. Types0'
  BY <1>1 DEF Moves, IInv, Types0
<1>6. Numbered'
  BY <1>1, <1>3 DEF IInv, Numbered
<1>7. OwnElements'
  <2>1. \A v \in Workers : \/ data'[v] = data[v] \/ data'[v] = None
                           \/ \E f \in Fields : data'[v] = table[f]
    BY <1>2 DEF Moves
  <2>2. \A v \in Workers : data'[v] <= sets
    BY <2>1 DEF IInv, OwnElements, Types0, None
  <2>3. ASSUME NEW u \in Workers, pc'[u] \in {"get", "put"}, NEW v \in Workers
        PROVE  data'[v] # cmd[u].n
    <3>1. pc[u] \in {"get", "put"} /\ Setting(u)
      BY <1>4, <2>3 DEF Setting
    <3>2. cmd[u].n # None
      BY <3>1, CmdFacts DEF None, Elems
    <3> QED
      BY <2>1, <3>1, <3>2 DEF IInv, OwnElements
  <2> QED
    BY <1>1, <1>4, <2>2, <2>3 DEF IInv, OwnElements
<1>8. Holding'
  BY <1>1, <1>2 DEF Moves, IInv, Holding
<1>9. Undisturbed'
  <2> SUFFICES ASSUME NEW v \in Workers, alone[v], Setting(v)'
               PROVE  /\ \A u \in Workers : Setting(u)' /\ cmd[u].field = cmd[v].field => u = v
                      /\ pc'[v] = "put" => table[cmd[v].field] = None
                      /\ pc'[v] \in {"set", "write", "feed", "reply"}
                           => data'[v] = table[cmd[v].field]
                      /\ pc'[v] \in {"feed", "reply"} /\ ok'[v] => elem[data'[v]].value = cmd[v].n
    BY <1>1 DEF Undisturbed
  <2>1. \A u \in Workers : Setting(u)' /\ cmd[u].field = cmd[v].field => u = v
    BY <1>3 DEF IInv, Undisturbed
  <2>2. CASE v = w
    BY <2>1, <2>2 DEF Moves
  <2>3. CASE v # w
    BY <1>2, <1>3, <2>1, <2>3 DEF IInv, Undisturbed
  <2> QED
    BY <2>2, <2>3
<1>10. Written'
  BY <1>1, <1>2 DEF Moves, IInv, Written
<1>11. Replied'
  <2> SUFFICES ASSUME NEW v \in Workers, Getting(v)'
               PROVE  /\ Value(cmd[v].field) \in seen[v]
                      /\ pc'[v] # "hget" /\ data'[v] = None => Absent \in seen[v]
                      /\ \A u \in Workers : Setting(u)' /\ cmd[u].field = cmd[v].field =>
                           /\ cmd[u].n \in seen[v]
                           /\ pc'[u] \in {"get", "put"} /\ table[cmd[u].field] = None
                                => 0 \in seen[v]
    BY <1>1 DEF Replied, Value
  <2>1. pc'[v] # "hget" /\ data'[v] = None => Absent \in seen[v]
    BY <1>2, <1>3 DEF Moves, IInv, Replied
  <2> QED
    BY <1>3, <1>4, <2>1 DEF IInv, Replied
<1>12. log' = log => FedOnce'
  BY <1>1, <1>2, <1>3 DEF Moves, IInv, FedOnce
<1>13. current' = current => Counted'
  <2> SUFFICES ASSUME current' = current PROVE Counted'
    OBVIOUS
  <2>1. \A f \in Fields : Value(f)' = Value(f)
    BY <1>1 DEF Value
  <2> QED
    BY <1>1, <1>3, <1>4, <2>1 DEF IInv, Counted
<1>14. Executed'
  BY <1>2 DEF Moves, IInv, Executed
<1> QED
  BY <1>5, <1>6, <1>7, <1>8, <1>9, <1>10, <1>11, <1>12, <1>13, <1>14

LEMMA GetKeeps ==
  ASSUME IInv, NEW w \in Workers, Get(w)
  PROVE  IInv'
<1>1. /\ pc[w] = "get" /\ Setting(w)
      /\ UNCHANGED <<table, elem, log, sets, gets, cmd, ok, alone, current, seen, mixed, torn, replayed>>
  BY DEF Get, Setting, base, history
<1>2. cmd[w].field \in Fields /\ Found(w) \in Elems \cup {None}
  BY <1>1, CmdFacts DEF Found, IInv, Types0
<1>3. /\ data' = [data EXCEPT ![w] = Found(w)]
      /\ pc' = [pc EXCEPT ![w] = IF Found(w) = None THEN "put" ELSE "set"]
  BY DEF Get
<1>4. /\ data' \in [Workers -> Elems \cup {None}] /\ pc' \in [Workers -> Phases]
      /\ data'[w] = Found(w) /\ pc'[w] = IF Found(w) = None THEN "put" ELSE "set"
      /\ \A v \in Workers : v # w => pc'[v] = pc[v] /\ data'[v] = data[v]
  BY <1>2, <1>3 DEF IInv, Types0, Phases
<1>5. \A f \in Fields : table[f] = Found(w) /\ Found(w) # None => f = cmd[w].field
  BY <1>2 DEF IInv, OwnElements, Found
<1>6. ok[w]
  BY <1>1 DEF IInv, Executed
<1>7. Moves(w)
  BY <1>1, <1>2, <1>4, <1>5, <1>6 DEF Moves, IInv, Types0, Found, Setting, Getting
<1> QED
  BY <1>1, <1>7, MovesKeep DEF IInv

LEMMA SetKeeps ==
  ASSUME IInv, NEW w \in Workers, Set(w)
  PROVE  IInv'
<1>1. /\ pc[w] = "set" /\ Setting(w)
      /\ UNCHANGED <<table, elem, log, sets, gets, cmd, data, alone, current, seen, mixed, replayed>>
  BY DEF Set, Setting, base
<1>2. data[w] # None /\ data[w] \in Elems
  BY <1>1 DEF IInv, Holding, Types0
<1>3. torn' \in SUBSET Elems
  BY <1>2 DEF Set, Touch, IInv, Types0
<1>4. \/ /\ pc' = [pc EXCEPT ![w] = "write"] /\ ok' = ok
      \/ /\ pc' = [pc EXCEPT ![w] = "feed"] /\ ok' = [ok EXCEPT ![w] = FALSE]
  BY DEF Set
<1>5. /\ pc' \in [Workers -> Phases] /\ ok' \in [Workers -> BOOLEAN]
      /\ \A v \in Workers : v # w => pc'[v] = pc[v] /\ ok'[v] = ok[v]
      /\ pc'[w] = "write" \/ (pc'[w] = "feed" /\ ~ok'[w])
  BY <1>4 DEF IInv, Types0, Phases
<1>6. pc'[w] = "write" => ok'[w]
  BY <1>1, <1>4 DEF IInv, Types0, Executed
<1>7. /\ \A f \in Fields : table[f] = data[w] => f = cmd[w].field
      /\ alone[w] => data[w] = table[cmd[w].field]
  BY <1>1 DEF IInv, Holding, Undisturbed
<1>8. Moves(w)
  BY <1>1, <1>2, <1>3, <1>5, <1>6, <1>7 DEF Moves, IInv, Types0, Setting, Getting
<1> QED
  BY <1>1, <1>8, MovesKeep DEF IInv

LEMMA ReplayTyped ==
  ASSUME IInv, NEW w \in Workers, Setting(w)
  PROVE  Replay(replayed, cmd[w]) \in [Fields -> [type : Types, value : Replies]]
<1>1. cmd[w].type \in Types /\ cmd[w].n \in Replies
  BY CmdFacts, BoundAssumption DEF Replies, Values, Elems
<1>2. [type |-> cmd[w].type, value |-> cmd[w].n] \in [type : Types, value : Replies]
  BY <1>1
<1> QED
  BY <1>2 DEF Replay, IInv, Types0

LEMMA FeedKeeps ==
  ASSUME IInv, NEW w \in Workers, Feed(w)
  PROVE  IInv'
<1>1. /\ pc[w] = "feed" /\ Setting(w) /\ pc' = [pc EXCEPT ![w] = "reply"]
      /\ UNCHANGED <<table, elem, sets, gets, cmd, data, ok, alone, current, seen, mixed, torn>>
  BY DEF Feed, Setting
<1>2. /\ pc' \in [Workers -> Phases] /\ pc'[w] = "reply"
      /\ \A v \in Workers : v # w => pc'[v] = pc[v]
  BY <1>1 DEF IInv, Types0, Phases
<1>3. /\ data[w] # None
      /\ \A f \in Fields : table[f] = data[w] => f = cmd[w].field
      /\ alone[w] => data[w] = table[cmd[w].field]
      /\ alone[w] /\ ok[w] => elem[data[w]].value = cmd[w].n
  BY <1>1 DEF IInv, Holding, Undisturbed
<1>4. replayed' \in [Fields -> [type : Types, value : Replies]]
  BY <1>1, ReplayTyped DEF Feed, IInv, Types0
<1>5. Moves(w)
  BY <1>1, <1>2, <1>3, <1>4 DEF Moves, IInv, Types0, Setting, Getting
<1>6. FedOnce'
  <2>1. CASE log' = log
    BY <1>5, <2>1, MovesKeep
  <2>2. CASE log' = Append(log, cmd[w])
    <3>1. log \in Seq(Cmds) /\ cmd[w] \in Cmds /\ cmd[w].n <= sets /\ Len(log) \in Nat
      BY <1>1, CmdFacts DEF IInv, FedOnce
    <3>2. /\ log' \in Seq(Cmds) /\ Len(log') = Len(log) + 1 /\ log'[Len(log) + 1] = cmd[w]
          /\ \A i \in 1..Len(log) : log'[i] = log[i]
      BY <2>2, <3>1
    <3>3. \A i \in 1..Len(log') : i \in 1..Len(log) \/ i = Len(log) + 1
      BY <3>1, <3>2
    <3>4. \A i \in 1..Len(log) : log[i].n # cmd[w].n /\ log[i].n <= sets
      BY <1>1 DEF IInv, FedOnce
    <3>5. \A i \in 1..Len(log') : log'[i].n <= sets'
      BY <1>1, <3>1, <3>2, <3>3, <3>4
    <3>6. \A i, j \in 1..Len(log') : log'[i].n = log'[j].n => i = j
      BY <3>2, <3>3, <3>4 DEF IInv, FedOnce
    <3>7. ASSUME NEW v \in Workers, Setting(v)', pc'[v] # "reply", NEW i \in 1..Len(log')
          PROVE  log'[i].n # cmd'[v].n
      <4>1. v # w /\ Setting(v) /\ pc[v] # "reply" /\ cmd'[v] = cmd[v]
        BY <1>1, <1>2, <3>7 DEF Setting
      <4>2. cmd[v].n # cmd[w].n
        BY <1>1, <4>1 DEF IInv, Numbered
      <4>3. \A j \in 1..Len(log) : log[j].n # cmd[v].n
        BY <4>1 DEF IInv, FedOnce
      <4> QED
        BY <3>2, <3>3, <4>1, <4>2, <4>3
    <3> QED
      BY <3>2, <3>5, <3>6, <3>7 DEF FedOnce
  <2> QED
    BY <2>1, <2>2 DEF Feed
<1> QED
  BY <1>1, <1>5, <1>6, MovesKeep DEF IInv

LEMMA ReplyKeeps ==
  ASSUME IInv, NEW w \in Workers, Reply(w)
  PROVE  IInv'
<1> DEFINE f == cmd[w].field
           n == cmd[w].n
           now == CASE ok[w] /\ alone[w] -> {n}
                    [] ~ok[w] -> current[f] \ {n}
                    [] OTHER -> current[f]
<1>1. /\ pc[w] = "reply" /\ Setting(w) /\ pc' = [pc EXCEPT ![w] = "idle"]
      /\ data' = [data EXCEPT ![w] = None] /\ current' = [current EXCEPT ![f] = now]
      /\ UNCHANGED <<table, elem, log, sets, gets, cmd, ok, alone, seen, mixed, torn, replayed>>
  BY DEF Reply, Setting, base
<1>2. f \in Fields /\ n \in Elems /\ f \in Fields
  BY <1>1, CmdFacts
<1>3. /\ pc' \in [Workers -> Phases] /\ pc'[w] = "idle" /\ data' \in [Workers -> Elems \cup {None}]
      /\ data'[w] = None
      /\ \A v \in Workers : v # w => pc'[v] = pc[v] /\ data'[v] = data[v]
  BY <1>1 DEF IInv, Types0, Phases
<1>4. /\ ok[w] /\ alone[w] => now = {n}
      /\ ~ok[w] => now = current[f] \ {n}
      /\ ok[w] /\ ~alone[w] => now = current[f]
  BY DEF IInv, Types0
<1>5. n \in Replies /\ current[f] \in SUBSET Replies /\ ok[w] \in BOOLEAN /\ alone[w] \in BOOLEAN
  BY <1>2, BoundAssumption DEF Replies, Values, Elems, IInv, Types0
<1>6. now \in SUBSET Replies
  BY <1>4, <1>5
<1> HIDE DEF now
<1>7. current' \in [Fields -> SUBSET Replies]
  BY <1>1, <1>6 DEF IInv, Types0
<1>8. current'[f] = now /\ \A g \in Fields : g # f => current'[g] = current[g]
  BY <1>1, <1>2 DEF IInv, Types0
<1>9. Moves(w)
  BY <1>1, <1>3, <1>7 DEF Moves, IInv, Types0, Setting, Getting
<1>10. Counted'
  <2>1. Value(f) \in now
    <3>1. Value(f) \in current[f]
      BY <1>2 DEF IInv, Counted
    <3>2. CASE ok[w] /\ alone[w]
      <4>1. data[w] = table[f] /\ data[w] # None /\ elem[data[w]].value = n
        BY <1>1, <3>2 DEF IInv, Undisturbed, Holding
      <4> QED
        BY <1>4, <3>2, <4>1 DEF Value
    <3>3. CASE ~ok[w]
      <4>1. n # Absent
        BY <1>2, BoundAssumption DEF Absent, Elems
      <4>2. table[f] # None => elem[table[f]].value # n
        BY <1>1, <1>2, <3>3 DEF IInv, Written, Types0
      <4> QED
        BY <1>4, <3>1, <3>3, <4>1, <4>2 DEF Value
    <3> QED
      BY <1>4, <1>5, <3>1, <3>2, <3>3
  <2>2. \A g \in Fields : Value(g)' \in current'[g]
    BY <1>1, <1>8, <2>1 DEF Value, IInv, Counted
  <2>3. ASSUME NEW v \in Workers, Setting(v)'
        PROVE  /\ cmd[v].n \in current'[cmd[v].field]
               /\ pc'[v] \in {"get", "put"} /\ table[cmd[v].field] = None
                    => 0 \in current'[cmd[v].field]
    <3>1. v # w /\ Setting(v) /\ pc'[v] = pc[v] /\ cmd[v].field \in Fields
      BY <1>3, <2>3, CmdFacts DEF Setting
    <3>2. /\ cmd[v].n \in current[cmd[v].field]
          /\ pc[v] \in {"get", "put"} /\ table[cmd[v].field] = None
               => 0 \in current[cmd[v].field]
      BY <3>1 DEF IInv, Counted
    <3>3. CASE cmd[v].field # f
      BY <1>8, <3>1, <3>2, <3>3
    <3>4. CASE cmd[v].field = f
      <4>1. ~alone[w]
        BY <1>1, <3>1, <3>4 DEF IInv, Undisturbed
      <4>2. cmd[v].n # n /\ n # 0
        BY <1>1, <1>2, <3>1 DEF IInv, Numbered, Elems
      <4> QED
        BY <1>4, <1>5, <1>8, <3>1, <3>2, <3>4, <4>1, <4>2
    <3> QED
      BY <3>3, <3>4
  <2> QED
    BY <1>1, <2>2, <2>3 DEF Counted
<1> QED
  BY <1>1, <1>9, <1>10, MovesKeep DEF IInv

LEMMA LookupKeeps ==
  ASSUME IInv, NEW w \in Workers, Lookup(w)
  PROVE  IInv'
<1> DEFINE d == table[cmd[w].field]
<1>1. /\ pc[w] = "hget" /\ Getting(w) /\ ~Setting(w)
      /\ data' = [data EXCEPT ![w] = d] /\ pc' = [pc EXCEPT ![w] = "look"]
      /\ UNCHANGED <<table, elem, log, sets, gets, cmd, ok, alone, current, seen, mixed, torn, replayed>>
  BY DEF Lookup, Getting, Setting, base, history
<1>2. cmd[w].field \in Fields /\ d \in Elems \cup {None}
  BY <1>1 DEF IInv, Numbered, Types0
<1>3. d = None => Absent \in seen[w]
  BY <1>1 DEF IInv, Replied, Value
<1>4. /\ data' \in [Workers -> Elems \cup {None}] /\ pc' \in [Workers -> Phases]
      /\ data'[w] = d /\ pc'[w] = "look"
      /\ \A v \in Workers : v # w => pc'[v] = pc[v] /\ data'[v] = data[v]
  BY <1>1, <1>2 DEF IInv, Types0, Phases
<1>5. Moves(w)
  BY <1>1, <1>2, <1>3, <1>4 DEF Moves, IInv, Types0, Setting, Getting
<1> QED
  BY <1>1, <1>5, MovesKeep DEF IInv

LEMMA SerializeKeeps ==
  ASSUME IInv, NEW w \in Workers, Serialize(w)
  PROVE  IInv'
<1>1. /\ pc[w] = "look" /\ Getting(w) /\ ~Setting(w) /\ data[w] # None
      /\ pc' = [pc EXCEPT ![w] = "read"]
      /\ UNCHANGED <<table, elem, log, sets, gets, cmd, data, ok, alone, current, seen, mixed, replayed>>
  BY DEF Serialize, Getting, Setting, base
<1>2. torn' \in SUBSET Elems
  BY <1>1 DEF Serialize, Touch, IInv, Types0
<1>3. /\ pc' \in [Workers -> Phases] /\ pc'[w] = "read"
      /\ \A v \in Workers : v # w => pc'[v] = pc[v]
  BY <1>1 DEF IInv, Types0, Phases
<1>4. data[w] = table[cmd[w].field]
  BY <1>1 DEF IInv, Holding
<1>5. Moves(w)
  BY <1>1, <1>2, <1>3, <1>4 DEF Moves, IInv, Types0, Setting, Getting
<1> QED
  BY <1>1, <1>5, MovesKeep DEF IInv

LEMMA SendGetKeeps ==
  ASSUME IInv, NEW w \in Workers, SendGet(w)
  PROVE  IInv'
<1>1. /\ data' = [data EXCEPT ![w] = None] /\ pc' = [pc EXCEPT ![w] = "idle"]
      /\ UNCHANGED <<table, elem, log, sets, gets, cmd, ok, alone, current, seen, mixed, torn, replayed>>
  BY DEF SendGet, base, history
<1>2. /\ data' \in [Workers -> Elems \cup {None}] /\ pc' \in [Workers -> Phases]
      /\ data'[w] = None /\ pc'[w] = "idle"
      /\ \A v \in Workers : v # w => pc'[v] = pc[v] /\ data'[v] = data[v]
  BY <1>1 DEF IInv, Types0, Phases
<1>3. Moves(w)
  BY <1>1, <1>2 DEF Moves, IInv, Types0, Setting, Getting
<1> QED
  BY <1>1, <1>3, MovesKeep DEF IInv

LEMMA BeginGetKeeps ==
  ASSUME IInv, NEW w \in Workers, NEW f \in Fields, BeginGet(w, f)
  PROVE  IInv'
<1>1. /\ pc[w] = "idle" /\ gets < MaxGets /\ gets' = gets + 1
      /\ cmd' = [cmd EXCEPT ![w] = [n |-> 0, field |-> f, type |-> "int"]]
      /\ seen' = [seen EXCEPT ![w] = current[f]]
      /\ pc' = [pc EXCEPT ![w] = "hget"]
      /\ UNCHANGED <<table, elem, log, sets, data, ok, alone, current, mixed, torn, replayed>>
  BY DEF BeginGet
<1>2. [n |-> 0, field |-> f, type |-> "int"]
        \in [n : Values, field : Fields \cup {NoCmd.field}, type : Types]
  BY BoundAssumption DEF Values, Types
<1>3. Types0'
  <2>1. /\ cmd' \in [Workers -> [n : Values, field : Fields \cup {NoCmd.field}, type : Types]]
        /\ seen' \in [Workers -> SUBSET Replies] /\ pc' \in [Workers -> Phases]
    BY <1>1, <1>2 DEF IInv, Types0, Phases
  <2>2. gets' \in 0..MaxGets
    BY <1>1, BoundAssumption DEF IInv, Types0
  <2> QED
    BY <1>1, <2>1, <2>2 DEF IInv, Types0
<1>4. /\ cmd'[w].n = 0 /\ cmd'[w].field = f /\ pc'[w] = "hget" /\ seen'[w] = current[f]
      /\ \A v \in Workers : v # w => cmd'[v] = cmd[v] /\ pc'[v] = pc[v] /\ seen'[v] = seen[v]
  BY <1>1 DEF IInv, Types0
<1>5. /\ ~Setting(w)' /\ Getting(w)' /\ ~Setting(w)
      /\ \A v \in Workers : v # w => (Setting(v)' <=> Setting(v)) /\ (Getting(v)' <=> Getting(v))
  BY <1>1, <1>4 DEF Setting, Getting
<1>6. Numbered'
  BY <1>1, <1>4, <1>5 DEF IInv, Numbered
<1>7. FedOnce'
  BY <1>1, <1>4, <1>5 DEF IInv, FedOnce
<1>8. OwnElements'
  BY <1>1, <1>4 DEF IInv, OwnElements
<1>9. Holding'
  BY <1>1, <1>4 DEF IInv, Holding
<1>10. Undisturbed'
  BY <1>1, <1>4, <1>5 DEF IInv, Undisturbed
<1>11. Written'
  BY <1>1, <1>4 DEF IInv, Written
<1>12. Counted'
  <2>1. \A g \in Fields : Value(g)' = Value(g)
    BY <1>1 DEF Value
  <2> QED
    BY <1>1, <1>4, <1>5, <2>1 DEF IInv, Counted
<1>13. Replied'
  <2> SUFFICES ASSUME NEW v \in Workers, Getting(v)'
               PROVE  /\ Value(cmd'[v].field) \in seen'[v]
                      /\ pc'[v] # "hget" /\ data[v] = None => Absent \in seen'[v]
                      /\ \A u \in Workers : Setting(u)' /\ cmd'[u].field = cmd'[v].field =>
                           /\ cmd'[u].n \in seen'[v]
                           /\ pc'[u] \in {"get", "put"} /\ table[cmd'[u].field] = None
                                => 0 \in seen'[v]
    BY <1>1 DEF Replied, Value
  <2>1. CASE v = w
    BY <1>4, <1>5, <2>1 DEF IInv, Counted
  <2>2. CASE v # w
    BY <1>4, <1>5, <2>2 DEF IInv, Replied
  <2> QED
    BY <2>1, <2>2
<1>14. Executed'
  BY <1>1, <1>4 DEF IInv, Executed
<1> QED
  BY <1>3, <1>6, <1>7, <1>8, <1>9, <1>10, <1>11, <1>12, <1>13, <1>14 DEF IInv

LEMMA PutKeeps ==
  ASSUME IInv, NEW w \in Workers, Put(w)
  PROVE  IInv'
<1> DEFINE f == cmd[w].field
           n == cmd[w].n
<1>1. /\ pc[w] = "put" /\ Setting(w)
      /\ elem' = [elem EXCEPT ![n] = [type |-> cmd[w].type, value |-> NewValue]]
      /\ table' = [table EXCEPT ![f] = IF @ = None THEN n ELSE @]
      /\ data' = [data EXCEPT ![w] = n]
      /\ pc' = [pc EXCEPT ![w] = "set"]
      /\ UNCHANGED <<log, sets, gets, cmd, ok, alone, current, seen, mixed, torn, replayed>>
  BY DEF Put, Setting, Emplaced, history
<1>2. /\ f \in Fields /\ n \in Elems /\ n \in 1..sets /\ cmd[w].type \in Types /\ n # None
      /\ sets \in Nat
  BY <1>1, CmdFacts, BoundAssumption DEF Elems, None
<1>3. [type |-> cmd[w].type, value |-> NewValue] \in [type : Types, value : Values]
  BY <1>2, BoundAssumption DEF NewValue, Values
<1>4. Types0'
  <2>1. table' \in [Fields -> Elems \cup {None}]
    BY <1>1, <1>2 DEF IInv, Types0
  <2>2. elem' \in [Elems -> [type : Types, value : Values]]
    BY <1>1, <1>3 DEF IInv, Types0
  <2>3. data' \in [Workers -> Elems \cup {None}] /\ pc' \in [Workers -> Phases]
    BY <1>1, <1>2 DEF IInv, Types0, Phases
  <2> QED
    BY <1>1, <2>1, <2>2, <2>3 DEF IInv, Types0
<1>5. /\ elem'[n].value = 0 /\ \A e \in Elems : e # n => elem'[e] = elem[e]
      /\ table'[f] = (IF table[f] = None THEN n ELSE table[f])
      /\ \A g \in Fields : g # f => table'[g] = table[g]
      /\ data'[w] = n /\ pc'[w] = "set"
      /\ \A v \in Workers : v # w => data'[v] = data[v] /\ pc'[v] = pc[v]
  BY <1>1, <1>2 DEF IInv, Types0, NewValue
<1>6. /\ \A v \in Workers : (Setting(v)' <=> Setting(v)) /\ (Getting(v)' <=> Getting(v))
      /\ \A v \in Workers : pc'[v] \in {"get", "put"} => v # w /\ pc[v] \in {"get", "put"}
  BY <1>1, <1>5 DEF Setting, Getting
<1>7. /\ \A g \in Fields : table[g] # n
      /\ \A v \in Workers : data[v] # n
  BY <1>1 DEF IInv, OwnElements
<1>8. \A v \in Workers : v # w /\ Setting(v) => cmd[v].n # n
  BY <1>1 DEF IInv, Numbered
<1>9. Numbered'
  BY <1>1, <1>6 DEF IInv, Numbered
<1>10. FedOnce'
  BY <1>1, <1>5, <1>6 DEF IInv, FedOnce
<1>11. OwnElements'
  <2>1. \A g \in Fields : table'[g] <= sets
    BY <1>2, <1>5 DEF IInv, OwnElements
  <2>2. \A v \in Workers : data'[v] <= sets
    BY <1>2, <1>5 DEF IInv, OwnElements
  <2>3. \A g, h \in Fields : table'[g] = table'[h] /\ table'[g] # None => g = h
    BY <1>5, <1>7 DEF IInv, OwnElements
  <2>4. ASSUME NEW v \in Workers, pc'[v] \in {"get", "put"}
        PROVE  /\ \A g \in Fields : table'[g] # cmd[v].n
               /\ \A u \in Workers : data'[u] # cmd[v].n
    <3>1. v # w /\ pc[v] \in {"get", "put"} /\ Setting(v)
      BY <1>6, <2>4 DEF Setting
    <3> QED
      BY <1>5, <1>8, <3>1 DEF IInv, OwnElements
  <2> QED
    BY <1>1, <2>1, <2>2, <2>3, <2>4 DEF OwnElements
<1>12. Holding'
  <2>1. ASSUME NEW v \in Workers, pc'[v] \in {"set", "write", "feed", "reply"}
        PROVE  data'[v] # None /\ \A g \in Fields : table'[g] = data'[v] => g = cmd[v].field
    <3>1. CASE v = w
      BY <1>2, <1>5, <1>7, <3>1
    <3>2. CASE v # w
      <4>1. /\ data'[v] = data[v] /\ data[v] # None
            /\ \A g \in Fields : table[g] = data[v] => g = cmd[v].field
        BY <1>5, <2>1, <3>2 DEF IInv, Holding
      <4> QED
        BY <1>5, <1>7, <4>1
    <3> QED
      BY <3>1, <3>2
  <2>2. ASSUME NEW v \in Workers, pc'[v] \in {"look", "read"}
        PROVE  /\ data'[v] # None => data'[v] = table'[cmd[v].field]
               /\ pc'[v] = "read" => data'[v] # None
    <3>1. v # w /\ pc[v] = pc'[v] /\ data'[v] = data[v] /\ Getting(v)
      BY <1>5, <2>2 DEF Getting
    <3>2. cmd[v].field \in Fields
      BY <3>1 DEF IInv, Numbered
    <3>3. /\ data[v] # None => data[v] = table[cmd[v].field]
          /\ pc[v] = "read" => data[v] # None
      BY <2>2, <3>1 DEF IInv, Holding
    <3> QED
      BY <1>5, <3>1, <3>2, <3>3
  <2> QED
    BY <1>1, <2>1, <2>2 DEF Holding
<1>13. Undisturbed'
  <2> SUFFICES ASSUME NEW v \in Workers, alone[v], Setting(v)
               PROVE  /\ \A u \in Workers : Setting(u) /\ cmd[u].field = cmd[v].field => u = v
                      /\ pc'[v] = "put" => table'[cmd[v].field] = None
                      /\ pc'[v] \in {"set", "write", "feed", "reply"}
                           => data'[v] = table'[cmd[v].field]
                      /\ pc'[v] \in {"feed", "reply"} /\ ok[v] => elem'[data'[v]].value = cmd[v].n
    BY <1>1, <1>6 DEF Undisturbed
  <2>1. /\ \A u \in Workers : Setting(u) /\ cmd[u].field = cmd[v].field => u = v
        /\ pc[v] = "put" => table[cmd[v].field] = None
        /\ pc[v] \in {"set", "write", "feed", "reply"} => data[v] = table[cmd[v].field]
        /\ pc[v] \in {"feed", "reply"} /\ ok[v] => elem[data[v]].value = cmd[v].n
    BY DEF IInv, Undisturbed
  <2>2. CASE v = w
    BY <1>1, <1>5, <2>1, <2>2
  <2>3. CASE v # w
    <3>1. cmd[v].field # f /\ cmd[v].field \in Fields
      BY <1>1, <2>1, <2>3, CmdFacts
    <3>2. pc[v] \in {"set", "write", "feed", "reply"} => data[v] \in Elems
      BY DEF IInv, Holding, Types0
    <3> QED
      BY <1>5, <1>7, <2>1, <2>3, <3>1, <3>2
  <2> QED
    BY <2>2, <2>3
<1>14. Written'
  <2> SUFFICES ASSUME NEW e \in Elems
               PROVE  /\ elem'[e].value <= sets
                      /\ \A v \in Workers :
                           pc'[v] \in {"get", "put", "set", "write"}
                             \/ (pc'[v] \in {"feed", "reply"} /\ ~ok[v])
                           => elem'[e].value # cmd[v].n
    BY <1>1 DEF Written
  <2>1. \A v \in Workers : Setting(v) => cmd[v].n # 0
    BY CmdFacts
  <2>2. CASE e = n
    <3>1. elem'[e].value = 0 /\ 0 <= sets
      BY <1>2, <1>5, <2>2
    <3>2. \A v \in Workers : pc'[v] \in {"get", "put", "set", "write", "feed", "reply"}
                               => Setting(v)
      BY <1>1, <1>5 DEF Setting
    <3> QED
      BY <2>1, <3>1, <3>2
  <2>3. CASE e # n
    BY <1>1, <1>5, <2>3 DEF IInv, Written
  <2> QED
    BY <2>2, <2>3
<1>15. \A g \in Fields : Value(g)' = IF g = f /\ table[f] = None THEN 0 ELSE Value(g)
  <2>1. \A g \in Fields : table[g] \in Elems \cup {None}
    BY DEF IInv, Types0
  <2>2. ASSUME NEW g \in Fields, g # f \/ table[f] # None
        PROVE  table'[g] = table[g] /\ (table[g] # None => elem'[table[g]] = elem[table[g]])
    BY <1>5, <1>7, <2>1, <2>2
  <2> QED
    BY <1>2, <1>5, <2>2 DEF Value
<1>16. \A v \in Workers : Setting(v) =>
         cmd[v].field \in Fields /\ (table'[cmd[v].field] = None => table[cmd[v].field] = None)
  BY <1>2, <1>5, CmdFacts
<1>17. Counted'
  <2>1. table[f] = None => 0 \in current[f]
    BY <1>1 DEF IInv, Counted
  <2>2. \A g \in Fields : Value(g)' \in current[g]
    BY <1>15, <2>1 DEF IInv, Counted
  <2> QED
    BY <1>1, <1>6, <1>16, <2>2 DEF IInv, Counted
<1>18. Replied'
  <2> SUFFICES ASSUME NEW v \in Workers, Getting(v)
               PROVE  /\ (IF table'[cmd[v].field] = None THEN Absent
                          ELSE elem'[table'[cmd[v].field]].value) \in seen[v]
                      /\ pc'[v] # "hget" /\ data'[v] = None => Absent \in seen[v]
                      /\ \A u \in Workers : Setting(u) /\ cmd[u].field = cmd[v].field =>
                           /\ cmd[u].n \in seen[v]
                           /\ pc'[u] \in {"get", "put"} /\ table'[cmd[u].field] = None
                                => 0 \in seen[v]
    BY <1>1, <1>6 DEF Replied, Value
  <2>1. v # w /\ cmd[v].field \in Fields /\ pc'[v] = pc[v] /\ data'[v] = data[v]
    BY <1>1, <1>5 DEF Getting, IInv, Numbered
  <2>2. cmd[v].field = f /\ table[f] = None => 0 \in seen[v]
    BY <1>1 DEF IInv, Replied
  <2>3. (IF table'[cmd[v].field] = None THEN Absent
         ELSE elem'[table'[cmd[v].field]].value)
           = IF cmd[v].field = f /\ table[f] = None THEN 0 ELSE Value(cmd[v].field)
    BY <1>15, <2>1 DEF Value
  <2> QED
    BY <1>6, <1>16, <2>1, <2>2, <2>3 DEF IInv, Replied
<1>19. Executed'
  BY <1>1, <1>5 DEF IInv, Executed
<1> QED
  BY <1>4, <1>9, <1>10, <1>11, <1>12, <1>13, <1>14, <1>17, <1>18, <1>19 DEF IInv

LEMMA WriteKeeps ==
  ASSUME IInv, NEW w \in Workers, Write(w)
  PROVE  IInv'
<1> DEFINE f == cmd[w].field
           n == cmd[w].n
           d == data[w]
<1>1. /\ pc[w] = "write" /\ Setting(w)
      /\ elem' = [elem EXCEPT ![d].value = n]
      /\ pc' = [pc EXCEPT ![w] = "feed"]
      /\ UNCHANGED <<table, log, sets, gets, cmd, data, ok, alone, current, seen, mixed, torn, replayed>>
  BY DEF Write, Setting, history
<1>2. /\ f \in Fields /\ n \in 1..sets /\ n \in Values /\ d \in Elems /\ d # None
      /\ \A g \in Fields : table[g] = d => g = f
  BY <1>1, CmdFacts, BoundAssumption DEF Elems, Values, IInv, Holding, Types0
<1>3. /\ elem' \in [Elems -> [type : Types, value : Values]]
      /\ elem'[d].value = n /\ \A e \in Elems : e # d => elem'[e] = elem[e]
  <2> DEFINE new == [elem[d] EXCEPT !.value = n]
  <2>1. elem \in [Elems -> [type : Types, value : Values]]
    BY DEF IInv, Types0
  <2>2. new \in [type : Types, value : Values] /\ new.value = n
    BY <1>2, <2>1
  <2>3. elem' = [elem EXCEPT ![d] = new]
    BY <1>1
  <2> HIDE DEF new
  <2> QED
    BY <1>2, <2>1, <2>2, <2>3
<1>4. /\ pc' \in [Workers -> Phases] /\ pc'[w] = "feed"
      /\ \A v \in Workers : v # w => pc'[v] = pc[v]
  BY <1>1 DEF IInv, Types0, Phases
<1>5. /\ \A v \in Workers : (Setting(v)' <=> Setting(v)) /\ (Getting(v)' <=> Getting(v))
      /\ \A v \in Workers : pc'[v] \in {"get", "put"} => pc[v] \in {"get", "put"}
  BY <1>1, <1>4 DEF Setting, Getting
<1>6. Types0'
  BY <1>1, <1>3, <1>4 DEF IInv, Types0
<1>7. Numbered'
  BY <1>1, <1>5 DEF IInv, Numbered
<1>8. FedOnce'
  BY <1>1, <1>4, <1>5 DEF IInv, FedOnce
<1>9. OwnElements'
  BY <1>1, <1>5 DEF IInv, OwnElements
<1>10. Holding'
  BY <1>1, <1>4 DEF IInv, Holding
<1>11. Undisturbed'
  <2> SUFFICES ASSUME NEW v \in Workers, alone[v], Setting(v)
               PROVE  /\ \A u \in Workers : Setting(u) /\ cmd[u].field = cmd[v].field => u = v
                      /\ pc'[v] = "put" => table[cmd[v].field] = None
                      /\ pc'[v] \in {"set", "write", "feed", "reply"}
                           => data[v] = table[cmd[v].field]
                      /\ pc'[v] \in {"feed", "reply"} /\ ok[v] => elem'[data[v]].value = cmd[v].n
    BY <1>1, <1>5 DEF Undisturbed
  <2>1. /\ \A u \in Workers : Setting(u) /\ cmd[u].field = cmd[v].field => u = v
        /\ pc[v] = "put" => table[cmd[v].field] = None
        /\ pc[v] \in {"set", "write", "feed", "reply"} => data[v] = table[cmd[v].field]
        /\ pc[v] \in {"feed", "reply"} /\ ok[v] => elem[data[v]].value = cmd[v].n
    BY DEF IInv, Undisturbed
  <2>2. CASE v = w
    BY <1>1, <1>3, <1>4, <2>1, <2>2
  <2>3. CASE v # w
    <3>1. cmd[v].field # f /\ cmd[v].field \in Fields
      BY <1>1, <2>1, <2>3, CmdFacts
    <3>2. pc[v] \in {"feed", "reply"} => data[v] # d /\ data[v] \in Elems
      BY <1>2, <2>1, <3>1 DEF IInv, Holding, Types0
    <3> QED
      BY <1>3, <1>4, <2>1, <2>3, <3>2
  <2> QED
    BY <2>2, <2>3
<1>12. Written'
  <2> SUFFICES ASSUME NEW e \in Elems
               PROVE  /\ elem'[e].value <= sets
                      /\ \A v \in Workers :
                           pc'[v] \in {"get", "put", "set", "write"}
                             \/ (pc'[v] \in {"feed", "reply"} /\ ~ok[v])
                           => elem'[e].value # cmd[v].n
    BY <1>1 DEF Written
  <2>1. ok[w]
    BY <1>1 DEF IInv, Executed
  <2>2. \A v \in Workers : v # w /\ Setting(v) => cmd[v].n # n
    BY <1>1 DEF IInv, Numbered
  <2>3. CASE e = d
    <3>1. elem'[e].value = n /\ n <= sets
      BY <1>2, <1>3, <2>3
    <3>2. \A v \in Workers : pc'[v] \in {"get", "put", "set", "write", "feed", "reply"}
                               => Setting(v)
      BY <1>1, <1>4 DEF Setting
    <3> QED
      BY <1>4, <2>1, <2>2, <3>1, <3>2
  <2>4. CASE e # d
    BY <1>1, <1>3, <1>4, <2>1, <2>4 DEF IInv, Written
  <2> QED
    BY <2>3, <2>4
<1>13. \A g \in Fields : Value(g)' = Value(g) \/ (g = f /\ Value(g)' = n)
  <2>1. \A g \in Fields : table[g] \in Elems \cup {None}
    BY DEF IInv, Types0
  <2> QED
    BY <1>1, <1>2, <1>3, <2>1 DEF Value
<1>14. Counted'
  <2>1. \A g \in Fields : Value(g)' \in current[g]
    BY <1>1, <1>13 DEF IInv, Counted
  <2> QED
    BY <1>1, <1>5, <2>1 DEF IInv, Counted
<1>15. Replied'
  <2> SUFFICES ASSUME NEW v \in Workers, Getting(v)
               PROVE  /\ (IF table[cmd[v].field] = None THEN Absent
                          ELSE elem'[table[cmd[v].field]].value) \in seen[v]
                      /\ pc'[v] # "hget" /\ data[v] = None => Absent \in seen[v]
                      /\ \A u \in Workers : Setting(u) /\ cmd[u].field = cmd[v].field =>
                           /\ cmd[u].n \in seen[v]
                           /\ pc'[u] \in {"get", "put"} /\ table[cmd[u].field] = None
                                => 0 \in seen[v]
    BY <1>1, <1>5 DEF Replied, Value
  <2>1. v # w /\ cmd[v].field \in Fields /\ pc'[v] = pc[v]
    BY <1>1, <1>4 DEF Getting, IInv, Numbered
  <2>2. cmd[v].field = f => n \in seen[v]
    BY <1>1 DEF IInv, Replied
  <2>3. \/ (IF table[cmd[v].field] = None THEN Absent
            ELSE elem'[table[cmd[v].field]].value) = Value(cmd[v].field)
        \/ /\ cmd[v].field = f
           /\ (IF table[cmd[v].field] = None THEN Absent
               ELSE elem'[table[cmd[v].field]].value) = n
    BY <1>1, <1>13, <2>1 DEF Value
  <2> QED
    BY <1>5, <2>1, <2>2, <2>3 DEF IInv, Replied
<1>16. Executed'
  BY <1>1, <1>4 DEF IInv, Executed
<1> QED
  BY <1>6, <1>7, <1>8, <1>9, <1>10, <1>11, <1>12, <1>14, <1>15, <1>16 DEF IInv

LEMMA InvAlways == Spec => []IInv
<1>1. IInv /\ [Next]_vars => IInv'
  <2> SUFFICES ASSUME IInv, [Next]_vars PROVE IInv'
    OBVIOUS
  <2>1. CASE UNCHANGED vars
    BY <2>1 DEF vars, base, history, IInv, Types0, Numbered, FedOnce, OwnElements, Holding,
       Undisturbed, Executed, Written, Counted, Replied, Value, Setting, Getting
  <2>2. ASSUME NEW w \in Workers, NEW f \in Fields, NEW t \in Types, Begin(w, f, t)
        PROVE  IInv'
    BY <2>2, BeginKeeps
  <2>3. ASSUME NEW w \in Workers, NEW f \in Fields, BeginGet(w, f) PROVE IInv'
    BY <2>3, BeginGetKeeps
  <2>4. ASSUME NEW w \in Workers, Get(w) \/ Put(w) \/ Set(w) \/ Write(w) \/ Feed(w) \/ Reply(w)
        PROVE  IInv'
    BY <2>4, GetKeeps, PutKeeps, SetKeeps, WriteKeeps, FeedKeeps, ReplyKeeps
  <2>5. ASSUME NEW w \in Workers, Lookup(w) \/ Serialize(w) \/ SendGet(w) PROVE IInv'
    BY <2>5, LookupKeeps, SerializeKeeps, SendGetKeeps
  <2> QED
    BY <2>1, <2>2, <2>3, <2>4, <2>5 DEF Next
<1> QED
  BY <1>1, InvInit, PTL DEF Spec

-----------------------------------------------------------------------------
LEMMA LogInvInit == Init => LInv
<1> SUFFICES ASSUME Init PROVE LInv
  OBVIOUS
<1>1. \A w \in Workers : ~Setting(w) /\ pc[w] = "idle" /\ ~Succeeds(w)
  BY DEF Init, Setting, Succeeds
<1>2. SameType /\ OneType /\ Matching /\ LoggedLast
  BY <1>1 DEF SameType, OneType, Matching, LoggedLast
<1>3. LogType
  BY DEF Init, LogType
<1>4. Agree
  <2>1. ASSUME NEW f \in Fields PROVE table[f] = None /\ Settled(f, Absent)
    BY <1>1 DEF Init, Settled
  <2>2. Absent \in Replies
    BY DEF Replies
  <2> QED
    BY <2>1, <2>2 DEF Agree
<1>5. CountedBelow
  BY DEF Init, CountedBelow, Absent
<1> QED
  BY <1>2, <1>3, <1>4, <1>5 DEF LInv

(* A step of worker w that changes neither memory nor log, and after which *)
(* the same HSETs run.                                                     *)
Quiet(w) ==
  /\ UNCHANGED <<table, elem, mixed, alone, replayed, current, sets>>
  /\ \A v \in Workers : v # w =>
       pc'[v] = pc[v] /\ data'[v] = data[v] /\ ok'[v] = ok[v] /\ cmd'[v] = cmd[v]
  /\ Setting(w)' <=> Setting(w)
  /\ Setting(w) => cmd'[w] = cmd[w]
  /\ Succeeds(w) => Succeeds(w)'
  /\ Setting(w)' /\ cmd[w].field \notin mixed =>
       /\ pc'[w] = "put" => table[cmd[w].field] = None
       /\ pc'[w] \in {"set", "write", "feed", "reply"} =>
            /\ table[cmd[w].field] # None
            /\ elem[data'[w]].type = elem[table[cmd[w].field]].type
  /\ Succeeds(w)' => elem[data'[w]].type = cmd[w].type
  /\ pc'[w] # "reply"

LEMMA QuietKeeps ==
  ASSUME LInv, NEW w \in Workers, Quiet(w)
  PROVE  LInv'
<1>1. /\ table' = table /\ elem' = elem /\ mixed' = mixed /\ alone' = alone
      /\ replayed' = replayed /\ current' = current /\ sets' = sets
  BY DEF Quiet
<1>2. \A v \in Workers : v # w =>
        /\ pc'[v] = pc[v] /\ data'[v] = data[v] /\ ok'[v] = ok[v] /\ cmd'[v] = cmd[v]
        /\ Setting(v)' <=> Setting(v)
        /\ Succeeds(v)' <=> Succeeds(v)
  BY DEF Quiet, Setting, Succeeds
<1>3. \A v \in Workers : (Setting(v)' <=> Setting(v)) /\ (Setting(v) => cmd'[v] = cmd[v])
  BY <1>2 DEF Quiet
<1>4. \A v \in Workers : (Succeeds(v) => Succeeds(v)') /\ (Succeeds(v)' => Setting(v)')
  BY <1>2 DEF Quiet, Succeeds, Setting
<1>5. SameType'
  BY <1>1, <1>3 DEF LInv, SameType
<1>6. OneType'
  BY <1>1, <1>2, <1>3 DEF LInv, OneType, Quiet
<1>7. Matching'
  BY <1>1, <1>2, <1>3, <1>4 DEF LInv, Matching, Quiet
<1>8. LogType'
  BY <1>1 DEF LInv, LogType
<1>9. LoggedLast'
  BY <1>1, <1>2 DEF LInv, LoggedLast, Quiet
<1>10. \A f \in Fields, m \in Replies : Settled(f, m)' <=> Settled(f, m)
  BY <1>1, <1>3 DEF Settled
<1>11. \A f \in Fields : OneSettled(f)' <=> OneSettled(f)
  BY <1>10 DEF OneSettled
<1>12. \A f \in Fields : NoneSucceeds(f)' => NoneSucceeds(f)
  BY <1>3, <1>4 DEF NoneSucceeds
<1>13. Agree'
  BY <1>1, <1>10, <1>11, <1>12 DEF LInv, Agree
<1>14. CountedBelow'
  BY <1>1 DEF LInv, CountedBelow
<1> QED
  BY <1>5, <1>6, <1>7, <1>8, <1>9, <1>13, <1>14 DEF LInv

LEMMA QuietSteps ==
  ASSUME IInv, LInv, NEW w \in Workers,
         \/ Get(w) \/ Set(w) \/ Lookup(w) \/ Serialize(w) \/ SendGet(w)
         \/ \E f \in Fields : BeginGet(w, f)
  PROVE  LInv'
<1>1. CASE Get(w)
  <2>1. /\ pc[w] = "get" /\ Setting(w) /\ Found(w) = table[cmd[w].field]
        /\ UNCHANGED <<table, elem, cmd, ok, alone, current, mixed, replayed, sets>>
    BY <1>1 DEF Get, Setting, Found, base, history
  <2>2. /\ data'[w] = Found(w) /\ pc'[w] = IF Found(w) = None THEN "put" ELSE "set"
        /\ \A v \in Workers : v # w => pc'[v] = pc[v] /\ data'[v] = data[v]
    BY <1>1 DEF Get, IInv, Types0
  <2>3. Quiet(w)
    BY <2>1, <2>2 DEF Quiet, Setting, Succeeds
  <2> QED
    BY <2>3, QuietKeeps
<1>2. CASE Set(w)
  <2>1. /\ pc[w] = "set" /\ Setting(w)
        /\ UNCHANGED <<table, elem, cmd, data, alone, current, mixed, replayed, sets>>
    BY <1>2 DEF Set, Setting, base
  <2>2. /\ \A v \in Workers : v # w => pc'[v] = pc[v] /\ ok'[v] = ok[v]
        /\ \/ pc'[w] = "write" /\ elem[data[w]].type = cmd[w].type
           \/ pc'[w] = "feed" /\ ~ok'[w]
    BY <1>2 DEF Set, Matches, IInv, Types0
  <2>3. cmd[w].field \notin mixed =>
          /\ table[cmd[w].field] # None
          /\ elem[data[w]].type = elem[table[cmd[w].field]].type
    BY <2>1 DEF LInv, OneType
  <2>4. Quiet(w)
    BY <2>1, <2>2, <2>3 DEF Quiet, Setting, Succeeds
  <2> QED
    BY <2>4, QuietKeeps
<1>3. CASE Lookup(w) \/ Serialize(w) \/ SendGet(w)
  <2>1. /\ UNCHANGED <<table, elem, cmd, ok, alone, current, mixed, replayed, sets>>
        /\ ~Setting(w)
    BY <1>3 DEF Lookup, Serialize, SendGet, Setting, base, history
  <2>2. /\ \A v \in Workers : v # w => pc'[v] = pc[v] /\ data'[v] = data[v]
        /\ pc'[w] \in {"look", "read", "idle"}
    BY <1>3 DEF Lookup, Serialize, SendGet, IInv, Types0
  <2>3. Quiet(w)
    BY <2>1, <2>2 DEF Quiet, Setting, Succeeds
  <2> QED
    BY <2>3, QuietKeeps
<1>4. CASE \E f \in Fields : BeginGet(w, f)
  <2>1. /\ UNCHANGED <<table, elem, data, ok, alone, current, mixed, replayed, sets>>
        /\ ~Setting(w)
    BY <1>4 DEF BeginGet, Setting
  <2>2. /\ \A v \in Workers : v # w => pc'[v] = pc[v] /\ cmd'[v] = cmd[v]
        /\ pc'[w] = "hget"
    BY <1>4 DEF BeginGet, IInv, Types0
  <2>3. Quiet(w)
    BY <2>1, <2>2 DEF Quiet, Setting, Succeeds
  <2> QED
    BY <2>3, QuietKeeps
<1> QED
  BY <1>1, <1>2, <1>3, <1>4

LEMMA LogInvPut ==
  ASSUME IInv, LInv, NEW w \in Workers, Put(w)
  PROVE  LInv'
<1> DEFINE f == cmd[w].field
           n == cmd[w].n
<1>1. /\ pc[w] = "put" /\ Setting(w)
      /\ elem' = [elem EXCEPT ![n] = [type |-> cmd[w].type, value |-> NewValue]]
      /\ table' = [table EXCEPT ![f] = IF @ = None THEN n ELSE @]
      /\ data' = [data EXCEPT ![w] = n]
      /\ pc' = [pc EXCEPT ![w] = "set"]
      /\ UNCHANGED <<cmd, ok, alone, current, mixed, replayed, sets>>
  BY DEF Put, Setting, Emplaced, history
<1>2. f \in Fields /\ n \in Elems /\ n # None
  BY <1>1, CmdFacts DEF Elems, None
<1>3. /\ elem'[n].type = cmd[w].type /\ \A e \in Elems : e # n => elem'[e] = elem[e]
      /\ table'[f] = (IF table[f] = None THEN n ELSE table[f])
      /\ \A g \in Fields : g # f => table'[g] = table[g]
      /\ data'[w] = n /\ pc'[w] = "set"
      /\ \A v \in Workers : v # w => data'[v] = data[v] /\ pc'[v] = pc[v]
  BY <1>1, <1>2 DEF IInv, Types0, NewValue
<1>4. /\ \A v \in Workers : Setting(v)' <=> Setting(v)
      /\ \A v \in Workers : (Succeeds(v)' <=> Succeeds(v)) /\ (Succeeds(v) => v # w)
  BY <1>1, <1>3 DEF Setting, Succeeds
<1>5. /\ \A g \in Fields : table[g] # n /\ (table[g] # None => table[g] \in Elems)
      /\ \A v \in Workers : data[v] # n /\ (data[v] # None => data[v] \in Elems)
  BY <1>1 DEF IInv, OwnElements, Types0
<1>6. ASSUME NEW g \in Fields, table[g] # None
      PROVE  table'[g] = table[g] /\ elem'[table[g]] = elem[table[g]]
  BY <1>3, <1>5, <1>6
<1>7. ASSUME NEW v \in Workers, v # w, pc[v] \in {"set", "write", "feed", "reply"}
      PROVE  data'[v] = data[v] /\ elem'[data[v]] = elem[data[v]]
  BY <1>3, <1>5, <1>7 DEF IInv, Holding
<1>8. SameType'
  BY <1>1, <1>4 DEF LInv, SameType
<1>9. OneType'
  <2> SUFFICES ASSUME NEW v \in Workers, Setting(v), cmd[v].field \notin mixed
               PROVE  /\ pc'[v] = "put" /\ table'[cmd[v].field] # None
                           => elem'[table'[cmd[v].field]].type = cmd[v].type
                      /\ pc'[v] \in {"set", "write", "feed", "reply"} =>
                           /\ table'[cmd[v].field] # None
                           /\ elem'[data'[v]].type = elem'[table'[cmd[v].field]].type
    BY <1>1, <1>4 DEF OneType
  <2>1. cmd[v].field \in Fields
    BY CmdFacts
  <2>2. CASE v = w
    <3>1. CASE table[f] = None
      BY <1>2, <1>3, <2>2, <3>1
    <3>2. CASE table[f] # None
      <4>1. elem[table[f]].type = cmd[w].type
        BY <1>1, <2>2, <3>2 DEF LInv, OneType
      <4> QED
        BY <1>2, <1>3, <1>6, <2>2, <3>2, <4>1
    <3> QED
      BY <3>1, <3>2
  <2>3. CASE v # w
    <3>1. CASE pc[v] = "put" /\ cmd[v].field = f /\ table[f] = None
      <4>1. cmd[v].type = cmd[w].type
        BY <1>1, <3>1 DEF LInv, SameType
      <4> QED
        BY <1>3, <2>3, <3>1, <4>1
    <3>2. CASE pc[v] = "put" /\ ~(cmd[v].field = f /\ table[f] = None)
      <4>1. table[cmd[v].field] # None => elem[table[cmd[v].field]].type = cmd[v].type
        BY <3>2 DEF LInv, OneType
      <4>2. table'[cmd[v].field] = table[cmd[v].field]
        BY <1>3, <2>1, <3>2
      <4> QED
        BY <1>3, <1>6, <2>1, <2>3, <3>2, <4>1, <4>2
    <3>3. CASE pc[v] \in {"set", "write", "feed", "reply"}
      <4>1. /\ table[cmd[v].field] # None
            /\ elem[data[v]].type = elem[table[cmd[v].field]].type
        BY <3>3 DEF LInv, OneType
      <4> QED
        BY <1>3, <1>6, <1>7, <2>1, <2>3, <3>3, <4>1
    <3> QED
      BY <1>3, <2>3, <3>1, <3>2, <3>3
  <2> QED
    BY <2>2, <2>3
<1>10. Matching'
  BY <1>1, <1>4, <1>7 DEF LInv, Matching, Succeeds
<1>11. LogType'
  BY <1>1, <1>6 DEF LInv, LogType
<1>12. LoggedLast'
  BY <1>1, <1>3 DEF LInv, LoggedLast
<1>13. \A g \in Fields, m \in Replies : Settled(g, m)' <=> Settled(g, m)
  BY <1>1, <1>4 DEF Settled
<1>14. Agree'
  <2> SUFFICES ASSUME NEW g \in Fields, g \notin mixed
               PROVE  /\ \E m \in Replies : Settled(g, m)'
                      /\ table'[g] # None /\ OneSettled(g)' /\ NoneSucceeds(g)'
                           => elem'[table'[g]].value = replayed[g].value
    BY <1>1 DEF Agree
  <2>1. OneSettled(g)' => OneSettled(g)
    BY <1>13 DEF OneSettled
  <2>2. NoneSucceeds(g)' => NoneSucceeds(g)
    BY <1>1, <1>4 DEF NoneSucceeds
  <2>3. CASE table[g] # None
    BY <1>6, <1>13, <2>1, <2>2, <2>3 DEF LInv, Agree
  <2>4. CASE table[g] = None /\ g # f
    BY <1>3, <1>13, <2>4 DEF LInv, Agree
  <2>5. CASE table[g] = None /\ g = f
    <3>1. Absent \in current[f] /\ 0 \in current[f]
      BY <1>1, <1>2, <2>5 DEF IInv, Counted, Value
    <3>2. \A v \in Workers : Setting(v) => cmd[v].n # 0 /\ cmd[v].n # Absent
      BY CmdFacts DEF Elems, Absent
    <3>3. Settled(f, Absent) /\ Settled(f, 0)
      BY <3>1, <3>2 DEF Settled
    <3>4. Absent \in Replies /\ 0 \in Replies /\ Absent # 0
      BY BoundAssumption DEF Replies, Values, Absent
    <3>5. ~OneSettled(g)
      BY <2>5, <3>3, <3>4 DEF OneSettled
    <3> QED
      BY <1>13, <2>1, <2>5, <3>3, <3>4, <3>5
  <2> QED
    BY <2>3, <2>4, <2>5
<1>15. CountedBelow'
  BY <1>1 DEF LInv, CountedBelow
<1> QED
  BY <1>8, <1>9, <1>10, <1>11, <1>12, <1>14, <1>15 DEF LInv

LEMMA LogInvWrite ==
  ASSUME IInv, LInv, NEW w \in Workers, Write(w)
  PROVE  LInv'
<1> DEFINE f == cmd[w].field
           d == data[w]
<1>1. /\ pc[w] = "write" /\ Setting(w) /\ ok[w]
      /\ elem' = [elem EXCEPT ![d] = [elem[d] EXCEPT !.value = cmd[w].n]]
      /\ pc' = [pc EXCEPT ![w] = "feed"]
      /\ UNCHANGED <<table, cmd, data, ok, alone, current, mixed, replayed, sets>>
  BY DEF Write, Setting, history, IInv, Executed
<1>2. /\ f \in Fields /\ d \in Elems
      /\ \A g \in Fields : table[g] = d => g = f
  BY <1>1, CmdFacts DEF IInv, Holding, Types0
<1>3. \A e \in Elems : elem'[e].type = elem[e].type /\ (e # d => elem'[e] = elem[e])
  <2>1. elem \in [Elems -> [type : Types, value : Values]]
    BY DEF IInv, Types0
  <2>2. [elem[d] EXCEPT !.value = cmd[w].n].type = elem[d].type
    BY <1>2, <2>1
  <2> QED
    BY <1>1, <2>1, <2>2
<1>4. pc'[w] = "feed" /\ \A v \in Workers : v # w => pc'[v] = pc[v]
  BY <1>1 DEF IInv, Types0
<1>5. /\ \A v \in Workers : Setting(v)' <=> Setting(v)
      /\ \A v \in Workers : Succeeds(v)' <=> Succeeds(v)
      /\ Succeeds(w)
  BY <1>1, <1>4 DEF Setting, Succeeds
<1>6. /\ \A g \in Fields : table[g] # None => table[g] \in Elems
      /\ \A v \in Workers : data[v] # None => data[v] \in Elems
  BY DEF IInv, Types0
<1>7. \A v \in Workers : pc[v] \in {"set", "write", "feed", "reply"} => data[v] # None
  BY DEF IInv, Holding
<1>8. SameType'
  BY <1>1, <1>5 DEF LInv, SameType
<1>9. OneType'
  <2> SUFFICES ASSUME NEW v \in Workers, Setting(v), cmd[v].field \notin mixed
               PROVE  /\ pc'[v] = "put" /\ table[cmd[v].field] # None
                           => elem'[table[cmd[v].field]].type = cmd[v].type
                      /\ pc'[v] \in {"set", "write", "feed", "reply"} =>
                           /\ table[cmd[v].field] # None
                           /\ elem'[data[v]].type = elem'[table[cmd[v].field]].type
    BY <1>1, <1>5 DEF OneType
  <2>1. cmd[v].field \in Fields
    BY CmdFacts
  <2>2. pc'[v] = "put" => pc[v] = "put"
    BY <1>4
  <2>3. pc'[v] \in {"set", "write", "feed", "reply"} => pc[v] \in {"set", "write", "feed", "reply"}
    BY <1>1, <1>4
  <2> QED
    BY <1>3, <1>6, <1>7, <2>1, <2>2, <2>3 DEF LInv, OneType
<1>10. Matching'
  BY <1>1, <1>3, <1>5, <1>6, <1>7 DEF LInv, Matching, Succeeds
<1>11. LogType'
  BY <1>1, <1>3, <1>6 DEF LInv, LogType
<1>12. LoggedLast'
  BY <1>1, <1>4 DEF LInv, LoggedLast
<1>13. \A g \in Fields, m \in Replies : Settled(g, m)' <=> Settled(g, m)
  BY <1>1, <1>5 DEF Settled
<1>14. Agree'
  <2> SUFFICES ASSUME NEW g \in Fields, g \notin mixed
               PROVE  /\ \E m \in Replies : Settled(g, m)'
                      /\ table[g] # None /\ OneSettled(g)' /\ NoneSucceeds(g)'
                           => elem'[table[g]].value = replayed[g].value
    BY <1>1 DEF Agree
  <2>1. OneSettled(g)' => OneSettled(g)
    BY <1>13 DEF OneSettled
  <2>2. NoneSucceeds(g)' => NoneSucceeds(g) /\ g # f
    BY <1>1, <1>5 DEF NoneSucceeds
  <2>3. g # f /\ table[g] # None => elem'[table[g]] = elem[table[g]]
    BY <1>2, <1>3, <1>6
  <2> QED
    BY <1>13, <2>1, <2>2, <2>3 DEF LInv, Agree
<1>15. CountedBelow'
  BY <1>1 DEF LInv, CountedBelow
<1> QED
  BY <1>8, <1>9, <1>10, <1>11, <1>12, <1>14, <1>15 DEF LInv

LEMMA LogInvFeed ==
  ASSUME IInv, LInv, NEW w \in Workers, Feed(w)
  PROVE  LInv'
<1> DEFINE f == cmd[w].field
           n == cmd[w].n
<1>1. /\ pc[w] = "feed" /\ Setting(w) /\ pc' = [pc EXCEPT ![w] = "reply"]
      /\ replayed' = (IF ok[w] THEN Replay(replayed, cmd[w]) ELSE replayed)
      /\ UNCHANGED <<table, elem, cmd, data, ok, alone, current, mixed, sets>>
  BY DEF Feed, Setting
<1>2. f \in Fields /\ n \in Values /\ ok[w] \in BOOLEAN
  BY <1>1, CmdFacts, BoundAssumption DEF IInv, Types0, Elems, Values
<1>3. pc'[w] = "reply" /\ \A v \in Workers : v # w => pc'[v] = pc[v]
  BY <1>1 DEF IInv, Types0
<1>4. /\ \A v \in Workers : Setting(v)' <=> Setting(v)
      /\ \A v \in Workers : Succeeds(v)' <=> Succeeds(v)
      /\ ok[w] => Succeeds(w)
  BY <1>1, <1>3 DEF Setting, Succeeds
<1>5. \A g \in Fields : g # f \/ ~ok[w] => replayed'[g] = replayed[g]
  BY <1>1 DEF Replay, IInv, Types0
<1>6. ok[w] /\ f \notin mixed =>
        /\ table[f] # None /\ elem[table[f]].type = cmd[w].type
        /\ replayed'[f].type = cmd[w].type /\ replayed'[f].value = n
  <2> SUFFICES ASSUME ok[w], f \notin mixed
               PROVE  /\ table[f] # None /\ elem[table[f]].type = cmd[w].type
                      /\ replayed'[f].type = cmd[w].type /\ replayed'[f].value = n
    OBVIOUS
  <2>1. table[f] # None /\ elem[data[w]].type = elem[table[f]].type
    BY <1>1 DEF LInv, OneType
  <2>2. elem[data[w]].type = cmd[w].type
    BY <1>4 DEF LInv, Matching
  <2>3. replayed[f].value = Absent \/ replayed[f].type = cmd[w].type
    BY <1>2, <2>1, <2>2 DEF LInv, LogType
  <2>4. replayed'[f] = [type |-> cmd[w].type, value |-> n]
    BY <1>1, <1>2, <2>3 DEF Replay, IInv, Types0
  <2> QED
    BY <2>1, <2>2, <2>4
<1>7. SameType'
  BY <1>1, <1>4 DEF LInv, SameType
<1>8. OneType'
  BY <1>1, <1>3, <1>4 DEF LInv, OneType
<1>9. Matching'
  BY <1>1, <1>4 DEF LInv, Matching
<1>10. LogType'
  <2> SUFFICES ASSUME NEW g \in Fields, g \notin mixed
               PROVE  \/ replayed'[g].value = Absent
                      \/ table[g] # None /\ replayed'[g].type = elem[table[g]].type
    BY <1>1 DEF LogType
  <2>1. CASE g # f \/ ~ok[w]
    BY <1>5, <2>1 DEF LInv, LogType
  <2>2. CASE g = f /\ ok[w]
    BY <1>6, <2>2
  <2> QED
    BY <1>2, <2>1, <2>2
<1>11. LoggedLast'
  <2> SUFFICES ASSUME NEW v \in Workers, alone[v], pc'[v] = "reply", ok[v],
                      cmd[v].field \notin mixed
               PROVE  replayed'[cmd[v].field].value = cmd[v].n
    BY <1>1 DEF LoggedLast
  <2>1. CASE v = w
    BY <1>6, <2>1
  <2>2. CASE v # w
    <3>1. pc[v] = "reply" /\ Setting(v)
      BY <1>3, <2>2 DEF Setting
    <3>2. cmd[v].field # f /\ cmd[v].field \in Fields
      BY <1>1, <2>2, <3>1, CmdFacts DEF IInv, Undisturbed
    <3> QED
      BY <1>5, <3>1, <3>2 DEF LInv, LoggedLast
  <2> QED
    BY <2>1, <2>2
<1>12. \A g \in Fields, m \in Replies : Settled(g, m)' <=> Settled(g, m)
  BY <1>1, <1>4 DEF Settled
<1>13. Agree'
  <2> SUFFICES ASSUME NEW g \in Fields, g \notin mixed
               PROVE  /\ \E m \in Replies : Settled(g, m)'
                      /\ table[g] # None /\ OneSettled(g)' /\ NoneSucceeds(g)'
                           => elem[table[g]].value = replayed'[g].value
    BY <1>1 DEF Agree
  <2>1. OneSettled(g)' => OneSettled(g)
    BY <1>12 DEF OneSettled
  <2>2. NoneSucceeds(g)' => NoneSucceeds(g) /\ (g # f \/ ~ok[w])
    BY <1>1, <1>4 DEF NoneSucceeds
  <2> QED
    BY <1>5, <1>12, <2>1, <2>2 DEF LInv, Agree
<1>14. CountedBelow'
  BY <1>1 DEF LInv, CountedBelow
<1> QED
  BY <1>7, <1>8, <1>9, <1>10, <1>11, <1>13, <1>14 DEF LInv

LEMMA LogInvReply ==
  ASSUME IInv, LInv, NEW w \in Workers, Reply(w)
  PROVE  LInv'
<1> DEFINE f == cmd[w].field
           n == cmd[w].n
<1>1. /\ pc[w] = "reply" /\ Setting(w) /\ pc' = [pc EXCEPT ![w] = "idle"]
      /\ data' = [data EXCEPT ![w] = None]
      /\ UNCHANGED <<table, elem, cmd, ok, alone, mixed, replayed, sets>>
  BY DEF Reply, Setting, base
<1>2. /\ f \in Fields /\ n \in Elems /\ n \in Replies
      /\ ok[w] \in BOOLEAN /\ alone[w] \in BOOLEAN
  BY <1>1, CmdFacts, BoundAssumption DEF IInv, Types0, Elems, Values, Replies
<1>3. /\ pc'[w] = "idle"
      /\ \A v \in Workers : v # w => pc'[v] = pc[v] /\ data'[v] = data[v]
  BY <1>1 DEF IInv, Types0
<1>4. /\ ~Setting(w)' /\ ~Succeeds(w)'
      /\ \A v \in Workers : v # w => (Setting(v)' <=> Setting(v)) /\ (Succeeds(v)' <=> Succeeds(v))
  BY <1>1, <1>3 DEF Setting, Succeeds
<1>5. /\ \A g \in Fields : g # f => current'[g] = current[g]
      /\ ok[w] /\ alone[w] => current'[f] = {n}
      /\ ~ok[w] => current'[f] = current[f] \ {n}
      /\ ok[w] /\ ~alone[w] => current'[f] = current[f]
  BY <1>2 DEF Reply, IInv, Types0
<1>6. SameType'
  BY <1>1, <1>4 DEF LInv, SameType
<1>7. OneType'
  BY <1>1, <1>3, <1>4 DEF LInv, OneType
<1>8. Matching'
  BY <1>1, <1>3, <1>4 DEF LInv, Matching
<1>9. LogType'
  BY <1>1 DEF LInv, LogType
<1>10. LoggedLast'
  BY <1>1, <1>3 DEF LInv, LoggedLast
<1>11. \A v \in Workers : v # w /\ Setting(v) => cmd[v].n # n
  BY <1>1 DEF IInv, Numbered
<1>12. n \in current[f]
  BY <1>1 DEF IInv, Counted
<1>13. Agree'
  <2> SUFFICES ASSUME NEW g \in Fields, g \notin mixed
               PROVE  /\ \E m \in Replies : Settled(g, m)'
                      /\ table[g] # None /\ OneSettled(g)' /\ NoneSucceeds(g)'
                           => elem[table[g]].value = replayed[g].value
    BY <1>1 DEF Agree
  <2>1. /\ \E m \in Replies : Settled(g, m)
        /\ table[g] # None /\ OneSettled(g) /\ NoneSucceeds(g)
             => elem[table[g]].value = replayed[g].value
    BY DEF LInv, Agree
  <2>2. CASE g # f
    <3>1. \A m \in Replies : Settled(g, m)' <=> Settled(g, m)
      BY <1>1, <1>4, <1>5, <2>2 DEF Settled
    <3>2. OneSettled(g)' => OneSettled(g)
      BY <3>1 DEF OneSettled
    <3>3. NoneSucceeds(g)' => NoneSucceeds(g)
      BY <1>1, <1>4, <2>2 DEF NoneSucceeds
    <3> QED
      BY <2>1, <3>1, <3>2, <3>3
  <2>3. CASE g = f /\ ~ok[w]
    <3>1. \A m \in Replies : Settled(g, m)' <=> Settled(g, m)
      BY <1>1, <1>4, <1>5, <1>11, <2>3 DEF Settled
    <3>2. OneSettled(g)' => OneSettled(g)
      BY <3>1 DEF OneSettled
    <3>3. NoneSucceeds(g)' => NoneSucceeds(g)
      BY <1>1, <1>4, <2>3 DEF NoneSucceeds, Succeeds
    <3> QED
      BY <2>1, <3>1, <3>2, <3>3
  <2>4. CASE g = f /\ ok[w] /\ alone[w]
    <3>1. \A v \in Workers : Setting(v) /\ cmd[v].field = f => v = w
      BY <1>1, <2>4 DEF IInv, Undisturbed
    <3>2. ASSUME NEW m \in Replies, m = n PROVE Settled(g, m)'
      BY <1>1, <1>4, <1>5, <2>4, <3>1, <3>2 DEF Settled
    <3>3. data[w] = table[f] /\ elem[data[w]].value = n
      BY <1>1, <2>4 DEF IInv, Undisturbed
    <3>4. replayed[f].value = n
      BY <1>1, <2>4 DEF LInv, LoggedLast
    <3> QED
      BY <1>2, <2>4, <3>2, <3>3, <3>4
  <2>5. CASE g = f /\ ok[w] /\ ~alone[w]
    <3>1. PICK m \in Replies : Settled(f, m)
      BY <2>1, <2>5
    <3>2. m # n /\ Settled(f, m)'
      BY <1>1, <1>4, <1>5, <2>5, <3>1 DEF Settled
    <3>3. Settled(f, n)'
      BY <1>1, <1>4, <1>5, <1>11, <1>12, <2>5 DEF Settled
    <3>4. ~OneSettled(f)'
      BY <1>1, <1>2, <3>2, <3>3 DEF OneSettled
    <3> QED
      BY <1>1, <2>5, <3>2, <3>4
  <2> QED
    BY <1>2, <2>2, <2>3, <2>4, <2>5
<1>14. CountedBelow'
  <2>1. n <= sets
    BY <1>1, CmdFacts
  <2>2. \A g \in Fields : \A m \in current'[g] : m \in current[g] \/ m = n
    BY <1>2, <1>5
  <2> QED
    BY <1>1, <2>1, <2>2 DEF LInv, CountedBelow
<1> QED
  BY <1>6, <1>7, <1>8, <1>9, <1>10, <1>13, <1>14 DEF LInv

LEMMA LogInvBegin ==
  ASSUME IInv, LInv, NEW w \in Workers, NEW f \in Fields, NEW t \in Types, Begin(w, f, t)
  PROVE  LInv'
<1> DEFINE n == sets + 1
<1>1. /\ pc[w] = "idle" /\ ~Setting(w) /\ ~Succeeds(w)
      /\ UNCHANGED <<table, elem, data, replayed>>
  BY DEF Begin, Setting, Succeeds
<1>2. /\ cmd'[w].n = n /\ cmd'[w].field = f /\ cmd'[w].type = t /\ pc'[w] = "get"
      /\ \A v \in Workers : v # w => cmd'[v] = cmd[v] /\ pc'[v] = pc[v] /\ ok'[v] = ok[v]
  BY DEF Begin, IInv, Types0
<1>3. /\ Setting(w)' /\ ~Succeeds(w)'
      /\ \A v \in Workers : v # w => (Setting(v)' <=> Setting(v)) /\ (Succeeds(v)' <=> Succeeds(v))
  BY <1>1, <1>2 DEF Setting, Succeeds
<1>4. mixed \subseteq mixed'
  BY DEF Begin
<1>5. ASSUME f \notin mixed', NEW v \in Workers, Setting(v), cmd[v].field = f
      PROVE  cmd[v].type = t
  BY <1>5 DEF Begin
<1>6. \A v \in Workers : v # w /\ alone'[v] => alone[v]
  BY DEF Begin, IInv, Types0
<1>7. /\ \A g \in Fields : g # f => current'[g] = current[g]
      /\ current'[f] = current[f] \cup (IF table[f] = None THEN {n, 0} ELSE {n})
  BY DEF Begin, IInv, Types0
<1>8. SameType'
  <2> SUFFICES ASSUME NEW u \in Workers, NEW v \in Workers, Setting(u)', Setting(v)',
                      cmd'[u].field = cmd'[v].field, cmd'[v].field \notin mixed'
               PROVE  cmd'[u].type = cmd'[v].type
    BY DEF SameType
  <2>1. CASE u # w /\ v # w
    BY <1>2, <1>3, <1>4, <2>1 DEF LInv, SameType
  <2>2. CASE u = w
    BY <1>2, <1>3, <1>5, <2>2
  <2>3. CASE v = w
    BY <1>2, <1>3, <1>5, <2>3
  <2> QED
    BY <2>1, <2>2, <2>3
<1>9. OneType'
  BY <1>1, <1>2, <1>3, <1>4 DEF LInv, OneType
<1>10. Matching'
  BY <1>1, <1>2, <1>3 DEF LInv, Matching
<1>11. LogType'
  BY <1>1, <1>4 DEF LInv, LogType
<1>12. LoggedLast'
  BY <1>1, <1>2, <1>4, <1>6 DEF LInv, LoggedLast
<1>13. n \notin {0} /\ n \in Nat
  BY BoundAssumption DEF IInv, Types0
<1>14. Agree'
  <2> SUFFICES ASSUME NEW g \in Fields, g \notin mixed'
               PROVE  /\ \E m \in Replies : Settled(g, m)'
                      /\ table[g] # None /\ OneSettled(g)' /\ NoneSucceeds(g)'
                           => elem[table[g]].value = replayed[g].value
    BY <1>1 DEF Agree
  <2>1. /\ \E m \in Replies : Settled(g, m)
        /\ table[g] # None /\ OneSettled(g) /\ NoneSucceeds(g)
             => elem[table[g]].value = replayed[g].value
    BY <1>4 DEF LInv, Agree
  <2>2. NoneSucceeds(g)' => NoneSucceeds(g)
    BY <1>1, <1>2, <1>3 DEF NoneSucceeds
  <2>3. \A m \in Replies : m # n /\ Settled(g, m) => Settled(g, m)'
    BY <1>2, <1>3, <1>7 DEF Settled
  <2>4. \A m \in Replies : Settled(g, m) => m # n
    <3>1. sets \in Nat
      BY BoundAssumption DEF IInv, Types0
    <3> QED
      BY <3>1, BoundAssumption DEF Settled, LInv, CountedBelow, Replies, Values
  <2>5. OneSettled(g)' => OneSettled(g)
    BY <2>3, <2>4 DEF OneSettled
  <2> QED
    BY <2>1, <2>2, <2>3, <2>4, <2>5
<1>15. CountedBelow'
  <2>1. sets' = n /\ sets \in Nat
    BY BoundAssumption DEF Begin, IInv, Types0
  <2>2. \A g \in Fields : \A m \in current[g] : m \in Int /\ m <= sets
    BY BoundAssumption DEF LInv, CountedBelow, IInv, Types0, Replies, Values, Absent
  <2>3. ASSUME NEW g \in Fields, NEW m \in current'[g] PROVE m \in current[g] \/ m = n \/ m = 0
    BY <1>7
  <2> QED
    BY <2>1, <2>2, <2>3 DEF CountedBelow
<1> QED
  BY <1>8, <1>9, <1>10, <1>11, <1>12, <1>14, <1>15 DEF LInv

LEMMA LogInvAlways == Spec => []LInv
<1>1. IInv /\ LInv /\ [Next]_vars => LInv'
  <2> SUFFICES ASSUME IInv, LInv, [Next]_vars PROVE LInv'
    OBVIOUS
  <2>1. CASE UNCHANGED vars
    BY <2>1 DEF vars, base, history, LInv, SameType, OneType, Matching, LogType, LoggedLast,
       CountedBelow, Agree, Settled, OneSettled, NoneSucceeds, Succeeds, Setting
  <2>2. ASSUME NEW w \in Workers, NEW f \in Fields, NEW t \in Types, Begin(w, f, t)
        PROVE  LInv'
    BY <2>2, LogInvBegin
  <2>3. ASSUME NEW w \in Workers, Put(w) \/ Write(w) \/ Feed(w) \/ Reply(w) PROVE LInv'
    BY <2>3, LogInvPut, LogInvWrite, LogInvFeed, LogInvReply
  <2>4. ASSUME NEW w \in Workers,
               \/ Get(w) \/ Set(w) \/ Lookup(w) \/ Serialize(w) \/ SendGet(w)
               \/ \E f \in Fields : BeginGet(w, f)
        PROVE  LInv'
    BY <2>4, QuietSteps
  <2> QED
    BY <2>1, <2>2, <2>3, <2>4 DEF Next
<1> QED
  BY <1>1, LogInvInit, InvAlways, PTL DEF Spec

-----------------------------------------------------------------------------
(* Every command is fed once, so that the log is no longer than the HSETs  *)
(* are many.                                                               *)
LEMMA LogBounded ==
  ASSUME IInv
  PROVE  Len(log) <= sets
<1> DEFINE n(i) == log[i].n
           num == [i \in 1..Len(log) |-> n(i)]
<1>1. log \in Seq(Cmds) /\ Len(log) \in Nat /\ sets \in Nat
  BY BoundAssumption DEF IInv, FedOnce, Types0
<1>2. \A i \in 1..Len(log) : n(i) \in 1..sets
  <2> TAKE i \in 1..Len(log)
  <2>1. log[i] \in Cmds /\ log[i].n <= sets
    BY DEF IInv, FedOnce
  <2> QED
    BY <1>1, <2>1, BoundAssumption DEF Cmds
<1>3. \A i, j \in 1..Len(log) : n(i) = n(j) => i = j
  BY DEF IInv, FedOnce
<1> HIDE DEF n
<1>4. num \in [1..Len(log) -> 1..sets] /\ \A i, j \in 1..Len(log) : num[i] = num[j] => i = j
  BY <1>2, <1>3
<1>5. ASSUME NEW k \in Nat PROVE IsFiniteSet(1..k) /\ Cardinality(1..k) = k
  BY FS_Interval
<1>6. SUFFICES ASSUME sets < Len(log) PROVE FALSE
  BY <1>1
<1>7. \E i, j \in 1..Len(log) : i # j /\ num[i] = num[j]
  <2> HIDE DEF num
  <2>1. Cardinality(1..sets) < Cardinality(1..Len(log))
    BY <1>1, <1>5, <1>6
  <2> QED
    BY <1>1, <1>4, <1>5, <2>1, FS_PigeonHole
<1> QED
  BY <1>4, <1>7

(* Every variable of the buckets, the backlog and the workers keeps its    *)
(* type, and the log never gets longer than the HSETs are many: no command *)
(* is fed twice (CommandHset::exec).                                       *)
THEOREM TypeCorrect == Spec => []TypeOK
<1>1. IInv => TypeOK
  <2> SUFFICES ASSUME IInv PROVE TypeOK
    OBVIOUS
  <2>1. ASSUME NEW w \in Workers PROVE cmd[w] \in Cmds \/ cmd[w].n = 0
    <3>1. cmd[w] \in [n : Values, field : Fields \cup {NoCmd.field}, type : Types]
      BY DEF IInv, Types0
    <3>2. cmd[w].n # 0 => cmd[w].field \in Fields
      BY DEF IInv, Numbered
    <3>3. cmd[w].n # 0 => cmd[w].n \in 1..MaxSets
      BY <3>1, BoundAssumption DEF Values
    <3> QED
      BY <3>1, <3>2, <3>3 DEF Cmds
  <2>2. log \in Seq(Cmds) /\ Len(log) <= sets
    BY LogBounded DEF IInv, FedOnce
  <2> QED
    BY <2>1, <2>2 DEF TypeOK, IInv, Types0, Phases, Replies
<1> QED
  BY <1>1, InvAlways, PTL

(* Whatever HSETs of it run at the same time, HGET replies a value that    *)
(* was the latest when it began or that an HSET set since, or the 0 of an  *)
(* element a first HSET has just put (CommandHget::exec, CommandHset).     *)
THEOREM RepliesLatest == Spec => []ReadsLatest
<1>1. IInv => ReadsLatest
  <2> SUFFICES ASSUME IInv, NEW w \in Workers,
                      pc[w] = "read" \/ (pc[w] = "look" /\ data[w] = None)
               PROVE  Answer(w) \in seen[w]
    BY DEF ReadsLatest
  <2>1. Getting(w)
    BY DEF Getting
  <2>2. CASE data[w] = None
    BY <2>1, <2>2 DEF Answer, IInv, Replied
  <2>3. CASE data[w] # None
    <3>1. data[w] = table[cmd[w].field]
      BY <2>3 DEF IInv, Holding
    <3>2. Value(cmd[w].field) \in seen[w]
      BY <2>1 DEF IInv, Replied
    <3> QED
      BY <2>3, <3>1, <3>2 DEF Answer, Value
  <2> QED
    BY <2>2, <2>3
<1> QED
  BY <1>1, InvAlways, PTL

(* Memory and log agree on a field that no HSET runs on, if the last HSET  *)
(* that succeeded ran alone and HSETs of different types never overlapped  *)
(* on it: earlier races of the set and the feed of two HSETs leave nothing *)
(* behind (CommandHset::exec).                                             *)
THEOREM MemoryAgreesWithLog == Spec => []MemoryIsLog
<1>1. IInv /\ LInv => MemoryIsLog
  <2> SUFFICES ASSUME IInv, LInv, NEW f \in Fields,
                      ~Busy(f), table[f] # None, f \notin mixed, Cardinality(current[f]) = 1
               PROVE  elem[table[f]] = replayed[f]
    BY DEF MemoryIsLog, Defined
  <2>1. current[f] \in SUBSET Replies /\ table[f] \in Elems
    BY DEF IInv, Types0
  <2>2. \A l, m \in current[f] : l = m
    <3>1. IsFiniteSet(current[f])
      <4>1. IsFiniteSet(0..MaxSets)
        <5>1. 0 \in Int /\ MaxSets \in Int
          BY BoundAssumption
        <5> QED
          BY <5>1, FS_Interval
      <4>2. IsFiniteSet(Replies)
        BY <4>1, FS_AddElement DEF Replies, Values
      <4> QED
        BY <2>1, <4>2, FS_Subset
    <3> QED
      BY <3>1, FS_Singleton
  <2>3. OneSettled(f)
    BY <2>2 DEF OneSettled, Settled
  <2>4. NoneSucceeds(f)
    BY DEF NoneSucceeds, Succeeds, Busy, Setting
  <2>5. elem[table[f]].value = replayed[f].value
    BY <2>3, <2>4 DEF LInv, Agree
  <2>6. /\ elem[table[f]] \in [type : Types, value : Values]
        /\ replayed[f] \in [type : Types, value : Replies]
    BY <2>1 DEF IInv, Types0
  <2>7. replayed[f].value # Absent
    BY <2>5, <2>6, BoundAssumption DEF Values, Absent
  <2>8. elem[table[f]].type = replayed[f].type
    BY <2>7 DEF LInv, LogType
  <2> QED
    BY <2>5, <2>6, <2>8
<1> QED
  BY <1>1, InvAlways, LogInvAlways, PTL

(* No step of any worker takes the element of a field away or gives it     *)
(* another type: the second put of two HSETs that both found no element    *)
(* changes nothing that can be reached (bucket::put).                      *)
THEOREM ElementsKept == Spec => FieldKeepsElement
<1> DEFINE Kept == \A f \in Fields :
             table[f] # None =>
               table'[f] = table[f] /\ elem'[table[f]].type = elem[table[f]].type
<1>1. ASSUME IInv, [Next]_vars PROVE [Kept]_vars
  <2>1. CASE UNCHANGED vars
    BY <2>1
  <2>2. CASE table' = table /\ elem' = elem
    BY <2>2
  <2>3. ASSUME NEW w \in Workers, Put(w) PROVE Kept
    <3> SUFFICES ASSUME NEW f \in Fields, table[f] # None
                 PROVE  table'[f] = table[f] /\ elem'[table[f]].type = elem[table[f]].type
      OBVIOUS
    <3>1. table[f] # cmd[w].n /\ table[f] \in Elems
      BY <1>1, <2>3 DEF Put, IInv, OwnElements, Types0
    <3>2. elem'[table[f]] = elem[table[f]]
      <4>1. elem' = [elem EXCEPT ![cmd[w].n] = [type |-> cmd[w].type, value |-> NewValue]]
        BY <2>3 DEF Put
      <4> QED
        BY <1>1, <3>1, <4>1 DEF IInv, Types0
    <3>3. table'[f] = table[f]
      BY <1>1, <2>3 DEF Put, Emplaced, IInv, Types0
    <3> QED
      BY <3>2, <3>3
  <2>4. ASSUME NEW w \in Workers, Write(w) PROVE Kept
    <3> SUFFICES ASSUME NEW f \in Fields, table[f] # None
                 PROVE  table'[f] = table[f] /\ elem'[table[f]].type = elem[table[f]].type
      OBVIOUS
    <3>1. table[f] \in Elems
      BY <1>1 DEF IInv, Types0
    <3>2. elem' = [elem EXCEPT ![data[w]] = [elem[data[w]] EXCEPT !.value = cmd[w].n]]
      BY <2>4 DEF Write
    <3>3. elem[table[f]] \in [type : Types, value : Values]
      BY <1>1, <3>1 DEF IInv, Types0
    <3>4. elem'[table[f]].type = elem[table[f]].type
      BY <1>1, <3>1, <3>2, <3>3 DEF IInv, Types0
    <3> QED
      BY <2>4, <3>4 DEF Write
  <2> HIDE DEF Kept
  <2> QED
    BY <1>1, <2>1, <2>2, <2>3, <2>4 DEF Next, Begin, Get, Set, Feed, Reply, BeginGet, Lookup,
       Serialize, SendGet, base
<1>2. IInv /\ [Next]_vars => [Kept]_vars
  BY <1>1
<1> QED
  BY <1>2, InvAlways, PTL DEF Spec, FieldKeepsElement
=============================================================================
