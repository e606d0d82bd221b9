--------------------------- MODULE BacklogProofs ---------------------------
(***************************************************************************)
(* Proofs about Backlog, for any set of workers and any number of feeds.   *)
(*                                                                         *)
(* AofOrder is not inductive: that the file is in thread order after a     *)
(* flush rests on what the slots hold, on where a late feed may still      *)
(* append, and on the ids and packs alternating in a slot, so that what    *)
(* the merge takes for a pack is one.  IInv says all this.                 *)
(* What the other theorems need beside it comes before each of them:       *)
(* HeadsLate for the ids in front of packs, Ids and Batch for the order of *)
(* the ids in a batch.                                                     *)
(***************************************************************************)
EXTENDS Backlog, TLAPS

Buffers == {0, 1}
Merged == mpc \in {"scan", "merge"}
Awaited == mpc = "clear" \/ Merged
Current == repl_[repl_pos_]

(* The packs of a slot have been fed, and are in the order of the feeds.   *)
SlotOf(s, n) ==
  \A i \in 1..Len(s) : s[i].kind = "pack" => s[i].val \in 1..n
SlotOrdered(s) ==
  \A i, j \in 1..Len(s) :
    i < j /\ s[i].kind = "pack" /\ s[j].kind = "pack" => s[i].val < s[j].val

(* Ids and packs alternate, and a slot ends in an id exactly while its     *)
(* thread has put the id and not yet the pack.                             *)
Alternating(s) ==
  \A i \in 1..Len(s) : i < Len(s) => s[i].kind # s[i + 1].kind
SlotEnd(b, t) ==
  Len(repl_[b][t]) > 0 =>
    (repl_[b][t][Len(repl_[b][t])].kind = "id" <=> pc[t] = "putpack" /\ repl[t] = b)

Slots ==
  \A b \in Buffers : \A t \in Threads :
    /\ SlotOf(repl_[b][t], fed[t])
    /\ SlotOrdered(repl_[b][t])
    /\ Alternating(repl_[b][t])
    /\ SlotEnd(b, t)

(* The packs of slot s of thread t were fed across a store of repl_pos_.   *)
Late(t, s) ==
  \A i \in 1..Len(s) : s[i].kind = "pack" => <<t, s[i].val>> \in straddled

(* A thread still feeding into the other buffer has nothing in the one in  *)
(* use but late packs, and so has the buffer that was just cleared.        *)
LateFeed ==
  /\ \A t \in Threads :
       pc[t] # "idle" /\ repl[t] # repl_pos_ =>
         <<t, fed[t] + 1>> \in straddled /\ Late(t, Current[t])
  /\ mpc = "clear" => \A t \in Threads : Late(t, Merging[t])

(* The merge holds the ids of the slots in id_list.                        *)
HeadsAreIds ==
  mpc = "merge" =>
    \A t \in id_list : p[t] \in 1..Len(Merging[t]) /\ Merging[t][p[t]].kind = "id"

(* Everything logged was fed, and comes before everything that is still    *)
(* to be read from the slots.                                              *)
Settled(t, n) ==
  /\ n \in 1..fed[t]
  /\ \A j \in 1..Len(Current[t]) :
       Current[t][j].kind = "pack" => Before(t, n, Current[t][j].val)
  /\ Awaited => \A j \in 1..Len(Merging[t]) :
       j > p[t] /\ Merging[t][j].kind = "pack" => Before(t, n, Merging[t][j].val)
LogSettled(s) ==
  \A i \in 1..Len(s) : Settled(s[i].tid, s[i].seq)
LogBeforeBackLog ==
  \A i \in 1..Len(aof_file_) : \A j \in 1..Len(back_log_) :
    aof_file_[i].tid = back_log_[j].tid =>
      Before(aof_file_[i].tid, aof_file_[i].seq, back_log_[j].seq)

Logs ==
  /\ LogSettled(aof_file_) /\ LogSettled(back_log_)
  /\ Ordered(aof_file_) /\ Ordered(back_log_)
  /\ LogBeforeBackLog

(* A merge starts from the first entry of every slot.                      *)
FreshMerge == mpc \in {"idle", "clear", "scan"} => \A t \in Threads : p[t] = 0

(* What is left of slot a of thread t after q entries comes before what    *)
(* slot c of the thread holds.                                             *)
InOrder(t, a, q, c) ==
  \A i \in 1..Len(a) : \A j \in 1..Len(c) :
    i > q /\ a[i].kind = "pack" /\ c[j].kind = "pack" => Before(t, a[i].val, c[j].val)

(* What the merge has still to read of a slot comes before what the slot   *)
(* of the buffer in use holds; until repl_pos_ is stored it is the other   *)
(* way round.                                                              *)
BuffersInOrder ==
  /\ Merged => \A t \in Threads : InOrder(t, Merging[t], p[t], Current[t])
  /\ mpc = "clear" => \A t \in Threads : InOrder(t, Current[t], 0, Merging[t])

IInv ==
  /\ TypeOK
  /\ Slots
  /\ LateFeed
  /\ HeadsAreIds
  /\ FreshMerge
  /\ Logs
  /\ BuffersInOrder

-----------------------------------------------------------------------------
(* Type correctness: the id a command is logged with is an id only         *)
(* because the merge holds ids, so the step needs HeadsAreIds.             *)
LEMMA TypeInit == Init => TypeOK
  BY DEF Init, TypeOK, Threads, Entry, Logged

LEMMA TypeStep == TypeOK /\ HeadsAreIds /\ [Next]_vars => TypeOK'
<1> SUFFICES ASSUME TypeOK, HeadsAreIds, [Next]_vars PROVE TypeOK'
  OBVIOUS
<1> USE DEF TypeOK, feedVars, mergeVars
<1>1. ASSUME NEW t \in Threads, LoadPos(t) PROVE TypeOK'
  BY <1>1 DEF LoadPos
<1>2. ASSUME NEW t \in Threads, LoadId(t) PROVE TypeOK'
  BY <1>2 DEF LoadId
<1>3. ASSUME NEW t \in Threads, IncrId(t) PROVE TypeOK'
  <2>1. pc' \in [Threads -> {"idle", "load", "incr", "putid", "putpack"}]
    BY <1>3 DEF IncrId
  <2>2. repl_command_incr_' \in Nat
    BY <1>3 DEF IncrId
  <2> QED
    BY <1>3, <2>1, <2>2 DEF IncrId
<1>4. ASSUME NEW t \in Threads, PutId(t) PROVE TypeOK'
  <2>1. Id(command_id[t]) \in Entry
    BY DEF Id, Entry
  <2>2. repl_' \in [{0, 1} -> [Threads -> Seq(Entry)]]
    BY <1>4, <2>1, SMTT(20) DEF PutId, Put
  <2> QED
    BY <1>4, <2>2 DEF PutId
<1>5. ASSUME NEW t \in Threads, PutPack(t) PROVE TypeOK'
  <2>1. Pack(fed[t] + 1) \in Entry
    BY DEF Pack, Entry
  <2>2. repl_' \in [{0, 1} -> [Threads -> Seq(Entry)]]
    BY <1>5, <2>1, SMTT(20) DEF PutPack, Put
  <2>3. /\ fed' \in [Threads -> Nat]
        /\ command_id' \in [Threads -> Nat]
        /\ repl' \in [Threads -> {0, 1}]
    BY <1>5 DEF PutPack
  <2>4. pc' \in [Threads -> {"idle", "load", "incr", "putid", "putpack"}]
    BY <1>5 DEF PutPack
  <2> QED
    BY <1>5, <2>2, <2>3, <2>4 DEF PutPack
<1>6. CASE Clear
  <2>1. repl_' \in [{0, 1} -> [Threads -> Seq(Entry)]]
    BY <1>6 DEF Clear, ClearSlots, EmptySlots
  <2> QED
    BY <1>6, <2>1 DEF Clear
<1>7. CASE Store
  <2>1. straddled' \subseteq Threads \X Nat
    BY <1>7 DEF Store
  <2>2. repl_pos_' \in {0, 1}
    BY <1>7 DEF Store, NextPos
  <2> QED
    BY <1>7, <2>1, <2>2 DEF Store
<1>8. CASE Scan
  BY <1>8 DEF Scan, MergeSlots
<1>9. ASSUME NEW t \in Threads, MergeOne(t) PROVE TypeOK'
  <2> DEFINE e == [tid |-> t, seq |-> Merging[t][p[t] + 1].val, id |-> HeadId(t)]
  <2>1. Merging[t] \in Seq(Entry)
    BY DEF Merging
  <2>2. CASE Unread(t)
    <3>1. p[t] + 1 \in 1..Len(Merging[t])
      BY <2>1, <2>2 DEF Unread
    <3>2. HeadId(t) \in Nat
      <4>1. Merging[t][p[t]] \in Entry
        BY <1>9, <2>1 DEF MergeOne, HeadsAreIds
      <4> QED
        BY <4>1 DEF HeadId, Entry
    <3>3. e \in Logged
      <4>1. Merging[t][p[t] + 1] \in Entry
        BY <2>1, <3>1
      <4> QED
        BY <3>2, <4>1 DEF Logged, Entry
    <3>4. back_log_' = Append(back_log_, e)
      BY <1>9, <2>2 DEF MergeOne
    <3>5. back_log_' \in Seq(Logged)
      BY <3>3, <3>4
    <3>6. p' \in [Threads -> Nat] /\ id_list' \subseteq Threads
      <4>1. /\ p' = [p EXCEPT ![t] = @ + 2] \/ p' = [p EXCEPT ![t] = @ + 1]
            /\ id_list' = id_list \/ id_list' = id_list \ {t}
        BY <1>9, <2>2, Zenon DEF MergeOne
      <4>2. p \in [Threads -> Nat] /\ id_list \subseteq Threads
        OBVIOUS
      <4> HIDE DEF TypeOK
      <4>3. p' \in [Threads -> Nat]
        BY <4>1, <4>2
      <4>4. id_list' \subseteq Threads
        BY <4>1, <4>2
      <4> QED
        BY <4>3, <4>4
    <3> QED
      BY <1>9, <3>5, <3>6 DEF MergeOne
  <2>3. CASE ~Unread(t)
    BY <1>9, <2>3 DEF MergeOne
  <2> QED
    BY <2>2, <2>3
<1>10. CASE Flush
  BY <1>10 DEF Flush
<1>11. CASE UNCHANGED vars
  BY <1>11 DEF vars
<1>12. CASE Undefined
  BY <1>11, <1>12 DEF Undefined
<1>13. CASE Race
  BY <1>13 DEF Race
<1> QED
  BY <1>1, <1>2, <1>3, <1>4, <1>5, <1>6, <1>8, <1>9, <1>10, <1>11, <1>12, <1>7, <1>13
     DEF Next, Merge, Feed
-----------------------------------------------------------------------------
(* Appending to a slot.                                                    *)
LEMMA AppendEntry ==
  ASSUME NEW s \in Seq(Entry), NEW e \in Entry
  PROVE  /\ Len(s) \in Nat
         /\ Len(Append(s, e)) = Len(s) + 1
         /\ \A i \in 1..Len(s) : Append(s, e)[i] = s[i]
         /\ Append(s, e)[Len(s) + 1] = e
  OBVIOUS

(* An id may follow a pack and a pack an id; a pack that is newer than all *)
(* the packs of a slot keeps the slot in order.                            *)
LEMMA AppendToSlot ==
  ASSUME NEW s \in Seq(Entry), NEW e \in Entry,
         NEW n \in Nat, NEW m \in Nat, n <= m,
         SlotOf(s, n), SlotOrdered(s), Alternating(s),
         Len(s) > 0 => s[Len(s)].kind # e.kind,
         e.kind = "pack" => n < e.val /\ e.val <= m
  PROVE  /\ SlotOf(Append(s, e), m)
         /\ SlotOrdered(Append(s, e))
         /\ Alternating(Append(s, e))
         /\ Len(Append(s, e)) > 0
         /\ Append(s, e)[Len(Append(s, e))] = e
<1> DEFINE x == Append(s, e)
<1>1. /\ Len(s) \in Nat
      /\ Len(x) = Len(s) + 1
      /\ \A i \in 1..Len(s) : x[i] = s[i]
      /\ x[Len(s) + 1] = e
  BY AppendEntry
<1>2. \A i \in 1..Len(s) : s[i] \in Entry
  OBVIOUS
<1>3. e.val \in Nat /\ \A i \in 1..Len(s) : s[i].val \in Nat
  BY <1>2 DEF Entry
<1> HIDE DEF x
<1>4. SlotOf(x, m)
  <2> SUFFICES ASSUME NEW i \in 1..Len(x), x[i].kind = "pack" PROVE x[i].val \in 1..m
    BY DEF SlotOf
  <2>1. CASE i = Len(s) + 1
    BY <1>1, <1>3, <2>1
  <2>2. CASE i \in 1..Len(s)
    BY <1>1, <1>3, <2>2 DEF SlotOf
  <2> QED
    BY <1>1, <2>1, <2>2
<1>5. SlotOrdered(x)
  <2> SUFFICES ASSUME NEW i \in 1..Len(x), NEW j \in 1..Len(x), i < j,
                      x[i].kind = "pack", x[j].kind = "pack"
               PROVE  x[i].val < x[j].val
    BY DEF SlotOrdered
  <2>1. i \in 1..Len(s)
    BY <1>1
  <2>2. CASE j = Len(s) + 1
    BY <1>1, <1>3, <2>1, <2>2 DEF SlotOf
  <2>3. CASE j \in 1..Len(s)
    BY <1>1, <2>1, <2>3 DEF SlotOrdered
  <2> QED
    BY <1>1, <2>2, <2>3
<1>6. Alternating(x)
  <2> SUFFICES ASSUME NEW i \in 1..Len(x), i < Len(x) PROVE x[i].kind # x[i + 1].kind
    BY DEF Alternating
  <2>1. i \in 1..Len(s)
    BY <1>1
  <2>2. CASE i = Len(s)
    BY <1>1, <2>1, <2>2
  <2>3. CASE i < Len(s)
    BY <1>1, <2>1, <2>3 DEF Alternating
  <2> QED
    BY <1>1, <2>1, <2>2, <2>3
<1> QED
  BY <1>1, <1>4, <1>5, <1>6 DEF x

(* A put changes the slot of its thread in the buffer the thread loaded.   *)
LEMMA PutEffect ==
  ASSUME TypeOK, NEW t \in Threads, NEW e \in Entry, Put(t, e),
         NEW b \in Buffers, NEW u \in Threads
  PROVE  /\ repl_[b][u] \in Seq(Entry)
         /\ b = repl[t] /\ u = t => repl_'[b][u] = Append(repl_[b][u], e)
         /\ ~(b = repl[t] /\ u = t) => repl_'[b][u] = repl_[b][u]
<1>1. /\ repl_ \in [Buffers -> [Threads -> Seq(Entry)]]
      /\ repl[t] \in Buffers
  BY DEF TypeOK, Buffers
<1> QED
  BY <1>1 DEF Put

LEMMA EntryKinds ==
  /\ \A n \in Nat : Id(n) \in Entry /\ Id(n).kind = "id"
  /\ \A n \in Nat : Pack(n) \in Entry /\ Pack(n).kind = "pack" /\ Pack(n).val = n
  BY DEF Id, Pack, Entry

(* A step that leaves the slots and the feed counters alone, and moves no  *)
(* thread to or from putpack, preserves Slots.                             *)
LEMMA SlotsFrame ==
  ASSUME Slots, UNCHANGED <<repl_, fed>>,
         \A t \in Threads : /\ pc'[t] = "putpack" <=> pc[t] = "putpack"
                            /\ pc[t] = "putpack" => repl'[t] = repl[t]
  PROVE  Slots'
<1> SUFFICES ASSUME NEW b \in Buffers, NEW t \in Threads
             PROVE  /\ SlotOf(repl_[b][t], fed[t])'
                    /\ SlotOrdered(repl_[b][t])'
                    /\ Alternating(repl_[b][t])'
                    /\ SlotEnd(b, t)'
  BY Zenon DEF Slots
<1>1. /\ SlotOf(repl_[b][t], fed[t])
      /\ SlotOrdered(repl_[b][t])
      /\ Alternating(repl_[b][t])
      /\ SlotEnd(b, t)
  BY Zenon DEF Slots
<1> QED
  BY <1>1 DEF SlotOf, SlotOrdered, Alternating, SlotEnd

LEMMA SlotsStep == TypeOK /\ Slots /\ [Next]_vars => Slots'
<1> SUFFICES ASSUME TypeOK, Slots, [Next]_vars PROVE Slots'
  OBVIOUS
<1>t. /\ pc \in [Threads -> {"idle", "load", "incr", "putid", "putpack"}]
      /\ repl \in [Threads -> Buffers]
      /\ command_id \in [Threads -> Nat]
      /\ fed \in [Threads -> Nat]
      /\ repl_pos_ \in Buffers
      /\ repl_ \in [Buffers -> [Threads -> Seq(Entry)]]
  BY DEF TypeOK, Buffers
<1> USE DEF feedVars, mergeVars
<1>1. ASSUME NEW t \in Threads, LoadPos(t) \/ LoadId(t) \/ IncrId(t) PROVE Slots'
  <2>1. \A u \in Threads : /\ pc'[u] = "putpack" <=> pc[u] = "putpack"
                           /\ pc[u] = "putpack" => repl'[u] = repl[u]
    BY <1>1, <1>t DEF LoadPos, LoadId, IncrId
  <2> QED
    BY <1>1, <2>1, SlotsFrame DEF LoadPos, LoadId, IncrId
<1>2. ASSUME NEW t \in Threads, PutId(t) PROVE Slots'
  <2> SUFFICES ASSUME NEW b \in Buffers, NEW u \in Threads
               PROVE  /\ SlotOf(repl_[b][u], fed[u])'
                      /\ SlotOrdered(repl_[b][u])'
                      /\ Alternating(repl_[b][u])'
                      /\ SlotEnd(b, u)'
    BY Zenon DEF Slots
  <2>1. /\ SlotOf(repl_[b][u], fed[u])
        /\ SlotOrdered(repl_[b][u])
        /\ Alternating(repl_[b][u])
        /\ SlotEnd(b, u)
    BY Zenon DEF Slots
  <2> DEFINE e == Id(command_id[t])
  <2>2. e \in Entry /\ e.kind = "id"
    BY <1>t, EntryKinds
  <2>3. /\ repl_[b][u] \in Seq(Entry)
        /\ b = repl[t] /\ u = t => repl_'[b][u] = Append(repl_[b][u], e)
        /\ ~(b = repl[t] /\ u = t) => repl_'[b][u] = repl_[b][u]
    BY <1>2, <2>2, PutEffect DEF PutId
  <2>4. /\ pc' = [pc EXCEPT ![t] = "putpack"] /\ pc[t] = "putid"
        /\ repl' = repl /\ fed' = fed
    BY <1>2 DEF PutId
  <2> HIDE DEF e
  <2>5. CASE b = repl[t] /\ u = t
    <3>1. Len(repl_[b][u]) > 0 => repl_[b][u][Len(repl_[b][u])].kind # "id"
      BY <2>1, <2>4 , <2>5 DEF SlotEnd
    <3>2. /\ SlotOf(repl_'[b][u], fed[u])
          /\ SlotOrdered(repl_'[b][u])
          /\ Alternating(repl_'[b][u])
          /\ repl_'[b][u][Len(repl_'[b][u])] = e
      <4> DEFINE x == repl_[b][u]
      <4>1. repl_'[b][u] = Append(x, e)
        BY <2>3, <2>5
      <4>2. fed[u] \in Nat /\ fed[u] <= fed[u] /\ e.kind # "pack"
        BY <1>t, <2>2
      <4>3. x \in Seq(Entry) /\ SlotOf(x, fed[u]) /\ SlotOrdered(x) /\ Alternating(x)
        BY <2>1, <2>3
      <4>4. Len(x) > 0 => x[Len(x)].kind # e.kind
        BY <2>2, <3>1
      <4> HIDE DEF x
      <4>5. /\ SlotOf(Append(x, e), fed[u])
            /\ SlotOrdered(Append(x, e))
            /\ Alternating(Append(x, e))
            /\ Append(x, e)[Len(Append(x, e))] = e
        BY <2>2, <4>2, <4>3, <4>4, AppendToSlot
      <4> QED
        BY <4>1, <4>5
    <3>3. SlotEnd(b, u)'
      BY <1>t, <2>2, <2>4, <2>5, <3>2 DEF SlotEnd
    <3> QED
      BY <2>4, <3>2, <3>3
  <2>6. CASE ~(b = repl[t] /\ u = t)
    BY <1>t, <2>1, <2>3, <2>4, <2>6 DEF SlotOf, SlotOrdered, Alternating, SlotEnd
  <2> QED
    BY <2>5, <2>6
<1>3. ASSUME NEW t \in Threads, PutPack(t) PROVE Slots'
  <2> SUFFICES ASSUME NEW b \in Buffers, NEW u \in Threads
               PROVE  /\ SlotOf(repl_[b][u], fed[u])'
                      /\ SlotOrdered(repl_[b][u])'
                      /\ Alternating(repl_[b][u])'
                      /\ SlotEnd(b, u)'
    BY Zenon DEF Slots
  <2>1. /\ SlotOf(repl_[b][u], fed[u])
        /\ SlotOrdered(repl_[b][u])
        /\ Alternating(repl_[b][u])
        /\ SlotEnd(b, u)
    BY Zenon DEF Slots
  <2> DEFINE e == Pack(fed[t] + 1)
  <2>2. e \in Entry /\ e.kind = "pack" /\ e.val = fed[t] + 1
    BY <1>t, EntryKinds
  <2>3. /\ repl_[b][u] \in Seq(Entry)
        /\ b = repl[t] /\ u = t => repl_'[b][u] = Append(repl_[b][u], e)
        /\ ~(b = repl[t] /\ u = t) => repl_'[b][u] = repl_[b][u]
    BY <1>3, <2>2, PutEffect DEF PutPack
  <2>4. /\ pc' = [pc EXCEPT ![t] = "idle"] /\ pc[t] = "putpack"
        /\ repl' = [repl EXCEPT ![t] = 0]
        /\ fed' = [fed EXCEPT ![t] = @ + 1]
    BY <1>3 DEF PutPack
  <2> HIDE DEF e
  <2>5. CASE b = repl[t] /\ u = t
    <3>1. Len(repl_[b][u]) > 0 => repl_[b][u][Len(repl_[b][u])].kind # "pack"
      BY <2>1, <2>4, <2>5 DEF SlotEnd
    <3>2. fed[u] \in Nat /\ fed[u] + 1 \in Nat /\ fed'[u] = fed[u] + 1
      BY <1>t, <2>4, <2>5
    <3>3. /\ SlotOf(repl_'[b][u], fed[u] + 1)
          /\ SlotOrdered(repl_'[b][u])
          /\ Alternating(repl_'[b][u])
          /\ repl_'[b][u][Len(repl_'[b][u])] = e
      <4> DEFINE x == repl_[b][u]
      <4>1. repl_'[b][u] = Append(x, e)
        BY <2>3, <2>5
      <4>2. fed[u] <= fed[u] + 1 /\ fed[u] < e.val /\ e.val <= fed[u] + 1
        BY <2>2, <2>5, <3>2
      <4>3. x \in Seq(Entry) /\ SlotOf(x, fed[u]) /\ SlotOrdered(x) /\ Alternating(x)
        BY <2>1, <2>3
      <4>4. Len(x) > 0 => x[Len(x)].kind # e.kind
        BY <2>2, <3>1
      <4> HIDE DEF x
      <4>5. /\ SlotOf(Append(x, e), fed[u] + 1)
            /\ SlotOrdered(Append(x, e))
            /\ Alternating(Append(x, e))
            /\ Append(x, e)[Len(Append(x, e))] = e
        BY <2>2, <3>2, <4>2, <4>3, <4>4, AppendToSlot
      <4> QED
        BY <4>1, <4>5
    <3>4. SlotEnd(b, u)'
      BY <1>t, <2>2, <2>4, <2>5, <3>3 DEF SlotEnd
    <3> QED
      BY <3>2, <3>3, <3>4
  <2>6. CASE ~(b = repl[t] /\ u = t)
    <3>1. SlotOf(repl_[b][u], fed[u])'
      <4>1. fed[u] \in Nat /\ fed'[u] \in Nat /\ fed[u] <= fed'[u]
        BY <1>t, <2>4
      <4> QED
        BY <2>1, <2>3, <2>6, <4>1, SMTT(30) DEF SlotOf
    <3>2. SlotOrdered(repl_[b][u])' /\ Alternating(repl_[b][u])'
      BY <2>1, <2>3, <2>6 DEF SlotOrdered, Alternating
    <3>3. SlotEnd(b, u)'
      BY <1>t, <2>1, <2>3, <2>4, <2>6 DEF SlotEnd
    <3> QED
      BY <3>1, <3>2, <3>3
  <2> QED
    BY <2>5, <2>6
<1>4. CASE Clear
  <2> SUFFICES ASSUME NEW b \in Buffers, NEW u \in Threads
               PROVE  /\ SlotOf(repl_[b][u], fed[u])'
                      /\ SlotOrdered(repl_[b][u])'
                      /\ Alternating(repl_[b][u])'
                      /\ SlotEnd(b, u)'
    BY Zenon DEF Slots
  <2>1. /\ SlotOf(repl_[b][u], fed[u])
        /\ SlotOrdered(repl_[b][u])
        /\ Alternating(repl_[b][u])
        /\ SlotEnd(b, u)
    BY Zenon DEF Slots
  <2>2. repl_'[b][u] = <<>> \/ repl_'[b][u] = repl_[b][u]
    BY <1>4, <1>t DEF Clear, ClearSlots, EmptySlots, Buffers
  <2>3. pc' = pc /\ repl' = repl /\ fed' = fed
    BY <1>4 DEF Clear
  <2>4. CASE repl_'[b][u] = <<>>
    BY <2>4 DEF SlotOf, SlotOrdered, Alternating, SlotEnd
  <2>5. CASE repl_'[b][u] = repl_[b][u]
    BY <2>1, <2>3, <2>5 DEF SlotOf, SlotOrdered, Alternating, SlotEnd
  <2> QED
    BY <2>2, <2>4, <2>5
<1>5. CASE \/ Store \/ Scan \/ Flush \/ (\E t \in Threads : MergeOne(t))
           \/ Race \/ Undefined \/ UNCHANGED vars
  <2>1. UNCHANGED <<repl_, fed, pc, repl>>
    BY <1>5 DEF Store, Scan, Flush, MergeOne, Race, Undefined, vars
  <2> QED
    BY <2>1, SlotsFrame
<1> QED
  BY <1>1, <1>2, <1>3, <1>4, <1>5 DEF Next, Merge, Feed

-----------------------------------------------------------------------------
(* What a step of a feed does to any slot: the slot keeps its entries, and *)
(* an entry it gains belongs to a feed in progress into that slot.         *)
LEMMA FeedEffect ==
  ASSUME TypeOK, NEW t \in Threads, Feed(t), NEW b \in Buffers, NEW u \in Threads
  PROVE  /\ Len(repl_[b][u]) \in Nat
         /\ Len(repl_'[b][u]) \in Nat
         /\ Len(repl_[b][u]) <= Len(repl_'[b][u])
         /\ \A i \in 1..Len(repl_[b][u]) : repl_'[b][u][i] = repl_[b][u][i]
         /\ \A i \in 1..Len(repl_'[b][u]) :
              i > Len(repl_[b][u]) =>
                /\ pc[u] # "idle"
                /\ repl[u] = b
                /\ repl_'[b][u][i].kind = "pack" => repl_'[b][u][i].val = fed[u] + 1
         /\ fed[u] \in Nat /\ fed'[u] \in Nat /\ fed[u] <= fed'[u]
         /\ UNCHANGED mergeVars
<1>t. /\ repl_ \in [Buffers -> [Threads -> Seq(Entry)]]
      /\ command_id \in [Threads -> Nat]
      /\ fed \in [Threads -> Nat]
  BY DEF TypeOK, Buffers
<1>1. repl_[b][u] \in Seq(Entry)
  BY <1>t
<1>2. CASE LoadPos(t) \/ LoadId(t) \/ IncrId(t)
  <2>1. repl_' = repl_ /\ fed' = fed /\ UNCHANGED mergeVars
    BY <1>2 DEF LoadPos, LoadId, IncrId
  <2>2. Len(repl_[b][u]) \in Nat
    BY <1>1
  <2> QED
    BY <1>t, <2>1, <2>2
<1>3. ASSUME NEW e \in Entry, Put(t, e), pc[t] # "idle",
             e.kind = "pack" => e.val = fed[t] + 1
      PROVE  /\ Len(repl_[b][u]) \in Nat
             /\ Len(repl_'[b][u]) \in Nat
             /\ Len(repl_[b][u]) <= Len(repl_'[b][u])
             /\ \A i \in 1..Len(repl_[b][u]) : repl_'[b][u][i] = repl_[b][u][i]
             /\ \A i \in 1..Len(repl_'[b][u]) :
                  i > Len(repl_[b][u]) =>
                    /\ pc[u] # "idle"
                    /\ repl[u] = b
                    /\ repl_'[b][u][i].kind = "pack" => repl_'[b][u][i].val = fed[u] + 1
  <2>1. /\ b = repl[t] /\ u = t => repl_'[b][u] = Append(repl_[b][u], e)
        /\ ~(b = repl[t] /\ u = t) => repl_'[b][u] = repl_[b][u]
    BY <1>3, PutEffect
  <2> DEFINE x == repl_[b][u]
  <2>2. Len(x) \in Nat
    BY <1>1
  <2>3. CASE b = repl[t] /\ u = t
    <3>1. repl_'[b][u] = Append(x, e)
      BY <2>1, <2>3
    <3>2. x \in Seq(Entry)
      BY <1>1
    <3> HIDE DEF x
    <3>3. /\ Len(Append(x, e)) = Len(x) + 1
          /\ \A i \in 1..Len(x) : Append(x, e)[i] = x[i]
          /\ Append(x, e)[Len(x) + 1] = e
      BY <3>2, AppendEntry
    <3>4. \A i \in 1..Len(Append(x, e)) : i > Len(x) => Append(x, e)[i] = e
      BY <2>2, <3>3
    <3>5. x = repl_[b][u]
      BY DEF x
    <3> QED
      BY <1>3, <2>2, <2>3, <3>1, <3>3, <3>4, <3>5, SMTT(30)
  <2>4. CASE ~(b = repl[t] /\ u = t)
    BY <2>1, <2>2, <2>4
  <2> QED
    BY <2>3, <2>4
<1>4. CASE PutId(t)
  <2>1. Id(command_id[t]) \in Entry /\ Id(command_id[t]).kind = "id"
    BY <1>t, EntryKinds
  <2>2. Put(t, Id(command_id[t])) /\ pc[t] # "idle" /\ fed' = fed /\ UNCHANGED mergeVars
    BY <1>4 DEF PutId
  <2> QED
    BY <1>3, <1>t, <2>1, <2>2
<1>5. CASE PutPack(t)
  <2>1. Pack(fed[t] + 1) \in Entry /\ Pack(fed[t] + 1).val = fed[t] + 1
    BY <1>t, EntryKinds
  <2>2. Put(t, Pack(fed[t] + 1)) /\ pc[t] # "idle" /\ UNCHANGED mergeVars
    BY <1>5 DEF PutPack
  <2>3. fed[u] \in Nat /\ fed'[u] \in Nat /\ fed[u] <= fed'[u]
    BY <1>5, <1>t DEF PutPack
  <2> QED
    BY <1>3, <2>1, <2>2, <2>3
<1> QED
  BY <1>2, <1>4, <1>5 DEF Feed

(* A feed once late stays late.                                            *)
LEMMA StraddledGrows ==
  ASSUME [Next]_vars
  PROVE  straddled \subseteq straddled'
  BY DEF Next, Merge, Feed, LoadPos, LoadId, IncrId, PutId, PutPack, Clear, Store, Scan,
         MergeOne, Flush, Race, Undefined, vars, mergeVars

LEMMA LateFeedStep == TypeOK /\ LateFeed /\ [Next]_vars => LateFeed'
<1> SUFFICES ASSUME TypeOK, LateFeed, [Next]_vars PROVE LateFeed'
  OBVIOUS
<1>t. /\ pc \in [Threads -> {"idle", "load", "incr", "putid", "putpack"}]
      /\ repl \in [Threads -> Buffers]
      /\ fed \in [Threads -> Nat]
      /\ repl_pos_ \in Buffers /\ 1 - repl_pos_ \in Buffers /\ 1 - repl_pos_ # repl_pos_
      /\ repl_ \in [Buffers -> [Threads -> Seq(Entry)]]
  BY DEF TypeOK, Buffers
<1>1. ASSUME NEW t \in Threads, Feed(t) PROVE LateFeed'
  <2>1. UNCHANGED <<repl_pos_, mpc, straddled>>
    BY <1>1, <1>t, FeedEffect DEF mergeVars
  <2>2. \A u \in Threads : pc'[u] # "idle" /\ repl'[u] # repl_pos_ =>
          /\ pc[u] # "idle" /\ repl[u] # repl_pos_ /\ fed'[u] = fed[u]
    BY <1>1, <1>t DEF Feed, LoadPos, LoadId, IncrId, PutId, PutPack
  <2>3. ASSUME NEW u \in Threads, NEW b \in Buffers, Late(u, repl_[b][u]),
               pc[u] # "idle" /\ repl[u] = b => <<u, fed[u] + 1>> \in straddled
        PROVE  Late(u, repl_'[b][u])
    <3> DEFINE a == repl_[b][u]
               a1 == repl_'[b][u]
    <3>1. /\ Len(a) \in Nat /\ Len(a1) \in Nat
          /\ \A k \in 1..Len(a) : a1[k] = a[k]
          /\ \A k \in 1..Len(a1) :
               k > Len(a) => /\ pc[u] # "idle" /\ repl[u] = b
                             /\ a1[k].kind = "pack" => a1[k].val = fed[u] + 1
      BY <1>1, FeedEffect
    <3>2. \A k \in 1..Len(a) : a[k].kind = "pack" => <<u, a[k].val>> \in straddled
      BY <2>3 DEF Late
    <3> HIDE DEF a, a1
    <3>3. ASSUME NEW k \in 1..Len(a1), a1[k].kind = "pack"
          PROVE  <<u, a1[k].val>> \in straddled
      <4>1. CASE k \in 1..Len(a)
        BY <3>1, <3>2, <3>3, <4>1
      <4>2. CASE k > Len(a)
        BY <2>3, <3>1, <3>3, <4>2
      <4> QED
        BY <3>1, <4>1, <4>2
    <3> QED
      BY <3>3 DEF Late, a1
  <2>4. ASSUME NEW u \in Threads, pc'[u] # "idle", repl'[u] # repl_pos_'
        PROVE  <<u, fed'[u] + 1>> \in straddled' /\ Late(u, Current[u])'
    <3>1. /\ pc[u] # "idle" /\ repl[u] # repl_pos_ /\ fed'[u] = fed[u]
          /\ <<u, fed[u] + 1>> \in straddled /\ Late(u, repl_[repl_pos_][u])
      BY <2>1, <2>2, <2>4 DEF LateFeed, Current
    <3>2. Late(u, repl_'[repl_pos_][u])
      BY <1>t, <2>3, <3>1
    <3>3. Current'[u] = repl_'[repl_pos_][u]
      BY <2>1 DEF Current
    <3> QED
      BY <2>1, <3>1, <3>2, <3>3 DEF Late
  <2>5. ASSUME mpc' = "clear", NEW u \in Threads PROVE Late(u, Merging[u])'
    <3>1. Late(u, repl_[1 - repl_pos_][u])
      BY <2>1, <2>5 DEF LateFeed, Merging
    <3>2. pc[u] # "idle" /\ repl[u] = 1 - repl_pos_ => <<u, fed[u] + 1>> \in straddled
      BY <1>t DEF LateFeed
    <3>3. Late(u, repl_'[1 - repl_pos_][u])
      BY <1>t, <2>3, <3>1, <3>2
    <3>4. Merging'[u] = repl_'[1 - repl_pos_][u]
      BY <2>1 DEF Merging
    <3> QED
      BY <2>1, <3>3, <3>4 DEF Late
  <2> QED
    BY <2>4, <2>5 DEF LateFeed
<1>2. CASE Clear
  <2>1. /\ UNCHANGED <<pc, repl, fed, repl_pos_, straddled>>
        /\ Current' = Current
        /\ \A t \in Threads : Merging'[t] = <<>>
    BY <1>2, <1>t DEF Clear, ClearSlots, EmptySlots, feedVars, Current, Merging
  <2> QED
    BY <2>1 DEF LateFeed, Late
<1>3. CASE Store
  <2>1. /\ UNCHANGED <<pc, repl, fed>> /\ repl_pos_' = 1 - repl_pos_
        /\ Current' = Merging
        /\ straddled \subseteq straddled'
        /\ \A t \in Threads : pc[t] # "idle" => <<t, fed[t] + 1>> \in straddled'
        /\ mpc = "clear" /\ mpc' = "scan"
    BY <1>3 DEF Store, NextPos, feedVars, Current, Merging
  <2> QED
    BY <2>1 DEF LateFeed, Late
<1>4. CASE \/ Scan \/ Flush \/ (\E t \in Threads : MergeOne(t))
           \/ Race \/ Undefined \/ UNCHANGED vars
  <2>1. UNCHANGED <<repl_, repl_pos_, pc, repl, fed, straddled>>
    BY <1>4 DEF Scan, Flush, MergeOne, Race, Undefined, vars, feedVars, mergeVars
  <2>2. mpc' = "clear" => mpc = "clear"
    BY <1>4 DEF Scan, Flush, MergeOne, Race, Undefined, vars, mergeVars
  <2> QED
    BY <2>1, <2>2 DEF LateFeed, Late, Current, Merging
<1> QED
  BY <1>1, <1>2, <1>3, <1>4 DEF Next, Merge

LEMMA HeadsStep ==
  TypeOK /\ Slots /\ HeadsAreIds /\ FreshMerge /\ [Next]_vars => HeadsAreIds' /\ FreshMerge'
<1> SUFFICES ASSUME TypeOK, Slots, HeadsAreIds, FreshMerge, [Next]_vars
             PROVE  HeadsAreIds' /\ FreshMerge'
  OBVIOUS
<1>t. /\ repl_pos_ \in Buffers /\ 1 - repl_pos_ \in Buffers
      /\ repl_ \in [Buffers -> [Threads -> Seq(Entry)]]
      /\ p \in [Threads -> Nat]
      /\ id_list \subseteq Threads
  BY DEF TypeOK, Buffers
<1>m. \A t \in Threads : /\ Merging[t] \in Seq(Entry)
                          /\ Len(Merging[t]) \in Nat
                          /\ Alternating(Merging[t])
  BY <1>t DEF Slots, Merging
<1>1. ASSUME NEW t \in Threads, Feed(t) PROVE HeadsAreIds' /\ FreshMerge'
  <2>1. UNCHANGED <<repl_pos_, mpc, p, id_list>>
    BY <1>1, <1>t, FeedEffect DEF mergeVars
  <2>2. ASSUME mpc = "merge", NEW u \in id_list
        PROVE  p[u] \in 1..Len(Merging'[u]) /\ Merging'[u][p[u]].kind = "id"
    <3>1. /\ Len(Merging[u]) \in Nat
          /\ Len(Merging'[u]) \in Nat
          /\ Len(Merging[u]) <= Len(Merging'[u])
          /\ \A i \in 1..Len(Merging[u]) : Merging'[u][i] = Merging[u][i]
      BY <1>1, <1>t, <2>1, FeedEffect DEF Merging
    <3>2. p[u] \in 1..Len(Merging[u]) /\ Merging[u][p[u]].kind = "id"
      BY <2>2 DEF HeadsAreIds
    <3> QED
      BY <3>1, <3>2
  <2> QED
    BY <2>1, <2>2 DEF HeadsAreIds, FreshMerge
<1>2. CASE Clear \/ Store \/ Race
  BY <1>2 DEF Clear, Store, Race, HeadsAreIds, FreshMerge
<1>3. CASE Scan
  <2>1. /\ id_list' = {t \in Threads : Unread(t)}
        /\ p' = [t \in Threads |-> IF t \in id_list' THEN 1 ELSE 0]
        /\ repl_' = repl_ /\ repl_pos_' = repl_pos_
        /\ mpc' = "merge" \/ mpc' = "undefined"
        /\ mpc' = "merge" => \A t \in id_list' : Merging[t][1].kind # "pack"
    BY <1>3 DEF Scan, MergeSlots
  <2>2. ASSUME mpc' = "merge", NEW t \in id_list'
        PROVE  p'[t] \in 1..Len(Merging'[t]) /\ Merging'[t][p'[t]].kind = "id"
    <3>1. t \in Threads /\ p'[t] = 1 /\ Merging' = Merging
      BY <2>1, <2>2 DEF Merging
    <3>2. 1 \in 1..Len(Merging[t])
      BY <1>m, <1>t, <2>1, <2>2 DEF Unread
    <3>3. Merging[t][1] \in Entry
      BY <1>m, <3>1, <3>2
    <3> QED
      BY <2>1, <2>2, <3>1, <3>2, <3>3 DEF Entry
  <2> QED
    BY <2>1, <2>2 DEF HeadsAreIds, FreshMerge
<1>4. ASSUME NEW t \in Threads, MergeOne(t) PROVE HeadsAreIds' /\ FreshMerge'
  <2>1. /\ mpc = "merge" /\ mpc' = "merge" /\ Merging' = Merging
        /\ t \in id_list
    BY <1>4 DEF MergeOne, Merging
  <2>2. \/ /\ Unread(t) /\ Len(Merging[t]) > p[t] + 1
           /\ p' = [p EXCEPT ![t] = @ + 2] /\ id_list' = id_list
        \/ id_list' = id_list \ {t} /\ \A u \in Threads \ {t} : p'[u] = p[u]
    BY <1>4, <1>t, Zenon DEF MergeOne
  <2>3. \A u \in id_list : p[u] \in 1..Len(Merging[u]) /\ Merging[u][p[u]].kind = "id"
    BY <2>1 DEF HeadsAreIds
  <2> SUFFICES ASSUME NEW u \in id_list'
               PROVE  p'[u] \in 1..Len(Merging[u]) /\ Merging[u][p'[u]].kind = "id"
    BY <2>1 DEF HeadsAreIds, FreshMerge
  <2>4. CASE u # t
    BY <1>t, <2>2, <2>3, <2>4
  <2>5. CASE u = t
    <3>1. Len(Merging[t]) > p[t] + 1 /\ p'[t] = p[t] + 2
      BY <1>t, <2>2, <2>5
    <3>2. p[t] \in Nat /\ p[t] \in 1..Len(Merging[t]) /\ Merging[t][p[t]].kind = "id"
      BY <1>t, <2>1, <2>3
    <3>3. p[t] + 1 \in 1..Len(Merging[t]) /\ p[t] + 2 \in 1..Len(Merging[t])
      BY <1>m, <3>1, <3>2
    <3>4. Merging[t][p[t]].kind # Merging[t][p[t] + 1].kind
      <4>1. p[t] < Len(Merging[t])
        BY <1>m, <3>1, <3>2
      <4> QED
        BY <1>m, <3>2, <4>1 DEF Alternating
    <3>5. Merging[t][p[t] + 1].kind # Merging[t][p[t] + 1 + 1].kind
      BY <1>m, <3>1, <3>2, <3>3 DEF Alternating
    <3>6. p[t] + 1 + 1 = p[t] + 2
      BY <3>2
    <3>7. Merging[t][p[t] + 1] \in Entry /\ Merging[t][p[t] + 2] \in Entry
      BY <1>m, <3>3
    <3>8. Merging[t][p[t] + 2].kind = "id"
      BY <3>2, <3>4, <3>5, <3>6, <3>7 DEF Entry
    <3> QED
      BY <2>5, <3>1, <3>3, <3>8
  <2> QED
    BY <2>4, <2>5
<1>5. CASE Flush
  BY <1>5 DEF Flush, HeadsAreIds, FreshMerge
<1>6. CASE Undefined \/ UNCHANGED vars
  <2>1. UNCHANGED <<repl_, repl_pos_, mpc, p, id_list>>
    BY <1>6 DEF Undefined, vars, mergeVars
  <2> QED
    BY <2>1 DEF HeadsAreIds, FreshMerge, Merging
<1> QED
  BY <1>1, <1>2, <1>3, <1>4, <1>5, <1>6 DEF Next, Merge

(* A step of the merge leaves the slots alone and only reads on.           *)
LEMMA MergeMonotone ==
  ASSUME TypeOK, FreshMerge, Scan \/ (\E t \in Threads : MergeOne(t))
  PROVE  /\ UNCHANGED <<repl_, repl_pos_, fed, aof_file_, straddled>>
         /\ Merging' = Merging
         /\ Merged
         /\ \A u \in Threads : p[u] \in Nat /\ p'[u] \in Nat /\ p[u] <= p'[u]
<1>1. /\ UNCHANGED <<repl_, repl_pos_, fed, aof_file_, straddled>>
      /\ Merged
  BY DEF Scan, MergeOne, Merged, feedVars
<1>2. Merging' = Merging
  BY <1>1 DEF Merging
<1>3. p \in [Threads -> Nat]
  BY DEF TypeOK
<1>4. CASE Scan
  <2>1. p' = [t \in Threads |-> IF t \in id_list' THEN 1 ELSE 0]
    BY <1>4 DEF Scan
  <2>2. \A u \in Threads : p[u] = 0
    BY <1>4 DEF Scan, FreshMerge
  <2> QED
    BY <1>1, <1>2, <2>1, <2>2
<1>5. ASSUME NEW t \in Threads, MergeOne(t)
      PROVE  \A u \in Threads : p[u] \in Nat /\ p'[u] \in Nat /\ p[u] <= p'[u]
  <2>1. \/ p' = [p EXCEPT ![t] = @ + 2]
        \/ p' = [p EXCEPT ![t] = @ + 1]
        \/ p' = p
    BY <1>5, Zenon DEF MergeOne
  <2>2. CASE p' = [p EXCEPT ![t] = @ + 2]
    BY <1>3, <2>2
  <2>3. CASE p' = [p EXCEPT ![t] = @ + 1]
    BY <1>3, <2>3
  <2> QED
    BY <1>3, <2>1, <2>2, <2>3
<1> QED
  BY <1>1, <1>2, <1>4, <1>5

(* A feed keeps two slots of a thread in order: an entry that the second   *)
(* gains is the newest, and when the first gains one the second holds late *)
(* packs only.                                                             *)
LEMMA FeedInOrder ==
  ASSUME TypeOK, Slots, NEW t \in Threads, Feed(t), NEW u \in Threads,
         NEW b \in Buffers, NEW d \in Buffers, b # d, NEW q \in Nat,
         InOrder(u, repl_[b][u], q, repl_[d][u]),
         pc[u] # "idle" /\ repl[u] = b => Late(u, repl_[d][u])
  PROVE  InOrder(u, repl_'[b][u], q, repl_'[d][u])
<1> DEFINE a == repl_[b][u]
           c == repl_[d][u]
           a1 == repl_'[b][u]
           c1 == repl_'[d][u]
<1>1. /\ SlotOf(a, fed[u]) /\ SlotOf(c, fed[u])
      /\ \A k \in 1..Len(a) : \A l \in 1..Len(c) :
           k > q /\ a[k].kind = "pack" /\ c[l].kind = "pack" => Before(u, a[k].val, c[l].val)
  BY DEF Slots, InOrder
<1>2. /\ Len(a) \in Nat /\ Len(a1) \in Nat
      /\ \A k \in 1..Len(a) : a1[k] = a[k]
      /\ \A k \in 1..Len(a1) :
           k > Len(a) => /\ pc[u] # "idle" /\ repl[u] = b
                         /\ a1[k].kind = "pack" => a1[k].val = fed[u] + 1
  BY FeedEffect
<1>3. /\ Len(c) \in Nat /\ Len(c1) \in Nat
      /\ \A k \in 1..Len(c) : c1[k] = c[k]
      /\ \A k \in 1..Len(c1) :
           k > Len(c) => /\ pc[u] # "idle" /\ repl[u] = d
                         /\ c1[k].kind = "pack" => c1[k].val = fed[u] + 1
      /\ fed[u] \in Nat
      /\ straddled' = straddled
  BY FeedEffect DEF mergeVars
<1>4. pc[u] # "idle" /\ repl[u] = b =>
        \A k \in 1..Len(c) : c[k].kind = "pack" => <<u, c[k].val>> \in straddled
  BY DEF Late
<1> HIDE DEF a, c, a1, c1
<1>5. ASSUME NEW i \in 1..Len(a1), NEW j \in 1..Len(c1), i > q,
             a1[i].kind = "pack", c1[j].kind = "pack"
      PROVE  Before(u, a1[i].val, c1[j].val)
  <2>1. CASE i > Len(a)
    <3>1. pc[u] # "idle" /\ repl[u] = b /\ a1[i].val = fed[u] + 1
      BY <1>2, <1>5, <2>1
    <3>2. j \in 1..Len(c)
      BY <1>3, <1>5, <3>1
    <3>3. c1[j] = c[j] /\ c[j].kind = "pack"
      BY <1>3, <1>5, <3>2
    <3>4. c[j].val \in 1..fed[u] /\ <<u, c[j].val>> \in straddled
      BY <1>1, <1>4, <3>1, <3>2, <3>3 DEF SlotOf
    <3>5. a1[i].val # c1[j].val
      BY <1>3, <3>1, <3>3, <3>4
    <3> QED
      BY <3>3, <3>4, <3>5 DEF Before
  <2>2. CASE i \in 1..Len(a) /\ j > Len(c)
    <3>1. c1[j].val = fed[u] + 1
      BY <1>3, <1>5, <2>2
    <3>2. a1[i] = a[i] /\ a[i].kind = "pack"
      BY <1>2, <1>5, <2>2
    <3>3. a[i].val \in 1..fed[u]
      BY <1>1, <2>2, <3>2 DEF SlotOf
    <3> QED
      BY <1>3, <3>1, <3>2, <3>3 DEF Before
  <2>3. CASE i \in 1..Len(a) /\ j \in 1..Len(c)
    <3>1. a1[i] = a[i] /\ c1[j] = c[j]
      BY <1>2, <1>3, <2>3
    <3> QED
      BY <1>1, <1>5, <2>3, <3>1
  <2>4. i > Len(a) \/ i \in 1..Len(a)
    BY <1>2
  <2>5. j > Len(c) \/ j \in 1..Len(c)
    BY <1>3
  <2> QED
    BY <2>1, <2>2, <2>3, <2>4, <2>5
<1> QED
  BY <1>5 DEF InOrder, a1, c1

LEMMA BuffersStep ==
  TypeOK /\ Slots /\ LateFeed /\ FreshMerge /\ BuffersInOrder /\ [Next]_vars
    => BuffersInOrder'
<1> SUFFICES ASSUME TypeOK, Slots, LateFeed, FreshMerge, BuffersInOrder, [Next]_vars
             PROVE  BuffersInOrder'
  OBVIOUS
<1>t. /\ repl_pos_ \in Buffers /\ 1 - repl_pos_ \in Buffers /\ 1 - repl_pos_ # repl_pos_
      /\ repl_ \in [Buffers -> [Threads -> Seq(Entry)]]
      /\ p \in [Threads -> Nat]
  BY DEF TypeOK, Buffers
<1>1. ASSUME NEW t \in Threads, Feed(t) PROVE BuffersInOrder'
  <2>1. UNCHANGED <<repl_pos_, mpc, p, straddled>>
    BY <1>1, <1>t, FeedEffect DEF mergeVars
  <2>2. ASSUME Merged, NEW u \in Threads PROVE InOrder(u, Merging[u], p[u], Current[u])'
    <3>1. InOrder(u, repl_[1 - repl_pos_][u], p[u], repl_[repl_pos_][u])
      BY <2>2 DEF BuffersInOrder, Merging, Current
    <3>2. pc[u] # "idle" /\ repl[u] = 1 - repl_pos_ => Late(u, repl_[repl_pos_][u])
      BY <1>t DEF LateFeed, Current
    <3>3. PICK q : q = p[u]
      OBVIOUS
    <3>4. InOrder(u, repl_'[1 - repl_pos_][u], q, repl_'[repl_pos_][u])
      BY <1>1, <1>t, <3>3, <3>1, <3>2, FeedInOrder
    <3>5. /\ Merging'[u] = repl_'[1 - repl_pos_][u] /\ Current'[u] = repl_'[repl_pos_][u]
          /\ p'[u] = q
      BY <2>1, <3>3 DEF Merging, Current
    <3> QED
      BY <2>1, <3>4, <3>5 DEF InOrder, Before
  <2>3. ASSUME mpc = "clear", NEW u \in Threads PROVE InOrder(u, Current[u], 0, Merging[u])'
    <3>1. InOrder(u, repl_[repl_pos_][u], 0, repl_[1 - repl_pos_][u])
      BY <2>3 DEF BuffersInOrder, Merging, Current
    <3>2. Late(u, repl_[1 - repl_pos_][u])
      BY <2>3 DEF LateFeed, Merging
    <3>3. InOrder(u, repl_'[repl_pos_][u], 0, repl_'[1 - repl_pos_][u])
      BY <1>1, <1>t, <3>1, <3>2, FeedInOrder
    <3>4. Merging'[u] = repl_'[1 - repl_pos_][u] /\ Current'[u] = repl_'[repl_pos_][u]
      BY <2>1 DEF Merging, Current
    <3> QED
      BY <2>1, <3>3, <3>4 DEF InOrder, Before
  <2> QED
    BY <2>1, <2>2, <2>3 DEF BuffersInOrder, Merged
<1>2. CASE Clear
  <2>1. \A t \in Threads : Merging'[t] = <<>>
    BY <1>2, <1>t DEF Clear, ClearSlots, EmptySlots, Merging
  <2>2. mpc' = "clear"
    BY <1>2 DEF Clear
  <2> QED
    BY <2>1, <2>2 DEF BuffersInOrder, InOrder, Merged
<1>3. CASE Store
  <2>1. /\ Current' = Merging /\ Merging' = Current
        /\ mpc = "clear" /\ mpc' = "scan" /\ p' = p
    BY <1>3, <1>t DEF Store, NextPos, Current, Merging, Buffers
  <2>2. straddled \subseteq straddled'
    BY StraddledGrows
  <2>3. ASSUME NEW u \in Threads PROVE InOrder(u, Merging[u], p[u], Current[u])'
    <3>1. p'[u] = 0
      BY <2>1 DEF FreshMerge
    <3>2. InOrder(u, Current[u], 0, Merging[u])
      BY <2>1 DEF BuffersInOrder
    <3> QED
      BY <2>1, <2>2, <3>1, <3>2 DEF InOrder, Before
  <2> QED
    BY <2>1, <2>3 DEF BuffersInOrder
<1>4. CASE Scan \/ (\E t \in Threads : MergeOne(t))
  <2>1. /\ UNCHANGED <<repl_, repl_pos_, straddled>> /\ Merging' = Merging /\ Merged
        /\ \A u \in Threads : p[u] \in Nat /\ p'[u] \in Nat /\ p[u] <= p'[u]
    BY <1>4, MergeMonotone
  <2>2. mpc' # "clear" /\ Current' = Current
    BY <1>4, <2>1 DEF Scan, MergeOne, Current
  <2>3. ASSUME NEW u \in Threads PROVE InOrder(u, Merging[u], p[u], Current[u])'
    <3>1. InOrder(u, Merging[u], p[u], Current[u])
      BY <2>1 DEF BuffersInOrder
    <3>2. \A i \in 1..Len(Merging[u]) : i > p'[u] => i > p[u]
      BY <2>1
    <3> QED
      BY <2>1, <2>2, <3>1, <3>2 DEF InOrder, Before
  <2> QED
    BY <2>2, <2>3 DEF BuffersInOrder
<1>5. CASE Flush \/ Race
  BY <1>5 DEF Flush, Race, BuffersInOrder, Merged
<1>6. CASE Undefined \/ UNCHANGED vars
  <2>1. UNCHANGED <<repl_, repl_pos_, mpc, p, straddled>>
    BY <1>6 DEF Undefined, vars, mergeVars
  <2> QED
    BY <2>1 DEF BuffersInOrder, InOrder, Before, Merged, Merging, Current
<1> QED
  BY <1>1, <1>2, <1>3, <1>4, <1>5, <1>6 DEF Next, Merge

-----------------------------------------------------------------------------
(* A logged command stays before everything the merge has still to read.   *)
LEMMA SettledStep ==
  ASSUME IInv, [Next]_vars, NEW u \in Threads, NEW n \in Nat, Settled(u, n)
  PROVE  Settled(u, n)'
<1>t. /\ TypeOK /\ Slots /\ FreshMerge
  BY DEF IInv
<1>u. /\ repl_pos_ \in Buffers /\ 1 - repl_pos_ \in Buffers
      /\ repl_ \in [Buffers -> [Threads -> Seq(Entry)]]
      /\ fed \in [Threads -> Nat]
  BY <1>t DEF TypeOK, Buffers
<1>1. ASSUME NEW t \in Threads, Feed(t) PROVE Settled(u, n)'
  <2>1. UNCHANGED <<repl_pos_, mpc, p, straddled>>
    BY <1>1, <1>t, <1>u, FeedEffect DEF mergeVars
  <2>2. fed[u] \in Nat /\ fed'[u] \in Nat /\ fed[u] <= fed'[u]
    BY <1>1, <1>t, <1>u, FeedEffect
  <2>3. n \in 1..fed[u] /\ n \in 1..fed'[u]
    BY <2>2 DEF Settled
  <2>4. ASSUME NEW b \in Buffers, NEW q \in Nat,
               \A j \in 1..Len(repl_[b][u]) :
                 j > q /\ repl_[b][u][j].kind = "pack" => Before(u, n, repl_[b][u][j].val)
        PROVE  \A j \in 1..Len(repl_'[b][u]) :
                 j > q /\ repl_'[b][u][j].kind = "pack" => Before(u, n, repl_'[b][u][j].val)
    <3> DEFINE a == repl_[b][u]
               a1 == repl_'[b][u]
    <3>1. /\ Len(a) \in Nat /\ Len(a1) \in Nat
          /\ \A k \in 1..Len(a) : a1[k] = a[k]
          /\ \A k \in 1..Len(a1) :
               k > Len(a) /\ a1[k].kind = "pack" => a1[k].val = fed[u] + 1
      BY <1>1, <1>t, FeedEffect
    <3>2. \A j \in 1..Len(a) : j > q /\ a[j].kind = "pack" => Before(u, n, a[j].val)
      BY <2>4
    <3> HIDE DEF a, a1
    <3>3. \A j \in 1..Len(a1) : j > q /\ a1[j].kind = "pack" => Before(u, n, a1[j].val)
      <4> SUFFICES ASSUME NEW j \in 1..Len(a1), j > q, a1[j].kind = "pack"
                   PROVE  Before(u, n, a1[j].val)
        OBVIOUS
      <4>1. CASE j \in 1..Len(a)
        BY <3>1, <3>2, <4>1
      <4>2. CASE j > Len(a)
        BY <2>2, <2>3, <3>1, <4>2 DEF Before
      <4> QED
        BY <3>1, <4>1, <4>2
    <3> QED
      BY <3>3 DEF a1
  <2>5. \A j \in 1..Len(Current'[u]) :
          Current'[u][j].kind = "pack" => Before(u, n, Current'[u][j].val)
    <3>1. Current[u] = repl_[repl_pos_][u] /\ Current'[u] = repl_'[repl_pos_][u]
      BY <2>1 DEF Current
    <3>2. \A j \in 1..Len(repl_[repl_pos_][u]) :
            j > 0 /\ repl_[repl_pos_][u][j].kind = "pack"
              => Before(u, n, repl_[repl_pos_][u][j].val)
      BY <3>1 DEF Settled
    <3>3. \A j \in 1..Len(repl_'[repl_pos_][u]) :
            j > 0 /\ repl_'[repl_pos_][u][j].kind = "pack"
              => Before(u, n, repl_'[repl_pos_][u][j].val)
      BY <1>u, <2>4, <3>2
    <3> QED
      BY <3>1, <3>3
  <2>6. Awaited => \A j \in 1..Len(Merging'[u]) :
          j > p[u] /\ Merging'[u][j].kind = "pack" => Before(u, n, Merging'[u][j].val)
    <3>1. p[u] \in Nat
      BY <1>t DEF TypeOK
    <3>2. Merging[u] = repl_[1 - repl_pos_][u] /\ Merging'[u] = repl_'[1 - repl_pos_][u]
      BY <2>1 DEF Merging
    <3> QED
      BY <1>u, <2>4, <3>1, <3>2 DEF Settled
  <2> QED
    BY <2>1, <2>3, <2>5, <2>6 DEF Settled, Awaited, Merged, Before
<1>2. CASE Clear
  <2>1. Merging'[u] = <<>> /\ Current' = Current /\ fed' = fed /\ straddled' = straddled
    BY <1>2, <1>u DEF Clear, ClearSlots, EmptySlots, Buffers, Merging, Current, feedVars
  <2> QED
    BY <2>1 DEF Settled, Before
<1>3. CASE Store
  <2>1. /\ Current' = Merging /\ Merging' = Current
        /\ mpc = "clear" /\ p' = p /\ fed' = fed
    BY <1>3, <1>u DEF Store, NextPos, Current, Merging, Buffers, feedVars
  <2>2. straddled \subseteq straddled' /\ p[u] = 0
    BY <1>t, <2>1, StraddledGrows DEF FreshMerge
  <2> QED
    BY <2>1, <2>2 DEF Settled, Awaited, Before
<1>4. CASE Scan \/ (\E t \in Threads : MergeOne(t))
  <2>1. /\ UNCHANGED <<repl_, repl_pos_, fed, straddled>> /\ Merging' = Merging /\ Merged
        /\ p[u] \in Nat /\ p'[u] \in Nat /\ p[u] <= p'[u]
    BY <1>4, <1>t, MergeMonotone
  <2>2. \A j \in 1..Len(Merging[u]) :
          j > p'[u] /\ Merging[u][j].kind = "pack" => Before(u, n, Merging[u][j].val)
    BY <2>1 DEF Settled, Awaited
  <2> QED
    BY <2>1, <2>2 DEF Settled, Before, Current
<1>5. CASE Flush \/ Race
  <2>1. UNCHANGED <<repl_, repl_pos_, fed, straddled>> /\ ~Awaited'
    BY <1>5 DEF Flush, Race, Awaited, Merged, feedVars
  <2> QED
    BY <2>1 DEF Settled, Before, Current
<1>6. CASE Undefined \/ UNCHANGED vars
  <2>1. UNCHANGED <<repl_, repl_pos_, mpc, p, fed, straddled>>
    BY <1>6 DEF Undefined, vars, mergeVars, feedVars
  <2> QED
    BY <2>1 DEF Settled, Before, Awaited, Merged, Merging, Current
<1> QED
  BY <1>1, <1>2, <1>3, <1>4, <1>5, <1>6 DEF Next, Merge

LEMMA LogSettledStep ==
  ASSUME IInv, [Next]_vars, NEW s \in Seq(Logged), LogSettled(s)
  PROVE  \A i \in 1..Len(s) : Settled(s[i].tid, s[i].seq)'
<1> SUFFICES ASSUME NEW i \in 1..Len(s) PROVE Settled(s[i].tid, s[i].seq)'
  OBVIOUS
<1>1. s[i] \in Logged
  OBVIOUS
<1>2. s[i].tid \in Threads /\ s[i].seq \in Nat
  BY <1>1 DEF Logged
<1>3. Settled(s[i].tid, s[i].seq)
  BY DEF LogSettled
<1> QED
  BY <1>2, <1>3, SettledStep

(* The pack the merge takes next: it was fed, everything logged comes      *)
(* before it, and everything it leaves unread comes after it.              *)
LEMMA MergeTakes ==
  ASSUME IInv, NEW t \in Threads, MergeOne(t), Unread(t),
         NEW v, v = Merging[t][p[t] + 1].val
  PROVE  /\ v \in Nat
         /\ Settled(t, v)'
         /\ \A n \in Nat : Settled(t, n) => Before(t, n, v)
<1>t. /\ TypeOK /\ Slots /\ HeadsAreIds /\ FreshMerge /\ BuffersInOrder
  BY DEF IInv
<1>u. /\ repl_pos_ \in Buffers /\ 1 - repl_pos_ \in Buffers
      /\ repl_ \in [Buffers -> [Threads -> Seq(Entry)]]
      /\ fed \in [Threads -> Nat] /\ p \in [Threads -> Nat]
  BY <1>t DEF TypeOK, Buffers
<1>1. /\ UNCHANGED <<repl_, repl_pos_, fed, straddled>> /\ Merging' = Merging /\ Merged
  BY <1>t, MergeMonotone
<1>2. /\ Merging[t] \in Seq(Entry) /\ Len(Merging[t]) \in Nat
      /\ SlotOf(Merging[t], fed[t]) /\ SlotOrdered(Merging[t]) /\ Alternating(Merging[t])
  BY <1>t, <1>u DEF Slots, Merging
<1>3. p[t] \in 1..Len(Merging[t]) /\ Merging[t][p[t]].kind = "id" /\ p[t] < Len(Merging[t])
  BY <1>t, <1>u DEF HeadsAreIds, MergeOne, Unread
<1>4. p[t] \in Nat /\ p[t] + 1 \in 1..Len(Merging[t]) /\ p[t] + 1 > p[t]
  BY <1>2, <1>3
<1>5. Merging[t][p[t] + 1].kind = "pack"
  <2>1. Merging[t][p[t]].kind # Merging[t][p[t] + 1].kind
    BY <1>2, <1>3 DEF Alternating
  <2>2. Merging[t][p[t] + 1] \in Entry
    BY <1>2, <1>4
  <2> QED
    BY <1>3, <2>1, <2>2 DEF Entry
<1>6. v \in 1..fed[t] /\ fed[t] \in Nat /\ v \in Nat
  BY <1>2, <1>4, <1>5, <1>u DEF SlotOf
<1>7. p'[t] \in Nat /\ p'[t] >= p[t] + 1
  <2>1. p' = [p EXCEPT ![t] = @ + 2] \/ p' = [p EXCEPT ![t] = @ + 1]
    BY Zenon DEF MergeOne
  <2>2. CASE p' = [p EXCEPT ![t] = @ + 2]
    BY <1>u, <2>2
  <2>3. CASE p' = [p EXCEPT ![t] = @ + 1]
    BY <1>u, <2>3
  <2> QED
    BY <2>1, <2>2, <2>3
<1>8. \A j \in 1..Len(Current[t]) :
        Current[t][j].kind = "pack" => Before(t, v, Current[t][j].val)
  BY <1>1, <1>4, <1>5, <1>t DEF BuffersInOrder, InOrder
<1>9. \A j \in 1..Len(Merging[t]) :
        j > p'[t] /\ Merging[t][j].kind = "pack" => Before(t, v, Merging[t][j].val)
  <2> SUFFICES ASSUME NEW j \in 1..Len(Merging[t]), j > p'[t], Merging[t][j].kind = "pack"
               PROVE  Before(t, v, Merging[t][j].val)
    OBVIOUS
  <2>1. p[t] + 1 < j
    BY <1>4, <1>7
  <2> QED
    BY <1>2, <1>4, <1>5, <2>1 DEF SlotOrdered, Before
<1>10. Settled(t, v)'
  BY <1>1, <1>6, <1>8, <1>9 DEF Settled, Before, Current
<1>11. ASSUME NEW n \in Nat, Settled(t, n) PROVE Before(t, n, v)
  BY <1>1, <1>4, <1>5, <1>11 DEF Settled, Awaited
<1> QED
  BY <1>6, <1>10, <1>11

(* Appending a record that comes after all records of its thread, and      *)
(* joining two logs of which the first comes before the second.            *)
LEMMA OrderedAppend ==
  ASSUME NEW s \in Seq(Logged), NEW e \in Logged, Ordered(s),
         \A i \in 1..Len(s) : s[i].tid = e.tid => Before(s[i].tid, s[i].seq, e.seq)
  PROVE  Ordered(Append(s, e))
<1> DEFINE x == Append(s, e)
<1>1. /\ Len(s) \in Nat /\ Len(x) = Len(s) + 1
      /\ \A i \in 1..Len(s) : x[i] = s[i]
      /\ x[Len(s) + 1] = e
  OBVIOUS
<1> HIDE DEF x
<1> SUFFICES ASSUME NEW i \in 1..Len(x), NEW j \in 1..Len(x), i < j, x[i].tid = x[j].tid
             PROVE  Before(x[i].tid, x[i].seq, x[j].seq)
  BY DEF Ordered, x
<1>2. i \in 1..Len(s)
  BY <1>1
<1>3. CASE j = Len(s) + 1
  BY <1>1, <1>2, <1>3
<1>4. CASE j \in 1..Len(s)
  BY <1>1, <1>2, <1>4 DEF Ordered
<1> QED
  BY <1>1, <1>3, <1>4

LEMMA OrderedConcat ==
  ASSUME NEW s \in Seq(Logged), NEW r \in Seq(Logged), Ordered(s), Ordered(r),
         \A i \in 1..Len(s) : \A j \in 1..Len(r) :
           s[i].tid = r[j].tid => Before(s[i].tid, s[i].seq, r[j].seq)
  PROVE  Ordered(s \o r)
<1> DEFINE x == s \o r
<1>1. /\ Len(s) \in Nat /\ Len(r) \in Nat /\ Len(x) = Len(s) + Len(r)
      /\ \A i \in 1..Len(s) : x[i] = s[i]
      /\ \A i \in 1..Len(x) : i > Len(s) => x[i] = r[i - Len(s)]
  OBVIOUS
<1> HIDE DEF x
<1> SUFFICES ASSUME NEW i \in 1..Len(x), NEW j \in 1..Len(x), i < j, x[i].tid = x[j].tid
             PROVE  Before(x[i].tid, x[i].seq, x[j].seq)
  BY DEF Ordered, x
<1>2. CASE j \in 1..Len(s)
  BY <1>1, <1>2 DEF Ordered
<1>3. CASE i \in 1..Len(s) /\ j > Len(s)
  <2>1. x[i] = s[i] /\ x[j] = r[j - Len(s)] /\ j - Len(s) \in 1..Len(r)
    BY <1>1, <1>3
  <2> QED
    BY <1>3, <2>1
<1>4. CASE i > Len(s)
  <2>1. /\ x[i] = r[i - Len(s)] /\ x[j] = r[j - Len(s)]
        /\ i - Len(s) \in 1..Len(r) /\ j - Len(s) \in 1..Len(r)
        /\ i - Len(s) < j - Len(s)
    BY <1>1, <1>4
  <2> QED
    BY <2>1 DEF Ordered
<1> QED
  BY <1>1, <1>2, <1>3, <1>4

LEMMA LogsStep == IInv /\ [Next]_vars => Logs'
<1> SUFFICES ASSUME IInv, [Next]_vars PROVE Logs'
  OBVIOUS
<1>t. /\ aof_file_ \in Seq(Logged) /\ back_log_ \in Seq(Logged)
      /\ Logs /\ HeadsAreIds /\ TypeOK
  BY DEF IInv, TypeOK
<1>c. PICK A : A = aof_file_
  OBVIOUS
<1>d. PICK B : B = back_log_
  OBVIOUS
<1>a. \A i \in 1..Len(A) : Settled(A[i].tid, A[i].seq)'
  <2>1. A \in Seq(Logged) /\ LogSettled(A)
    BY <1>c, <1>t DEF Logs
  <2> QED
    BY <2>1, LogSettledStep
<1>b. \A i \in 1..Len(B) : Settled(B[i].tid, B[i].seq)'
  <2>1. B \in Seq(Logged) /\ LogSettled(B)
    BY <1>d, <1>t DEF Logs
  <2> QED
    BY <2>1, LogSettledStep
<1>s. straddled \subseteq straddled'
  BY StraddledGrows
<1>1. CASE UNCHANGED <<aof_file_, back_log_>>
  <2>1. LogSettled(aof_file_)' /\ LogSettled(back_log_)'
    <3>1. aof_file_' = A /\ back_log_' = B
      BY <1>1, <1>c, <1>d
    <3> QED
      BY <1>a, <1>b, <3>1 DEF LogSettled
  <2> QED
    BY <1>1, <1>s, <1>t, <2>1 DEF Logs, LogBeforeBackLog, Ordered, Before
<1>2. ASSUME NEW t \in Threads, MergeOne(t), Unread(t) PROVE Logs'
  <2>v. PICK v : v = Merging[t][p[t] + 1].val
    OBVIOUS
  <2>h. PICK h : h = HeadId(t)
    OBVIOUS
  <2> DEFINE e == [tid |-> t, seq |-> v, id |-> h]
  <2>1. back_log_' = Append(back_log_, e) /\ aof_file_' = aof_file_
    BY <1>2, <2>v, <2>h DEF MergeOne
  <2>2. /\ v \in Nat
        /\ Settled(t, v)'
        /\ \A n \in Nat : Settled(t, n) => Before(t, n, v)
    BY <1>2, <2>v, MergeTakes
  <2>3. e.tid = t /\ e.seq = v
    OBVIOUS
  <2>4. e \in Logged
    <3>1. HeadId(t) \in Nat
      <4>1. Merging[t] \in Seq(Entry)
        BY <1>t DEF TypeOK, Merging
      <4>2. Merging[t][p[t]] \in Entry
        BY <1>2, <1>t, <4>1 DEF MergeOne, HeadsAreIds
      <4> QED
        BY <4>2 DEF HeadId, Entry
    <3> QED
      BY <2>2, <2>h, <3>1 DEF Logged
  <2> HIDE DEF e
  <2>5. ASSUME NEW s \in Seq(Logged), LogSettled(s)
        PROVE  \A i \in 1..Len(s) : s[i].tid = e.tid => Before(s[i].tid, s[i].seq, e.seq)
    <3> SUFFICES ASSUME NEW i \in 1..Len(s), s[i].tid = e.tid
                 PROVE  Before(s[i].tid, s[i].seq, e.seq)
      OBVIOUS
    <3>1. s[i] \in Logged
      OBVIOUS
    <3>2. s[i].seq \in Nat
      BY <3>1 DEF Logged
    <3>3. Settled(t, s[i].seq)
      BY <2>3, <2>5 DEF LogSettled
    <3> QED
      BY <2>2, <2>3, <3>2, <3>3
  <2>6. /\ \A i \in 1..Len(aof_file_) :
             aof_file_[i].tid = e.tid => Before(aof_file_[i].tid, aof_file_[i].seq, e.seq)
        /\ \A i \in 1..Len(back_log_) :
             back_log_[i].tid = e.tid => Before(back_log_[i].tid, back_log_[i].seq, e.seq)
    BY <1>t, <2>5 DEF Logs
  <2>7. /\ Len(back_log_') = Len(back_log_) + 1 /\ Len(back_log_) \in Nat
        /\ \A i \in 1..Len(back_log_) : back_log_'[i] = back_log_[i]
        /\ back_log_'[Len(back_log_) + 1] = e
    BY <1>t, <2>1, <2>4
  <2>8. \A i \in 1..Len(back_log_') : i = Len(back_log_) + 1 \/ i \in 1..Len(back_log_)
    BY <2>7
  <2>9. LogSettled(aof_file_)'
    <3>1. aof_file_' = A
      BY <1>c, <2>1
    <3> QED
      BY <1>a, <3>1 DEF LogSettled
  <2>10. LogSettled(back_log_)'
    <3>1. PICK C : C = back_log_'
      OBVIOUS
    <3>2. \A i \in 1..Len(C) : Settled(C[i].tid, C[i].seq)'
      <4> SUFFICES ASSUME NEW i \in 1..Len(C) PROVE Settled(C[i].tid, C[i].seq)'
        OBVIOUS
      <4>1. CASE i = Len(B) + 1
        <5>1. C[i] = e
          BY <1>d, <2>7, <3>1, <4>1
        <5> QED
          BY <2>2, <2>3, <5>1
      <4>2. CASE i \in 1..Len(B)
        <5>1. C[i] = B[i]
          BY <1>d, <2>7, <3>1, <4>2
        <5> QED
          BY <1>b, <4>2, <5>1
      <4> QED
        BY <1>d, <2>8, <3>1, <4>1, <4>2
    <3> QED
      BY <3>1, <3>2 DEF LogSettled
  <2>11. Ordered(aof_file_) /\ Ordered(back_log_')
    BY <1>t, <2>1, <2>4, <2>6, OrderedAppend DEF Logs
  <2>12. LogBeforeBackLog'
    <3> SUFFICES ASSUME NEW i \in 1..Len(aof_file_), NEW j \in 1..Len(back_log_'),
                        aof_file_[i].tid = back_log_'[j].tid
                 PROVE  Before(aof_file_[i].tid, aof_file_[i].seq, back_log_'[j].seq)
      BY <1>s, <2>1 DEF LogBeforeBackLog, Before
    <3>1. CASE j = Len(back_log_) + 1
      BY <2>6, <2>7, <3>1
    <3>2. CASE j \in 1..Len(back_log_)
      BY <1>t, <2>7, <3>2 DEF Logs, LogBeforeBackLog
    <3> QED
      BY <2>8, <3>1, <3>2
  <2> QED
    BY <1>s, <2>1, <2>9, <2>10, <2>11, <2>12 DEF Logs, Ordered, Before
<1>3. CASE Flush
  <2> DEFINE x == A \o B
  <2>1. aof_file_' = x /\ back_log_' = <<>>
    BY <1>3, <1>c, <1>d DEF Flush
  <2>2. Ordered(x)
    BY <1>c, <1>d, <1>t, OrderedConcat DEF Logs, LogBeforeBackLog
  <2>3. /\ \A i \in 1..Len(A) : x[i] = A[i]
        /\ \A i \in 1..Len(x) : \/ i \in 1..Len(A)
                                \/ i - Len(A) \in 1..Len(B) /\ x[i] = B[i - Len(A)]
    <3>1. A \in Seq(Logged) /\ B \in Seq(Logged)
      BY <1>c, <1>d, <1>t
    <3>2. /\ Len(A) \in Nat /\ Len(B) \in Nat /\ Len(x) = Len(A) + Len(B)
          /\ \A i \in 1..Len(A) : x[i] = A[i]
          /\ \A i \in 1..Len(x) : i > Len(A) => x[i] = B[i - Len(A)]
      BY <3>1
    <3> HIDE DEF x
    <3>3. ASSUME NEW i \in 1..Len(x), i \notin 1..Len(A)
          PROVE  i - Len(A) \in 1..Len(B) /\ x[i] = B[i - Len(A)]
      <4>1. i > Len(A) /\ i - Len(A) \in 1..Len(B)
        BY <3>2, <3>3
      <4> QED
        BY <3>2, <4>1
    <3>4. \A i \in 1..Len(x) : \/ i \in 1..Len(A)
                               \/ i - Len(A) \in 1..Len(B) /\ x[i] = B[i - Len(A)]
      BY <3>3, Zenon
    <3> QED
      BY <3>2, <3>4, Zenon
  <2> HIDE DEF x
  <2>4. LogSettled(aof_file_)'
    <3>1. \A i \in 1..Len(x) : Settled(x[i].tid, x[i].seq)'
      <4> SUFFICES ASSUME NEW i \in 1..Len(x) PROVE Settled(x[i].tid, x[i].seq)'
        OBVIOUS
      <4>1. CASE i \in 1..Len(A)
        <5>1. x[i] = A[i]
          BY <2>3, <4>1
        <5> QED
          BY <1>a, <4>1, <5>1
      <4>2. CASE i - Len(A) \in 1..Len(B) /\ x[i] = B[i - Len(A)]
        BY <1>b, <4>2
      <4> QED
        BY <2>3, <4>1, <4>2
    <3> QED
      BY <2>1, <3>1 DEF LogSettled
  <2>5. LogSettled(back_log_)' /\ Ordered(back_log_') /\ LogBeforeBackLog'
    BY <2>1 DEF LogSettled, Ordered, LogBeforeBackLog
  <2> QED
    BY <1>s, <2>1, <2>2, <2>4, <2>5 DEF Logs, Ordered, Before
<1>4. ASSUME NEW t \in Threads, Feed(t) PROVE UNCHANGED <<aof_file_, back_log_>>
  BY <1>4 DEF Feed, LoadPos, LoadId, IncrId, PutId, PutPack, mergeVars
<1>5. ASSUME NEW t \in Threads, MergeOne(t), ~Unread(t)
      PROVE  UNCHANGED <<aof_file_, back_log_>>
  BY <1>5 DEF MergeOne
<1>6. CASE Clear \/ Store \/ Scan \/ Race \/ Undefined \/ UNCHANGED vars
  BY <1>1, <1>6 DEF Clear, Store, Scan, Race, Undefined, vars, mergeVars
<1> QED
  BY <1>1, <1>2, <1>3, <1>4, <1>5, <1>6 DEF Next, Merge

-----------------------------------------------------------------------------
LEMMA InvInit == Init => IInv
<1> SUFFICES ASSUME Init PROVE IInv
  OBVIOUS
<1>1. TypeOK
  BY TypeInit
<1>2. \A b \in Buffers : \A t \in Threads : repl_[b][t] = <<>>
  BY DEF Init, Buffers
<1>3. Slots
  BY <1>2 DEF Slots, SlotOf, SlotOrdered, Alternating, SlotEnd
<1>4. LateFeed /\ HeadsAreIds /\ FreshMerge /\ BuffersInOrder
  BY DEF Init, LateFeed, HeadsAreIds, FreshMerge, BuffersInOrder, Merged
<1>5. Logs
  BY DEF Init, Logs, LogSettled, Ordered, LogBeforeBackLog
<1> QED
  BY <1>1, <1>3, <1>4, <1>5 DEF IInv

LEMMA InvStep == IInv /\ [Next]_vars => IInv'
  BY TypeStep, SlotsStep, LateFeedStep, HeadsStep, BuffersStep, LogsStep DEF IInv

LEMMA InvAlways == Spec => []IInv
  BY InvInit, InvStep, PTL DEF Spec

(* Every variable keeps its type.                                          *)
THEOREM TypeCorrect == Spec => []TypeOK
<1>1. IInv => TypeOK
  BY DEF IInv
<1> QED
  BY <1>1, InvAlways, PTL

(* Whatever threads feed while the main thread merges, the append-only     *)
(* file holds no command twice, and the commands of each thread in the     *)
(* order they were fed but for late ones.                                  *)
THEOREM AofInOrder == Spec => []AofOrder
<1>1. IInv => AofOrder
  BY DEF IInv, Logs, AofOrder
<1> QED
  BY <1>1, InvAlways, PTL

-----------------------------------------------------------------------------
(* A slot begins with a pack, or is about to, only for a straddled feed.   *)
HeadLate(b, t) ==
  /\ Len(repl_[b][t]) > 0 /\ repl_[b][t][1].kind = "pack" =>
       <<t, repl_[b][t][1].val>> \in straddled
  /\ pc[t] = "putpack" /\ repl[t] = b /\ Len(repl_[b][t]) = 0 =>
       <<t, fed[t] + 1>> \in straddled
HeadsLate == \A b \in Buffers : \A t \in Threads : HeadLate(b, t)

LEMMA HeadsLateStep == IInv /\ HeadsLate /\ [Next]_vars => HeadsLate'
<1> SUFFICES ASSUME IInv, HeadsLate, [Next]_vars,
                    NEW b \in Buffers, NEW u \in Threads
             PROVE  HeadLate(b, u)'
  BY Zenon DEF HeadsLate
<1>t. /\ TypeOK /\ LateFeed
      /\ pc \in [Threads -> {"idle", "load", "incr", "putid", "putpack"}]
      /\ repl \in [Threads -> Buffers]
      /\ command_id \in [Threads -> Nat] /\ fed \in [Threads -> Nat]
      /\ repl_pos_ \in Buffers
      /\ repl_ \in [Buffers -> [Threads -> Seq(Entry)]]
  BY DEF IInv, TypeOK, Buffers
<1>s. straddled \subseteq straddled'
  BY StraddledGrows
<1>h. HeadLate(b, u)
  BY Zenon DEF HeadsLate
<1> USE DEF feedVars, mergeVars
<1>1. CASE UNCHANGED <<repl_, pc, repl, fed>>
  BY <1>1, <1>h, <1>s DEF HeadLate
<1>2. ASSUME NEW t \in Threads, LoadPos(t) \/ LoadId(t) \/ IncrId(t)
      PROVE  HeadLate(b, u)'
  <2>1. /\ repl_' = repl_ /\ fed' = fed
        /\ pc'[u] = "putpack" => pc[u] = "putpack" /\ repl'[u] = repl[u]
    BY <1>2, <1>t DEF LoadPos, LoadId, IncrId
  <2> QED
    BY <1>h, <1>s, <2>1 DEF HeadLate
<1>3. ASSUME NEW t \in Threads, PutId(t) PROVE HeadLate(b, u)'
  <2> DEFINE e == Id(command_id[t])
  <2>1. e \in Entry /\ e.kind = "id"
    BY <1>t, EntryKinds
  <2>2. /\ repl_[b][u] \in Seq(Entry)
        /\ b = repl[t] /\ u = t => repl_'[b][u] = Append(repl_[b][u], e)
        /\ ~(b = repl[t] /\ u = t) => repl_'[b][u] = repl_[b][u]
    BY <1>3, <1>t, <2>1, PutEffect DEF PutId
  <2>3. /\ u # t => pc'[u] = pc[u]
        /\ repl' = repl /\ fed' = fed
    BY <1>3, <1>t DEF PutId
  <2> HIDE DEF e
  <2>4. CASE b = repl[t] /\ u = t
    <3>1. /\ Len(repl_[b][u]) \in Nat
          /\ Len(repl_'[b][u]) = Len(repl_[b][u]) + 1
          /\ \A i \in 1..Len(repl_[b][u]) : repl_'[b][u][i] = repl_[b][u][i]
          /\ repl_'[b][u][Len(repl_[b][u]) + 1] = e
      <4>1. repl_[b][u] \in Seq(Entry) /\ repl_'[b][u] = Append(repl_[b][u], e)
        BY <2>2, <2>4
      <4> QED
        BY <2>1, <4>1, AppendEntry
    <3>2. CASE Len(repl_[b][u]) = 0
      <4>1. Len(repl_'[b][u]) = 1 /\ repl_'[b][u][1] = e
        BY <3>1, <3>2
      <4> QED
        BY <2>1, <4>1 DEF HeadLate
    <3>3. CASE Len(repl_[b][u]) > 0
      BY <1>h, <1>s, <3>1, <3>3, SMTT(30) DEF HeadLate
    <3> QED
      BY <3>1, <3>2, <3>3
  <2>5. CASE ~(b = repl[t] /\ u = t)
    <3>1. repl_'[b][u] = repl_[b][u]
      BY <2>2, <2>5
    <3>2. pc'[u] = "putpack" /\ repl'[u] = b => pc[u] = "putpack"
      BY <2>3, <2>5
    <3> QED
      BY <1>h, <1>s, <2>3, <3>1, <3>2 DEF HeadLate
  <2> QED
    BY <2>4, <2>5
<1>4. ASSUME NEW t \in Threads, PutPack(t) PROVE HeadLate(b, u)'
  <2> DEFINE e == Pack(fed[t] + 1)
  <2>1. e \in Entry /\ e.kind = "pack" /\ e.val = fed[t] + 1
    <3>1. fed[t] + 1 \in Nat
      BY <1>t
    <3> QED
      BY <3>1, EntryKinds
  <2>2. /\ repl_[b][u] \in Seq(Entry)
        /\ b = repl[t] /\ u = t => repl_'[b][u] = Append(repl_[b][u], e)
        /\ ~(b = repl[t] /\ u = t) => repl_'[b][u] = repl_[b][u]
    BY <1>4, <1>t, <2>1, PutEffect DEF PutPack
  <2>3. /\ pc[t] = "putpack" /\ pc'[t] = "idle"
        /\ u # t => pc'[u] = pc[u] /\ repl'[u] = repl[u] /\ fed'[u] = fed[u]
    BY <1>4, <1>t DEF PutPack
  <2> HIDE DEF e
  <2>4. CASE b = repl[t] /\ u = t
    <3>1. /\ Len(repl_[b][u]) \in Nat
          /\ Len(repl_'[b][u]) = Len(repl_[b][u]) + 1
          /\ \A i \in 1..Len(repl_[b][u]) : repl_'[b][u][i] = repl_[b][u][i]
          /\ repl_'[b][u][Len(repl_[b][u]) + 1] = e
      <4>1. repl_[b][u] \in Seq(Entry) /\ repl_'[b][u] = Append(repl_[b][u], e)
        BY <2>2, <2>4
      <4> QED
        BY <2>1, <4>1, AppendEntry
    <3>2. CASE Len(repl_[b][u]) = 0
      BY <1>h, <1>s, <2>1, <2>3, <2>4, <3>1, <3>2 DEF HeadLate
    <3>3. CASE Len(repl_[b][u]) > 0
      <4>1. repl_'[b][u][1] = repl_[b][u][1]
        BY <3>1, <3>3
      <4> QED
        BY <1>h, <1>s, <2>3, <2>4, <3>3, <4>1 DEF HeadLate
    <3> QED
      BY <3>1, <3>2, <3>3
  <2>5. CASE ~(b = repl[t] /\ u = t)
    <3>1. repl_'[b][u] = repl_[b][u]
      BY <2>2, <2>5
    <3>2. pc'[u] = "putpack" => u # t
      BY <2>3
    <3>3. u # t => pc'[u] = pc[u] /\ repl'[u] = repl[u] /\ fed'[u] = fed[u]
      BY <2>3
    <3>4. \/ u = t /\ pc'[u] # "putpack"
          \/ pc'[u] = pc[u] /\ repl'[u] = repl[u] /\ fed'[u] = fed[u]
      BY <3>2, <3>3
    <3> QED
      BY <1>h, <1>s, <3>1, <3>4 DEF HeadLate
  <2> QED
    BY <2>4, <2>5
<1>5. CASE Clear
  <2>1. /\ b = repl_pos_ => repl_'[b][u] = repl_[b][u]
        /\ b # repl_pos_ => repl_'[b][u] = <<>>
        /\ UNCHANGED <<pc, repl, fed>>
    BY <1>5, <1>t DEF Clear, ClearSlots, EmptySlots, Buffers
  <2>2. CASE b = repl_pos_
    BY <1>h, <1>s, <2>1, <2>2 DEF HeadLate
  <2>3. CASE b # repl_pos_
    BY <1>s, <1>t, <2>1, <2>3 DEF HeadLate, LateFeed
  <2> QED
    BY <2>2, <2>3
<1>6. CASE \/ Store \/ Scan \/ (\E t \in Threads : MergeOne(t)) \/ Flush
           \/ Race \/ Undefined \/ UNCHANGED vars
  BY <1>1, <1>6 DEF Store, Scan, MergeOne, Flush, Race, Undefined, vars
<1> QED
  BY <1>2, <1>3, <1>4, <1>5, <1>6 DEF Next, Merge, Feed

(* The id of a command stands in front of its pack in the slot unless the  *)
(* slot was cleared between the two appends, and then the feed straddled a *)
(* store of repl_pos_: the merge of feeds that no store straddled never    *)
(* takes a pack for an id (backlogFeed, _merge_backlog_feed_slaves).       *)
THEOREM PackAligned == Spec => []IdPrecedesPack
<1>1. Init => HeadsLate
  BY DEF Init, HeadsLate, HeadLate, Buffers
<1>2. IInv /\ HeadsLate => IdPrecedesPack
  <2> SUFFICES ASSUME IInv, HeadsLate, NEW b \in Buffers, NEW t \in Threads,
                      NEW i \in 1..Len(repl_[b][t]), repl_[b][t][i].kind = "pack"
               PROVE  \/ i > 1 /\ repl_[b][t][i - 1].kind = "id"
                      \/ <<t, repl_[b][t][i].val>> \in straddled
    BY DEF IdPrecedesPack, Buffers
  <2>1. repl_[b][t] \in Seq(Entry) /\ Alternating(repl_[b][t]) /\ HeadLate(b, t)
    BY DEF IInv, TypeOK, Slots, HeadsLate, Buffers
  <2>2. CASE i = 1
    BY <2>1, <2>2 DEF HeadLate
  <2>3. CASE i > 1
    <3>1. i - 1 \in 1..Len(repl_[b][t]) /\ i - 1 < Len(repl_[b][t]) /\ (i - 1) + 1 = i
      BY <2>1, <2>3
    <3>2. repl_[b][t][i - 1] \in Entry /\ repl_[b][t][i - 1].kind # "pack"
      BY <2>1, <3>1 DEF Alternating
    <3> QED
      BY <2>3, <3>2 DEF Entry
  <2> QED
    BY <2>2, <2>3
<1> QED
  BY <1>1, <1>2, HeadsLateStep, InvAlways, PTL DEF Spec

-----------------------------------------------------------------------------
(* Command n of thread t is where the merge finds it, or straddled.        *)
Kept(t, n) ==
  \/ <<t, n>> \in straddled
  \/ InLog(t, n) \/ InBackLog(t, n) \/ InCurrent(t, n) \/ InMerging(t, n)

(* The merge takes a pack that it has reached, and passes over ids only.   *)
LEMMA MergeKeeps ==
  ASSUME IInv, NEW t \in Threads, MergeOne(t),
         NEW n \in Nat, InMerging(t, n)
  PROVE  InBackLog(t, n)' \/ InMerging(t, n)'
<1>i. IInv'
  BY InvStep DEF Next, Merge
<1>n. TypeOK /\ TypeOK' /\ HeadsAreIds'
  BY <1>i DEF IInv
<1>t. /\ repl_pos_ \in Buffers /\ 1 - repl_pos_ \in Buffers
      /\ repl_ \in [Buffers -> [Threads -> Seq(Entry)]]
      /\ p \in [Threads -> Nat] /\ back_log_ \in Seq(Logged)
  BY <1>n, SMTT(30) DEF TypeOK, Buffers
<1>1. /\ mpc = "merge" /\ mpc' = "merge" /\ t \in id_list
      /\ Merging' = Merging
  BY DEF MergeOne, Merging
<1>2. PICK i \in (p[t] + 1)..Len(Merging[t]) : Merging[t][i] = Pack(n)
  BY DEF InMerging
<1>m. Merging[t] \in Seq(Entry) /\ Len(Merging[t]) \in Nat /\ p[t] \in Nat
  BY <1>t DEF Merging
<1>3. i \in 1..Len(Merging[t]) /\ Merging[t][i].kind = "pack"
  BY <1>2, <1>m, EntryKinds
<1>4. Unread(t)
  BY <1>2, <1>m DEF Unread
<1> DEFINE e == [tid |-> t, seq |-> Merging[t][p[t] + 1].val, id |-> HeadId(t)]
<1>5. back_log_' = Append(back_log_, e)
  BY <1>4 DEF MergeOne
<1>6. CASE i = p[t] + 1
  <2>1. e.tid = t /\ e.seq = n
    BY <1>2, <1>6, EntryKinds
  <2>2. Len(back_log_) + 1 \in 1..Len(back_log_') /\ back_log_'[Len(back_log_) + 1] = e
    <3>1. back_log_' \in Seq(Logged)
      BY <1>n DEF TypeOK
    <3> HIDE DEF e
    <3> QED
      BY <1>5, <1>t, <3>1
  <2> QED
    BY <2>1, <2>2 DEF InBackLog
<1>7. CASE i # p[t] + 1
  <2>1. Len(Merging[t]) > p[t] + 1
    BY <1>2, <1>3, <1>7, <1>m
  <2>2. p'[t] = p[t] + 2 /\ id_list' = id_list
    BY <1>4, <1>t, <2>1 DEF MergeOne
  <2>3. Merging[t][p[t] + 2].kind = "id"
    BY <1>1, <1>n, <2>2 DEF HeadsAreIds
  <2>4. i \in (p'[t] + 1)..Len(Merging[t])
    BY <1>2, <1>3, <1>7, <1>m, <2>2, <2>3
  <2> QED
    BY <1>1, <1>2, <2>2, <2>4 DEF InMerging
<1> QED
  BY <1>6, <1>7

(* A step keeps the commands that were fed before it.                      *)
LEMMA KeptStep ==
  ASSUME IInv, [Next]_vars, mpc' # "undefined",
         NEW t \in Threads, NEW n \in Nat, Kept(t, n)
  PROVE  Kept(t, n)'
<1>i. TypeOK /\ FreshMerge
  BY DEF IInv
<1>t. /\ repl_pos_ \in Buffers /\ 1 - repl_pos_ \in Buffers
      /\ repl_ \in [Buffers -> [Threads -> Seq(Entry)]]
      /\ p \in [Threads -> Nat]
      /\ back_log_ \in Seq(Logged) /\ aof_file_ \in Seq(Logged)
  BY <1>i DEF TypeOK, Buffers
<1>m. Merging[t] \in Seq(Entry) /\ Len(Merging[t]) \in Nat /\ p[t] \in Nat
  BY <1>t DEF Merging
<1>s. CASE <<t, n>> \in straddled
  BY <1>s, StraddledGrows DEF Kept
<1>l. CASE InLog(t, n)
  <2>1. \/ aof_file_' = aof_file_
        \/ aof_file_' = aof_file_ \o back_log_
    BY DEF Next, Merge, Feed, LoadPos, LoadId, IncrId, PutId, PutPack, Clear, Store, Scan,
           MergeOne, Flush, Race, Undefined, vars, mergeVars
  <2>2. /\ Len(aof_file_) \in Nat /\ Len(aof_file_') \in Nat
        /\ Len(aof_file_') >= Len(aof_file_)
        /\ \A i \in 1..Len(aof_file_) : aof_file_'[i] = aof_file_[i]
    BY <1>t, <2>1
  <2>3. InLog(t, n)'
    BY <1>l, <2>2 DEF InLog
  <2> QED
    BY <2>3 DEF Kept
<1>1. ASSUME NEW u \in Threads, Feed(u), ~InLog(t, n), <<t, n>> \notin straddled PROVE Kept(t, n)'
  <2>1. UNCHANGED <<repl_pos_, back_log_, mpc, p, id_list>>
    BY <1>1, <1>i, <1>t, FeedEffect DEF mergeVars
  <2>2. ASSUME NEW b \in Buffers
        PROVE  /\ Len(repl_[b][t]) \in Nat /\ Len(repl_'[b][t]) \in Nat
               /\ Len(repl_[b][t]) <= Len(repl_'[b][t])
               /\ \A i \in 1..Len(repl_[b][t]) : repl_'[b][t][i] = repl_[b][t][i]
    BY <1>1, <1>i, FeedEffect
  <2>3. InBackLog(t, n) => InBackLog(t, n)'
    BY <2>1 DEF InBackLog
  <2>4. ASSUME InCurrent(t, n) PROVE InCurrent(t, n)'
    <3>1. PICK i \in 1..Len(repl_[repl_pos_][t]) : repl_[repl_pos_][t][i] = Pack(n)
      BY <2>4 DEF InCurrent
    <3>2. i \in 1..Len(repl_'[repl_pos_][t]) /\ repl_'[repl_pos_][t][i] = Pack(n)
      BY <1>t, <2>2, <3>1
    <3> QED
      BY <2>1, <3>2 DEF InCurrent
  <2>5. ASSUME InMerging(t, n) PROVE InMerging(t, n)'
    <3>1. /\ Len(Merging'[t]) \in Nat /\ Len(Merging[t]) <= Len(Merging'[t])
          /\ \A i \in 1..Len(Merging[t]) : Merging'[t][i] = Merging[t][i]
      BY <1>t, <2>1, <2>2 DEF Merging
    <3>2. PICK i \in (p[t] + 1)..Len(Merging[t]) : Merging[t][i] = Pack(n)
      BY <2>5 DEF InMerging
    <3>3. i \in (p[t] + 1)..Len(Merging'[t]) /\ Merging'[t][i] = Pack(n)
      BY <1>m, <3>1, <3>2
    <3> QED
      BY <2>1, <2>5, <3>3 DEF InMerging
  <2> QED
    BY <1>1, <2>3, <2>4, <2>5 DEF Kept
<1>2. CASE Clear /\ ~InLog(t, n)
  <2>1. /\ UNCHANGED <<repl_pos_, back_log_>> /\ mpc = "idle"
        /\ repl_'[repl_pos_] = repl_[repl_pos_]
    BY <1>2, <1>t DEF Clear, ClearSlots, Buffers
  <2>2. ~InMerging(t, n)
    BY <2>1 DEF InMerging
  <2>3. InCurrent(t, n) => InCurrent(t, n)'
    BY <2>1 DEF InCurrent
  <2>4. InBackLog(t, n) => InBackLog(t, n)'
    BY <2>1 DEF InBackLog
  <2> QED
    BY <1>2, <1>s, <2>2, <2>3, <2>4 DEF Kept
<1>3. CASE Store /\ ~InLog(t, n)
  <2>1. /\ repl_pos_' = 1 - repl_pos_ /\ mpc = "clear" /\ mpc' = "scan"
        /\ UNCHANGED <<repl_, back_log_, p>>
    BY <1>3 DEF Store, NextPos
  <2>2. ~InMerging(t, n)
    BY <2>1 DEF InMerging
  <2>3. ASSUME InCurrent(t, n) PROVE InMerging(t, n)'
    <3>1. 1 - repl_pos_' = repl_pos_
      BY <1>t, <2>1 DEF Buffers
    <3>2. Merging' = repl_[repl_pos_]
      BY <2>1, <3>1 DEF Merging
    <3>3. p'[t] = 0
      BY <1>i, <2>1 DEF FreshMerge
    <3> QED
      BY <2>1, <2>3, <3>2, <3>3 DEF InCurrent, InMerging
  <2>4. InBackLog(t, n) => InBackLog(t, n)'
    BY <2>1 DEF InBackLog
  <2> QED
    BY <1>3, <1>s, <2>2, <2>3, <2>4 DEF Kept
<1>4. CASE Scan /\ ~InLog(t, n)
  <2>1. /\ mpc = "scan" /\ mpc' = "merge"
        /\ UNCHANGED <<repl_, repl_pos_, back_log_>>
        /\ id_list' = {u \in Threads : Unread(u)}
        /\ \A u \in id_list' : Merging[u][1].kind # "pack"
        /\ p' = [u \in Threads |-> IF u \in id_list' THEN 1 ELSE 0]
    BY <1>4 DEF Scan, MergeSlots
  <2>2. ASSUME InMerging(t, n) PROVE InMerging(t, n)'
    <3>1. PICK i \in (p[t] + 1)..Len(Merging[t]) : Merging[t][i] = Pack(n)
      BY <2>2 DEF InMerging
    <3>2. t \in id_list' /\ p'[t] = 1
      BY <1>m, <2>1, <3>1 DEF Unread
    <3>3. Merging[t][i].kind = "pack" /\ i # 1
      BY <2>1, <3>1, <3>2, EntryKinds
    <3>4. i \in (p'[t] + 1)..Len(Merging[t]) /\ Merging' = Merging
      BY <1>m, <2>1, <3>1, <3>2, <3>3 DEF Merging
    <3> QED
      BY <2>1, <3>1, <3>2, <3>4 DEF InMerging
  <2>3. InCurrent(t, n) => InCurrent(t, n)'
    BY <2>1 DEF InCurrent
  <2>4. InBackLog(t, n) => InBackLog(t, n)'
    BY <2>1 DEF InBackLog
  <2> QED
    BY <1>4, <1>s, <2>2, <2>3, <2>4 DEF Kept
<1>5. ASSUME NEW u \in Threads, MergeOne(u), ~InLog(t, n), <<t, n>> \notin straddled
      PROVE  Kept(t, n)'
  <2>1. UNCHANGED <<repl_, repl_pos_, mpc>> /\ Merging' = Merging
    BY <1>5 DEF MergeOne, Merging
  <2>2. ASSUME InBackLog(t, n) PROVE InBackLog(t, n)'
    <3> DEFINE e == [tid |-> u, seq |-> Merging[u][p[u] + 1].val, id |-> HeadId(u)]
    <3>1. back_log_' = back_log_ \/ back_log_' = Append(back_log_, e)
      BY <1>5 DEF MergeOne
    <3> HIDE DEF e
    <3>2. /\ Len(back_log_) \in Nat /\ Len(back_log_') \in Nat
          /\ Len(back_log_') >= Len(back_log_)
          /\ \A i \in 1..Len(back_log_) : back_log_'[i] = back_log_[i]
      <4>1. CASE back_log_' = Append(back_log_, e)
        BY <1>t, <4>1
      <4>2. CASE back_log_' = back_log_
        BY <1>t, <4>2
      <4> QED
        BY <3>1, <4>1, <4>2
    <3> QED
      BY <2>2, <3>2 DEF InBackLog
  <2>3. InCurrent(t, n) => InCurrent(t, n)'
    BY <2>1 DEF InCurrent
  <2>4. ASSUME InMerging(t, n), u # t PROVE InMerging(t, n)'
    <3>1. p'[t] = p[t] /\ (t \in id_list => t \in id_list')
      <4>1. /\ p' = [p EXCEPT ![u] = @ + 2] \/ p' = [p EXCEPT ![u] = @ + 1] \/ p' = p
            /\ id_list' = id_list \/ id_list' = id_list \ {u}
        BY <1>5, Zenon DEF MergeOne
      <4> QED
        BY <1>t, <2>4, <4>1
    <3> QED
      BY <2>1, <2>4, <3>1 DEF InMerging
  <2> QED
    BY <1>5, <2>2, <2>3, <2>4, MergeKeeps DEF Kept
<1>6. CASE Flush /\ ~InLog(t, n)
  <2>1. /\ aof_file_' = aof_file_ \o back_log_ /\ UNCHANGED <<repl_, repl_pos_>>
        /\ mpc = "merge" /\ id_list = {}
    BY <1>6 DEF Flush
  <2>2. ~InMerging(t, n)
    BY <2>1 DEF InMerging
  <2>3. ASSUME InBackLog(t, n) PROVE InLog(t, n)'
    <3>1. PICK i \in 1..Len(back_log_) : back_log_[i].tid = t /\ back_log_[i].seq = n
      BY <2>3 DEF InBackLog
    <3>2. /\ Len(aof_file_) + i \in 1..Len(aof_file_')
          /\ aof_file_'[Len(aof_file_) + i] = back_log_[i]
      BY <1>t, <2>1, <3>1
    <3> QED
      BY <3>1, <3>2 DEF InLog
  <2>4. InCurrent(t, n) => InCurrent(t, n)'
    BY <2>1 DEF InCurrent
  <2> QED
    BY <1>6, <1>s, <2>2, <2>3, <2>4 DEF Kept
<1>7. CASE UNCHANGED vars
  BY <1>7 DEF Kept, InLog, InBackLog, InCurrent, InMerging, Merging, vars, mergeVars
<1>8. CASE Race \/ Undefined
  BY <1>8 DEF Race, Undefined, vars, mergeVars
<1> QED
  BY <1>s, <1>l, <1>1, <1>2, <1>3, <1>4, <1>5, <1>6, <1>7, <1>8 DEF Next, Merge

(* No fed command gets lost on its way to the append-only file unless      *)
(* repl_pos_ was stored while it was being fed: it is in the file, in the  *)
(* batch being merged, or where a merge still reads it, for any number of  *)
(* threads, feeds and merges (backlogFeed, _merge_backlog_feed_slaves).    *)
THEOREM NothingLost == Spec => []NotLost
<1>1. Init => NotLost
  BY DEF Init, NotLost
<1>2. IInv /\ NotLost /\ [Next]_vars => NotLost'
  <2> SUFFICES ASSUME IInv, NotLost, [Next]_vars, mpc' # "undefined",
                      NEW t \in Threads, NEW n \in 1..fed'[t]
               PROVE  Kept(t, n)'
    BY Zenon DEF NotLost, Kept
  <2>t. /\ TypeOK /\ LateFeed /\ fed \in [Threads -> Nat]
        /\ repl_ \in [Buffers -> [Threads -> Seq(Entry)]] /\ repl_pos_ \in Buffers
    BY DEF IInv, TypeOK, Buffers
  <2>1. mpc # "undefined"
    BY DEF Next, Merge, Feed, LoadPos, LoadId, IncrId, PutId, PutPack, Clear, Store, Scan,
           MergeOne, Flush, Race, Undefined, vars, mergeVars
  <2>2. CASE n \in 1..fed[t]
    <3>1. n \in Nat /\ Kept(t, n)
      BY <2>1, <2>2 DEF NotLost, Kept
    <3> QED
      BY <3>1, KeptStep
  <2>3. CASE n \notin 1..fed[t]
    <3>1. PutPack(t) /\ n = fed[t] + 1
      <4>1. PICK u \in Threads : PutPack(u)
        BY <2>3 DEF Next, Merge, Feed, LoadPos, LoadId, IncrId, PutId, Clear, Store, Scan,
                    MergeOne, Flush, Race, Undefined, vars, feedVars
      <4>2. fed' = [fed EXCEPT ![u] = @ + 1]
        BY <4>1 DEF PutPack
      <4> QED
        BY <2>t, <2>3, <4>1, <4>2
    <3>2. CASE repl[t] # repl_pos_
      BY <2>t, <3>1, <3>2, StraddledGrows DEF LateFeed, PutPack, Kept
    <3>3. CASE repl[t] = repl_pos_
      <4>1. Pack(n) \in Entry /\ Put(t, Pack(n)) /\ repl_pos_' = repl_pos_
        BY <2>t, <3>1, EntryKinds DEF PutPack, mergeVars
      <4>2. repl_'[repl_pos_][t] = Append(repl_[repl_pos_][t], Pack(n))
        BY <2>t, <3>3, <4>1, PutEffect
      <4>3. repl_[repl_pos_][t] \in Seq(Entry)
        BY <2>t
      <4>4. /\ Len(repl_[repl_pos_][t]) + 1 \in 1..Len(repl_'[repl_pos_][t])
            /\ repl_'[repl_pos_][t][Len(repl_[repl_pos_][t]) + 1] = Pack(n)
        BY <4>1, <4>2, <4>3, AppendEntry
      <4> QED
        BY <4>1, <4>4 DEF Kept, InCurrent
    <3> QED
      BY <3>2, <3>3
  <2> QED
    BY <2>2, <2>3
<1> QED
  BY <1>1, <1>2, InvAlways, PTL DEF Spec

-----------------------------------------------------------------------------
(* The ids of a thread: those in its slots are no larger than the counter, *)
(* nor than the id of the feed it is in.                                   *)
IdsBelow(s, m) == \A i \in 1..Len(s) : s[i].kind = "id" => s[i].val <= m
IdsSorted(s) ==
  \A i, j \in 1..Len(s) :
    i < j /\ s[i].kind = "id" /\ s[j].kind = "id" => s[i].val <= s[j].val

SlotIds(b, t) ==
  /\ IdsBelow(repl_[b][t], repl_command_incr_)
  /\ pc[t] \in {"incr", "putid"} => IdsBelow(repl_[b][t], command_id[t])
  /\ IdsSorted(repl_[b][t])
Ids ==
  /\ \A b \in Buffers : \A t \in Threads : SlotIds(b, t)
  /\ \A t \in Threads : command_id[t] <= repl_command_incr_

(* What the merge has collected has smaller ids than those it holds.       *)
Batch ==
  /\ mpc \in {"idle", "clear", "scan"} => back_log_ = <<>>
  /\ mpc = "merge" => \A t \in id_list : \A i \in 1..Len(back_log_) :
       back_log_[i].id <= HeadId(t)
  /\ BatchSorted

LEMMA AppendId ==
  ASSUME NEW s \in Seq(Entry), NEW e \in Entry, IdsSorted(s),
         e.kind = "id" => IdsBelow(s, e.val),
         NEW m \in Nat, IdsBelow(s, m), e.kind = "id" => e.val <= m
  PROVE  IdsSorted(Append(s, e)) /\ IdsBelow(Append(s, e), m)
<1> DEFINE x == Append(s, e)
<1>1. /\ Len(s) \in Nat
      /\ Len(x) = Len(s) + 1
      /\ \A i \in 1..Len(s) : x[i] = s[i]
      /\ x[Len(s) + 1] = e
  BY AppendEntry
<1> HIDE DEF x
<1>2. IdsBelow(x, m)
  BY <1>1 DEF IdsBelow
<1>3. ASSUME NEW i \in 1..Len(x), NEW j \in 1..Len(x), i < j,
             x[i].kind = "id", x[j].kind = "id"
      PROVE  x[i].val <= x[j].val
  <2>1. i \in 1..Len(s)
    BY <1>1, <1>3
  <2>2. CASE j = Len(s) + 1
    BY <1>1, <1>3, <2>1, <2>2 DEF IdsBelow
  <2>3. CASE j \in 1..Len(s)
    BY <1>1, <1>3, <2>1, <2>3 DEF IdsSorted
  <2> QED
    BY <1>1, <2>2, <2>3
<1> QED
  BY <1>2, <1>3 DEF IdsSorted, x

LEMMA IdsStep == TypeOK /\ Ids /\ [Next]_vars => Ids'
<1> SUFFICES ASSUME TypeOK, Ids, [Next]_vars PROVE Ids'
  OBVIOUS
<1>t. /\ pc \in [Threads -> {"idle", "load", "incr", "putid", "putpack"}]
      /\ command_id \in [Threads -> Nat] /\ fed \in [Threads -> Nat]
      /\ repl_command_incr_ \in Nat
      /\ repl_pos_ \in Buffers
      /\ repl_ \in [Buffers -> [Threads -> Seq(Entry)]]
  BY DEF TypeOK, Buffers
<1>e. \A b \in Buffers : \A t \in Threads :
        repl_[b][t] \in Seq(Entry) /\ \A i \in 1..Len(repl_[b][t]) : repl_[b][t][i].val \in Nat
  <2> SUFFICES ASSUME NEW b \in Buffers, NEW t \in Threads
               PROVE  /\ repl_[b][t] \in Seq(Entry)
                      /\ \A i \in 1..Len(repl_[b][t]) : repl_[b][t][i].val \in Nat
    OBVIOUS
  <2>1. repl_[b][t] \in Seq(Entry)
    BY <1>t
  <2>2. \A i \in 1..Len(repl_[b][t]) : repl_[b][t][i] \in Entry
    BY <2>1
  <2> QED
    BY <2>1, <2>2 DEF Entry
<1>h. \A b \in Buffers : \A t \in Threads : SlotIds(b, t)
  BY DEF Ids
<1>c. \A t \in Threads : command_id[t] <= repl_command_incr_
  BY DEF Ids
<1> USE DEF feedVars, mergeVars
<1>1. CASE UNCHANGED <<repl_, feedVars>>
  BY <1>1, <1>c, <1>h DEF Ids, SlotIds, IdsBelow, IdsSorted
<1>2. ASSUME NEW t \in Threads, LoadPos(t) PROVE Ids'
  <2>1. /\ UNCHANGED <<repl_, command_id, repl_command_incr_>>
        /\ \A u \in Threads : pc'[u] \in {"incr", "putid"} => pc[u] \in {"incr", "putid"}
    BY <1>2, <1>t DEF LoadPos
  <2> QED
    BY <1>c, <1>h, <2>1 DEF Ids, SlotIds, IdsBelow, IdsSorted
<1>3. ASSUME NEW t \in Threads, LoadId(t) PROVE Ids'
  <2>1. /\ UNCHANGED <<repl_, repl_command_incr_>>
        /\ command_id'[t] = repl_command_incr_
        /\ \A u \in Threads \ {t} : pc'[u] = pc[u] /\ command_id'[u] = command_id[u]
    BY <1>3, <1>t DEF LoadId
  <2>2. ASSUME NEW b \in Buffers, NEW u \in Threads PROVE SlotIds(b, u)'
    <3>1. SlotIds(b, u)
      BY <1>h
    <3>2. CASE u = t
      BY <2>1, <3>1, <3>2 DEF SlotIds, IdsBelow, IdsSorted
    <3>3. CASE u # t
      BY <2>1, <3>1, <3>3 DEF SlotIds, IdsBelow, IdsSorted
    <3> QED
      BY <3>2, <3>3
  <2>3. ASSUME NEW u \in Threads PROVE command_id'[u] <= repl_command_incr_'
    <3>1. CASE u = t
      BY <1>t, <2>1, <3>1
    <3>2. CASE u # t
      BY <1>c, <2>1, <3>2
    <3> QED
      BY <3>1, <3>2
  <2> QED
    BY <2>2, <2>3 DEF Ids
<1>4. ASSUME NEW t \in Threads, IncrId(t) PROVE Ids'
  <2>1. /\ UNCHANGED <<repl_, command_id>>
        /\ repl_command_incr_' = repl_command_incr_ + 1
        /\ \A u \in Threads : pc'[u] \in {"incr", "putid"} => pc[u] \in {"incr", "putid"}
    BY <1>4, <1>t DEF IncrId
  <2>2. ASSUME NEW b \in Buffers, NEW u \in Threads PROVE SlotIds(b, u)'
    <3>1. SlotIds(b, u)
      BY <1>h
    <3>2. IdsBelow(repl_[b][u], repl_command_incr_ + 1)
      BY <1>e, <1>t, <3>1 DEF SlotIds, IdsBelow
    <3> QED
      BY <2>1, <3>1, <3>2 DEF SlotIds, IdsBelow, IdsSorted
  <2>3. \A u \in Threads : command_id'[u] <= repl_command_incr_'
    BY <1>c, <1>t, <2>1
  <2> QED
    BY <2>2, <2>3 DEF Ids
<1>5. ASSUME NEW t \in Threads, NEW e \in Entry, Put(t, e),
             pc'[t] \notin {"incr", "putid"}, repl_command_incr_' = repl_command_incr_,
             command_id'[t] \in Nat, command_id'[t] <= command_id[t],
             \A u \in Threads \ {t} : pc'[u] = pc[u] /\ command_id'[u] = command_id[u],
             e.kind = "id" => pc[t] = "putid" /\ e.val = command_id[t]
      PROVE  Ids'
  <2>1. ASSUME NEW b \in Buffers, NEW u \in Threads PROVE SlotIds(b, u)'
    <3>1. SlotIds(b, u)
      BY <1>h
    <3>2. CASE b = repl[t] /\ u = t
      <4>1. repl_'[b][u] = Append(repl_[b][u], e)
        BY <1>5, <3>2, PutEffect
      <4>2. /\ IdsSorted(Append(repl_[b][u], e))
            /\ IdsBelow(Append(repl_[b][u], e), repl_command_incr_)
        <5>1. /\ IdsSorted(repl_[b][u]) /\ IdsBelow(repl_[b][u], repl_command_incr_)
              /\ e.kind = "id" => IdsBelow(repl_[b][u], e.val) /\ e.val <= repl_command_incr_
          BY <1>5, <1>c, <3>1, <3>2 DEF SlotIds
        <5> QED
          BY <1>e, <1>t, <5>1, AppendId
      <4> QED
        BY <1>5, <3>2, <4>1, <4>2, SMTT(30) DEF SlotIds, IdsSorted, IdsBelow
    <3>3. CASE ~(b = repl[t] /\ u = t)
      <4>1. repl_'[b][u] = repl_[b][u]
        BY <1>5, <3>3, PutEffect
      <4>2. \/ u = t
            \/ pc'[u] = pc[u] /\ command_id'[u] = command_id[u]
        BY <1>5
      <4> QED
        BY <1>5, <3>1, <4>1, <4>2 DEF SlotIds, IdsSorted, IdsBelow
    <3> QED
      BY <3>2, <3>3
  <2>2. \A u \in Threads : command_id'[u] <= repl_command_incr_'
    <3>1. ASSUME NEW u \in Threads PROVE command_id'[u] <= repl_command_incr_
      <4>1. CASE u = t
        <5>1. /\ command_id[t] \in Nat /\ command_id[t] <= repl_command_incr_
              /\ command_id'[t] \in Nat /\ command_id'[t] <= command_id[t]
          BY <1>5, <1>c, <1>t
        <5> QED
          BY <1>t, <4>1, <5>1
      <4>2. CASE u # t
        BY <1>5, <1>c, <4>2
      <4> QED
        BY <4>1, <4>2
    <3> QED
      BY <1>5, <3>1
  <2> QED
    BY <2>1, <2>2 DEF Ids
<1>6. ASSUME NEW t \in Threads, PutId(t) PROVE Ids'
  <2>1. Id(command_id[t]) \in Entry /\ Id(command_id[t]).val = command_id[t]
    BY <1>t, EntryKinds DEF Id
  <2>2. /\ Put(t, Id(command_id[t])) /\ pc[t] = "putid" /\ pc'[t] = "putpack"
        /\ UNCHANGED <<command_id, repl_command_incr_>>
        /\ \A u \in Threads \ {t} : pc'[u] = pc[u]
    BY <1>6, <1>t DEF PutId
  <2>3. command_id'[t] \in Nat /\ command_id'[t] <= command_id[t]
    BY <1>t, <2>2
  <2> QED
    BY <1>5, <2>1, <2>2, <2>3
<1>7. ASSUME NEW t \in Threads, PutPack(t) PROVE Ids'
  <2>1. Pack(fed[t] + 1) \in Entry /\ Pack(fed[t] + 1).kind = "pack"
    BY <1>t, EntryKinds
  <2>2. /\ Put(t, Pack(fed[t] + 1)) /\ pc'[t] = "idle" /\ command_id'[t] = 0
        /\ UNCHANGED repl_command_incr_
        /\ \A u \in Threads \ {t} : pc'[u] = pc[u] /\ command_id'[u] = command_id[u]
    BY <1>7, <1>t DEF PutPack
  <2>3. command_id'[t] \in Nat /\ command_id'[t] <= command_id[t]
    BY <1>t, <2>2
  <2> QED
    BY <1>5, <2>1, <2>2, <2>3
<1>8. CASE Clear
  <2>1. /\ UNCHANGED feedVars
        /\ \A b \in Buffers : \A u \in Threads : repl_'[b][u] \in {repl_[b][u], <<>>}
    BY <1>8, <1>t DEF Clear, ClearSlots, EmptySlots, Buffers
  <2>2. ASSUME NEW b \in Buffers, NEW u \in Threads PROVE SlotIds(b, u)'
    <3>1. CASE repl_'[b][u] = <<>>
      BY <3>1 DEF SlotIds, IdsSorted, IdsBelow
    <3>2. CASE repl_'[b][u] = repl_[b][u]
      BY <1>h, <2>1, <3>2 DEF SlotIds, IdsSorted, IdsBelow
    <3> QED
      BY <2>1, <3>1, <3>2
  <2> QED
    BY <1>c, <2>1, <2>2 DEF Ids
<1>9. CASE \/ Store \/ Scan \/ (\E t \in Threads : MergeOne(t)) \/ Flush
           \/ Race \/ Undefined \/ UNCHANGED vars
  BY <1>1, <1>9 DEF Store, Scan, MergeOne, Flush, Race, Undefined, vars
<1> QED
  BY <1>2, <1>3, <1>4, <1>6, <1>7, <1>8, <1>9 DEF Next, Merge, Feed

(* The merge takes the smallest of the ids it holds, and the next id of    *)
(* the slot is no smaller.                                                 *)
LEMMA MergeSorts ==
  ASSUME IInv, Ids, Batch, NEW t \in Threads, MergeOne(t)
  PROVE  Batch'
<1>i. TypeOK /\ TypeOK' /\ HeadsAreIds /\ HeadsAreIds'
  <2>1. IInv'
    BY InvStep DEF Next, Merge
  <2> QED
    BY <2>1 DEF IInv
<1>t. /\ repl_pos_ \in Buffers /\ 1 - repl_pos_ \in Buffers
      /\ repl_ \in [Buffers -> [Threads -> Seq(Entry)]]
      /\ p \in [Threads -> Nat] /\ id_list \subseteq Threads
      /\ back_log_ \in Seq(Logged)
  BY <1>i, SMTT(30) DEF TypeOK, Buffers
<1>1. /\ mpc = "merge" /\ mpc' = "merge" /\ t \in id_list /\ Merging' = Merging
      /\ \A u \in id_list : HeadId(t) <= HeadId(u)
  BY DEF MergeOne, Merging, IsMin
<1>2. ASSUME NEW u \in Threads
      PROVE  Merging[u] \in Seq(Entry) /\ IdsSorted(Merging[u]) /\ Len(Merging[u]) \in Nat
  BY <1>t DEF Merging, Ids, SlotIds
<1>3. ASSUME NEW u \in id_list'
      PROVE  /\ u \in id_list /\ HeadId(u) \in Nat /\ HeadId(u)' \in Nat
             /\ HeadId(u)' >= HeadId(u)
  <2>1. u \in id_list /\ u \in Threads
    BY <1>3, <1>t, Zenon DEF MergeOne
  <2>2. /\ p[u] \in 1..Len(Merging[u]) /\ Merging[u][p[u]].kind = "id"
        /\ p'[u] \in 1..Len(Merging[u]) /\ Merging[u][p'[u]].kind = "id"
    BY <1>1, <1>3, <1>i, <2>1 DEF HeadsAreIds
  <2>3. p'[u] \in Nat /\ p[u] \in Nat /\ p[u] <= p'[u]
    <3>1. \/ p' = [p EXCEPT ![t] = @ + 2]
          \/ p' = [p EXCEPT ![t] = @ + 1]
          \/ p' = p
      BY Zenon DEF MergeOne
    <3> QED
      BY <1>t, <2>1, <3>1
  <2>4. Merging[u][p[u]] \in Entry /\ Merging[u][p'[u]] \in Entry
    BY <1>2, <2>1, <2>2
  <2>5. Merging[u][p[u]].val \in Nat /\ Merging[u][p'[u]].val \in Nat
    BY <2>4 DEF Entry
  <2>6. Merging[u][p[u]].val <= Merging[u][p'[u]].val
    <3>1. CASE p[u] = p'[u]
      BY <2>5, <3>1
    <3>2. CASE p[u] < p'[u]
      BY <1>2, <2>1, <2>2, <3>2 DEF IdsSorted
    <3> QED
      BY <2>3, <3>1, <3>2
  <2> QED
    BY <1>1, <2>1, <2>5, <2>6 DEF HeadId
<1>4. HeadId(t) \in Nat
  <2>1. p[t] \in 1..Len(Merging[t])
    BY <1>1, <1>i DEF HeadsAreIds
  <2>2. Merging[t][p[t]] \in Entry
    BY <1>2, <2>1
  <2> QED
    BY <2>2 DEF Entry, HeadId
<1>5. \A i \in 1..Len(back_log_) : back_log_[i].id \in Nat
  <2>1. \A i \in 1..Len(back_log_) : back_log_[i] \in Logged
    BY <1>t
  <2> QED
    BY <2>1 DEF Logged
<1>6. /\ \A i \in 1..Len(back_log_) : back_log_[i].id <= HeadId(t)
      /\ BatchSorted
  BY <1>1 DEF Batch
<1> DEFINE e == [tid |-> t, seq |-> Merging[t][p[t] + 1].val, id |-> HeadId(t)]
<1>7. ASSUME NEW u \in id_list', NEW m \in Nat, m <= HeadId(t) PROVE m <= HeadId(u)'
  <2>1. /\ HeadId(u) \in Nat /\ HeadId(u)' \in Nat /\ HeadId(u) <= HeadId(u)'
        /\ HeadId(t) <= HeadId(u)
    BY <1>1, <1>3, <1>7
  <2> QED
    BY <1>4, <1>7, <2>1
<1>8. CASE back_log_' = back_log_
  BY <1>1, <1>5, <1>6, <1>7, <1>8 DEF Batch, BatchSorted
<1>9. CASE back_log_' = Append(back_log_, e)
  <2>1. e.id = HeadId(t)
    OBVIOUS
  <2> HIDE DEF e
  <2>2. /\ Len(back_log_) \in Nat /\ Len(back_log_') = Len(back_log_) + 1
        /\ \A i \in 1..Len(back_log_) : back_log_'[i] = back_log_[i]
        /\ back_log_'[Len(back_log_) + 1] = e
    BY <1>9, <1>t
  <2>3. ASSUME NEW i \in 1..Len(back_log_')
        PROVE  back_log_'[i].id \in Nat /\ back_log_'[i].id <= HeadId(t)
    BY <1>4, <1>5, <1>6, <2>1, <2>2
  <2>4. ASSUME NEW i \in 1..Len(back_log_'), NEW j \in 1..Len(back_log_'), i < j
        PROVE  back_log_'[i].id <= back_log_'[j].id
    <3>1. CASE j = Len(back_log_) + 1
      BY <2>1, <2>2, <2>3, <3>1
    <3>2. CASE j \in 1..Len(back_log_)
      <4>1. i \in 1..Len(back_log_)
        BY <2>2, <2>4
      <4> QED
        BY <1>6, <2>2, <2>4, <3>2, <4>1 DEF BatchSorted
    <3> QED
      BY <2>2, <3>1, <3>2
  <2> QED
    BY <1>1, <1>7, <2>3, <2>4 DEF Batch, BatchSorted
<1> QED
  BY <1>8, <1>9 DEF MergeOne

LEMMA BatchStep == IInv /\ Ids /\ Batch /\ [Next]_vars => Batch'
<1> SUFFICES ASSUME IInv, Ids, Batch, [Next]_vars PROVE Batch'
  OBVIOUS
<1>i. TypeOK /\ HeadsAreIds
  BY DEF IInv
<1>t. repl_pos_ \in Buffers /\ 1 - repl_pos_ \in Buffers /\ id_list \subseteq Threads
  BY <1>i DEF TypeOK, Buffers
<1>1. ASSUME NEW t \in Threads, Feed(t) PROVE Batch'
  <2>1. UNCHANGED <<repl_pos_, back_log_, mpc, p, id_list>>
    BY <1>1, <1>i, <1>t, FeedEffect DEF mergeVars
  <2>2. ASSUME mpc = "merge", NEW u \in id_list PROVE HeadId(u)' = HeadId(u)
    <3>1. \A i \in 1..Len(Merging[u]) : Merging'[u][i] = Merging[u][i]
      BY <1>1, <1>i, <1>t, <2>1, FeedEffect DEF Merging
    <3>2. p[u] \in 1..Len(Merging[u])
      BY <1>i, <2>2 DEF HeadsAreIds
    <3> QED
      BY <2>1, <3>1, <3>2 DEF HeadId
  <2> QED
    BY <2>1, <2>2 DEF Batch, BatchSorted
<1>2. CASE Clear \/ Store \/ Scan
  <2>1. back_log_' = <<>>
    BY <1>2 DEF Clear, Store, Scan, Batch
  <2> QED
    BY <2>1 DEF Batch, BatchSorted
<1>3. CASE Flush
  BY <1>3 DEF Flush, Batch, BatchSorted
<1>4. CASE Race
  BY <1>4 DEF Race, Batch, BatchSorted
<1>5. CASE Undefined \/ UNCHANGED vars
  BY <1>5 DEF Undefined, vars, mergeVars, Batch, BatchSorted, HeadId, Merging
<1> QED
  BY <1>1, <1>2, <1>3, <1>4, <1>5, MergeSorts DEF Next, Merge

(* The batch of every merge is in id order, however many late feeds append *)
(* to the slots while they are read (_merge_backlog_feed_slaves).          *)
THEOREM BatchInIdOrder == Spec => []BatchSorted
<1>1. Init => Ids /\ Batch
  <2> SUFFICES ASSUME Init PROVE Ids /\ Batch
    OBVIOUS
  <2>1. \A b \in Buffers : \A t \in Threads : repl_[b][t] = <<>>
    BY DEF Init, Buffers
  <2>2. Ids
    BY <2>1 DEF Init, Ids, SlotIds, IdsBelow, IdsSorted
  <2> QED
    BY <2>2 DEF Init, Batch, BatchSorted
<1>2. IInv => TypeOK
  BY DEF IInv
<1>3. Batch => BatchSorted
  BY DEF Batch
<1> QED
  BY <1>1, <1>2, <1>3, IdsStep, BatchStep, InvAlways, PTL DEF Spec

-----------------------------------------------------------------------------
(* The backlog implements the abstract command log.                        *)
THEOREM Refinement == Spec => ImplementsCommandLog
<1>1. Init => CL!Init
  BY DEF Init, CL!Init
<1>2. IInv /\ IInv' /\ [Next]_vars => [CL!Next]_(CL!vars)
  <2> SUFFICES ASSUME IInv, IInv', [Next]_vars PROVE [CL!Next]_(CL!vars)
    OBVIOUS
  <2>1. CASE UNCHANGED <<fed, aof_file_, straddled>>
    BY <2>1 DEF CL!vars
  <2>2. ASSUME NEW t \in Threads, Feed(t) PROVE [CL!Next]_(CL!vars)
    <3>1. CASE PutPack(t)
      <4>1. CL!Issue(t)
        BY <3>1 DEF PutPack, mergeVars, CL!Issue
      <4> QED
        BY <4>1 DEF CL!Next
    <3>2. CASE ~PutPack(t)
      BY <2>1, <2>2, <3>2 DEF Feed, LoadPos, LoadId, IncrId, PutId, mergeVars
    <3> QED
      BY <3>1, <3>2
  <2>3. CASE Flush
    <3>1. /\ aof_file_ \in Seq(Logged) /\ back_log_ \in Seq(Logged)
          /\ Ordered(aof_file_)' /\ LogSettled(aof_file_)'
      BY DEF IInv, TypeOK, Logs
    <3>2. aof_file_' = aof_file_ \o back_log_ /\ fed' = fed /\ straddled' = straddled
      BY <2>3 DEF Flush, feedVars
    <3>3. /\ Len(aof_file_') >= Len(aof_file_)
          /\ \A i \in 1..Len(aof_file_) : aof_file_'[i] = aof_file_[i]
      BY <3>1, <3>2
    <3>4. \A i \in 1..Len(aof_file_') : aof_file_'[i].seq \in 1..fed[aof_file_'[i].tid]
      BY <3>1, <3>2 DEF LogSettled, Settled
    <3>5. CL!InThreadOrder(aof_file_')
      BY <3>1, <3>2 DEF Ordered, Before, CL!InThreadOrder
    <3> QED
      BY <3>2, <3>3, <3>4, <3>5 DEF CL!Next, CL!AppendBatch, CL!InThreadOrder
  <2>4. CASE \/ Clear \/ Scan \/ (\E t \in Threads : MergeOne(t))
             \/ Race \/ Undefined \/ UNCHANGED vars
    BY <2>1, <2>4 DEF Clear, Scan, MergeOne, Race, Undefined, vars, feedVars, mergeVars
  <2>5. CASE Store
    <3>1. /\ fed' = fed /\ aof_file_' = aof_file_
          /\ straddled' = straddled \cup
               {<<t, fed[t] + 1>> : t \in {u \in Threads : pc[u] # "idle"}}
      BY <2>5 DEF Store, feedVars
    <3>2. \A c \in straddled' \ straddled : c = <<c[1], fed[c[1]] + 1>>
      BY <3>1
    <3> QED
      BY <3>1, <3>2 DEF CL!Next, CL!Delay
  <2> QED
    BY <2>2, <2>3, <2>4, <2>5 DEF Next, Merge
<1> QED
  BY <1>1, <1>2, InvAlways, PTL DEF Spec, CL!Spec, ImplementsCommandLog
=============================================================================
