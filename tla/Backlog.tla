------------------------------ MODULE Backlog ------------------------------
(***************************************************************************)
(* The write path from a command handler to the append-only file:          *)
(* Replication::backlogFeed, _merge_backlog_feed_slaves and _backlog_flush *)
(* (src/replication/replication.cpp).                                      *)
(*                                                                         *)
(* Every thread owns one slot in each of the two buffers of repl_.  A feed *)
(* runs on the thread that executed the command, without a lock: it reads  *)
(* which buffer is in use, takes an id from a shared counter in two        *)
(* accesses, and appends first the id and then the pack to its own slot.   *)
(* Once per repl_cron_interval the main thread clears the idle buffer,     *)
(* makes it the current one, merges the slots of the other one by id into  *)
(* back_log_, and writes back_log_ to the append-only file.                *)
(*                                                                         *)
(* One step of the model is one access to shared memory: repl_pos_, the    *)
(* counter, or a slot, which only its thread and the merge touch.  Where   *)
(* the merge touches a slot its thread is appending to, the code has a     *)
(* data race, and Race lets the merge end in anything; otherwise the       *)
(* append lies before or after the access of the merge.                    *)
(***************************************************************************)
EXTENDS Naturals, Sequences

CONSTANTS Workers,    \* the worker threads, one slot each
          Main,       \* the main thread: its slot is number worker_num
          MaxFeeds    \* bound: how many commands a thread feeds

Threads == Workers \cup {Main}

ASSUME MainAssumption == Main \notin Workers
ASSUME FeedsAssumption == MaxFeeds \in [Threads -> Nat]

VARIABLES
  repl_,               \* repl_[b][t]: the slot of thread t in buffer b
  repl_pos_,           \* the buffer in use
  repl_command_incr_,  \* the next command id
  back_log_,           \* what the running merge has collected
  aof_file_,           \* what has been written and flushed
  pc,                  \* where thread t is in backlogFeed
  repl,                \* the buffer thread t loaded from repl_pos_
  command_id,          \* the id thread t loaded
  fed,                 \* how many feeds thread t has completed
  mpc,                 \* where the main thread is in the merge
  p,                   \* how many entries of a slot the merge has consumed
  id_list,             \* the slots whose next id the merge holds
  straddled            \* history: feeds during which repl_pos_ changed

feedVars == <<repl_command_incr_, pc, repl, command_id, fed>>
mergeVars == <<repl_pos_, back_log_, aof_file_, mpc, p, id_list, straddled>>
vars == <<repl_, feedVars, mergeVars>>

(* A slot holds ids and packs in the order they were appended.  A pack is  *)
(* identified by its number among the packs of its thread.                 *)
Entry == [kind : {"id", "pack"}, val : Nat]
Id(n) == [kind |-> "id", val |-> n]
Pack(n) == [kind |-> "pack", val |-> n]

(* A command in the log; its id is only remembered to state properties.    *)
Logged == [tid : Threads, seq : Nat, id : Nat]

Init ==
  /\ repl_ = [b \in {0, 1} |-> [t \in Threads |-> <<>>]]
  /\ repl_pos_ = 0
  /\ repl_command_incr_ = 0
  /\ back_log_ = <<>>
  /\ aof_file_ = <<>>
  /\ pc = [t \in Threads |-> "idle"]
  /\ repl = [t \in Threads |-> 0]
  /\ command_id = [t \in Threads |-> 0]
  /\ fed = [t \in Threads |-> 0]
  /\ mpc = "idle"
  /\ p = [t \in Threads |-> 0]
  /\ id_list = {}
  /\ straddled = {}

-----------------------------------------------------------------------------
(* backlogFeed, on the thread that executed the command.  The main thread  *)
(* feeds too (a replica applying its master's commands), between merges.   *)

LoadPos(t) ==
  /\ pc[t] = "idle"
  /\ fed[t] < MaxFeeds[t]
  /\ t = Main => mpc = "idle"
  /\ repl' = [repl EXCEPT ![t] = repl_pos_]
  /\ pc' = [pc EXCEPT ![t] = "load"]
  /\ UNCHANGED <<repl_, repl_command_incr_, command_id, fed, mergeVars>>

LoadId(t) ==
  /\ pc[t] = "load"
  /\ command_id' = [command_id EXCEPT ![t] = repl_command_incr_]
  /\ pc' = [pc EXCEPT ![t] = "incr"]
  /\ UNCHANGED <<repl_, repl_command_incr_, repl, fed, mergeVars>>

IncrId(t) ==
  /\ pc[t] = "incr"
  /\ repl_command_incr_' = repl_command_incr_ + 1
  /\ pc' = [pc EXCEPT ![t] = "putid"]
  /\ UNCHANGED <<repl_, repl, command_id, fed, mergeVars>>

Put(t, e) ==
  repl_' = [repl_ EXCEPT ![repl[t]][t] = Append(@, e)]

PutId(t) ==
  /\ pc[t] = "putid"
  /\ Put(t, Id(command_id[t]))
  /\ pc' = [pc EXCEPT ![t] = "putpack"]
  /\ UNCHANGED <<repl_command_incr_, repl, command_id, fed, mergeVars>>

PutPack(t) ==
  /\ pc[t] = "putpack"
  /\ Put(t, Pack(fed[t] + 1))
  /\ fed' = [fed EXCEPT ![t] = @ + 1]
  /\ pc' = [pc EXCEPT ![t] = "idle"]
  /\ repl' = [repl EXCEPT ![t] = 0]              \* the locals die
  /\ command_id' = [command_id EXCEPT ![t] = 0]
  /\ UNCHANGED <<repl_command_incr_, mergeVars>>

Feed(t) == LoadPos(t) \/ LoadId(t) \/ IncrId(t) \/ PutId(t) \/ PutPack(t)

-----------------------------------------------------------------------------
(* _merge_backlog_feed_slaves, called by onReplCron on the main thread.    *)

EmptySlots == [t \in Threads |-> <<>>]

(* Mutants of ClearSlots: the idle buffer is not cleared; the buffer in    *)
(* use is cleared instead.                                                 *)
ClearSlots_None == UNCHANGED repl_
ClearSlots_Current == repl_' = [repl_ EXCEPT ![repl_pos_] = EmptySlots]

ClearSlots == repl_' = [repl_ EXCEPT ![1 - repl_pos_] = EmptySlots]

(* Clear the idle buffer.  It is not in use, but a thread that loaded its  *)
(* index before the last merge may still append to it, before or after.    *)
Clear ==
  /\ mpc = "idle"
  /\ pc[Main] = "idle"
  /\ ClearSlots
  /\ mpc' = "clear"
  /\ UNCHANGED <<repl_pos_, back_log_, aof_file_, p, id_list, straddled, feedVars>>

(* Mutant of NextPos: the index is advanced without wrapping.              *)
NextPos_NoWrap == repl_pos_ + 1

NextPos == 1 - repl_pos_

(* Put the cleared buffer in use: from here on the merge owns the other    *)
(* one, except for the feeds that have already loaded its index.           *)
Store ==
  /\ mpc = "clear"
  /\ repl_pos_' = NextPos
  /\ mpc' = "scan"
  /\ straddled' = straddled \cup
       {<<t, fed[t] + 1>> : t \in {u \in Threads : pc[u] # "idle"}}
  /\ UNCHANGED <<repl_, back_log_, aof_file_, p, id_list, feedVars>>

(* The slots of the buffer being merged, and the entries of slot t that    *)
(* the merge has not consumed.                                             *)
Merging == repl_[1 - repl_pos_]
Unread(t) == Len(Merging[t]) > p[t]

(* Mutant of MergeSlots: the loop stops at worker_num and misses the main  *)
(* thread's slot.                                                          *)
MergeSlots_WorkersOnly == Workers

(* The slots the first scan looks at: repl_merge_size_ of them.            *)
MergeSlots == Threads

(* A slot that begins with a pack (its id was cleared away) makes the      *)
(* merge take pack bytes for an id and body bytes for a length: nothing    *)
(* that follows is defined, and the model stops the main thread there.     *)
Scan ==
  /\ mpc = "scan"
  /\ id_list' = {t \in MergeSlots : Unread(t)}
  /\ p' = [t \in Threads |-> IF t \in id_list' THEN 1 ELSE 0]
  /\ mpc' = IF \E t \in id_list' : Merging[t][1].kind = "pack"
              THEN "undefined" ELSE "merge"
  /\ UNCHANGED <<repl_, repl_pos_, back_log_, aof_file_, straddled, feedVars>>

HeadId(t) == Merging[t][p[t]].val

(* Mutant of IsMin: the list is not sorted before its head is taken.       *)
IsMin_Unsorted(t) == TRUE

(* The head of the sorted id_list; std::sort leaves the order of equal ids *)
(* open.                                                                   *)
IsMin(t) == \A u \in id_list : HeadId(t) <= HeadId(u)

(* One round of the merge.  A slot that holds an id and not yet its pack   *)
(* yields a length of 0: nothing is fed and the slot is left there.        *)
MergeOne(t) ==
  /\ mpc = "merge"
  /\ t \in id_list
  /\ IsMin(t)
  /\ IF Unread(t)
       THEN /\ back_log_' = Append(back_log_,
                 [tid |-> t, seq |-> Merging[t][p[t] + 1].val, id |-> HeadId(t)])
            /\ IF Len(Merging[t]) > p[t] + 1
                 THEN /\ p' = [p EXCEPT ![t] = @ + 2]
                      /\ id_list' = id_list
                 ELSE /\ p' = [p EXCEPT ![t] = @ + 1]
                      /\ id_list' = id_list \ {t}
       ELSE /\ id_list' = id_list \ {t}
            /\ UNCHANGED <<back_log_, p>>
  /\ UNCHANGED <<repl_, repl_pos_, aof_file_, mpc, straddled, feedVars>>

(* _backlog_flush: write, flush, clear.                                    *)
Flush ==
  /\ mpc = "merge"
  /\ id_list = {}
  /\ aof_file_' = aof_file_ \o back_log_
  /\ back_log_' = <<>>
  /\ mpc' = "idle"
  /\ p' = [t \in Threads |-> 0]
  /\ UNCHANGED <<repl_, repl_pos_, id_list, straddled, feedVars>>

Merge == Clear \/ Store \/ Scan \/ (\E t \in Threads : MergeOne(t)) \/ Flush

(* The merge clears or reads a slot while its thread is appending to it.   *)
Race ==
  /\ mpc \in {"idle", "scan", "merge"}
  /\ \E t \in Workers : pc[t] \in {"putid", "putpack"} /\ repl[t] = 1 - repl_pos_
  /\ mpc = "idle" => pc[Main] = "idle"
  /\ mpc' = "undefined"
  /\ UNCHANGED <<repl_, repl_pos_, back_log_, aof_file_, p, id_list, straddled, feedVars>>

(* Once the merge has left defined behaviour nothing more is said of it.   *)
Undefined ==
  /\ mpc = "undefined"
  /\ UNCHANGED vars

Next == Merge \/ Race \/ (\E t \in Threads : Feed(t)) \/ Undefined

(* The cron timer is repeating and no handler of the main loop blocks, so  *)
(* the main thread goes on merging and finishes the feeds it starts.       *)
Spec == Init /\ [][Next]_vars
FairSpec == Spec /\ WF_vars(Merge) /\ WF_vars(pc[Main] # "idle" /\ Feed(Main))

-----------------------------------------------------------------------------
(* What the threads may rely on.                                           *)

(* Command m of thread t may be logged before command n of that thread.    *)
Before(t, m, n) == m < n \/ (m # n /\ <<t, n>> \in straddled)

Ordered(s) ==
  \A i, j \in 1..Len(s) :
    i < j /\ s[i].tid = s[j].tid => Before(s[i].tid, s[i].seq, s[j].seq)

InLog(t, n) == \E i \in 1..Len(aof_file_) : aof_file_[i].tid = t /\ aof_file_[i].seq = n
InBackLog(t, n) == \E i \in 1..Len(back_log_) : back_log_[i].tid = t /\ back_log_[i].seq = n
InCurrent(t, n) == \E i \in 1..Len(repl_[repl_pos_][t]) : repl_[repl_pos_][t][i] = Pack(n)
InMerging(t, n) ==
  /\ mpc \in {"scan", "merge"}
  /\ \E i \in (p[t] + 1)..Len(Merging[t]) : Merging[t][i] = Pack(n)
  /\ mpc = "merge" => t \in id_list

(* Every variable has the type the code gives it.                          *)
TypeOK ==
  /\ repl_ \in [{0, 1} -> [Threads -> Seq(Entry)]]
  /\ repl_pos_ \in {0, 1}
  /\ repl_command_incr_ \in Nat
  /\ back_log_ \in Seq(Logged)
  /\ aof_file_ \in Seq(Logged)
  /\ pc \in [Threads -> {"idle", "load", "incr", "putid", "putpack"}]
  /\ repl \in [Threads -> {0, 1}]
  /\ command_id \in [Threads -> Nat]
  /\ fed \in [Threads -> Nat]
  /\ mpc \in {"idle", "clear", "scan", "merge", "undefined"}
  /\ p \in [Threads -> Nat]
  /\ id_list \subseteq Threads
  /\ straddled \subseteq Threads \X Nat

(* Whatever the interleaving, the append-only file never holds a command   *)
(* twice, and holds the commands of one thread in the order they were fed, *)
(* the late feeds that land in a buffer while it is merged included.  The  *)
(* one exception the code allows: a feed stalled across a whole merge that *)
(* resumes between the clearing of its buffer and the store of repl_pos_   *)
(* is logged one merge late, after commands its thread fed later           *)
(* (backlogFeed, _merge_backlog_feed_slaves).                              *)
AofOrder == Ordered(aof_file_)

(* A command is lost only if repl_pos_ changed while it was being fed:     *)
(* every other fed command is in the file, in the batch being merged, or   *)
(* in a place the merge will still read.                                   *)
NotLost ==
  mpc # "undefined" =>
    \A t \in Threads : \A n \in 1..fed[t] :
      \/ <<t, n>> \in straddled
      \/ InLog(t, n) \/ InBackLog(t, n) \/ InCurrent(t, n) \/ InMerging(t, n)

(* The merge puts the commands of one batch in id order, also when late    *)
(* feeds keep appending to the slots it reads.                             *)
BatchSorted ==
  \A i, j \in 1..Len(back_log_) : i < j => back_log_[i].id <= back_log_[j].id

(* The id is written in front of the pack for the merge to read            *)
(* (backlogFeed, replication.cpp:432): a pack that does not follow an id,  *)
(* because the slot was cleared between the two, is one whose feed         *)
(* straddled a switch.                                                     *)
IdPrecedesPack ==
  \A b \in {0, 1} : \A t \in Threads : \A i \in 1..Len(repl_[b][t]) :
    repl_[b][t][i].kind = "pack" =>
      \/ i > 1 /\ repl_[b][t][i - 1].kind = "id"
      \/ <<t, repl_[b][t][i].val>> \in straddled

(* A fed command that no flip straddled reaches the append-only file.      *)
EventuallyLogged ==
  \A t \in Threads : \A n \in 1..MaxFeeds[t] :
    (n <= fed[t] /\ <<t, n>> \notin straddled) ~> (InLog(t, n) \/ mpc = "undefined")

(* The backlog implements the abstract command log: feeding a pack issues  *)
(* a command, flushing a batch appends it, every other step is invisible.  *)
CL == INSTANCE CommandLog WITH issued <- fed, log <- aof_file_, late <- straddled
ImplementsCommandLog == CL!Spec
=============================================================================
