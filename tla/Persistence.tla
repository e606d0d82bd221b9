---------------------------- MODULE Persistence ----------------------------
(***************************************************************************)
(* What one server keeps on disk and how it recovers: the append-only      *)
(* files (sink/rotate_file_stream.cpp), the database dump written by a     *)
(* forked child (Replication::bgsave), the configuration file that says    *)
(* from which place of the append-only files the dump must be brought up   *)
(* to date (replConf), and the recovery of all three in Replication::_init.*)
(*                                                                         *)
(* A command is HSET on one key, numbered in the order of execution; what  *)
(* is stored under a key is the number of the command that set it.         *)
(***************************************************************************)
EXTENDS Integers, Sequences, FiniteSets, FiniteSetsExt

CONSTANTS Workers,       \* the worker threads
          Keys,
          KeysOf,        \* the keys that the clients of worker w write
          RotateSize,    \* repl_aof_rotate_size, in packs
          ChildMayDie,   \* whether a bgsave child may die while it dumps
          MaxCmds,       \* bound: commands executed
          MaxCrashes     \* bound: crashes

ASSUME KeysOfAssumption == KeysOf \in [Workers -> SUBSET Keys]
ASSUME SizeAssumption == RotateSize \in Nat \ {0}
ASSUME BoundAssumption == MaxCmds \in Nat /\ MaxCrashes \in Nat
ASSUME ChildAssumption == ChildMayDie \in BOOLEAN

NoCmd == [key |-> "none", n |-> 0]
Cmd == [key : Keys, n : 1..MaxCmds]
Data == [Keys -> 0..MaxCmds]               \* 0: no such key
Empty == [k \in Keys |-> 0]

(* A place in the append-only files: file number, 1 for naruto.aof.0, and  *)
(* offset.  The file number of an empty name is 0.                         *)
Start == [name |-> 0, off |-> 0]
NoChild == [dump |-> Empty, at |-> Start, running |-> FALSE]

VARIABLES
  up,         \* whether the server runs
  mem,        \* database::buckets
  executed,   \* the commands executed by worker w and not yet fed
  backlog,    \* the commands fed and not yet written
  child,      \* the bgsave child: what it saw at the fork, and the place then
  conf,       \* repl_conf_.db_dump_aof_name and db_dump_aof_off
  aof,        \* on disk: the append-only files
  db,         \* on disk: the database dump
  conf_file,  \* on disk: the configuration file
  cmds,       \* commands executed so far
  crashes     \* crashes so far

disk == <<aof, db, conf_file>>
vars == <<up, mem, executed, backlog, child, conf, disk, cmds, crashes>>

Init ==
  /\ up = TRUE
  /\ mem = Empty
  /\ executed = [w \in Workers |-> NoCmd]
  /\ backlog = <<>>
  /\ child = NoChild
  /\ conf = Start
  /\ aof = <<<<>>>>
  /\ db = Empty
  /\ conf_file = Start
  /\ cmds = 0
  /\ crashes = 0

-----------------------------------------------------------------------------
(* CommandHset::exec on a worker: the element is set first, the pack is    *)
(* fed to the backlog afterwards.                                          *)
Exec(w, k) ==
  /\ up
  /\ cmds < MaxCmds
  /\ executed[w] = NoCmd
  /\ mem' = [mem EXCEPT ![k] = cmds + 1]
  /\ executed' = [executed EXCEPT ![w] = [key |-> k, n |-> cmds + 1]]
  /\ cmds' = cmds + 1
  /\ UNCHANGED <<up, backlog, child, conf, disk, crashes>>

Feed(w) ==
  /\ up
  /\ executed[w] # NoCmd
  /\ backlog' = Append(backlog, executed[w])
  /\ executed' = [executed EXCEPT ![w] = NoCmd]
  /\ UNCHANGED <<up, mem, child, conf, disk, cmds, crashes>>

-----------------------------------------------------------------------------
(* Mutant of Write: the file is truncated when it is opened.               *)
Write_Truncates(files, batch) == [files EXCEPT ![Len(files)] = batch]

(* RotateFileStream::write: the size is looked at before the batch is      *)
(* written, so a file grows past RotateSize by at most one batch.          *)
Write(files, batch) ==
  LET last == Len(files)
  IN  IF Len(files[last]) >= RotateSize
        THEN Append(files, batch)
        ELSE [files EXCEPT ![last] = @ \o batch]

(* Mutant of CurRollFile: the index is that of the next file.              *)
CurRollFile_NextIndex == [name |-> Len(aof) + 1, off |-> 0]

(* RotateFileStream::curRollFile.                                          *)
CurRollFile == [name |-> Len(aof), off |-> Len(aof[Len(aof)])]

(* _backlog_flush, and replConfFlush at its end.                           *)
Flush ==
  /\ up
  /\ backlog # <<>>
  /\ aof' = Write(aof, backlog)
  /\ backlog' = <<>>
  /\ conf_file' = conf
  /\ UNCHANGED <<up, mem, executed, child, conf, db, cmds, crashes>>

(* onReplConfFlushCron.                                                    *)
ConfFlush ==
  /\ up
  /\ conf_file' = conf
  /\ UNCHANGED <<up, mem, executed, backlog, child, conf, aof, db, cmds, crashes>>

(* bgsave: the child sees the memory as it is at the fork; the parent      *)
(* notes where the append-only file is then.                               *)
Bgsave ==
  /\ up
  /\ mem # Empty
  /\ ~child.running
  /\ child' = [dump |-> mem, at |-> CurRollFile, running |-> TRUE]
  /\ UNCHANGED <<up, mem, executed, backlog, conf, disk, cmds, crashes>>

(* What a child that dies while dumping leaves in its file.                *)
Parts(dump) == {[k \in Keys |-> IF k \in S THEN dump[k] ELSE 0] : S \in SUBSET Keys}
Dumped == IF ChildMayDie THEN Parts(child.dump) ELSE {child.dump}

(* Mutant of DumpPlace: the place is taken when the child has finished.    *)
DumpPlace_AtFinish == CurRollFile

DumpPlace == child.at

(* onBgsaveFinish: the child's file replaces the dump, whatever the        *)
(* child's exit status says.  The rename fails if the child could not      *)
(* create its file: then the dump and the place stay.                      *)
BgsaveFinish ==
  /\ up
  /\ child.running
  /\ child' = NoChild
  /\ \/ /\ db' \in Dumped
        /\ conf' = DumpPlace
     \/ UNCHANGED <<db, conf>>
  /\ UNCHANGED <<up, mem, executed, backlog, aof, conf_file, cmds, crashes>>

-----------------------------------------------------------------------------
(* A file is loaded whole here: it fits one buffer of File::loadFile.      *)
(* DumpFile has the loader as it is, byte by byte.                         *)

(* Mutant of From: the offset is applied to every listed file.             *)
From_EveryFile(f) == conf_file.off

(* Where the replay of file f starts: listAof lists the file of the dump   *)
(* and all later ones, or all files if the name is empty, and the offset   *)
(* belongs to the first of the list.                                       *)
From(f) == IF f = conf_file.name THEN conf_file.off ELSE 0

Replayed(k) ==
  UNION {{<<f, j>> : j \in {i \in (From(f) + 1)..Len(aof[f]) : aof[f][i].key = k}} :
           f \in {g \in 1..Len(aof) : g >= conf_file.name}}

Later(x, y) == x[1] > y[1] \/ (x[1] = y[1] /\ x[2] > y[2])

(* The dump is loaded first, then the commands are executed in file order. *)
Recovered ==
  [k \in Keys |->
     IF Replayed(k) = {} THEN db[k]
       ELSE LET x == CHOOSE x \in Replayed(k) :
                       \A y \in Replayed(k) \ {x} : Later(x, y)
            IN  aof[x[1]][x[2]].n]

(* The process dies: between two handlers, ...                             *)
Die ==
  /\ up
  /\ crashes < MaxCrashes
  /\ up' = FALSE
  /\ mem' = Empty
  /\ executed' = [w \in Workers |-> NoCmd]
  /\ backlog' = <<>>
  /\ child' = NoChild
  /\ conf' = Start
  /\ crashes' = crashes + 1
  /\ UNCHANGED <<db, conf_file, cmds>>

Crash == Die /\ UNCHANGED aof

(* ... or while the batch is being written, before the configuration is.   *)
(* A pack that was cut short is not replayed, so it is left out.           *)
CrashInFlush ==
  /\ Die
  /\ \E i \in 1..Len(backlog) : aof' = Write(aof, SubSeq(backlog, 1, i))

(* A signal ends the process (Naruto::onSignal): the workers finish the    *)
(* commands they execute, and stop() flushes the batch, which is empty     *)
(* outside of a merge.  What was fed and not merged is lost.               *)
Stop == Crash /\ \A w \in Workers : executed[w] = NoCmd

(* initializer: a new append-only file is created, and then the dump, the  *)
(* configuration and the append-only files are loaded.                     *)
Restart ==
  /\ ~up
  /\ up' = TRUE
  /\ mem' = Recovered
  /\ conf' = conf_file
  /\ aof' = Append(aof, <<>>)
  /\ UNCHANGED <<executed, backlog, child, db, conf_file, cmds, crashes>>

Next ==
  \/ \E w \in Workers : Feed(w) \/ \E k \in KeysOf[w] : Exec(w, k)
  \/ Flush \/ ConfFlush
  \/ Bgsave \/ BgsaveFinish
  \/ Crash \/ CrashInFlush \/ Stop \/ Restart

Spec == Init /\ [][Next]_vars

-----------------------------------------------------------------------------
(* Every variable has its type.                                            *)
Place == [name : 0..Len(aof), off : Nat]
TypeOK ==
  /\ up \in BOOLEAN
  /\ mem \in Data
  /\ executed \in [Workers -> Cmd \cup {NoCmd}]
  /\ backlog \in Seq(Cmd)
  /\ child \in [dump : Data, at : Place, running : BOOLEAN]
  /\ conf \in Place
  /\ aof \in Seq(Seq(Cmd)) /\ aof # <<>>
  /\ db \in Data
  /\ conf_file \in Place
  /\ cmds \in 0..MaxCmds
  /\ crashes \in 0..MaxCrashes

Logged(k) ==
  UNION {{aof[f][j].n : j \in {i \in 1..Len(aof[f]) : aof[f][i].key = k}} : f \in 1..Len(aof)}

(* The commands that lie before place c.                                   *)
LoggedBefore(k, c) ==
  UNION {{aof[f][j].n : j \in {i \in 1..Len(aof[f]) :
            aof[f][i].key = k /\ (f < c.name \/ (f = c.name /\ i <= c.off))}} : f \in 1..Len(aof)}

(* The dump on disk contains everything that lies before the places the    *)
(* memory and the configuration file give for it, at every moment between  *)
(* the fork, the rename of the dump and the flush of the configuration     *)
(* (bgsave, onBgsaveFinish, replConfFlush).                                *)
DumpCoversPlace ==
  \A k \in Keys : \A n \in LoggedBefore(k, conf_file) \cup LoggedBefore(k, conf) : db[k] >= n

(* At whatever point the server dies, the recovery finds for every key a   *)
(* value at least as new as the last one written to the append-only files, *)
(* with the dump and the configuration file possibly from different saves  *)
(* (_init, loadFile, listAof).                                             *)
RecoversLog ==
  \A k \in Keys : \A n \in Logged(k) : Recovered[k] >= n

(* The server implements a store that may lose at a crash what was not yet *)
(* written, and nothing else: a write that has become durable stays.       *)
Durable == [k \in Keys |-> Max(Logged(k) \cup {0})]
Visible == IF up THEN mem ELSE Recovered
DS == INSTANCE DurableStore WITH store <- Visible, durable <- Durable, last <- cmds
ImplementsDurableStore == DS!Spec

(* onBgsaveFinish logs "Background saving terminated with success" when it *)
(* has recorded the place of a dump (replication.cpp:307): the dump that a *)
(* recorded place belongs to is complete.                                  *)
SavedWithSuccess ==
  \A k \in Keys : \A n \in LoggedBefore(k, conf) : db[k] >= n
=============================================================================
