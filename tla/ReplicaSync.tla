---------------------------- MODULE ReplicaSync ----------------------------
(***************************************************************************)
(* A replica that follows a master: the connection state machine of        *)
(* Replication (onReplCron, onSyncWithMaster, onReadSyncBulkPayload,       *)
(* cacheMaster), the master's side of it (CommandPsync, replicaLink), and  *)
(* what the replica keeps on its own disk.  The master is the server of    *)
(* Persistence; this module adds the replica, the link between the two and *)
(* the steps that join them.                                               *)
(*                                                                         *)
(* The handlers of the replica run on its main thread and are one step     *)
(* each.  PSYNC is a blocking exchange: it succeeds as one step with the   *)
(* master's handler, or fails.  PING and PONG carry no state.              *)
(*                                                                         *)
(* The sender works on bytes: it reads a file in pieces and counts what it *)
(* has read, whatever it has made of it.  So the packs of a file have      *)
(* lengths here, and a place on the link may lie inside a pack.            *)
(***************************************************************************)
EXTENDS Persistence, SequencesExt

CONSTANTS PackLen,          \* the bytes of the pack of a command
          SizeLen,          \* PACK_SIZE_LEN, those of the length at its front
          ReadBytes,        \* the bytes onSendIncrToSlave reads at a time: 4096
          MaxReads,         \* how often it reads for a message: transfer_len is
                            \* MaxReads * ReadBytes, four times 4096
          SlaveofIn,        \* the states in which SLAVEOF arrives
          TransferMayFail,  \* whether the transfer of a dump may be cut off
          MaxChan,          \* bound: messages in flight
          MaxFaults,        \* bound: lost links and timeouts of a live link
          MaxSlaveCrashes   \* bound: crashes of the replica

States == {"NONE", "CONNECT", "CONNECTING", "RECEIVE_PONG", "TRANSFOR", "CONNECTED"}

ASSUME PackAssumption ==
  /\ PackLen \in [Cmd -> Nat] /\ SizeLen \in Nat
  /\ \A c \in Cmd : PackLen[c] > SizeLen
ASSUME ReadAssumption == ReadBytes \in Nat \ {0} /\ MaxReads \in Nat \ {0}
ASSUME TransferAssumption == TransferMayFail \in BOOLEAN
ASSUME SlaveofAssumption == SlaveofIn \subseteq {"NONE", "TRANSFOR", "CONNECTED"}
ASSUME ReplicaBoundAssumption == {MaxChan, MaxFaults, MaxSlaveCrashes} \subseteq Nat

VARIABLES
  replica,    \* the replica, see Fresh
  link,       \* whether the connection exists
  chan,       \* what the master has sent on it and the replica not yet read
  out,        \* the master's replicaLink: what it sends, and from which place
  faults,     \* faults so far
  scrashes,   \* crashes of the replica so far
  cut,        \* history: a transfer of a dump was given up
  strayed     \* history: a sender went on behind packs it had not sent

linkVars == <<link, chan, out>>
replicaVars == <<replica, linkVars, faults, scrashes, cut, strayed>>
allVars == <<vars, replicaVars>>

(* A place on the link: off packs of the file, and part bytes of the next. *)
(* The places of repl_conf_ on the master are boundaries of packs.         *)
Boundary(c) == [name |-> c.name, off |-> c.off, part |-> 0]
Unset == Boundary(Start)

(* The replica: its process; repl_state_ and the read handler installed on *)
(* the link; the place reached on the link (name 0 before PSYNC); the      *)
(* place cached in repl_conf_, and whether master_ip is known there; its   *)
(* memory and backlog; and on disk its configuration, dump and log.        *)
Fresh ==
  [run |-> "up", state |-> "NONE", reads |-> "none", pos |-> Unset,
   cached |-> Unset, known |-> FALSE, mem |-> Empty, backlog |-> <<>>,
   file |-> [cached |-> Unset, known |-> FALSE], dump |-> Empty, log |-> <<>>]

Idle == [mode |-> "idle", pos |-> Unset, dump |-> Empty]

ReplicaInit ==
  /\ Init
  /\ replica = Fresh
  /\ link = FALSE
  /\ chan = <<>>
  /\ out = Idle
  /\ faults = 0
  /\ scrashes = 0
  /\ cut = FALSE
  /\ strayed = FALSE

Running == replica.run = "up"
NoLink == link' = FALSE /\ chan' = <<>> /\ out' = Idle
Untouched == UNCHANGED <<vars, scrashes, cut, strayed>>

(* Executing commands in order on data.                                    *)
Apply(data, s) ==
  [k \in Keys |-> LET js == {j \in 1..Len(s) : s[j].key = k}
                  IN  IF js = {} THEN data[k] ELSE s[Max(js)].n]

-----------------------------------------------------------------------------
(* The master's side.                                                      *)

Transferring == replica.state = "TRANSFOR" \/ replica.reads = "bulk"

MasterStep ==
  /\ \/ \E w \in Workers : Feed(w) \/ \E k \in KeysOf[w] : Exec(w, k)
     \/ Flush \/ ConfFlush \/ Bgsave \/ BgsaveFinish \/ Restart
  /\ UNCHANGED replicaVars

MasterDies ==
  /\ Transferring => TransferMayFail
  /\ Crash \/ CrashInFlush
  /\ NoLink
  /\ UNCHANGED <<replica, faults, scrashes, cut, strayed>>

(* The bytes of the first n packs of file s.                               *)
Bytes(s, n) ==
  LET upTo[i \in 0..Len(s)] == IF i = 0 THEN 0 ELSE upTo[i - 1] + PackLen[s[i]]
  IN  upTo[n]

(* File::size: -1 if there is no such file.                                *)
FileSize(name) == IF name > Len(aof) THEN -1 ELSE Bytes(aof[name], Len(aof[name]))

(* Offsets in bytes, and back.                                             *)
ByteOf(c) == Bytes(aof[c.name], c.off) + c.part
PlaceAt(name, byte) ==
  LET off == Max({i \in 0..Len(aof[name]) : Bytes(aof[name], i) <= byte})
  IN  [name |-> name, off |-> off, part |-> byte - Bytes(aof[name], off)]

(* What onSendIncrToSlave reads from place c on: from one byte to another, *)
(* and whether it sees the end of the file.                                *)
TransferLen == MaxReads * ReadBytes
Read(c) ==
  LET from == ByteOf(c)
      left == FileSize(c.name) - from
      eof == left < TransferLen
  IN  [from |-> from, to |-> from + (IF eof THEN left ELSE TransferLen), eof |-> eof]

(* A read ends inside pack i of the file, behind its length: the inner     *)
(* loop has consumed the length when it finds that the rest is missing.    *)
ReadEnds(m) == {m.from + n * ReadBytes : n \in 1..(MaxReads - 1)}
Torn(s, i, end) == Bytes(s, i - 1) + SizeLen < end /\ end < Bytes(s, i)

(* Mutant of Parsed: the last pack is not found complete.                  *)
Parsed_TooShort(s, i, m) ==
  Bytes(s, i) < m.to /\ \A end \in ReadEnds(m) : ~Torn(s, i, end)

Parsed(s, i, m) ==
  Bytes(s, i) <= m.to /\ \A end \in ReadEnds(m) : ~Torn(s, i, end)

(* How many packs the message gets: those before the first that is torn or *)
(* incomplete, and none if it begins inside a pack.                        *)
Sent(c, m) ==
  IF c.part # 0 THEN 0
    ELSE Max({n \in 0..(Len(aof[c.name]) - c.off) :
                \A i \in (c.off + 1)..(c.off + n) : Parsed(aof[c.name], i, m)})

(* Bytes of a body are taken for a length.  (Behind a torn pack's length   *)
(* come its flag and type: read as a length they exceed any message, which *)
(* uses up the read that follows.)                                         *)
Astray(c, m, sent) ==
  \/ c.part # 0 /\ m.to - m.from > SizeLen
  \/ /\ c.off + sent < Len(aof[c.name])
     /\ \E end \in ReadEnds(m) :
          end + ReadBytes < m.to /\ Torn(aof[c.name], c.off + sent + 1, end)

(* Mutants of Advance: the next file is entered before it exists, or never.*)
Advance_AnyEof(pos, eof) ==
  IF eof THEN Boundary([name |-> pos.name + 1, off |-> 0]) ELSE pos
Advance_SameFile(pos, eof) == pos

(* At the end of a file that has a successor the sender goes on to it.     *)
Advance(pos, eof) ==
  IF eof /\ pos.name < Len(aof)
    THEN Boundary([name |-> pos.name + 1, off |-> 0])
    ELSE pos

(* onSendIncrToSlave.  The offset advances by what was read, also over     *)
(* packs that were not sent.  There is no message when nothing was read,   *)
(* and one without a command when no pack was found.  What a sender does   *)
(* that has gone astray is undefined: arrays of any size, commands of any  *)
(* bytes.                                                                  *)
SendIncr ==
  /\ up /\ link
  /\ out.mode = "incr"
  /\ Len(chan) < MaxChan
  /\ \E m \in {Read(out.pos)} : \E sent \in {Sent(out.pos, m)} :
       LET reached == PlaceAt(out.pos.name, m.to)
           pos == Advance(reached, m.eof)
       IN  /\ \/ /\ pos # out.pos
                /\ out' = [out EXCEPT !.pos = pos]
                /\ chan' = IF m.to = m.from THEN chan
                             ELSE Append(chan, [type |-> "aof", dump |-> Empty, pos |-> pos,
                                    cmds |-> SubSeq(aof[out.pos.name], out.pos.off + 1,
                                                    out.pos.off + sent)])
             \/ /\ Astray(out.pos, m, sent)
                /\ out' = [out EXCEPT !.mode = "undefined"]
                /\ UNCHANGED chan
           /\ strayed' = (strayed \/ reached # [out.pos EXCEPT !.off = @ + sent])
  /\ UNCHANGED <<vars, replica, link, faults, scrashes, cut>>

(* onSendBulkToSlave, to the end of the dump.  The file was opened when    *)
(* PSYNC was answered: a newer dump renamed over it does not matter.       *)
SendBulk ==
  /\ up /\ link
  /\ out.mode = "bulk"
  /\ chan' = Append(chan, [type |-> "bulk", cmds |-> <<>>,
                           dump |-> out.dump, pos |-> out.pos])
  /\ out' = [out EXCEPT !.mode = "incr", !.dump = Empty]
  /\ UNCHANGED <<vars, replica, link, faults, scrashes, cut, strayed>>

-----------------------------------------------------------------------------
(* PSYNC.                                                                  *)

(* Mutant of Answer: the replica continues at the place of the dump without *)
(* having the dump.                                                        *)
Answer_PartAtDump(c) ==
  [type |-> "PARTSYNC",
   pos |-> IF c.name # 0 THEN c
             ELSE Boundary(IF conf.name = 0 THEN [name |-> 1, off |-> 0] ELSE conf)]

(* CommandPsync::exec: how a request for place c is answered.              *)
Answer(c) ==
  LET full == IF conf.name = 0
                THEN [type |-> "TRYSYNC", pos |-> Unset]
                ELSE [type |-> "FULLSYNC", pos |-> Boundary(conf)]
  IN  IF c.name = 0
        THEN IF db = Empty
               THEN [type |-> "PARTSYNC", pos |-> Boundary([name |-> 1, off |-> 0])]
               ELSE full
        ELSE IF FileSize(c.name) = -1 \/ FileSize(c.name) < ByteOf(c)
               THEN full
               ELSE [type |-> "PARTSYNC", pos |-> c]

(* The synchronous messages on the link, of which the replica waits for    *)
(* the answer: it reads the PONG, sends PSYNC and reads the reply.         *)
Exchanged ==
  /\ Running /\ up /\ link
  /\ replica.reads = "sync" /\ replica.state = "RECEIVE_PONG"

(* onSyncWithMaster after the PONG: the blocking PSYNC, and what the       *)
(* replica makes of the answer (_slave_try_partial_resynchronization).  It *)
(* caches the place of the answer at once, also when the dump that belongs *)
(* to that place has not been received.                                    *)
Psync ==
  /\ Exchanged
  /\ LET a == Answer(replica.cached)
     IN  \/ /\ a.type = "FULLSYNC"
            /\ replica' = [replica EXCEPT !.state = "TRANSFOR", !.reads = "bulk",
                                          !.pos = a.pos, !.cached = a.pos]
            /\ out' = [mode |-> "bulk", pos |-> a.pos, dump |-> db]
            /\ UNCHANGED <<vars, link, chan>>
         \/ /\ a.type = "PARTSYNC"
            /\ replica' = [replica EXCEPT !.state = "CONNECTED", !.reads = "incr",
                                          !.pos = a.pos, !.cached = a.pos]
            /\ out' = [Idle EXCEPT !.mode = "incr", !.pos = a.pos]
            /\ UNCHANGED <<vars, link, chan>>
         \/ /\ a.type = "TRYSYNC"
            /\ Bgsave \/ (UNCHANGED vars /\ (mem = Empty \/ child.running))
            /\ replica' = [replica EXCEPT !.state = "CONNECT", !.reads = "none"]
            /\ NoLink
  /\ UNCHANGED <<faults, scrashes, cut, strayed>>

-----------------------------------------------------------------------------
(* The replica's side.                                                     *)

(* CommandSlaveof::exec: the state is overwritten, whatever goes on; the   *)
(* link and its handlers stay.                                             *)
Slaveof ==
  /\ Running
  /\ replica.state \in SlaveofIn
  /\ replica.state # "NONE" => faults < MaxFaults
  /\ faults' = IF replica.state = "NONE" THEN faults ELSE faults + 1
  /\ replica' = [replica EXCEPT !.state = "CONNECT"]
  /\ Untouched /\ UNCHANGED linkVars

(* replConfFlush, to a renamed file.                                       *)
Flushed(r) ==
  LET linked == r.pos.name # 0
      c == IF linked THEN r.pos ELSE r.cached
      known == r.known \/ linked
  IN  [r EXCEPT !.cached = c, !.known = known, !.file = [cached |-> c, known |-> known]]

ReplicaConfFlush ==
  /\ Running
  /\ replica' = Flushed(replica)
  /\ Untouched /\ UNCHANGED <<linkVars, faults>>

(* _merge_backlog_feed_slaves at the end of onReplCron: the replica's own  *)
(* backlog goes to its own log, and then the configuration is flushed.     *)
Merged(r) ==
  IF r.backlog = <<>> THEN r
    ELSE Flushed([r EXCEPT !.log = @ \o r.backlog, !.backlog = <<>>])

(* Mutant of CacheMaster: the place is that of the master's next message.  *)
CacheMaster_Ahead(r) == [r EXCEPT !.cached = out.pos, !.state = "CONNECT"]

(* cacheMaster.                                                            *)
CacheMaster(r) == [r EXCEPT !.cached = r.pos, !.state = "CONNECT"]

(* _undo_connect_master and _abort_sync_transfer remove the handlers of    *)
(* the link and leave it open; the part of the dump received is removed.   *)
UndoConnectMaster(r) == [r EXCEPT !.state = "CONNECT", !.reads = "none"]
AbortSyncTransfer(r) == [r EXCEPT !.state = "CONNECT", !.reads = "none"]

(* The timeouts onReplCron looks for.  A connected replica closes the link *)
(* and caches its place.                                                   *)
TimedOut(r) ==
  CASE r.state \in {"CONNECTING", "RECEIVE_PONG"} -> UndoConnectMaster(r)
    [] r.state = "TRANSFOR" -> AbortSyncTransfer(r)
    [] r.state = "CONNECTED" -> [CacheMaster(r) EXCEPT !.reads = "none"]
    [] OTHER -> r

(* A new replicaLink has no place; _connect_master.                        *)
NewLink(r) == [r EXCEPT !.pos = Unset]
Connecting(r) == [NewLink(r) EXCEPT !.state = "CONNECTING", !.reads = "sync"]

(* onReplCron: timeouts, a connection attempt if one is due, the merge.    *)
(* An attempt needs a master that accepts: see ReplicaDies.                *)
Cron(timeout) ==
  LET r == IF timeout THEN TimedOut(replica) ELSE replica
      dial == r.state = "CONNECT"
  IN  /\ Running
      /\ timeout => /\ replica.state \notin {"NONE", "CONNECT"}
                    /\ link => faults < MaxFaults
                    /\ replica.state = "TRANSFOR" => TransferMayFail
      /\ faults' = IF timeout /\ link THEN faults + 1 ELSE faults
      /\ replica' = Merged(IF dial THEN Connecting(r) ELSE r)
      /\ IF dial
           THEN up /\ link' = TRUE /\ chan' = <<>> /\ out' = Idle
           ELSE UNCHANGED linkVars
      /\ cut' = (cut \/ (Transferring /\ ~Transferring'))
      /\ UNCHANGED <<vars, scrashes, strayed>>

(* onSyncWithMaster, first call: PING is sent.                             *)
SendPing ==
  /\ Running /\ link
  /\ replica.reads = "sync" /\ replica.state = "CONNECTING"
  /\ replica' = [replica EXCEPT !.state = "RECEIVE_PONG"]
  /\ Untouched /\ UNCHANGED <<linkVars, faults>>

(* onSyncWithMaster: the socket has an error, or PSYNC gets no answer.     *)
SyncError ==
  /\ Running
  /\ replica.reads = "sync"
  /\ ~link
  /\ replica' = [replica EXCEPT !.state = "CONNECT", !.reads = "none"]
  /\ Untouched /\ UNCHANGED <<linkVars, faults>>

(* onReadSyncBulkPayload, to the end of the dump: it replaces the          *)
(* replica's dump and memory; the replica's own log stays as it is.        *)
ReadBulk ==
  /\ Running
  /\ replica.reads = "bulk"
  /\ chan # <<>>
  /\ replica' = [replica EXCEPT !.dump = Head(chan).dump, !.mem = Head(chan).dump,
                                !.reads = "incr", !.state = "CONNECTED"]
  /\ chan' = Tail(chan)
  /\ Untouched /\ UNCHANGED <<link, out, faults>>

(* onReadSyncBulkPayload on a lost link: _abort_sync_transfer, which       *)
(* asserts the state it expects.                                           *)
BulkError ==
  /\ Running
  /\ replica.reads = "bulk"
  /\ ~link
  /\ replica' = IF replica.state = "TRANSFOR"
                  THEN AbortSyncTransfer(replica)
                  ELSE [replica EXCEPT !.run = "aborted"]
  /\ cut' = TRUE
  /\ UNCHANGED <<vars, linkVars, faults, scrashes, strayed>>

(* Mutant of Received: the place of the message is not taken over.         *)
Received_KeepsPlace(r, m) ==
  [r EXCEPT !.mem = Apply(@, m.cmds), !.backlog = @ \o m.cmds]

(* CommandAof::exec: execute and feed the commands, take over the place.   *)
Received(r, m) ==
  [r EXCEPT !.mem = Apply(@, m.cmds), !.backlog = @ \o m.cmds, !.pos = m.pos]

ReadIncr ==
  /\ Running
  /\ replica.reads = "incr"
  /\ chan # <<>>
  /\ replica' = Received(replica, Head(chan))
  /\ chan' = Tail(chan)
  /\ Untouched /\ UNCHANGED <<link, out, faults>>

(* clientLink::onRead on a lost link: it is closed, and the state stays    *)
(* CONNECTED until the timeout.                                            *)
ReadError ==
  /\ Running
  /\ replica.reads = "incr"
  /\ ~link
  /\ replica' = [replica EXCEPT !.reads = "none"]
  /\ Untouched /\ UNCHANGED <<linkVars, faults>>

(* The connection is lost with all that is under way on it.                *)
Drop ==
  /\ link
  /\ faults < MaxFaults
  /\ Transferring => TransferMayFail
  /\ faults' = faults + 1
  /\ NoLink
  /\ Untouched /\ UNCHANGED replica

-----------------------------------------------------------------------------
(* The replica dies.  A dial to a master that is down ends here too: the   *)
(* watcher is started on the file descriptor -1, and libev aborts.         *)
Dead(r) ==
  [Fresh EXCEPT !.run = "down", !.file = r.file, !.dump = r.dump, !.log = r.log]

ReplicaDies ==
  /\ Running
  /\ scrashes < MaxSlaveCrashes
  /\ Transferring => TransferMayFail
  /\ scrashes' = scrashes + 1
  /\ replica' = Dead(replica)
  /\ NoLink
  /\ UNCHANGED <<vars, faults, cut, strayed>>

(* _init: the dump, then the configuration, then the own log from its      *)
(* start (a replica's own bgsave is not modelled, so its dump place is     *)
(* empty).                                                                 *)
ReplicaRestart ==
  /\ replica.run = "down"
  /\ replica' = [replica EXCEPT
       !.run = "up",
       !.mem = Apply(replica.dump, replica.log),
       !.cached = replica.file.cached,
       !.known = replica.file.known,
       !.state = IF replica.file.known THEN "CONNECT" ELSE "NONE"]
  /\ Untouched /\ UNCHANGED <<linkVars, faults>>

ReplicaNext ==
  \/ MasterStep \/ MasterDies
  \/ SendIncr \/ SendBulk \/ Psync
  \/ Slaveof \/ ReplicaConfFlush
  \/ (\E timeout \in BOOLEAN : Cron(timeout))
  \/ SendPing \/ SyncError
  \/ ReadBulk \/ BulkError \/ ReadIncr \/ ReadError
  \/ Drop
  \/ ReplicaDies \/ ReplicaRestart

ReplicaSpec == ReplicaInit /\ [][ReplicaNext]_allVars

(* Timers repeat and sockets that are ready are served; a server that died *)
(* is started again.  Only the rename of a finished dump may fail, but not *)
(* for ever.                                                               *)
ReplicaFairSpec ==
  /\ ReplicaSpec
  /\ WF_allVars(Flush /\ UNCHANGED replicaVars)
  /\ WF_allVars(Restart /\ UNCHANGED replicaVars)
  /\ SF_allVars(BgsaveFinish /\ conf' = DumpPlace /\ UNCHANGED replicaVars)
  /\ WF_allVars(SendIncr \/ SendBulk)
  /\ WF_allVars(Psync \/ SendPing \/ SyncError)
  /\ WF_allVars(ReadBulk \/ BulkError \/ ReadIncr \/ ReadError)
  /\ WF_allVars(Cron(FALSE))
  /\ WF_allVars(~link /\ Cron(TRUE))
  /\ WF_allVars(ReplicaRestart)

-----------------------------------------------------------------------------
InPlace(c) == c.name \in 0..Len(aof) /\ c.off \in Nat /\ c.part \in Nat

(* Every variable has its type; no place lies beyond the master's files.   *)
ReplicaTypeOK ==
  /\ TypeOK
  /\ replica.run \in {"up", "down", "aborted"}
  /\ replica.state \in States
  /\ replica.reads \in {"none", "sync", "bulk", "incr"}
  /\ {replica.known, replica.file.known, link} \subseteq BOOLEAN
  /\ {replica.mem, replica.dump, out.dump} \subseteq Data
  /\ {replica.backlog, replica.log} \subseteq Seq(Cmd)
  /\ out.mode \in {"idle", "bulk", "incr", "undefined"}
  /\ \A c \in {replica.pos, replica.cached, replica.file.cached, out.pos} : InPlace(c)
  /\ \A i \in 1..Len(chan) :
       /\ chan[i].type \in {"bulk", "aof"} /\ chan[i].cmds \in Seq(Cmd)
       /\ chan[i].dump \in Data /\ InPlace(chan[i].pos)
  /\ faults \in 0..MaxFaults
  /\ scrashes \in 0..MaxSlaveCrashes
  /\ {cut, strayed} \subseteq BOOLEAN

Covers(data, c) == \A k \in Keys : \A n \in LoggedBefore(k, c) : data[k] >= n

(* The three ways in which a replica comes to report a place it has not    *)
(* reached: a transfer that was given up after its place was cached, a     *)
(* crash that loses what it had not written to its own log, and a sender   *)
(* that went on behind packs it had not sent.                              *)
Intact == ~cut /\ ~strayed /\ scrashes = 0

(* A replica that follows its master has everything that lies before the   *)
(* place it reports, whichever of the three answers to PSYNC, rotations of *)
(* the master's files, crashes of the master, lost links and repeated      *)
(* SLAVEOFs led there (CommandPsync, onSendIncrToSlave, CommandAof); as    *)
(* long as the sender has found every pack it has read: once a pack goes   *)
(* past the end of a read or of a message, nothing is said.                *)
Covered ==
  Intact /\ Running /\ replica.state = "CONNECTED" /\ replica.reads = "incr"
    => Covers(replica.mem, replica.pos)

(* The place from which the replica would resynchronise is one up to which *)
(* it has everything, unless a dump is under way                           *)
(* (_slave_try_partial_resynchronization, cacheMaster, replConfFlush); the *)
(* exceptions are those of Covered.                                        *)
CachedCovered ==
  Intact /\ Running /\ ~Transferring => Covers(replica.mem, replica.cached)

(* How many commands lie before place c: those of the files before its     *)
(* own, and those before its offset.                                       *)
Index(c) == Len(FlattenSeq(SubSeq(aof, 1, c.name - 1))) + c.off

(* What is under way on the link is exactly the piece of the master's log  *)
(* between the place of the replica and the place of the sender: nothing   *)
(* is skipped, repeated or reordered at the end of a read, of a message or *)
(* of a file, also while files rotate and the master restarts, until the   *)
(* end of a read or message first falls inside a pack (onSendIncrToSlave). *)
InFlightIsLog ==
  ~strayed /\ link /\ replica.reads \in {"bulk", "incr"} =>
    FlattenSeq([i \in 1..Len(chan) |-> chan[i].cmds])
      = SubSeq(FlattenSeq(aof), Index(replica.pos) + 1, Index(out.pos))

(* The sender goes on behind packs it has not sent only where a file is    *)
(* longer than what it reads at a time: below 4096 bytes, with whatever    *)
(* packs, flushes and messages, it parses all it reads (onSendIncrToSlave).*)
StraysOnlyBeyondOneRead ==
  strayed => \E f \in 1..Len(aof) : FileSize(f) > ReadBytes

(* Once it has been told to follow the master, the replica gets every      *)
(* command the master has logged, unless the sender strays.                *)
EventuallyReplicated ==
  \A k \in Keys : \A n \in 1..MaxCmds :
    (replica.state # "NONE" /\ n \in Logged(k)) ~> (replica.mem[k] >= n \/ strayed)
=============================================================================
