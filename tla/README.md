# Verification of naruto

naruto is a key-value server in the manner of Redis, in C++17 on libev. Clients
send packs (length, flag, type, protobuf body) to worker threads; a main thread
writes an append-only log, saves the database with a forked child, and
replicates to other servers. This directory holds TLA+ models of the parts
where threads, crashes and lost links meet, TLC configurations that check them
on small instances, and TLAPS proofs of most of their safety properties for
instances of any size.

The repository has no documents beside the code. What the code is meant to do
is taken from its comments, assertions and log messages.

## The system

| Part | State | Operations | Interacts with |
|---|---|---|---|
| Worker threads (`connect_worker.cpp`, `naruto.cpp`) | a libev loop and a queue of new connections each | accept and dispatch, run, stop | command handlers run on them |
| HSET, HGET, buckets (`command/`, `database/`) | hash buckets, one lock each | get, put, dump, parse, flush | HSET feeds the backlog after it has set the element |
| Backlog (`Replication::backlogFeed`, `_merge_backlog_feed_slaves`) | two buffers with one slot per thread, the index of the one in use, a command counter | feed (any thread, no lock), merge and flush (main thread, every second) | appends to the log |
| Append-only files (`sink/rotate_file_stream.cpp`) | `naruto.aof.0`, `.1`, ...; one stream | write, rotate, place | read by recovery and by the link to a replica |
| Dump and configuration (`bgsave`, `onBgsaveFinish`, `replConf`) | the dump, and a JSON file with the place in the log that belongs to it | save in a child, rename, flush the configuration | read by recovery and by PSYNC |
| Recovery (`Replication::_init`, `utils/file.cpp`) | - | load the dump, the configuration, then the log from its place | |
| Replica side (`onReplCron`, `onSyncWithMaster`, `onReadSyncBulkPayload`, `CommandAof`) | `repl_state_`, the place reached in the master's log, the cached place | SLAVEOF, dial, PING, PSYNC, receive the dump, apply commands, time out | its own backlog, log and configuration |
| Master side (`CommandPsync`, `replicaLink`) | per link: the file and offset to send from | answer PSYNC, send the dump, send the log | reads dump, configuration and log |
| Links (`link/client_link.cpp`, `connection/connection.cpp`) | per link a descriptor, two watchers, a pack and the replies to be written | read a pack, fetch and execute its command, write, close | the loops of the workers and of the main thread |
| Bytes, packs, CRC (`utils/`) | a buffer with a read and a write position | put, get, at a position or relative; serialize | everything that is sent or stored |
| Objects and the dump file (`database/`, `utils/file.cpp`) | seven classes of objects in rows and columns | set, push, put, del; dump, load in chunks, parse | bgsave and recovery |
| Client side (`clients/c++`, `connection_pool.cpp`) | idle connections, a count of used ones | fetch, wait, release | |
| Cluster (`cluster.cpp`, `cluster/`) | - | never started: `cluster_enable_` is always false | |

What is hard: feeds race with the merge and with each other without a lock;
HSETs of one field overlap between the bucket lock, the element and the log; a
queue of connections is shared by two threads without a lock; the log, the dump and the configuration are three files that are never written
together; packs are read from sockets and files in pieces that end anywhere, and
descriptors are closed and used again under objects that have their numbers; a replica joins its own memory, log and configuration to places in
another server's log across rotations, time-outs and crashes of both.

What makes the parts correct: a command is logged at most once and in its
thread's order, and is not lost without reason; whatever the log holds survives
a crash; a replica has everything that lies before the place it claims, so that
a resynchronisation from there loses nothing, and it gets everything in the end (the
sender of the master keeps this only for short files, see ReplicaSync).
An acknowledged value can be read, and memory and log agree on it; an accepted
connection is served and a signal ends the server; every request is answered, on
its own connection and in order; what is saved is loaded again; a client's connection is in
one hand at a time, and no wake-up of a thread that waits for one is lost.

## Modules

    CommandLog        what a log of commands promises
    Backlog           feeds, merge and flush                   implements CommandLog
    BacklogProofs     theorems about Backlog
    MCBacklog         instances
    DurableStore      what a store that may crash promises
    Persistence       log files, dump, configuration, recovery  implements DurableStore
    PersistenceProofs theorems about Persistence
    MCPersistence     instances
    ReplicaSync       a replica of a server of Persistence
    ReplicaSyncProofs theorems about ReplicaSync
    MCReplicaSync     instances
    Hset              HSET and HGET of several workers on the buckets
    HsetProofs        theorems about Hset
    MCHset            instance
    Workers           start, dispatch and shutdown of the threads
    WorkersProofs     theorems about Workers
    MCWorkers         instance
    ConnectionPool    the pool of the C++ client, and execute
    MCConnectionPool  instance
    Numerals          numbers as sequences of digits
    Bytes             the buffer utils::Bytes and the form of a pack        uses Numerals
    ClientLink        the links of an event loop: packs in, replies out   uses Bytes
    MCClientLink      instance
    BytesUse          Bytes objects under any sequence of operations      uses Bytes
    DumpFile          objects, buckets, the dump file and its loading     uses Bytes
    Crc               crc16 and the slot of a key
    Connect           Connect objects and descriptors
    MCLibrary         instances of BytesUse, DumpFile, Crc and Connect
    BytesProofs       theorems about ClientLink, BytesUse and DumpFile
    ConnectionProofs  theorems about Connect and ConnectionPool
    SequenceLemmas    what concatenations and digits come to, for the proofs

Backlog, Persistence and Hset look at the same write path from three sides:
Hset at what two HSETs of one field do to the element and to the order of the
feeds, with a feed as one step; Backlog at what happens to feeds until they are
in the file; Persistence at the file, with a merge as one step. In the same way
DumpFile has the loader that Persistence takes as a whole, ClientLink what a
worker of Workers does when a connection is readable, and Connect the
descriptors under the connections of ConnectionPool and the links of ReplicaSync.

Names that end in `_Something` after the name of a definition (`ClearSlots_None`)
are deliberately wrong variants of that definition. Nothing uses them; they are
there to be put in its place, to see that a property notices.

### Backlog

One step is one access to shared memory: `LoadPos`, `LoadId`, `IncrId`, `PutId`
and `PutPack` are the five accesses of `backlogFeed`; `Clear`, `Store`, `Scan`,
`MergeOne` and `Flush` are the parts of `_merge_backlog_feed_slaves`. A slot is a
sequence of ids and packs. `straddled` is a history variable: the feeds during
which `repl_pos_` changed. `Clear` and `Scan` go over all slots in one step. That
is sound because a slot is written by one thread only, and appends of different
threads to different slots commute with the accesses to the others; an append
that really overlaps with the access to its slot is the data race below.

Where the merge touches a slot to which its thread is appending, C++ defines
nothing. `Race` takes the merge to `"undefined"`, where it stays; so does a slot
that begins with a pack, in which the merge would take body bytes for a length.
What is proved and checked about the log is about what was written until then.

### Persistence

One server. `Exec` and `Feed` are the two halves of HSET; the merge is a step
here (`Flush`), with the batch in the order of the feeds. A value is the number
of the command that set it, so that "newer" can be said. A place in the log is a
file number and an offset in packs; file 0 is the empty name. `Bgsave` takes the
memory and the place; `BgsaveFinish` renames and records; `Flush` and `ConfFlush`
write the configuration; `Crash` and `CrashInFlush` keep what is on disk;
`Stop` is the end by a signal: `Replication::stop` flushes the batch, which is empty
outside of a merge, so what was fed since the last merge is lost as at a crash.
`Restart` is `_init`. A file is loaded whole, as one that fits the 4096-byte buffer
of `File::loadFile` is: what is said here about recovery, for any number of packs
after which files rotate, is about such files. For longer ones see DumpFile and the
run `load_chunk`.

Each worker writes keys of its own. Two workers on one key can be logged in the
other order than they were executed, which is the subject of Hset. An HSET whose type does not match that of the stored element stores and
feeds nothing and is left out. The memory at a fork is taken as a whole.

### ReplicaSync

The master is the server of Persistence; `MasterStep` is any of its steps. The
replica is one record: process, `repl_state_`, installed read handler, place,
cached place, memory, backlog, and on disk configuration, dump and log. The link
carries dumps and batches of commands with the place behind them. Handlers run
on one thread and are one step each; PSYNC is blocking, and is one step of both
sides. PING and PONG carry no state, and the heartbeat only renews a time: a
time-out of a live link may happen at any moment, within the bound on faults.

The sender (`SendIncr`, `replica_link.cpp:92-154`) works on bytes, so the packs have
lengths here (`PackLen`), and a place on the link is a number of packs and a number of
bytes of the next. One message takes up to `MaxReads` reads of `ReadBytes` bytes: in
the code, four of 4096, as it stops when 16 KB have been read. Three things follow
that the code does not allow for:

- the length of a pack is consumed (line 123) before it is known whether the rest has
  been read (124), and the loop does not step back: the pack is lost, and if there is
  another read, body bytes are taken for a length from there on;
- a message is cut at 16 KB wherever that is (138), also inside a pack, whose rest then
  begins the next message;
- the offset advances by the bytes read (144), over packs that were not sent, and it
  is this offset that the message gives the replica as its new place (151).

`Sent` is what a message gets: the packs before the first one that is torn by the end
of a read behind its length (`Torn`) or that the message does not reach the end of. An end of a
read between two packs, or inside a length, does no harm. `strayed` is a history
variable: the sender has gone on to a place that is not the one behind what it sent.
`Astray` says when body bytes are taken for a length; the sender may then end in
`"undefined"`, as it does when it makes an array of the size it read there.
`Covered`, `CachedCovered`, `InFlightIsLog` and `EventuallyReplicated` hold until the
sender has strayed and say nothing after that. `StraysOnlyBeyondOneRead` says when it
cannot have: while no file of the master is longer than one read. With files of at
most 4096 bytes replication does what it should. With the default rotation at 500 MB
(`parameter_repl.h:13`) files grow far beyond that, and what is shown of a replica
ends at the first pack across a 4096-byte end of a read, or across the end of a message.

`TransferMayFail` and `MaxSlaveCrashes` say which faults the environment has. The
code does not survive all of them: it caches the place of a dump before it has
the dump, and flushes its configuration ahead of its own log. `Covered` and
`CachedCovered` are therefore about a replica that is `Intact`: no transfer was cut
off (`cut`), it has not crashed, and the sender has not strayed; `InFlightIsLog` needs
only the last of these. Dialling a
master that is down ends the replica's process (`ev_io_start` on descriptor -1),
and so does a link that closes before the PONG; both are `ReplicaDies`.

Left out: the replica's own bgsave and its own clients, a second master, and
SLAVEOF during the handshake. Bodies are taken to have no zero byte: the sender adds
them to its message as C strings (`replica_link.cpp:135`). The PINGs of a master to
its slaves that the comment at `replication.cpp:223` promises are never sent, as an
accepted socket never has the status CONNECTED and every slave is taken off the
list at the next cron.

### Hset

`Get` and `Put` are `bucket::get` and `bucket::put` under the lock of the bucket;
`Set` compares the types, `Write` ends `set`, `Feed` feeds the backlog and `Reply`
sends the reply; `Lookup`, `Serialize` and `SendGet` are HGET. An element is named
after the HSET that made it, a value after the HSET that set it. `Number` is
atomic or has a lock, so its `set` is one access; `String` has none, so a `set`
or `serialize` that overlaps with another `set` is undefined, and the element is
`torn`. `emplace` keeps an element that is there, so of two HSETs that found a
field absent the second writes to an element nobody can find.

`current` is the set of values that may count as the latest of a field: an HSET
adds its value when it begins, and when it succeeds and no other overlapped with
it the set becomes that value alone. The 0 of a new element is in it while the
first HSET of a field runs. `ReadsLatest` compares HGET's reply with what was
in `current` at any time during the HGET. `MemoryIsLog` compares the element with
what executing the log again gives, for fields whose latest value is certain. The
history variable `replayed` keeps that result: `Feed` executes the command it
appends on it (`Replay`).

### Workers

A libev loop is modelled by its iterations, because the code depends on them:
`Poll` collects the asyncs that were sent and the readable connections, their
handlers are then called in any order, and `break_loop` is looked at when all
have been called. `Accept`, `Push` and `Send` are `onAccept`; the push takes time,
as nothing protects the deque: a worker that looks at its queue then is in
undefined behaviour (`Race`, `torn`). `main` is the place of the main thread,
with its waits on the condition variable; it is the only thread that waits, and
checks its predicate again, so spurious wake-ups change nothing. `Raise` is
limited to one signal of each kind, as `onSignal` stops its watcher. A port that
is taken ends in `"unbound"`, from where the running threads use deleted workers.

### ConnectionPool

What a thread does under the mutex is one step: `FetchIdle`, `Create`,
`WaitForConnect` and `Release`; `Notify` comes after the unlock. `Check` is
`_need_reconnect` with `reconnect`; that a connection has been idle for too long
is a free choice. `owed` holds, per connection, the requests whose replies have
not been read, so that a late reply can be told from one's own. `timed` says
whether `wait_timeout` is set, and is chosen in `Init`. `wait_for` returns the
predicate, and the code takes true for a time-out: a waiting thread that is given
a connection throws, and one that really times out goes on to an assertion on
an empty pool, which ends the process (`failed`). A connection on which send,
recv or reconnect throws is not given back (`Drop`), and `used_connections_` is
never decremented: a pool can be used up.

`NoWakeupLost` says that no connection lies idle while every waiting thread sleeps and
nobody is about to notify. It does not say that a waiting thread is served: one that
calls `fetch` may take the connection between the push and the moment at which the
woken thread looks, each time, and nothing in the code prevents it; and on a pool that
is used up everyone waits for ever.

### Bytes and BytesUse

`Bytes` has the operations of `utils/bytes.h` as operators on a record of contents,
read position and write position. A byte is a digit of base `Base`, a number its
digits with the lowest first; the widths of the fields of a pack are parameters.
What does not fit reads as 0 and moves the position all the same; writes at the
position grow the buffer, writes of a number at an index do not. `BytesUse` applies
them to several objects in any order. The histories `put` and `got` say what went
through an object as through a queue; operations that end this use (a write at an
index, a read beyond the end, a move of what has been read in part) end the claim.
(The comment at `bytes.h:42` says that `clone` copies the positions; it resets them.)

### DumpFile

Objects of the seven classes in rows and columns, with the changes that their
methods make, `Dump`, and the loader: `LoadChunk` and `LoadPack` are the two loops of
`File::loadFile`; when the length of the file is a multiple of the buffer, the outer one
runs once more with 0 bytes and enters the inner one on what is left. A message is the row it was made of; of its bytes only the length
follows the row. When the loader has lost the boundaries of the packs it may take
bytes for a row's pack, or for a length that underflows: `"undefined"` and `"dead"`.
`lpop` of an empty list and `ltrim`, whose loop has no end, are undefined as well; no
command calls them. `Restored` says what a save and a load make of a row.

### Crc

The loop of `crc16` with the table of the source, beside it the division of the
polynomial bit by bit. All first bytes cover every entry of the table.

### Connect

Objects with `fd_`, `status_`, `err_` and `addr_`, and the descriptors. `Connecting` is
the set of what `connect()` can come to: no socket, a `::connect` that fails in one
of three ways, a socket that cannot be configured, a connection. `left` holds the
descriptors that are lost: `connect()` closes `fd_`, not the socket it has opened, and
the destructor closes nothing. So descriptors are lost by failures, by connections
that are dropped, by a link that is replaced, and by the destruction of a pool, whose
idle connections go with it (`PoolDestroyed`, `connection_pool.h:33`). No property
excludes this. The branch for EINPROGRESS is never
taken, as the sockets are blocking.

### ClientLink

The loop is with one link at a time: `OnRead`, the `recv`s of `read_`, `Exec`; or
`OnWrite` and the `send`s. `RecvShort` is a `recv` that a signal cuts short, `Recv` with
a client that has closed one that ends early. `NextLen` is computed as the code
does, also after two short reads of a head, when it is too long: such a link is
`strayed`. Closing leaves `c_wio` active; the descriptor may be given to another
client while it is. A second `send` to a client that is gone raises SIGPIPE and
ends the process (`SendKills`). `BodyLen` is what a command gives to the parser:
HSET reads the length where `onRead` has stopped, in the body. Clients are taken to
send types of the enumeration only, as the log line of `onRead` (`client_link.cpp:56`)
dereferences the name of the type.

## Runs

| Run | Instance | Shows |
|---|---|---|
| `backlog` | 2 workers and the main thread, 2 + 1 + 1 feeds | type, order and at-most-once of the log, no loss but of straddled feeds, batches in id order, packs behind their ids, refinement of CommandLog |
| `backlog_live` | one feed each | feeds no switch straddles get logged |
| `persistence` | 2 workers with a key each, 3 commands, 2 crashes, rotation at 2 packs | dump and place agree, everything logged is recovered, refinement of DurableStore |
| `persistence_child` | the same, a child may die | violated: a partial dump counts as saved |
| `replica` | 2 keys, 2 commands, a crash of either side, one fault, transfers cut off, SLAVEOF again, rotation at 1 pack, packs of 2 and 4 bytes, reads of 3, 3 reads a message | what an intact replica claims and caches it has; what is on the link is the log between the two places until the sender strays; it strays only in files longer than a read |
| `replica_live` | one key, 2 reads a message, one message on the link, fairness | everything logged reaches the replica unless the sender strays |
| `hset` | 3 workers, one field, 3 HSETs of two types, one HGET | memory and log agree after an HSET that ran alone, HGET replies a latest value, a field keeps its element |
| `workers` | 2 workers, 2 clients, a replica, 2 signals | workers run before connections are handed out and have left before they are deleted, connections are served, a signal ends the server |
| `pool` | 4 threads, 2 connections, 2 calls each, with and without time-out | connections in one hand, own replies, no wake-up lost |
| `links` | 2 clients with 2 and 1 requests (HSET, PONG, an unregistered type), heads of 4 bytes, 2 short reads | one pack at a time, replies in order and to their own client, no spinning, no link closed without cause, every request answered |
| `library` | 2 Bytes objects of 7 bytes and 5 operations; 3 keys, 2 fields, 3 changes, chunks of 5 and 9 bytes; keys of 3 bytes; 2 Connect objects and 3 descriptors | numbers and packs come back from a buffer, a saved database is loaded up to the first pack that straddles a chunk and nothing is invented, the table gives the CRC, descriptors have one owner and are connected if not broken |
| `load_chunk` | the same | violated: a pack that straddles a chunk is not loaded |

Bounds. Two feeds of one worker are needed to see an order change, and the merge
is unbounded: it runs as often as it likes, so a feed may be stalled across any
number of them. Three commands on two keys are enough for a dump, a rotation
behind it and a batch that is cut by a crash; two crashes let a recovery start
from what a recovery left. For the replica two commands give a dump followed by
an increment, a message of two packs, and files of which one is left at its end
and one is empty after a restart. Packs of 2 and 4 bytes, one of them the length, with
reads of 3 bytes and messages of 9 put the end of a read between two packs, in a
length, in a body, and in a body with another read to come; both packs come in one file
when they are flushed together. In `replica_live` a message has 6 bytes, and a whole
file is in it or not. `hset`: two HSETs
overlap and a third runs alone after them, or all three overlap; fields do not
interact, so one is enough; two workers with four HSETs give the same result.
`workers`: two connections let a push come while the queue is emptied, and the
replica's connection shifts the index; two signals are all that onSignal can be
called for (SIGKILL never arrives). `pool`: two more threads than connections, so
that two sleep at once, or one sleeps while another comes to fetch, and two calls, so
that a connection is used again. `links`: two
short reads are what it takes to go astray in a head; one body is longer than a
read, one shorter than the head; with two descriptors and two links a number is
used again, and the second client closes in the middle of a pack as well.
`library`: a buffer of 7 bytes holds a pack and something behind it; three rows
give a chunk that ends in a length, in a body, and between packs, and a pack after
one that was lost; with two objects and three descriptors there is one to leak and
one to take its place. The four parts have no state in common, so each behaviour
is of one of them.

Fairness. `backlog_live`: the cron timer repeats and no handler of the main loop
blocks, so merging goes on and the main thread's feeds end; workers owe nothing.
`replica_live`: the cron timers of both sides repeat, ready sockets are served,
servers that died are started again (by whoever operates them), and the rename
of a dump, the only step that may fail, does not fail for ever (strong fairness,
as saves are repeated). A time-out is fair only when the link is really gone.
`workers`: threads run, and a client that has begun a pack finishes it or closes
(accepted sockets have no time-out, so this is about the clients, not the code).
`pool` has no fairness and no liveness property. `links`: the loop
goes on unless `recv` waits for bytes, and libev calls every handler whose event is
pending before it polls again, so a readable or writable link is not passed over
for ever (strong fairness, as the loop is not always at the poll).

Hset, Workers, ClientLink, BytesUse, DumpFile and Connect state a type invariant
too; the runs are about the other properties.

The mutant of a liveness property shows that the fairness alone does not give it.

## Proofs

The theorems hold for every value of the constants that the assumptions of the
modules allow: any number of threads, keys, commands, crashes, links or
descriptors, any bodies of packs and any sizes of buffers. Each rests on an
inductive invariant (`IInv`, elsewhere `SInv`, `LInv`, `UInv` or `DInv`), which TLC has checked on
the instance of the run before it was proved; each proof goes through the actions
one by one, and for each through the conjuncts it can disturb. Every invariant that
a run checks has a theorem, but for one (see the end of this section).

| Module | Theorems (property) | Assumptions |
|---|---|---|
| `BacklogProofs` | `TypeCorrect` (`TypeOK`), `AofInOrder` (`AofOrder`), `PackAligned` (`IdPrecedesPack`), `NothingLost` (`NotLost`), `BatchInIdOrder` (`BatchSorted`), `Refinement` (`ImplementsCommandLog`) | the main thread is not a worker; the bound on feeds is a function into the naturals |
| `PersistenceProofs` | `TypeCorrect` (`TypeOK`), `DumpCovered` (`DumpCoversPlace`), `NothingLoggedLost` (`RecoversLog`), `Refinement` (`ImplementsDurableStore`) | files take at least one pack; for all but the first theorem `OwnKeys` and `~ChildMayDie`, see below |
| `ReplicaSyncProofs` | `ReplicaTypeCorrect` (`ReplicaTypeOK`), `ReplicaCovered` (`Covered`), `CachedPlaceCovered` (`CachedCovered`), `LinkCarriesLog`, `InFlightPartOfLog` (`InFlightIsLog`), `StraysBeyondOneRead` (`StraysOnlyBeyondOneRead`) | a pack is longer than its length field; reads of at least one byte; `OwnKeys` and `~ChildMayDie` for the master |
| `HsetProofs` | `TypeCorrect`, `RepliesLatest` (`ReadsLatest`), `MemoryAgreesWithLog` (`MemoryIsLog`), `ElementsKept` (`FieldKeepsElement`) | workers and fields are finite sets |
| `WorkersProofs` | `TypeCorrect`, `WorkersThere` (`ThereWhenUsed`) | at least one worker, finitely many signals |
| `ConnectionProofs`, ConnectionPool | `TypeCorrect` (`TypeOK`), `NeverShared` (`InOnePlace`), `ReadsOwnReply` (`OwnReply`), `WakeupsKept` (`NoWakeupLost`) | finitely many threads, a pool of at least one connection (the constructor throws at 0) |
| `ConnectionProofs`, Connect | `DescriptorsOwned` (`OneOwner`), `NotBrokenIsUsable` (`UsableIfNotBroken`) | finitely many descriptors; -1 is not one |
| `BytesProofs`, ClientLink | `ClosedOnlyForCause` (`ClosedForCause`), `WatcherHasWork` (`NoIdleWatcher`), `OwnRepliesInOrder`, `RepliesFollowRequests` (`RepliesInOrder`), `ReadsOnePack` (`OnePack`), `CommandsAreRequests` (`ParsesOwnBody`) | the value for a free descriptor is not a link; at least one descriptor, and reads of at least one byte; a request's length fits its head |
| `BytesProofs`, BytesUse | `ReadsWhatWasPut` (`FirstInFirstOut`), `FindsPackAtFront` (`PackAtFront`) | numbers and the capacity of an object below `Wrap`, types that fit the head |
| `BytesProofs`, DumpFile | `LoadsOnlySaved` (`NothingInvented`), `LoadsUpToSplit` (`Reloaded`) | finitely many keys and fields; a chunk, and the length of a row's pack, are less than `Wrap` |

The lengths. The first field of a head is a `uint32_t` into which `Pack::serialize`
and `putMessage` write a `size_t`: beyond 2^32 a length is cut, and nothing said here
about packs holds. That lengths are below `Wrap` is the only thing assumed about them. A
protobuf message has less than 2^31 bytes, and the buffer of `loadFile` is one of
4096, so the instances of the code satisfy it; TLC evaluates the assumptions on those of
the runs. The widths of the fields, the base and every length are free otherwise.

Induction over data. Concatenations (`FlattenSeq`) and numbers (`Numerals`) are
recursive functions. What they come to for every length is proved in `SequenceLemmas`
from the well-foundedness of the naturals: the set of arguments for which a claim fails
has no least element (`LeastNat`, `InductionTo`). Such a claim is a set of naturals
there, not a predicate, so that the library's induction theorems are not needed.
From this follow the lemmas the proofs cite: a concatenation is split anywhere
(`FlattenSplit`), and a number that fits its digits is read back from them.

Backlog. The order of the log is not inductive. A command reaches it through a slot, past
`p` in the slot, and through `back_log_`; and the slot of a stalled feed may be
cleared, put in use and merged again before the feed goes on. `IInv` follows this
way: a slot alternates ids and packs, holds packs its thread has fed, in order,
and ends in an id exactly while the thread is between the two appends (`Slots`);
a feed that holds the index of the buffer not in use is straddled, and its
thread has nothing but straddled packs in the buffer in use (`LateFeed`), which
is why it may come out of order; the merge points at an id in every slot it
still holds (`HeadsAreIds`) and starts every slot at its beginning (`FreshMerge`);
the log and the batch are in order, in that order, and before everything that is
still to be read from the slots (`Logs`); and what the merge has still to read
of a slot comes before what the slot in use holds, or the other way round
between the clearing and the store (`BuffersInOrder`).
`PackAligned` adds `HeadsLate`: a slot that begins with a pack, or is empty while
its thread is about to append one, belongs to a straddled feed. Clearing brings
this about, and `LateFeed` says that only straddled feeds are then in the cleared
buffer; behind the first entry `Alternating` does the rest. `NothingLost` is
inductive relative to `IInv`: a cleared buffer has been merged before, and a feed
that appends to it later is straddled. `BatchInIdOrder` needs to know that the ids
of a slot rise and lie below the counter and below the id of the feed that is
running (`Ids`), and that what has been collected is not above any id the merge
still holds (`Batch`): the minimum that is taken next is then the new maximum.
The refinement follows from `IInv`: `PutPack` issues a command, `Store` delays
those it straddles, `Flush` appends the batch, and the rest stutters.

Persistence. `OwnKeys` says that no key is written through two workers: otherwise
the log can have two commands on a key in the other order than memory, as Hset
shows, and "newest" means nothing. `~ChildMayDie` excludes what the run
`persistence_child` is about. The commands of a key lie in the order of execution
in the files, in the backlog, and from the one to the other (`LogOrdered`,
`BacklogOrdered`, `BacklogAfterLog`), and memory is not older (`MemNewest`,
`ExecutedLast`). The dump on disk, and the dump of a running child, hold what lies
before every place that may yet be joined to them: the one in memory, the one in
the configuration file, the one taken at the fork (`DumpCovers`, `PlacesInside`).
That is not enough for the refinement: a dump can hold a write that was never
logged, and a replay from an older place goes back behind it. `DumpNotAhead` says
that the dump of a running server is not newer than its memory, except for keys
for which a replay from either place finds a command.

ReplicaSync. Every step is a step of the master or leaves it alone
(`MasterStepOrNot`), so the master keeps the invariant of Persistence, and with it
`OwnKeys` and `~ChildMayDie` come in as hypotheses: the dump that a replica is sent
is the one on the master's disk. What holds with any sender is `Placed`: types, and
that places lie inside the master's files. The rest (`Linked`, `HasAll`) is claimed under
`~strayed`, and `SInv` is the two together, and `RInv` what `SInv` says before the sender has
strayed. A message of `SendIncr` then ends behind the last pack
it holds, since `strayed'` is false: that is where bytes become packs again. Log files only grow, so a place
in them and what lies before it stay what they were (`Inside`, `PlacesStay`). What the
link carries continues the replica: each message is the piece of one file between
the place in front of it and its own, nothing lies between two pieces, and the
sender is behind the last (`CarriesLog`); during a transfer the dump on its way holds
what lies before the promised place (`CarriesDump`). The handlers fit the link
(`Handlers`): a replica that reads commands has a sender of commands, an open link
always has a reader, and PSYNC is only exchanged on an empty link. The cached place is
not ahead of the place on the link (`CachedBehind`), and memory holds what lies before
both (`HasAll`). Applying a piece then keeps memory up to date because the commands of a
key are in order in the master's files (`ApplyHolds`, from `LogOrdered`). The `Intact`
in `Covered` and `CachedCovered` is needed: a transfer that is given up leaves the place
of a dump that never came, and a crash loses what the replica had not logged.
`LinkCarriesLog` says so piece by piece. `InFlightPartOfLog` puts the pieces
together: the index of a place in the whole log is the number of commands before it,
so a piece of one file is a piece of the log that begins at the index of its first place
(`PieceIndex`), and what nothing lies between has one index; the messages joined
up to the nth are then the log up to the nth place (`SentIsLog`). `OnPlace`, that a replica which reads has a
place at all, is needed beside `RInv`. `StraysBeyondOneRead` needs what a sum of lengths
is for every number of packs (`SumsExist`, `BytesGrow`, again by the least number for
which it fails): a file of no more than one read is parsed to its end
(`ShortFileSent`), and a file that is longer stays so, as files only grow (`LongFilesStay`).

Hset. `ReadsLatest` is about one moment of an HGET and rests on all HSETs: which
values are current, which elements an HSET may still change (`OwnElements`,
`Holding`), and what one that nobody overlapped has done (`Undisturbed`, `Executed`,
`Written`, `Counted`, `Replied`). `MemoryIsLog` has a second invariant on top,
`LInv`: the types of elements and of the replay agree as long as no HSETs of
different types overlap, and the last HSET to write is the last in the log.

Workers. The main thread knows of the workers only through two counters under a
mutex. `StartCount` and `ExitCount` tie them to the workers they count; the second
is an inequality, because a second `onSignal` sets the counter back.

ConnectionPool. `NothingOwed`: no reply is outstanding on an idle connection, on one
not yet made, or on one whose holder has not sent. This is where dropping a
connection whose reading failed matters. `NoWakeupLost` is kept step by step: a thread
falls asleep only on an empty pool, a release adds a connection and a notification that is
due, a notification that finds nobody asleep leaves nobody the claim is about, and a
woken thread that looks takes a connection or finds none.

Connect. A descriptor that `::socket` gives out belongs to nobody, because
descriptors left behind stay open (`LeftOpen`) and a descriptor that an object has
is its own (`OwnDescriptors`).

ClientLink. `OwnSockets` says whose socket a descriptor is while write events of
closed links are still around, `ErrorCloses` that a link with an error has let go
of its descriptor, `OnlyStarted` that nothing is written before the client has asked.
`OwnRepliesInOrder` compares the replies with the commands executed for the link: it
follows the stream of what was sent and what is still in `wbuf` (`Answering`).

That commands are those of the requests needs the bytes, and a second invariant,
`LInv`. What has been read for the next command, followed by what is still in the
socket, is the concatenation of the packs of all requests not yet done (`StreamOK`); a
link that reads asks for the rest of the head, then for no more than the rest of
the pack, unless it has gone astray (`HeadOK`); and a command is executed when the
buffer is as long as its head says (`ReadingOK`). The buffer is therefore a front of
the stream of that length, which is the first pack: from it come the type and the
length of the body (`DoneParsed`). Only `HeadOK` excepts a link that went astray: it may read
beyond its pack, but what it executes is again as long as its head says.
`RepliesFollowRequests` joins this with the
order of the replies: those to the requests done are what was sent and what is in
`wbuf`, reply by reply (`Replied`).

BytesUse. `UInv` has two claims for an object. Used as a queue, it holds the bytes
of all that was put right in front of the write position, and the read position is
behind those that were got (`QueueOK`); every operation that ends this use gives up
the claim. With a pack at its front, the digits of its length and type and its body lie at
their indices (`FrontIs`), wherever the two positions are, and no write that
counts as harmless reaches them.

DumpFile. What is in the buffer is the front of the file up to where it has been
read, which is a multiple of the chunk or the end (`FrontRead`). `InStep`: some number
m of packs are loaded, and either the read position is behind the mth pack,
with no more than a length and a chunk left to parse (`Aligned`), or pack m + 1 is split.
The bound on what is left is what shows that a pack which is not complete is split:
its length was read in a chunk that ends before the pack does. A pack that is
consumed was dumped from a row (`FileOK`), and parsing what `Feature` makes of an
element restores it (`ParsedRowIs`).
`LoadsOnlySaved` does not need to be in step: what is taken for the pack of a row is
one, or the loader is `"undefined"`.

ClientLink, BytesUse and DumpFile share one proof module, as do Connect and
ConnectionPool, because they share the lemmas about packs and connections. None of the
modules uses the variables of another; their assumptions hold together.

Model-checked only:

- the liveness properties; liveness under fairness is out of the prover's reach;
- `SlotIsRemainder` of Crc, which is about the bitwise operations of `crc16` (`Bitwise`
  is defined by recursive operators, which the provers cannot expand).

## What the code does otherwise than it says

The violated runs, with the lines, are under `findings` in `PROJECT.json`: the
ignored exit status of the bgsave child, and packs lost at chunk boundaries.

Other behaviours that a reader may not expect are stated as the exceptions of a
property, and are listed under `hazards`:

- a feed that straddles a switch of the buffers can be lost, logged late
  (`NotLost`, `AofOrder`), or left without its id (`IdPrecedesPack`);
- the configuration of a replica is flushed ahead of its own log, and the place of
  a dump is cached before the dump has come: after a crash of the replica or a
  transfer that was cut off it can miss commands for good (`Intact` in `Covered` and
  `CachedCovered`; without it TLC finds both ways). A full synchronisation also
  leaves the replica's own log, which a restart replays over the new dump;
- a link that is closed before the PONG, or a dial that fails, ends the replica's
  process: `read` throws on the loop's stack, `ev_io_start` gets descriptor -1;
- SLAVEOF during a transfer can make the assertion of `_abort_sync_transfer` fail
  (the replica is `"aborted"` in the model);
- HSETs of different types that overlap leave memory and log apart for good, and
  an HGET during the first HSET of a field replies 0 or an empty string
  (`mixed` in `MemoryIsLog`, 0 in `ReadsLatest`);
- two signals in one iteration of the main loop hang the shutdown (`again` in
  `ShutdownEnds`);
- a head that comes in three pieces makes `read_` read into the next pack (`strayed`);
- HSET takes the first bytes of its body for the length of the pack
  (`ParsesOwnBody` excepts HSET: it shows that no other command does so, not that HSET
  is right);
- a dump stores the last access as the time to expire, and empty lists and maps are
  not loaded again (`Restored`);
- a port that is taken makes `main` delete workers whose threads run;
- bgsave forks while workers may be changing a bucket, and the child dumps what it
  finds;
- the sender of the log leaves out a pack that goes past the end of a 4096-byte read
  or of a 16 KB message, and gives the replica a place behind it (`strayed`, see
  ReplicaSync);
- the pool takes a free connection for a time-out, loses the connections of calls that
  fail, lets a thread that comes late take the connection another was woken for, and
  leaves its descriptors open when it is destroyed;
- two threads can get one id for two commands (`replication.cpp:430`); `BatchSorted`
  and `AofOrder` are true of such a log too, as nothing in the code promises an order
  between threads. What this can do to one key is the subject of Hset.

## Not modelled

The cluster (never started: `cluster_enable_` is always false) and its commands (not
registered), flags and helpers, crc64 and the ring buffer (used by nothing), `lrange`
(does not compile when instantiated), generated and vendored code, tests, and
`notuse/`, which is not compiled. Of the replica: its own bgsave and clients, a
second master, the heartbeat, SLAVEOF during the handshake; of the sender of the log:
what it does once body bytes are taken for a length. With a second master
nothing could be said: `CommandPsync` gets the run id and does not compare it.

## Plan

What can be proved of the safety properties is proved; what is left to the model
checker is listed above, with the reason. Next: action properties of ReplicaSync (the
place of a connected replica never goes back on one link), and the cluster, once
something starts it.
