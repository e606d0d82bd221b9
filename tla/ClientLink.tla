----------------------------- MODULE ClientLink -----------------------------
(***************************************************************************)
(* The links of one event loop: the clients on the other side, the         *)
(* descriptors, the two watchers of a link, reading a pack and executing   *)
(* its command, and writing the replies (link/client_link.cpp,             *)
(* connection/connection.cpp, command/commands.cpp).                       *)
(*                                                                         *)
(* recv and send wait, so the loop is with one link until a whole pack is  *)
(* read or all replies are written.  With MSG_WAITALL recv returns less    *)
(* than was asked for when a signal comes or the peer has closed.  What    *)
(* the commands do is the subject of Hset and ReplicaSync.  A reply is two *)
(* units of output, so that it can be cut; a client reads what it is sent. *)
(***************************************************************************)
EXTENDS Bytes, FiniteSets

CONSTANTS Links,       \* the clientLink objects, one per accepted socket
          MaxFd,       \* the descriptors are 1..MaxFd
          Requests,    \* what the client of link l sends: records of a type and a body
          Hset,        \* the type of HSET
          Known,       \* the types that Commands registers
          Silent,      \* those of them that are not replied to (PONG)
          ReadBuf,     \* CONNECT_READ_BUF_SIZE
          Cuts,        \* how much of a last request a client may send before it closes
          MaxAsks,     \* bound: requests of the client of link l
          MaxShort     \* bound: reads cut short by a signal

ASSUME LinkAssumption ==
  /\ \A l \in Links : \A r \in Requests[l] :
       /\ r.type \in 0..(Power(Base, TypeLen) - 1) /\ r.body \in Seq(Byte)
       /\ HeadLen + Len(r.body) < Wrap
  /\ Hset \in Known /\ Silent \subseteq Known \ {Hset}
  /\ MaxFd \in Nat \ {0} /\ ReadBuf \in Nat \ {0}
  /\ Cuts \subseteq 1..(HeadLen - 1)
  /\ MaxAsks \in [Links -> Nat] /\ MaxShort \in Nat

NoFd == 0               \* FD_INVALID
Nobody == "nobody"

ASSUME NobodyAssumption == Nobody \notin Links

VARIABLES
  asked,     \* history: the requests of the client, with their bytes
  in,        \* the bytes of the client that have not been read
  gone,      \* the client has closed its end
  out,       \* what the client has received
  socket,    \* the link to whose socket a descriptor belongs
  fd,        \* connect->fd_
  err,       \* connect->err_ is set
  rio,       \* c_rio is active
  wio,       \* c_wio is active
  rbuf,      \* the pack read last
  wbuf,      \* the replies to be written
  done,      \* history: the commands executed
  loop,      \* what the event loop does
  cut,       \* history: the head that is being read has come in pieces
  strayed,   \* history: the links that read a head in more than two pieces
  shorts,    \* reads cut short so far
  alive      \* the process runs

client == <<asked, gone>>
link == <<socket, fd, err, rio>>
vars == <<client, in, out, link, wio, rbuf, wbuf, done, loop, cut, strayed, shorts, alive>>

Waiting == [does |-> "wait", link |-> Nobody, n |-> 0]

Init ==
  /\ asked = [l \in Links |-> <<>>]
  /\ in = [l \in Links |-> <<>>]
  /\ gone = [l \in Links |-> FALSE]
  /\ out = [l \in Links |-> <<>>]
  /\ socket = [n \in 1..MaxFd |-> Nobody]
  /\ fd = [l \in Links |-> NoFd]
  /\ err = [l \in Links |-> FALSE]
  /\ rio = [l \in Links |-> FALSE]
  /\ wio = [l \in Links |-> FALSE]
  /\ rbuf = [l \in Links |-> NewBytes]
  /\ wbuf = [l \in Links |-> <<>>]
  /\ done = [l \in Links |-> <<>>]
  /\ loop = Waiting
  /\ cut = FALSE
  /\ strayed = {}
  /\ shorts = 0
  /\ alive = TRUE

Doing(what, l) == alive /\ loop.does = what /\ loop.link = l

-----------------------------------------------------------------------------
(* The clients.                                                            *)

(* A connection is accepted: the lowest free descriptor, and c_rio on it.  *)
Accept(l) ==
  /\ alive /\ loop = Waiting
  /\ fd[l] = NoFd /\ asked[l] = <<>> /\ ~gone[l]
  /\ \E n \in 1..MaxFd :
       /\ socket[n] = Nobody /\ \A m \in 1..(n - 1) : socket[m] # Nobody
       /\ socket' = [socket EXCEPT ![n] = l]
       /\ fd' = [fd EXCEPT ![l] = n]
  /\ rio' = [rio EXCEPT ![l] = TRUE]
  /\ UNCHANGED <<client, in, out, err, wio, rbuf, wbuf, done, loop, cut, strayed, shorts, alive>>

Served(l) == \E n \in 1..MaxFd : socket[n] = l

(* The client sends the first n bytes of a request, and closes if these    *)
(* are not all of it.                                                      *)
Ask(l, r, n) ==
  LET cells == PackOf(r.type, r.body)
  IN  /\ Served(l) /\ ~gone[l] /\ Len(asked[l]) < MaxAsks[l]
      /\ asked' = [asked EXCEPT ![l] = Append(@, [type |-> r.type, body |-> r.body,
                                                  cells |-> SubSeq(cells, 1, n)])]
      /\ in' = [in EXCEPT ![l] = @ \o SubSeq(cells, 1, n)]
      /\ gone' = [gone EXCEPT ![l] = n < Len(cells)]
      /\ UNCHANGED <<out, link, wio, rbuf, wbuf, done, loop, cut, strayed, shorts, alive>>

Hang(l) ==
  /\ Served(l) /\ ~gone[l]
  /\ gone' = [gone EXCEPT ![l] = TRUE]
  /\ UNCHANGED <<asked, in, out, link, wio, rbuf, wbuf, done, loop, cut, strayed, shorts, alive>>

-----------------------------------------------------------------------------
(* Mutant of Closed: fd_ keeps the number of the descriptor.               *)
Closed_KeepsFd(l) ==
  /\ rio' = [rio EXCEPT ![l] = FALSE]
  /\ socket' = [n \in 1..MaxFd |-> IF n = fd[l] THEN Nobody ELSE socket[n]]
  /\ fd' = fd

(* clientLink::close and Connect::close: c_rio is stopped, c_wio is not.   *)
Closed(l) ==
  /\ rio' = [rio EXCEPT ![l] = FALSE]
  /\ socket' = [n \in 1..MaxFd |-> IF n = fd[l] THEN Nobody ELSE socket[n]]
  /\ fd' = [fd EXCEPT ![l] = NoFd]

(* recv or send fails: err_ is set for good, and the handler closes.       *)
Fails(l) ==
  /\ err' = [err EXCEPT ![l] = TRUE]
  /\ Closed(l)

-----------------------------------------------------------------------------
(* Reading: onRead, Connect::read_.                                        *)

OnRead(l) ==
  /\ alive /\ loop = Waiting
  /\ rio[l] /\ (in[l] # <<>> \/ gone[l])
  /\ rbuf' = [rbuf EXCEPT ![l] = NewBytes]
  /\ loop' = [does |-> "read", link |-> l, n |-> HeadLen]
  /\ UNCHANGED <<client, in, out, link, wio, wbuf, done, cut, strayed, shorts, alive>>

(* Mutant of NextLen: a pack may be read together with what follows it.    *)
NextLen_ReadAhead(b, readn) == ReadBuf

(* The length asked for next: the rest of the head, of which only the last *)
(* piece is taken off, or the rest of the pack, an unsigned number.        *)
NextLen(b, readn) ==
  IF Size(b) < HeadLen THEN HeadLen - readn
  ELSE Min({(Get(b, 0, SizeLen) - Size(b)) % Wrap, ReadBuf})

(* recv has returned n bytes.                                              *)
Took(l, n) ==
  LET b == Put(rbuf[l], SubSeq(in[l], 1, n))
      piece == Size(b) < HeadLen
      whole == Size(b) >= HeadLen /\ Size(b) = Get(b, 0, SizeLen)
  IN  /\ in' = [in EXCEPT ![l] = SubSeq(@, n + 1, Len(@))]
      /\ rbuf' = [rbuf EXCEPT ![l] = b]
      /\ cut' = ((cut \/ piece) /\ ~whole)
      /\ strayed' = IF piece /\ cut THEN strayed \cup {l} ELSE strayed
      /\ loop' = IF whole THEN [loop EXCEPT !.does = "exec"]
                 ELSE [loop EXCEPT !.n = NextLen(b, n)]
      /\ UNCHANGED <<client, out, link, wio, wbuf, done, alive>>

(* All that was asked for, or all there is from a client that has closed.  *)
Recv(l) ==
  LET n == Min({loop.n, Len(in[l])})
  IN  /\ Doing("read", l)
      /\ n = loop.n \/ (gone[l] /\ n > 0)
      /\ Took(l, n)
      /\ UNCHANGED shorts

(* Less, because of a signal.                                              *)
RecvShort(l, n) ==
  /\ Doing("read", l)
  /\ shorts < MaxShort
  /\ n \in 1..(loop.n - 1) /\ n <= Len(in[l])
  /\ Took(l, n)
  /\ shorts' = shorts + 1

(* The end of the stream, or an error: a client that closes without        *)
(* reading its replies resets the connection, and what it sent is lost.    *)
RecvFails(l) ==
  /\ Doing("read", l)
  /\ gone[l]
  /\ Fails(l)
  /\ in' = [in EXCEPT ![l] = <<>>]
  /\ cut' = FALSE
  /\ loop' = Waiting
  /\ UNCHANGED <<client, out, wio, rbuf, wbuf, done, strayed, shorts, alive>>

-----------------------------------------------------------------------------
(* Executing.                                                              *)

(* Commands::fetch: what is not registered is "Command Not Found".         *)
Fetch(type) == IF type \in Known THEN type ELSE "NF"

(* The head as onRead has read it, by relative reads.                      *)
HeadRead(b) == Advanced(b, HeadLen)

(* Mutant of BodyLen: every command reads the head as CommandHset does.    *)
BodyLen_Relative(type, b) == (Get(b, b.rpos, SizeLen) - HeadLen) % Wrap

(* The number of bytes given to ParseFromArray.  Pack::deSerialize takes   *)
(* it from the front of the pack; CommandHset::exec reads on where onRead  *)
(* has stopped, and so takes the first bytes of the body for a length.     *)
BodyLen(type, b) ==
  LET at == IF type = Hset THEN b.rpos ELSE 0
  IN  (Get(b, at, SizeLen) - HeadLen) % Wrap

Reply(l, n) == <<[link |-> l, n |-> n, half |-> 1], [link |-> l, n |-> n, half |-> 2]>>

(* Mutant of SendMsg: c_wio is not started.                                *)
SendMsg_NotStarted(l, r) ==
  /\ wbuf' = [wbuf EXCEPT ![l] = @ \o r]
  /\ UNCHANGED wio

SendMsg(l, r) ==
  /\ wio' = [wio EXCEPT ![l] = TRUE]
  /\ wbuf' = [wbuf EXCEPT ![l] = @ \o r]

(* A PONG is not replied to; every other command is.                       *)
ExecSilent(l, type) == type \in Silent /\ UNCHANGED <<wio, wbuf>>
ExecReply(l, type) == type \notin Silent /\ SendMsg(l, Reply(l, Len(done[l]) + 1))

(* exec of the command fetched, on the thread of the loop.                 *)
Exec(l) ==
  LET b == HeadRead(rbuf[l])
      type == Get(b, SizeLen + FlagLen, TypeLen)
  IN  /\ Doing("exec", l)
      /\ rbuf' = [rbuf EXCEPT ![l] = b]
      /\ done' = [done EXCEPT ![l] = Append(@, [cmd |-> Fetch(type), len |-> BodyLen(type, b)])]
      /\ ExecSilent(l, type) \/ ExecReply(l, type)
      /\ loop' = Waiting
      /\ UNCHANGED <<client, in, out, link, cut, strayed, shorts, alive>>

-----------------------------------------------------------------------------
(* Writing: onWrite, Connect::send.                                        *)

(* c_wio fires.  After a close the event may have been pending, or the     *)
(* number of its descriptor may be in use again.                           *)
OnWrite(l) ==
  /\ alive /\ loop = Waiting
  /\ wio[l] /\ wbuf[l] # <<>>
  /\ loop' = [does |-> "write", link |-> l, n |-> 0]
  /\ UNCHANGED <<client, in, out, link, wio, rbuf, wbuf, done, cut, strayed, shorts, alive>>

(* Mutant of Written: c_wio stays active.                                  *)
Written_Active(l) == wbuf' = [wbuf EXCEPT ![l] = <<>>] /\ UNCHANGED wio

Written(l) == wio' = [wio EXCEPT ![l] = FALSE] /\ wbuf' = [wbuf EXCEPT ![l] = <<>>]

(* Mutant of Outgoing: a send that goes on starts again at the front.      *)
Outgoing_FromStart(l, n) == SubSeq(wbuf[l], 1, n)

Outgoing(l, n) == SubSeq(wbuf[l], loop.n + 1, loop.n + n)

(* send can still do its work, for the socket that has the descriptor.     *)
Usable(l) == ~err[l] /\ fd[l] # NoFd /\ socket[fd[l]] # Nobody

(* send takes n more units.                                                *)
Send(l, n) ==
  LET sent == loop.n + n
  IN  /\ Doing("write", l) /\ Usable(l)
      /\ n \in 1..(Len(wbuf[l]) - loop.n)
      /\ out' = [out EXCEPT ![socket[fd[l]]] = @ \o Outgoing(l, n)]
      /\ IF sent = Len(wbuf[l])
           THEN Written(l) /\ loop' = Waiting
           ELSE loop' = [loop EXCEPT !.n = sent] /\ UNCHANGED <<wio, wbuf>>
      /\ UNCHANGED <<client, in, link, rbuf, done, cut, strayed, shorts, alive>>

(* send fails: at once if an error was met before, or because the client   *)
(* is gone.  The replies stay in wbuf.                                     *)
SendFails(l) ==
  /\ Doing("write", l)
  /\ Usable(l) => gone[socket[fd[l]]]
  /\ Fails(l)
  /\ wio' = [wio EXCEPT ![l] = FALSE]
  /\ loop' = Waiting
  /\ UNCHANGED <<client, in, out, rbuf, wbuf, done, cut, strayed, shorts, alive>>

(* A second send to a client that is gone raises SIGPIPE, which nothing    *)
(* handles or blocks.                                                      *)
SendKills(l) ==
  /\ Doing("write", l) /\ Usable(l)
  /\ gone[socket[fd[l]]] /\ out[l] # <<>>
  /\ alive' = FALSE
  /\ UNCHANGED <<client, in, out, link, wio, rbuf, wbuf, done, loop, cut, strayed, shorts>>

-----------------------------------------------------------------------------
LoopStep ==
  \E l \in Links :
    \/ Recv(l) \/ RecvFails(l)
    \/ Exec(l)
    \/ \E n \in 1..Len(wbuf[l]) : Send(l, n)
    \/ SendFails(l)

Next ==
  \/ LoopStep
  \/ \E l \in Links :
       \/ Accept(l)
       \/ \E r \in Requests[l] : \E n \in Cuts \cup {HeadLen + Len(r.body)} : Ask(l, r, n)
       \/ Hang(l)
       \/ OnRead(l) \/ OnWrite(l)
       \/ \E n \in 1..(loop.n - 1) : RecvShort(l, n)
       \/ SendKills(l)

(* The loop goes on unless it waits for bytes, and libev calls every       *)
(* handler whose event is there before it polls again.                     *)
Fairness ==
  /\ WF_vars(LoopStep)
  /\ \A l \in Links : SF_vars(OnRead(l)) /\ SF_vars(OnWrite(l))

Spec == Init /\ [][Next]_vars /\ Fairness

-----------------------------------------------------------------------------
(* Every variable has its type; an open descriptor is that of its link.    *)
TypeOK ==
  /\ \A l \in Links :
       /\ in[l] \in Seq(Byte) /\ rbuf[l].buf \in Seq(Byte)
       /\ fd[l] \in 0..MaxFd /\ Len(asked[l]) <= MaxAsks[l]
       /\ rio[l] \in BOOLEAN /\ wio[l] \in BOOLEAN /\ err[l] \in BOOLEAN
  /\ \A n \in 1..MaxFd : socket[n] # Nobody => fd[socket[n]] = n
  /\ loop.does \in {"wait", "read", "exec", "write"}
  /\ shorts \in 0..MaxShort

(* The server closes the socket of a client only when that client has      *)
(* closed: a write event that comes after the close of a link, when its    *)
(* descriptor belongs to another, does no harm (client_link.cpp close,     *)
(* connection.cpp close: c_wio is not stopped, fd_ is reset).              *)
ClosedForCause == \A l \in Links : (asked[l] # <<>> /\ ~gone[l]) => Served(l)

Replies(l) ==
  FlattenSeq([i \in 1..Len(asked[l]) |->
                IF asked[l][i].type \in Silent THEN <<>> ELSE Reply(l, i)])

(* A client receives the replies to its own requests, in their order, each *)
(* once and none of another client's, however the writes are cut           *)
(* (client_link.cpp onWrite and sendMsg, Connect::send).                   *)
RepliesInOrder == \A l \in Links : IsPrefix(out[l], Replies(l))

(* c_wio is active only when there is something to write: onWrite would    *)
(* return without stopping it, and the loop would spin                     *)
(* (client_link.cpp:62).                                                   *)
NoIdleWatcher == \A l \in Links : wio[l] => wbuf[l] # <<>>

(* read_ takes one pack from the socket and nothing of the next            *)
(* (connection.cpp:365), if the head came in at most two pieces.           *)
OnePack ==
  \A l \in Links \ strayed :
    LET k == Len(done[l])
        before == FlattenSeq([i \in 1..k |-> asked[l][i].cells])
        reading == loop.link = l /\ loop.does \in {"read", "exec"}
        part == IF reading THEN rbuf[l].buf ELSE <<>>
        all == FlattenSeq([i \in 1..Len(asked[l]) |-> asked[l][i].cells])
    IN  ~err[l] => /\ all = before \o part \o in[l]
                   /\ reading /\ k < Len(asked[l]) => IsPrefix(part, asked[l][k + 1].cells)

(* The commands executed are those that were asked for, in order, and each *)
(* but HSET parses exactly the body of its own pack (client_link.cpp       *)
(* onRead, pack.cpp deSerialize, command_hset.cpp:19).                     *)
ParsesOwnBody ==
  \A l \in Links : \A i \in 1..Len(done[l]) :
    /\ done[l][i].cmd = Fetch(asked[l][i].type)
    /\ asked[l][i].type # Hset => done[l][i].len = Len(asked[l][i].body)

Answered(l) == Len(done[l]) = Len(asked[l]) /\ wbuf[l] = <<>>

(* Again and again every client that stays has the replies to all it asked *)
(* for, whatever the other clients do, unless a link went astray in a head *)
(* (read_ then waits for bytes that are not part of a pack, and the loop   *)
(* with it) or the process is gone (onRead, onWrite, read_ and send).      *)
EveryRequestAnswered ==
  []<>(strayed # {} \/ ~alive \/ \A l \in Links : gone[l] \/ Answered(l))

=============================================================================
