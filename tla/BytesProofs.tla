---------------------------- MODULE BytesProofs ----------------------------
(***************************************************************************)
(* Proofs about Bytes and the three modules built on it, for any base of   *)
(* a byte and any lengths of the head of a pack.                           *)
(*                                                                         *)
(* ClientLink, for any links, descriptors and requests.  That a link is    *)
(* closed only when its client has closed is not inductive: it needs to be *)
(* known whose socket a descriptor belongs to, that a link that met an     *)
(* error has let go of its descriptor, and that nobody writes before the   *)
(* client has asked.  That a command gets the body of its own request      *)
(* needs the bytes: what is in the read buffer and still to arrive is the  *)
(* packs of the requests that are not done yet.                            *)
(*                                                                         *)
(* BytesUse, for any objects, numbers and messages: what an object that is *)
(* used as a queue holds between its two positions, and when the pack at   *)
(* its front is still there.                                               *)
(*                                                                         *)
(* DumpFile, for any keys, fields, values and sizes of a chunk: what a row *)
(* is after a save and a load, and up to where loadFile keeps to the       *)
(* boundaries of the packs.                                                *)
(***************************************************************************)
EXTENDS ClientLink, BytesUse, DumpFile, SequenceLemmas, FiniteSetTheorems

IsSeq(s) == s \in Seq(Range(s))
Unit == [link : Links, n : Nat, half : {1, 2}]

LinkTypes ==
  /\ asked = [l \in Links |-> asked[l]] /\ \A l \in Links : IsSeq(asked[l])
  /\ in = [l \in Links |-> in[l]]
  /\ done = [l \in Links |-> done[l]] /\ \A l \in Links : IsSeq(done[l])
  /\ out \in [Links -> Seq(Unit)]
  /\ wbuf \in [Links -> Seq(Unit)]
  /\ gone \in [Links -> BOOLEAN]
  /\ err \in [Links -> BOOLEAN]
  /\ wio \in [Links -> BOOLEAN]
  /\ fd \in [Links -> 0..MaxFd]
  /\ socket \in [1..MaxFd -> Links \cup {Nobody}]
  /\ loop \in [does : {"wait", "read", "exec", "write"}, link : Links \cup {Nobody},
               n : {loop.n}]
  /\ loop.does # "wait" => loop.link \in Links
  /\ loop.does = "write" => loop.n \in Nat /\ loop.n < Len(wbuf[loop.link])

(* An open descriptor is that of the link whose socket it belongs to.      *)
OwnSockets ==
  /\ \A n \in 1..MaxFd : socket[n] # Nobody => fd[socket[n]] = n
  /\ \A l \in Links : fd[l] # NoFd => socket[fd[l]] = l

(* The server does something about a link, or has met an error on it, only *)
(* after its client has sent or closed.                                    *)
Started(l) == gone[l] \/ asked[l] # <<>>
OnlyStarted ==
  /\ \A l \in Links : in[l] # <<>> \/ wbuf[l] # <<>> \/ err[l] => Started(l)
  /\ loop.does # "wait" => Started(loop.link)

(* A link that has met an error has no descriptor.                         *)
ErrorCloses == \A l \in Links : err[l] => fd[l] = NoFd

IInv ==
  /\ LinkTypes
  /\ OwnSockets
  /\ OnlyStarted
  /\ ErrorCloses
  /\ ClosedForCause
  /\ NoIdleWatcher

-----------------------------------------------------------------------------
LEMMA AppendIsSeq ==
  ASSUME NEW s, IsSeq(s), NEW e
  PROVE  /\ IsSeq(Append(s, e)) /\ Append(s, e) # <<>>
         /\ Len(s) \in Nat
         /\ Len(Append(s, e)) = Len(s) + 1
         /\ \A i \in 1..Len(s) : Append(s, e)[i] = s[i]
         /\ Append(s, e)[Len(s) + 1] = e
<1>1. s \in Seq(Range(s) \cup {e})
  BY DEF IsSeq
<1>2. Append(s, e) \in Seq(Range(s) \cup {e})
  BY <1>1
<1>3. /\ Len(s) \in Nat
      /\ Len(Append(s, e)) = Len(s) + 1
      /\ \A i \in 1..Len(s) : Append(s, e)[i] = s[i]
      /\ Append(s, e)[Len(s) + 1] = e
  BY <1>1
<1>4. Append(s, e) \in Seq(Range(Append(s, e)))
  <2> DEFINE x == Append(s, e)
  <2>1. x \in Seq(Range(s) \cup {e})
    BY <1>2
  <2> HIDE DEF x
  <2>2. DOMAIN x = 1..Len(x) /\ Len(x) \in Nat /\ x = [i \in 1..Len(x) |-> x[i]]
    BY <2>1
  <2>3. \A i \in 1..Len(x) : x[i] \in Range(x)
    BY <2>2 DEF Range
  <2>4. x \in Seq(Range(x))
    BY <2>2, <2>3
  <2> QED
    BY <2>4 DEF x
<1>5. Append(s, e) # <<>>
  <2>1. Len(<<>>) = 0
    OBVIOUS
  <2>2. Len(Append(s, e)) # 0
    BY <1>3
  <2> QED
    BY <2>1, <2>2, Zenon
<1> QED
  BY <1>3, <1>4, <1>5 DEF IsSeq

LEMMA TypesInit == Init => LinkTypes /\ OwnSockets /\ OnlyStarted /\ ErrorCloses
<1> SUFFICES ASSUME Init PROVE LinkTypes /\ OwnSockets /\ OnlyStarted /\ ErrorCloses
  OBVIOUS
<1>1. IsSeq(<<>>)
  BY DEF IsSeq
<1>2. MaxFd \in Nat
  BY LinkAssumption
<1> QED
  BY <1>1, <1>2, NobodyAssumption
     DEF Init, LinkTypes, Waiting, OwnSockets, OnlyStarted, ErrorCloses, Started, NoFd

-----------------------------------------------------------------------------
(* What the client of link l has received, followed by what of wbuf has    *)
(* not been sent.                                                          *)
Sent(l) == IF loop.does = "write" /\ loop.link = l THEN loop.n ELSE 0
Total(l) == Len(out[l]) + (Len(wbuf[l]) - Sent(l))
Stream(l) ==
  [i \in 1..Total(l) |-> IF i <= Len(out[l]) THEN out[l][i]
                         ELSE wbuf[l][(i - Len(out[l])) + Sent(l)]]

(* Commands i to j of d are not replied to.                                *)
Quiet(d, i, j) == \A k \in i..j : d[k].cmd \in Silent

(* s[1..m] holds halves of replies of link l to the commands d: a second   *)
(* half comes after its first, a first half after the reply to the last    *)
(* command before it that is replied to.                                   *)
InReplyTo(l, d, s, m) ==
  \A i \in 1..m :
    /\ s[i].link = l /\ s[i].n \in 1..Len(d) /\ s[i].half \in {1, 2}
    /\ s[i].half = 2 => i > 1 /\ s[i - 1].half = 1 /\ s[i - 1].n = s[i].n
    /\ s[i].half = 1 => /\ i = 1 => Quiet(d, 1, s[i].n - 1)
                        /\ i > 1 => /\ s[i - 1].half = 2 /\ s[i - 1].n < s[i].n
                                    /\ Quiet(d, s[i - 1].n + 1, s[i].n - 1)

(* None of the replies to d is missing.                                    *)
AllReplied(d, s, m) ==
  /\ m = 0 => Quiet(d, 1, Len(d))
  /\ m > 0 => s[m].half = 2 /\ Quiet(d, s[m].n + 1, Len(d))

(* A client receives nothing but the replies of its own link to the        *)
(* commands executed for it, one for each that is replied to, in the order *)
(* of execution, however the writes are cut (Connect::send, onWrite).      *)
OwnReplies == \A l \in Links : InReplyTo(l, done[l], out[l], Len(out[l]))

-----------------------------------------------------------------------------
(* Steps that leave the descriptors and errors alone.                      *)
LEMMA SocketsFrame ==
  ASSUME OwnSockets, ErrorCloses, UNCHANGED <<socket, fd, err>>
  PROVE  OwnSockets' /\ ErrorCloses' /\ \A l \in Links : Served(l)' <=> Served(l)
  BY DEF OwnSockets, ErrorCloses, Served

LEMMA AcceptStep ==
  ASSUME IInv, NEW l \in Links, Accept(l)
  PROVE  IInv'
<1>i. /\ LinkTypes /\ OwnSockets /\ OnlyStarted /\ ErrorCloses /\ ClosedForCause /\ NoIdleWatcher
  BY DEF IInv
<1>1. PICK n \in 1..MaxFd : /\ socket[n] = Nobody
                            /\ socket' = [socket EXCEPT ![n] = l]
                            /\ fd' = [fd EXCEPT ![l] = n]
  BY DEF Accept
<1>2. /\ fd[l] = NoFd /\ asked[l] = <<>> /\ ~gone[l]
      /\ UNCHANGED <<asked, gone, in, out, err, wio, wbuf, done, loop>>
  BY DEF Accept, client
<1>3. /\ fd \in [Links -> 0..MaxFd] /\ socket \in [1..MaxFd -> Links \cup {Nobody}]
      /\ l # Nobody /\ n \in 0..MaxFd /\ n # NoFd
  BY <1>i, LinkAssumption, NobodyAssumption, SMTT(30) DEF LinkTypes, NoFd
<1>4. fd' \in [Links -> 0..MaxFd] /\ socket' \in [1..MaxFd -> Links \cup {Nobody}]
  BY <1>1, <1>3
<1>5. LinkTypes'
  BY <1>2, <1>4, <1>i DEF LinkTypes
<1>6. OwnSockets'
  <2>1. ASSUME NEW m \in 1..MaxFd, socket'[m] # Nobody PROVE fd'[socket'[m]] = m
    <3>1. CASE m = n
      BY <1>1, <1>3, <3>1
    <3>2. CASE m # n
      <4>1. socket'[m] = socket[m] /\ socket[m] \in Links /\ fd[socket[m]] = m
        BY <1>1, <1>3, <1>i, <2>1, <3>2 DEF OwnSockets
      <4>2. socket[m] # l
        BY <1>2, <4>1 DEF NoFd
      <4> QED
        BY <1>1, <1>3, <4>1, <4>2
    <3> QED
      BY <3>1, <3>2
  <2>2. ASSUME NEW k \in Links, fd'[k] # NoFd PROVE socket'[fd'[k]] = k
    <3>1. CASE k = l
      BY <1>1, <1>3, <3>1
    <3>2. CASE k # l
      <4>1. fd'[k] = fd[k] /\ socket[fd[k]] = k
        BY <1>1, <1>3, <1>i, <2>2, <3>2 DEF OwnSockets
      <4>2. fd[k] # n /\ fd[k] \in 1..MaxFd
        BY <1>1, <1>3, <2>2, <4>1, NobodyAssumption DEF NoFd
      <4> QED
        BY <1>1, <1>3, <4>1, <4>2
    <3> QED
      BY <3>1, <3>2
  <2> QED
    BY <2>1, <2>2 DEF OwnSockets
<1>7. OnlyStarted' /\ NoIdleWatcher'
  BY <1>2, <1>i DEF OnlyStarted, NoIdleWatcher, Started
<1>8. ErrorCloses'
  <2>1. ~err[l]
    BY <1>2, <1>i DEF OnlyStarted, Started
  <2> QED
    BY <1>1, <1>2, <1>3, <1>i, <2>1 DEF ErrorCloses
<1>9. ClosedForCause'
  <2> SUFFICES ASSUME NEW k \in Links, asked[k] # <<>>, ~gone[k] PROVE Served(k)'
    BY <1>2 DEF ClosedForCause
  <2>1. PICK m \in 1..MaxFd : socket[m] = k
    BY <1>i DEF ClosedForCause, Served
  <2>2. m # n
    BY <1>1, <2>1, NobodyAssumption
  <2> QED
    BY <1>1, <1>3, <2>1, <2>2 DEF Served
<1> QED
  BY <1>5, <1>6, <1>7, <1>8, <1>9 DEF IInv

LEMMA ClientStep ==
  ASSUME IInv, NEW l \in Links,
         Hang(l) \/ \E r \in Requests[l] : \E n \in Nat : Ask(l, r, n)
  PROVE  IInv'
<1>i. /\ LinkTypes /\ OwnSockets /\ OnlyStarted /\ ErrorCloses /\ ClosedForCause /\ NoIdleWatcher
  BY DEF IInv
<1>1. /\ Served(l)
      /\ UNCHANGED <<out, socket, fd, err, wio, wbuf, done, loop>>
  BY DEF Hang, Ask, link
<1>2. OwnSockets' /\ ErrorCloses' /\ \A k \in Links : Served(k)' <=> Served(k)
  BY <1>1, <1>i, SocketsFrame
<1>3. /\ asked' = [k \in Links |-> asked'[k]] /\ \A k \in Links : IsSeq(asked'[k])
      /\ in' = [k \in Links |-> in'[k]]
      /\ gone' \in [Links -> BOOLEAN]
      /\ \A k \in Links : Started(k) => Started(k)'
      /\ Started(l)'
      /\ \A k \in Links \ {l} : UNCHANGED <<asked[k], gone[k], in[k]>>
  <2>1. CASE Hang(l)
    BY <1>i, <2>1 DEF Hang, LinkTypes, Started
  <2>2. ASSUME NEW r \in Requests[l], NEW n \in Nat, Ask(l, r, n)
        PROVE  /\ asked' = [k \in Links |-> asked'[k]] /\ \A k \in Links : IsSeq(asked'[k])
               /\ in' = [k \in Links |-> in'[k]]
               /\ gone' \in [Links -> BOOLEAN]
               /\ \A k \in Links : Started(k) => Started(k)'
               /\ Started(l)'
               /\ \A k \in Links \ {l} : UNCHANGED <<asked[k], gone[k], in[k]>>
    <3> DEFINE cells == PackOf(r.type, r.body)
               e == [type |-> r.type, body |-> r.body, cells |-> SubSeq(cells, 1, n)]
               more == SubSeq(cells, 1, n)
               ends == n < Len(cells)
    <3>1. /\ asked' = [asked EXCEPT ![l] = Append(@, e)]
          /\ in' = [in EXCEPT ![l] = @ \o more]
          /\ gone' = [gone EXCEPT ![l] = ends]
          /\ ~gone[l]
      BY <2>2 DEF Ask
    <3>2. ends \in BOOLEAN
      OBVIOUS
    <3> HIDE DEF e, more, ends
    <3>3. /\ asked = [k \in Links |-> asked[k]] /\ in = [k \in Links |-> in[k]]
          /\ gone \in [Links -> BOOLEAN] /\ \A k \in Links : IsSeq(asked[k])
      BY <1>i DEF LinkTypes
    <3>4. IsSeq(Append(asked[l], e)) /\ Append(asked[l], e) # <<>>
      <4>1. IsSeq(asked[l])
        BY <3>3
      <4> QED
        BY <4>1, AppendIsSeq
    <3>5. /\ asked'[l] = Append(asked[l], e)
          /\ \A k \in Links \ {l} : UNCHANGED <<asked[k], gone[k], in[k]>>
      BY <3>1, <3>3
    <3>6. asked' = [k \in Links |-> asked'[k]] /\ in' = [k \in Links |-> in'[k]]
      BY <3>1, <3>3
    <3>7. gone' \in [Links -> BOOLEAN]
      BY <3>1, <3>2, <3>3
    <3>8. \A k \in Links : IsSeq(asked'[k])
      BY <3>3, <3>4, <3>5
    <3> QED
      BY <3>4, <3>5, <3>6, <3>7, <3>8 DEF Started
  <2> QED
    BY <2>1, <2>2
<1>4. LinkTypes'
  BY <1>1, <1>3, <1>i DEF LinkTypes
<1>5. OnlyStarted' /\ NoIdleWatcher'
  BY <1>1, <1>3, <1>i DEF OnlyStarted, NoIdleWatcher, LinkTypes
<1>6. ClosedForCause'
  <2> SUFFICES ASSUME NEW k \in Links, asked'[k] # <<>>, ~gone'[k] PROVE Served(k)
    BY <1>2 DEF ClosedForCause
  <2>1. CASE k = l
    BY <1>1, <2>1
  <2>2. CASE k # l
    BY <1>3, <1>i, <2>2 DEF ClosedForCause
  <2> QED
    BY <2>1, <2>2
<1> QED
  BY <1>2, <1>4, <1>5, <1>6 DEF IInv

LEMMA ReadStep ==
  ASSUME IInv, NEW l \in Links,
         OnRead(l) \/ Recv(l) \/ \E n : RecvShort(l, n)
  PROVE  IInv'
<1>i. /\ LinkTypes /\ OwnSockets /\ OnlyStarted /\ ErrorCloses /\ ClosedForCause /\ NoIdleWatcher
  BY DEF IInv
<1>1. /\ UNCHANGED <<asked, gone, out, socket, fd, err, wio, wbuf, done>>
      /\ in' = [k \in Links |-> in'[k]]
      /\ \A k \in Links \ {l} : in'[k] = in[k]
      /\ Started(l)
      /\ loop' \in [does : {"read", "exec"}, link : {l}, n : {loop'.n}]
  <2>1. CASE OnRead(l)
    <3>1. UNCHANGED <<asked, gone, in, out, socket, fd, err, wio, wbuf, done>>
      BY <2>1 DEF OnRead, client, link
    <3>2. loop' = [does |-> "read", link |-> l, n |-> HeadLen] /\ Started(l)
      BY <1>i, <2>1 DEF OnRead, OnlyStarted, Started
    <3>3. in' = [k \in Links |-> in'[k]]
      BY <1>i, <3>1 DEF LinkTypes
    <3> QED
      BY <3>1, <3>2, <3>3
  <2>2. ASSUME NEW n, Took(l, n), Doing("read", l)
        PROVE  /\ UNCHANGED <<asked, gone, out, socket, fd, err, wio, wbuf, done>>
               /\ in' = [k \in Links |-> in'[k]]
               /\ \A k \in Links \ {l} : in'[k] = in[k]
               /\ Started(l)
               /\ loop' \in [does : {"read", "exec"}, link : {l}, n : {loop'.n}]
    <3>1. UNCHANGED <<asked, gone, out, socket, fd, err, wio, wbuf, done>>
      BY <2>2 DEF Took, client, link
    <3>2. in' = [in EXCEPT ![l] = SubSeq(@, n + 1, Len(@))]
      BY <2>2 DEF Took
    <3>3. in = [k \in Links |-> in[k]]
      BY <1>i DEF LinkTypes
    <3>4. loop.does = "read" /\ loop.link = l
      BY <2>2 DEF Doing
    <3>5. Started(l)
      BY <1>i, <3>4 DEF OnlyStarted
    <3> DEFINE b == Put(rbuf[l], SubSeq(in[l], 1, n))
               next == NextLen(b, n)
    <3>6. loop' = [loop EXCEPT !.does = "exec"] \/ loop' = [loop EXCEPT !.n = next]
      BY <2>2 DEF Took
    <3> HIDE DEF next
    <3>7. loop' \in [does : {"read", "exec"}, link : {l}, n : {loop'.n}]
      <4>1. loop \in [does : {"read"}, link : {l}, n : {loop.n}]
        BY <1>i, <3>4 DEF LinkTypes
      <4> QED
        BY <3>6, <4>1
    <3> QED
      BY <3>1, <3>2, <3>3, <3>5, <3>7
  <2> QED
    BY <2>1, <2>2 DEF Recv, RecvShort
<1>2. OwnSockets' /\ ErrorCloses' /\ \A k \in Links : Served(k)' <=> Served(k)
  BY <1>1, <1>i, SocketsFrame
<1>3. LinkTypes'
  BY <1>1, <1>i DEF LinkTypes
<1>4. OnlyStarted' /\ NoIdleWatcher'
  BY <1>1, <1>i DEF OnlyStarted, NoIdleWatcher, Started
<1>5. ClosedForCause'
  BY <1>1, <1>2, <1>i DEF ClosedForCause
<1> QED
  BY <1>2, <1>3, <1>4, <1>5 DEF IInv

(* Closing a link that met an error frees its own descriptor only.         *)
LEMMA CloseEffect ==
  ASSUME LinkTypes, OwnSockets, ErrorCloses, NEW l \in Links, Fails(l)
  PROVE  /\ err' \in [Links -> BOOLEAN] /\ fd' \in [Links -> 0..MaxFd]
         /\ socket' \in [1..MaxFd -> Links \cup {Nobody}]
         /\ OwnSockets' /\ ErrorCloses'
         /\ \A k \in Links \ {l} : err'[k] = err[k] /\ (Served(k) => Served(k)')
         /\ fd[l] = NoFd /\ Served(l) => Served(l)'
<1>1. /\ err' = [err EXCEPT ![l] = TRUE]
      /\ socket' = [n \in 1..MaxFd |-> IF n = fd[l] THEN Nobody ELSE socket[n]]
      /\ fd' = [fd EXCEPT ![l] = NoFd]
  BY DEF Fails, Closed
<1>2. /\ err \in [Links -> BOOLEAN] /\ fd \in [Links -> 0..MaxFd]
      /\ socket \in [1..MaxFd -> Links \cup {Nobody}] /\ MaxFd \in Nat
  BY LinkAssumption DEF LinkTypes
<1>3. /\ err' \in [Links -> BOOLEAN] /\ fd' \in [Links -> 0..MaxFd]
      /\ socket' \in [1..MaxFd -> Links \cup {Nobody}]
  BY <1>1, <1>2 DEF NoFd
<1>4. OwnSockets'
  <2>1. ASSUME NEW m \in 1..MaxFd, socket'[m] # Nobody PROVE fd'[socket'[m]] = m
    <3>1. m # fd[l] /\ socket'[m] = socket[m] /\ socket[m] \in Links
      BY <1>1, <1>2, <2>1
    <3>2. fd[socket[m]] = m /\ socket[m] # l
      BY <2>1, <3>1 DEF OwnSockets
    <3> QED
      BY <1>1, <1>2, <3>1, <3>2
  <2>2. ASSUME NEW k \in Links, fd'[k] # NoFd PROVE socket'[fd'[k]] = k
    <3>1. k # l /\ fd'[k] = fd[k]
      BY <1>1, <1>2, <2>2
    <3>2. socket[fd[k]] = k /\ fd[k] \in 1..MaxFd
      BY <1>2, <2>2, <3>1 DEF OwnSockets, NoFd
    <3>3. fd[k] # fd[l]
      BY <2>2, <3>1, <3>2 DEF OwnSockets
    <3> QED
      BY <1>1, <3>1, <3>2, <3>3
  <2> QED
    BY <2>1, <2>2 DEF OwnSockets
<1>5. ErrorCloses'
  BY <1>1, <1>2 DEF ErrorCloses
<1>6. ASSUME NEW k \in Links \ {l} PROVE err'[k] = err[k] /\ (Served(k) => Served(k)')
  <2>1. err'[k] = err[k]
    BY <1>1, <1>2
  <2>2. ASSUME NEW m \in 1..MaxFd, socket[m] = k PROVE socket'[m] = k
    <3>1. fd[k] = m
      BY <2>2, NobodyAssumption DEF OwnSockets
    <3>2. m # fd[l]
      BY <1>2, <2>2 DEF OwnSockets, NoFd
    <3> QED
      BY <1>1, <2>2, <3>2
  <2> QED
    BY <2>1, <2>2 DEF Served
<1>7. fd[l] = NoFd /\ Served(l) => Served(l)'
  BY <1>1 DEF Served, NoFd
<1> QED
  BY <1>3, <1>4, <1>5, <1>6, <1>7

LEMMA FailStep ==
  ASSUME IInv, NEW l \in Links, RecvFails(l) \/ SendFails(l)
  PROVE  IInv'
<1>i. /\ LinkTypes /\ OwnSockets /\ OnlyStarted /\ ErrorCloses /\ ClosedForCause /\ NoIdleWatcher
  BY DEF IInv
<1>1. /\ Fails(l) /\ loop.link = l /\ loop.does # "wait" /\ loop' = Waiting
      /\ UNCHANGED <<asked, gone, out, wbuf, done>>
      /\ wio' = [wio EXCEPT ![l] = FALSE] \/ wio' = wio
      /\ in' = [in EXCEPT ![l] = <<>>] \/ in' = in
  BY DEF RecvFails, SendFails, Doing, client
<1>2. /\ err' \in [Links -> BOOLEAN] /\ fd' \in [Links -> 0..MaxFd]
      /\ socket' \in [1..MaxFd -> Links \cup {Nobody}]
      /\ OwnSockets' /\ ErrorCloses'
      /\ \A k \in Links \ {l} : err'[k] = err[k] /\ (Served(k) => Served(k)')
      /\ fd[l] = NoFd /\ Served(l) => Served(l)'
  BY <1>1, <1>i, CloseEffect
<1>3. /\ wio \in [Links -> BOOLEAN] /\ in = [k \in Links |-> in[k]]
  BY <1>i DEF LinkTypes
<1>4. /\ wio' \in [Links -> BOOLEAN] /\ in' = [k \in Links |-> in'[k]]
      /\ \A k \in Links : (wio'[k] => wio[k]) /\ (in'[k] # <<>> => in[k] # <<>>)
  <2>1. wio' \in [Links -> BOOLEAN] /\ \A k \in Links : wio'[k] => wio[k]
    BY <1>1, <1>3
  <2>2. in' = [k \in Links |-> in'[k]] /\ \A k \in Links : in'[k] # <<>> => in[k] # <<>>
    BY <1>1, <1>3
  <2> QED
    BY <2>1, <2>2
<1>5. LinkTypes'
  BY <1>1, <1>2, <1>4, <1>i DEF LinkTypes, Waiting
<1>6. OnlyStarted'
  BY <1>1, <1>2, <1>4, <1>i DEF OnlyStarted, Started, Waiting
<1>7. NoIdleWatcher'
  BY <1>1, <1>4, <1>i DEF NoIdleWatcher
<1>8. gone[l] \/ fd[l] = NoFd
  <2>1. CASE RecvFails(l)
    BY <2>1 DEF RecvFails
  <2>2. CASE SendFails(l)
    <3>1. Usable(l) => gone[socket[fd[l]]]
      BY <2>2 DEF SendFails
    <3>2. CASE fd[l] # NoFd
      <4>1. socket[fd[l]] = l /\ ~err[l]
        BY <1>i, <3>2 DEF OwnSockets, ErrorCloses
      <4> QED
        BY <3>1, <3>2, <4>1, NobodyAssumption DEF Usable
    <3> QED
      BY <3>2
  <2> QED
    BY <2>1, <2>2
<1>9. ClosedForCause'
  <2> SUFFICES ASSUME NEW k \in Links, asked[k] # <<>>, ~gone[k] PROVE Served(k)'
    BY <1>1 DEF ClosedForCause
  <2>1. Served(k)
    BY <1>i DEF ClosedForCause
  <2> QED
    BY <1>2, <1>8, <2>1
<1> QED
  BY <1>2, <1>5, <1>6, <1>7, <1>9 DEF IInv

(* What executing a command adds: an entry of done, and a reply of two     *)
(* halves unless the command is silent.                                    *)
LEMMA ExecEffect ==
  ASSUME LinkTypes, NEW l \in Links, Exec(l)
  PROVE  /\ loop.does = "exec" /\ loop.link = l /\ loop' = Waiting
         /\ UNCHANGED <<asked, gone, in, out, socket, fd, err>>
         /\ done' = [k \in Links |-> done'[k]]
         /\ \A k \in Links : IsSeq(done'[k])
         /\ \A k \in Links \ {l} : done'[k] = done[k]
         /\ Len(done[l]) \in Nat
         /\ Len(done'[l]) = Len(done[l]) + 1
         /\ \A i \in 1..Len(done[l]) : done'[l][i] = done[l][i]
         /\ \/ /\ UNCHANGED <<wio, wbuf>>
               /\ done'[l][Len(done[l]) + 1].cmd \in Silent
            \/ /\ wio' = [wio EXCEPT ![l] = TRUE]
               /\ wbuf' = [wbuf EXCEPT ![l] = @ \o Reply(l, Len(done[l]) + 1)]
<1> DEFINE b == HeadRead(rbuf[l])
           type == Get(b, SizeLen + FlagLen, TypeLen)
           e == [cmd |-> Fetch(type), len |-> BodyLen(type, b)]
<1>1. /\ loop.does = "exec" /\ loop.link = l /\ loop' = Waiting
      /\ UNCHANGED <<asked, gone, in, out, socket, fd, err>>
      /\ done' = [done EXCEPT ![l] = Append(@, e)]
      /\ ExecSilent(l, type) \/ ExecReply(l, type)
  BY DEF Exec, Doing, client, link
<1>2. e.cmd = Fetch(type)
  OBVIOUS
<1>3. /\ done = [k \in Links |-> done[k]] /\ \A k \in Links : IsSeq(done[k])
  BY DEF LinkTypes
<1> HIDE DEF e, type
<1>4. IsSeq(done[l])
  BY <1>3
<1>5. /\ IsSeq(Append(done[l], e))
      /\ Len(done[l]) \in Nat
      /\ Len(Append(done[l], e)) = Len(done[l]) + 1
      /\ \A i \in 1..Len(done[l]) : Append(done[l], e)[i] = done[l][i]
      /\ Append(done[l], e)[Len(done[l]) + 1] = e
  BY <1>4, AppendIsSeq
<1>6. /\ done' = [k \in Links |-> done'[k]]
      /\ \A k \in Links \ {l} : done'[k] = done[k]
      /\ done'[l] = Append(done[l], e)
  BY <1>1, <1>3
<1>7. \A k \in Links : IsSeq(done'[k])
  BY <1>3, <1>5, <1>6
<1>8. CASE ExecSilent(l, type)
  <2>1. type \in Silent /\ Fetch(type) = type
    BY <1>8, LinkAssumption DEF ExecSilent, Fetch
  <2>2. done'[l][Len(done[l]) + 1].cmd \in Silent
    BY <1>2, <1>5, <1>6, <2>1
  <2>3. UNCHANGED <<wio, wbuf>>
    BY <1>8 DEF ExecSilent
  <2> QED
    BY <1>1, <1>5, <1>6, <1>7, <2>2, <2>3
<1>9. CASE ExecReply(l, type)
  <2>1. /\ wio' = [wio EXCEPT ![l] = TRUE]
        /\ wbuf' = [wbuf EXCEPT ![l] = @ \o Reply(l, Len(done[l]) + 1)]
    BY <1>9 DEF ExecReply, SendMsg
  <2> QED
    BY <1>1, <1>5, <1>6, <1>7, <2>1
<1> QED
  BY <1>1, <1>8, <1>9

(* A reply is two units, put behind what is to be written.                 *)
LEMMA ReplyEffect ==
  ASSUME NEW l \in Links, NEW n \in Nat, NEW s \in Seq(Unit)
  PROVE  /\ s \o Reply(l, n) \in Seq(Unit)
         /\ Len(s) \in Nat
         /\ Len(s \o Reply(l, n)) = Len(s) + 2
         /\ s \o Reply(l, n) # <<>>
         /\ \A i \in 1..Len(s) : (s \o Reply(l, n))[i] = s[i]
         /\ (s \o Reply(l, n))[Len(s) + 1] = [link |-> l, n |-> n, half |-> 1]
         /\ (s \o Reply(l, n))[Len(s) + 2] = [link |-> l, n |-> n, half |-> 2]
<1> DEFINE r == Reply(l, n)
<1>1. /\ r \in Seq(Unit) /\ Len(r) = 2
      /\ r[1] = [link |-> l, n |-> n, half |-> 1]
      /\ r[2] = [link |-> l, n |-> n, half |-> 2]
  BY DEF Reply, Unit
<1> HIDE DEF r
<1>2. /\ s \o r \in Seq(Unit) /\ Len(s) \in Nat /\ Len(s \o r) = Len(s) + 2
      /\ \A i \in 1..Len(s) : (s \o r)[i] = s[i]
      /\ (s \o r)[Len(s) + 1] = r[1]
      /\ (s \o r)[Len(s) + 2] = r[2]
  <2>1. 1 \in 1..Len(r) /\ 2 \in 1..Len(r)
    BY <1>1
  <2>2. /\ s \o r \in Seq(Unit) /\ Len(s) \in Nat /\ Len(s \o r) = Len(s) + Len(r)
        /\ \A i \in 1..Len(s) : (s \o r)[i] = s[i]
        /\ \A i \in 1..Len(r) : (s \o r)[Len(s) + i] = r[i]
    <3>1. r \in Seq(Unit)
      BY <1>1
    <3> QED
      BY <3>1, ConcatIs
  <2> QED
    BY <1>1, <2>1, <2>2, Zenon
<1>3. s \o r # <<>>
  BY <1>2
<1> QED
  BY <1>1, <1>2, <1>3 DEF r

LEMMA ExecStep ==
  ASSUME IInv, NEW l \in Links, Exec(l)
  PROVE  IInv'
<1>i. /\ LinkTypes /\ OwnSockets /\ OnlyStarted /\ ErrorCloses /\ ClosedForCause /\ NoIdleWatcher
  BY DEF IInv
<1>1. /\ loop.does = "exec" /\ loop.link = l /\ loop' = Waiting
      /\ UNCHANGED <<asked, gone, in, out, socket, fd, err>>
      /\ done' = [k \in Links |-> done'[k]] /\ \A k \in Links : IsSeq(done'[k])
      /\ Len(done[l]) \in Nat
  BY <1>i, ExecEffect
<1>2. wio \in [Links -> BOOLEAN] /\ wbuf \in [Links -> Seq(Unit)]
  BY <1>i DEF LinkTypes
<1>3. \/ UNCHANGED <<wio, wbuf>>
      \/ /\ wio' = [wio EXCEPT ![l] = TRUE]
         /\ wbuf' = [wbuf EXCEPT ![l] = @ \o Reply(l, Len(done[l]) + 1)]
  BY <1>i, ExecEffect
<1>4. /\ wio' \in [Links -> BOOLEAN] /\ wbuf' \in [Links -> Seq(Unit)]
      /\ \A k \in Links \ {l} : wio'[k] = wio[k] /\ wbuf'[k] = wbuf[k]
      /\ wio'[l] /\ wbuf'[l] = <<>> => wio[l] /\ wbuf[l] = <<>>
  <2>1. /\ wbuf[l] \o Reply(l, Len(done[l]) + 1) \in Seq(Unit)
        /\ wbuf[l] \o Reply(l, Len(done[l]) + 1) # <<>>
    <3>1. Len(done[l]) + 1 \in Nat /\ wbuf[l] \in Seq(Unit)
      BY <1>1, <1>2
    <3> QED
      BY <3>1, ReplyEffect
  <2> QED
    BY <1>2, <1>3, <2>1
<1>5. LinkTypes'
  BY <1>1, <1>4, <1>i DEF LinkTypes, Waiting
<1>6. OnlyStarted'
  BY <1>1, <1>4, <1>i DEF OnlyStarted, Started, Waiting
<1>7. NoIdleWatcher'
  BY <1>4, <1>i DEF NoIdleWatcher
<1>8. OwnSockets' /\ ErrorCloses' /\ \A k \in Links : Served(k)' <=> Served(k)
  BY <1>1, <1>i, SocketsFrame
<1>9. ClosedForCause'
  BY <1>1, <1>8, <1>i DEF ClosedForCause
<1> QED
  BY <1>5, <1>6, <1>7, <1>8, <1>9 DEF IInv

(* A send gives the client of the link the next units of wbuf.             *)
LEMMA SendEffect ==
  ASSUME LinkTypes, OwnSockets, NEW l \in Links, NEW n, Send(l, n)
  PROVE  /\ loop.does = "write" /\ loop.link = l /\ loop.n \in Nat
         /\ n \in 1..(Len(wbuf[l]) - loop.n) /\ ~err[l]
         /\ wbuf[l] \in Seq(Unit) /\ out[l] \in Seq(Unit)
         /\ UNCHANGED <<asked, gone, in, socket, fd, err, done>>
         /\ out' \in [Links -> Seq(Unit)]
         /\ \A k \in Links \ {l} : out'[k] = out[k]
         /\ out'[l] = out[l] \o SubSeq(wbuf[l], loop.n + 1, loop.n + n)
         /\ Len(out'[l]) = Len(out[l]) + n
         /\ \A i \in 1..Len(out[l]) : out'[l][i] = out[l][i]
         /\ \A i \in 1..n : out'[l][Len(out[l]) + i] = wbuf[l][loop.n + i]
         /\ \/ /\ loop.n + n = Len(wbuf[l]) /\ loop' = Waiting
               /\ wbuf' = [wbuf EXCEPT ![l] = <<>>] /\ wio' = [wio EXCEPT ![l] = FALSE]
            \/ /\ loop.n + n < Len(wbuf[l]) /\ loop' = [loop EXCEPT !.n = loop.n + n]
               /\ UNCHANGED <<wio, wbuf>>
<1>1. /\ loop.does = "write" /\ loop.link = l /\ loop.n \in Nat
      /\ wbuf[l] \in Seq(Unit) /\ out \in [Links -> Seq(Unit)]
  BY DEF Send, Doing, LinkTypes
<1>2. /\ n \in 1..(Len(wbuf[l]) - loop.n) /\ ~err[l] /\ socket[fd[l]] = l
      /\ UNCHANGED <<asked, gone, in, socket, fd, err, done>>
  BY DEF Send, Usable, client, link, OwnSockets
<1> DEFINE o == SubSeq(wbuf[l], loop.n + 1, loop.n + n)
<1>3. out' = [out EXCEPT ![l] = @ \o o]
  BY <1>2 DEF Send, Outgoing
<1>4. n \in Nat /\ Len(wbuf[l]) \in Nat /\ loop.n + n <= Len(wbuf[l])
  BY <1>1, <1>2
<1>5. o \in Seq(Unit) /\ Len(o) = n /\ \A i \in 1..n : o[i] = wbuf[l][loop.n + i]
  <2> DEFINE w == wbuf[l]
             a == loop.n
  <2>1. w \in Seq(Unit) /\ a \in Nat /\ n \in Nat /\ a + n <= Len(w) /\ Len(w) \in Nat
    BY <1>1, <1>4
  <2> HIDE DEF w, a
  <2>2. \A i \in (a + 1)..(a + n) : w[i] \in Unit
    BY <2>1
  <2>3. SubSeq(w, a + 1, a + n) \in Seq(Unit) /\ Len(SubSeq(w, a + 1, a + n)) = n
    BY <2>1, <2>2
  <2>4. \A i \in 1..n : SubSeq(w, a + 1, a + n)[i] = w[a + i]
    BY <2>1, <2>3
  <2> QED
    BY <2>3, <2>4 DEF w, a
<1> HIDE DEF o
<1>6. /\ out[l] \o o \in Seq(Unit) /\ Len(out[l] \o o) = Len(out[l]) + n
      /\ \A i \in 1..Len(out[l]) : (out[l] \o o)[i] = out[l][i]
      /\ \A i \in 1..n : (out[l] \o o)[Len(out[l]) + i] = o[i]
  <2>1. out[l] \in Seq(Unit)
    BY <1>1
  <2>2. /\ out[l] \o o \in Seq(Unit) /\ Len(out[l] \o o) = Len(out[l]) + Len(o)
        /\ \A i \in 1..Len(out[l]) : (out[l] \o o)[i] = out[l][i]
        /\ \A i \in 1..Len(o) : (out[l] \o o)[Len(out[l]) + i] = o[i]
    <3>1. o \in Seq(Unit)
      BY <1>5
    <3> QED
      BY <2>1, <3>1, ConcatIs
  <2> QED
    BY <1>5, <2>2, Zenon
<1>7. /\ out'[l] = out[l] \o o /\ out' \in [Links -> Seq(Unit)]
      /\ \A k \in Links \ {l} : out'[k] = out[k]
  BY <1>1, <1>3, <1>6
<1>8. \/ /\ loop.n + n = Len(wbuf[l]) /\ loop' = Waiting
         /\ wbuf' = [wbuf EXCEPT ![l] = <<>>] /\ wio' = [wio EXCEPT ![l] = FALSE]
      \/ /\ loop.n + n # Len(wbuf[l]) /\ loop' = [loop EXCEPT !.n = loop.n + n]
         /\ UNCHANGED <<wio, wbuf>>
  <2>1. CASE loop.n + n = Len(wbuf[l])
    BY <2>1 DEF Send, Written
  <2>2. CASE loop.n + n # Len(wbuf[l])
    BY <2>2 DEF Send
  <2> QED
    BY <2>1, <2>2
<1>9. loop.n + n # Len(wbuf[l]) => loop.n + n < Len(wbuf[l])
  <2> DEFINE a == loop.n
             c == Len(wbuf[l])
  <2>1. a \in Nat /\ n \in Nat /\ c \in Nat /\ a + n <= c
    BY <1>1, <1>4
  <2> HIDE DEF a, c
  <2>2. a + n # c => a + n < c
    BY <2>1
  <2> QED
    BY <2>2 DEF a, c
<1>10. out[l] \in Seq(Unit)
  BY <1>1
<1> QED
  BY <1>1, <1>2, <1>5, <1>6, <1>7, <1>8, <1>9, <1>10 DEF o

LEMMA WriteStep ==
  ASSUME IInv, NEW l \in Links,
         OnWrite(l) \/ SendKills(l) \/ \E n : Send(l, n)
  PROVE  IInv'
<1>i. /\ LinkTypes /\ OwnSockets /\ OnlyStarted /\ ErrorCloses /\ ClosedForCause /\ NoIdleWatcher
  BY DEF IInv
<1>t. /\ wbuf \in [Links -> Seq(Unit)] /\ wio \in [Links -> BOOLEAN]
      /\ loop \in [does : {"wait", "read", "exec", "write"}, link : Links \cup {Nobody},
                   n : {loop.n}]
  BY <1>i DEF LinkTypes
<1>1. CASE OnWrite(l)
  <2>1. /\ UNCHANGED <<asked, gone, in, out, socket, fd, err, wio, wbuf, done>>
        /\ loop' = [does |-> "write", link |-> l, n |-> 0] /\ wbuf[l] # <<>>
    BY <1>1 DEF OnWrite, client, link
  <2>2. Len(wbuf[l]) \in Nat /\ 0 < Len(wbuf[l])
    BY <1>t, <2>1
  <2>3. LinkTypes'
    BY <1>i, <2>1, <2>2 DEF LinkTypes
  <2>4. OnlyStarted' /\ NoIdleWatcher'
    BY <1>i, <2>1 DEF OnlyStarted, NoIdleWatcher, Started
  <2>5. OwnSockets' /\ ErrorCloses' /\ ClosedForCause'
    BY <1>i, <2>1, SocketsFrame DEF ClosedForCause
  <2> QED
    BY <2>3, <2>4, <2>5 DEF IInv
<1>2. CASE SendKills(l)
  <2>1. UNCHANGED <<asked, gone, in, out, socket, fd, err, wio, wbuf, done, loop>>
    BY <1>2 DEF SendKills, client, link
  <2> QED
    BY <2>1, <1>i DEF IInv, LinkTypes, OwnSockets, OnlyStarted, ErrorCloses, ClosedForCause,
                      NoIdleWatcher, Started, Served
<1>3. ASSUME NEW n, Send(l, n) PROVE IInv'
  <2>1. /\ loop.does = "write" /\ loop.link = l /\ loop.n \in Nat
        /\ n \in 1..(Len(wbuf[l]) - loop.n)
        /\ UNCHANGED <<asked, gone, in, socket, fd, err, done>>
        /\ out' \in [Links -> Seq(Unit)]
        /\ \/ /\ loop' = Waiting
              /\ wbuf' = [wbuf EXCEPT ![l] = <<>>] /\ wio' = [wio EXCEPT ![l] = FALSE]
           \/ /\ loop.n + n < Len(wbuf[l]) /\ loop' = [loop EXCEPT !.n = loop.n + n]
              /\ UNCHANGED <<wio, wbuf>>
    BY <1>3, <1>i, SendEffect
  <2>2. OwnSockets' /\ ErrorCloses' /\ ClosedForCause'
    BY <1>i, <2>1, SocketsFrame DEF ClosedForCause
  <2>3. CASE /\ loop' = Waiting
             /\ wbuf' = [wbuf EXCEPT ![l] = <<>>] /\ wio' = [wio EXCEPT ![l] = FALSE]
    <3>1. /\ wbuf' \in [Links -> Seq(Unit)] /\ wio' \in [Links -> BOOLEAN]
          /\ \A k \in Links : wio'[k] => wio[k] /\ wbuf'[k] = wbuf[k]
          /\ \A k \in Links : wbuf'[k] # <<>> => wbuf[k] # <<>>
      BY <1>t, <2>3
    <3>2. LinkTypes'
      BY <1>i, <2>1, <2>3, <3>1 DEF LinkTypes, Waiting
    <3>3. OnlyStarted' /\ NoIdleWatcher'
      BY <1>i, <2>1, <2>3, <3>1 DEF OnlyStarted, NoIdleWatcher, Started, Waiting
    <3> QED
      BY <2>2, <3>2, <3>3 DEF IInv
  <2>4. CASE /\ loop.n + n < Len(wbuf[l]) /\ loop' = [loop EXCEPT !.n = loop.n + n]
             /\ UNCHANGED <<wio, wbuf>>
    <3>1. /\ loop' \in [does : {"write"}, link : {l}, n : {loop'.n}]
          /\ loop'.n = loop.n + n /\ loop.n + n \in Nat
      BY <1>t, <2>1, <2>4
    <3>2. LinkTypes'
      BY <1>i, <2>1, <2>4, <3>1 DEF LinkTypes
    <3>3. OnlyStarted' /\ NoIdleWatcher'
      BY <1>i, <2>1, <2>4, <3>1 DEF OnlyStarted, NoIdleWatcher, Started
    <3> QED
      BY <2>2, <3>2, <3>3 DEF IInv
  <2> QED
    BY <2>1, <2>3, <2>4
<1> QED
  BY <1>1, <1>2, <1>3

LEMMA InvInit == Init => IInv
<1> SUFFICES ASSUME Init PROVE IInv
  OBVIOUS
<1>1. ClosedForCause /\ NoIdleWatcher
  BY DEF Init, ClosedForCause, NoIdleWatcher
<1> QED
  BY <1>1, TypesInit DEF IInv

(* The number of bytes of a request that a client sends is a number.       *)
LEMMA AskLengths ==
  ASSUME NEW l \in Links, NEW r \in Requests[l]
  PROVE  Cuts \cup {HeadLen + Len(r.body)} \subseteq Nat
<1>1. HeadLen \in Nat
  BY BytesAssumption DEF HeadLen
<1>2. Cuts \subseteq Nat
  BY <1>1, LinkAssumption
<1>3. r.body \in Seq(Byte)
  BY LinkAssumption
<1> DEFINE k == Len(r.body)
<1>4. k \in Nat
  BY <1>3
<1> HIDE DEF k
<1>5. HeadLen + k \in Nat
  BY <1>1, <1>4
<1> QED
  BY <1>2, <1>5 DEF k

(* The steps of the specification, grouped as the lemmas treat them.       *)
LEMMA Steps ==
  ASSUME [Next]_vars
  PROVE  \/ UNCHANGED vars
         \/ \E l \in Links :
              \/ Accept(l)
              \/ Hang(l) \/ \E r \in Requests[l] : \E n \in Nat : Ask(l, r, n)
              \/ OnRead(l) \/ Recv(l) \/ \E n : RecvShort(l, n)
              \/ RecvFails(l) \/ SendFails(l)
              \/ Exec(l)
              \/ OnWrite(l) \/ SendKills(l) \/ \E n : Send(l, n)
<1>1. CASE UNCHANGED vars
  BY <1>1
<1>2. CASE LoopStep
  BY <1>2 DEF LoopStep
<1>3. ASSUME NEW l \in Links, NEW r \in Requests[l],
             NEW n \in Cuts \cup {HeadLen + Len(r.body)}, Ask(l, r, n)
      PROVE  \E m \in Nat : Ask(l, r, m)
  BY <1>3, AskLengths
<1>4. CASE Next
  BY <1>2, <1>3, <1>4 DEF Next
<1> QED
  BY <1>1, <1>4

LEMMA InvStep == IInv /\ [Next]_vars => IInv'
<1> SUFFICES ASSUME IInv, [Next]_vars PROVE IInv'
  OBVIOUS
<1>1. CASE UNCHANGED vars
  <2>1. UNCHANGED <<asked, gone, in, out, socket, fd, err, wio, wbuf, done, loop>>
    BY <1>1 DEF vars, client, link
  <2> QED
    BY <2>1 DEF IInv, LinkTypes, OwnSockets, OnlyStarted, ErrorCloses, ClosedForCause,
                NoIdleWatcher, Started, Served
<1> QED
  BY <1>1, Steps, AcceptStep, ClientStep, ReadStep, FailStep, ExecStep, WriteStep

LEMMA InvAlways == Spec => []IInv
  BY InvInit, InvStep, PTL DEF Spec

(* The server closes the socket of a client only after that client has     *)
(* closed its end, also when c_wio, which close does not stop, fires for a *)
(* link whose descriptor has gone to another (client_link.cpp close and    *)
(* onWrite, connection.cpp close and send).                                *)
THEOREM ClosedOnlyForCause == Spec => []ClosedForCause
<1>1. IInv => ClosedForCause
  BY DEF IInv
<1> QED
  BY <1>1, InvAlways, PTL

(* c_wio is never active with nothing to write, which would make the loop  *)
(* spin (client_link.cpp onWrite).                                         *)
THEOREM WatcherHasWork == Spec => []NoIdleWatcher
<1>1. IInv => NoIdleWatcher
  BY DEF IInv
<1> QED
  BY <1>1, InvAlways, PTL

-----------------------------------------------------------------------------
(* A longer list of commands, or a shorter list of units.                  *)
LEMMA StillInReply ==
  ASSUME NEW l, NEW d, NEW e, NEW s, NEW x, NEW m \in Nat, NEW q \in Nat,
         InReplyTo(l, d, s, m), q <= m, \A i \in 1..q : x[i] = s[i],
         Len(d) \in Nat, Len(e) \in Nat, Len(d) <= Len(e),
         \A i \in 1..Len(d) : e[i] = d[i]
  PROVE  InReplyTo(l, e, x, q)
<1> SUFFICES ASSUME NEW i \in 1..q
             PROVE  /\ x[i].link = l /\ x[i].n \in 1..Len(e) /\ x[i].half \in {1, 2}
                    /\ x[i].half = 2 => i > 1 /\ x[i - 1].half = 1 /\ x[i - 1].n = x[i].n
                    /\ x[i].half = 1 => /\ i = 1 => Quiet(e, 1, x[i].n - 1)
                                        /\ i > 1 => /\ x[i - 1].half = 2 /\ x[i - 1].n < x[i].n
                                                    /\ Quiet(e, x[i - 1].n + 1, x[i].n - 1)
  BY DEF InReplyTo
<1>1. i \in 1..m /\ x[i] = s[i]
  OBVIOUS
<1>2. /\ s[i].link = l /\ s[i].n \in 1..Len(d) /\ s[i].half \in {1, 2}
      /\ s[i].half = 2 => i > 1 /\ s[i - 1].half = 1 /\ s[i - 1].n = s[i].n
      /\ s[i].half = 1 => /\ i = 1 => Quiet(d, 1, s[i].n - 1)
                          /\ i > 1 => /\ s[i - 1].half = 2 /\ s[i - 1].n < s[i].n
                                      /\ Quiet(d, s[i - 1].n + 1, s[i].n - 1)
  BY <1>1 DEF InReplyTo
<1>3. i > 1 => i - 1 \in 1..q /\ x[i - 1] = s[i - 1] /\ s[i - 1].n \in 1..Len(d)
  <2> SUFFICES ASSUME i > 1
               PROVE  i - 1 \in 1..q /\ x[i - 1] = s[i - 1] /\ s[i - 1].n \in 1..Len(d)
    OBVIOUS
  <2>1. i - 1 \in 1..q /\ i - 1 \in 1..m
    OBVIOUS
  <2> QED
    BY <2>1 DEF InReplyTo
<1>4. ASSUME NEW a \in Nat \ {0}, NEW c \in Int, c <= Len(d), Quiet(d, a, c) PROVE Quiet(e, a, c)
  BY <1>4 DEF Quiet
<1>5. x[i].n \in 1..Len(e) /\ s[i].n - 1 \in Int /\ s[i].n - 1 <= Len(d)
  BY <1>1, <1>2
<1>6. CASE s[i].half = 2
  BY <1>1, <1>2, <1>3, <1>5, <1>6
<1>7. CASE s[i].half = 1
  <2>1. CASE i = 1
    <3>1. Quiet(e, 1, s[i].n - 1)
      BY <1>2, <1>4, <1>5, <1>7, <2>1
    <3> QED
      BY <1>1, <1>2, <1>5, <1>7, <2>1, <3>1
  <2>2. CASE i > 1
    <3>1. s[i - 1].n + 1 \in Nat \ {0}
      BY <1>3, <2>2
    <3>2. Quiet(e, s[i - 1].n + 1, s[i].n - 1)
      BY <1>2, <1>4, <1>5, <1>7, <2>2, <3>1
    <3> QED
      BY <1>1, <1>2, <1>3, <1>5, <1>7, <2>2, <3>2
  <2> QED
    BY <2>1, <2>2
<1> QED
  BY <1>2, <1>6, <1>7

LEMMA PrefixInReply ==
  ASSUME NEW l, NEW d, NEW s, NEW x, NEW m \in Nat, NEW q \in Nat,
         InReplyTo(l, d, s, m), q <= m, \A i \in 1..q : x[i] = s[i], Len(d) \in Nat
  PROVE  InReplyTo(l, d, x, q)
<1>1. Len(d) <= Len(d) /\ \A i \in 1..Len(d) : d[i] = d[i]
  OBVIOUS
<1> QED
  BY <1>1, StillInReply, Zenon

(* A silent command needs no reply.                                        *)
LEMMA SilentAdded ==
  ASSUME NEW l, NEW d, NEW e, NEW s, NEW m \in Nat,
         InReplyTo(l, d, s, m), AllReplied(d, s, m),
         Len(d) \in Nat, Len(e) = Len(d) + 1,
         \A i \in 1..Len(d) : e[i] = d[i], e[Len(d) + 1].cmd \in Silent
  PROVE  InReplyTo(l, e, s, m) /\ AllReplied(e, s, m)
<1>1. InReplyTo(l, e, s, m)
  BY StillInReply
<1>2. ASSUME NEW a \in Nat \ {0}, Quiet(d, a, Len(d)) PROVE Quiet(e, a, Len(e))
  BY <1>2 DEF Quiet
<1>3. m > 0 => s[m].n + 1 \in Nat \ {0}
  <2> SUFFICES ASSUME m > 0 PROVE s[m].n + 1 \in Nat \ {0}
    OBVIOUS
  <2>1. s[m].n \in 1..Len(d)
    BY DEF InReplyTo
  <2> QED
    BY <2>1
<1> QED
  BY <1>1, <1>2, <1>3 DEF AllReplied

(* The reply to the next command comes behind all the others.              *)
LEMMA ReplyAdded ==
  ASSUME NEW l \in Links, NEW d, NEW e, NEW s, NEW x, NEW m \in Nat,
         InReplyTo(l, d, s, m), AllReplied(d, s, m),
         Len(d) \in Nat, Len(e) = Len(d) + 1, \A i \in 1..Len(d) : e[i] = d[i],
         \A i \in 1..m : x[i] = s[i],
         x[m + 1] = [link |-> l, n |-> Len(d) + 1, half |-> 1],
         x[m + 2] = [link |-> l, n |-> Len(d) + 1, half |-> 2]
  PROVE  InReplyTo(l, e, x, m + 2) /\ AllReplied(e, x, m + 2)
<1>1. InReplyTo(l, e, x, m)
  BY StillInReply
<1>2. /\ x[m + 1].link = l /\ x[m + 1].n = Len(d) + 1 /\ x[m + 1].half = 1
      /\ x[m + 2].link = l /\ x[m + 2].n = Len(d) + 1 /\ x[m + 2].half = 2
  OBVIOUS
<1>3. m > 0 => /\ x[m].half = 2 /\ x[m].n < Len(d) + 1
               /\ Quiet(e, x[m].n + 1, Len(d))
  <2> SUFFICES ASSUME m > 0
               PROVE  /\ x[m].half = 2 /\ x[m].n < Len(d) + 1
                      /\ Quiet(e, x[m].n + 1, Len(d))
    OBVIOUS
  <2>1. x[m] = s[m] /\ s[m].n \in 1..Len(d)
    BY DEF InReplyTo
  <2>2. s[m].half = 2 /\ Quiet(d, s[m].n + 1, Len(d))
    BY DEF AllReplied
  <2> QED
    BY <2>1, <2>2 DEF Quiet
<1>4. m = 0 => Quiet(e, 1, Len(d))
  BY DEF AllReplied, Quiet
<1>5. (Len(d) + 1) - 1 = Len(d) /\ (m + 1) - 1 = m /\ (m + 2) - 1 = m + 1
  OBVIOUS
<1>6. ASSUME NEW i \in 1..(m + 2)
      PROVE  /\ x[i].link = l /\ x[i].n \in 1..Len(e) /\ x[i].half \in {1, 2}
             /\ x[i].half = 2 => i > 1 /\ x[i - 1].half = 1 /\ x[i - 1].n = x[i].n
             /\ x[i].half = 1 => /\ i = 1 => Quiet(e, 1, x[i].n - 1)
                                 /\ i > 1 => /\ x[i - 1].half = 2 /\ x[i - 1].n < x[i].n
                                             /\ Quiet(e, x[i - 1].n + 1, x[i].n - 1)
  <2>1. CASE i \in 1..m
    BY <1>1, <2>1 DEF InReplyTo
  <2>2. CASE i = m + 1
    <3>1. CASE m = 0
      BY <1>2, <1>4, <1>5, <2>2, <3>1
    <3>2. CASE m > 0
      BY <1>2, <1>3, <1>5, <2>2, <3>2
    <3> QED
      BY <3>1, <3>2
  <2>3. CASE i = m + 2
    BY <1>2, <1>5, <2>3
  <2> QED
    BY <2>1, <2>2, <2>3
<1>7. AllReplied(e, x, m + 2)
  BY <1>2 DEF AllReplied, Quiet
<1> QED
  BY <1>6, <1>7 DEF InReplyTo

-----------------------------------------------------------------------------
Lengths(l) ==
  /\ Len(out[l]) \in Nat /\ Len(wbuf[l]) \in Nat /\ Len(done[l]) \in Nat
  /\ Sent(l) \in Nat /\ Sent(l) <= Len(wbuf[l])
  /\ Total(l) \in Nat /\ Len(out[l]) <= Total(l)
StreamLengths == \A l \in Links : Lengths(l)

LEMMA StreamType == LinkTypes => StreamLengths
<1> SUFFICES ASSUME LinkTypes, NEW l \in Links PROVE Lengths(l)
  BY DEF StreamLengths
<1>1. Len(out[l]) \in Nat /\ Len(wbuf[l]) \in Nat /\ Len(done[l]) \in Nat
  <2>1. out[l] \in Seq(Unit) /\ wbuf[l] \in Seq(Unit) /\ done[l] \in Seq(Range(done[l]))
    BY DEF LinkTypes, IsSeq
  <2> QED
    BY <2>1
<1>2. Sent(l) \in Nat /\ Sent(l) <= Len(wbuf[l])
  <2>1. CASE loop.does = "write" /\ loop.link = l
    <3>1. loop.n \in Nat /\ loop.n < Len(wbuf[l]) /\ Sent(l) = loop.n
      BY <2>1 DEF LinkTypes, Sent
    <3> QED
      BY <1>1, <3>1
  <2>2. CASE ~(loop.does = "write" /\ loop.link = l)
    BY <1>1, <2>2 DEF Sent
  <2> QED
    BY <2>1, <2>2
<1>3. Total(l) = Len(out[l]) + (Len(wbuf[l]) - Sent(l))
  BY Zenon DEF Total
<1> QED
  BY <1>1, <1>2, <1>3 DEF Lengths

(* What was received, and, until an error, also what is to be sent: of     *)
(* the latter and the former together no reply is missing.                 *)
Answering(l) ==
  /\ InReplyTo(l, done[l], out[l], Len(out[l]))
  /\ ~err[l] => /\ InReplyTo(l, done[l], Stream(l), Total(l))
                /\ AllReplied(done[l], Stream(l), Total(l))

LEMMA AnsweringFrame ==
  ASSUME NEW l, Answering(l), UNCHANGED <<done[l], out[l], wbuf[l], Sent(l)>>,
         err'[l] \/ ~err[l]
  PROVE  Answering(l)'
<1>1. Total(l)' = Total(l)
  BY DEF Total
<1>2. Stream(l)' = Stream(l)
  BY <1>1 DEF Stream
<1> QED
  BY <1>1, <1>2 DEF Answering, InReplyTo, AllReplied, Quiet

LEMMA SendAnswers ==
  ASSUME IInv, NEW l \in Links, Answering(l), NEW n, Send(l, n)
  PROVE  Answering(l)'
<1>i. LinkTypes /\ LinkTypes' /\ OwnSockets
  <2>1. IInv'
    BY WriteStep
  <2> QED
    BY <2>1 DEF IInv
<1>l. StreamLengths /\ StreamLengths'
  BY <1>i, StreamType, PTL
<1>1. /\ loop.does = "write" /\ loop.link = l /\ loop.n \in Nat
      /\ n \in 1..(Len(wbuf[l]) - loop.n) /\ ~err[l]
      /\ UNCHANGED <<err, done>>
      /\ Len(out'[l]) = Len(out[l]) + n
      /\ \A i \in 1..Len(out[l]) : out'[l][i] = out[l][i]
      /\ \A i \in 1..n : out'[l][Len(out[l]) + i] = wbuf[l][loop.n + i]
      /\ \/ /\ loop.n + n = Len(wbuf[l]) /\ loop' = Waiting
            /\ wbuf' = [wbuf EXCEPT ![l] = <<>>]
         \/ /\ loop.n + n < Len(wbuf[l]) /\ loop' = [loop EXCEPT !.n = loop.n + n]
            /\ UNCHANGED wbuf
  BY <1>i, SendEffect
<1>2. /\ Len(out[l]) \in Nat /\ Len(wbuf[l]) \in Nat /\ Len(done[l]) \in Nat
      /\ Total(l) \in Nat /\ Len(out[l]) <= Total(l)
  BY <1>l DEF StreamLengths, Lengths
<1>3. /\ Len(out'[l]) \in Nat /\ Len(wbuf'[l]) \in Nat
      /\ Sent(l)' \in Nat /\ Sent(l)' <= Len(wbuf'[l])
      /\ Total(l)' \in Nat /\ Len(out'[l]) <= Total(l)'
  BY <1>l DEF StreamLengths, Lengths
<1>4. Sent(l) = loop.n
  BY <1>1 DEF Sent
<1>5. /\ Len(wbuf'[l]) - Sent(l)' = Len(wbuf[l]) - (loop.n + n)
      /\ Len(wbuf'[l]) # 0 => wbuf'[l] = wbuf[l] /\ Sent(l)' = loop.n + n
  <2>1. CASE /\ loop.n + n = Len(wbuf[l]) /\ loop' = Waiting
             /\ wbuf' = [wbuf EXCEPT ![l] = <<>>]
    <3>1. wbuf'[l] = <<>> /\ Sent(l)' = 0
      BY <1>i, <2>1 DEF Sent, Waiting, LinkTypes
    <3> QED
      BY <1>2, <2>1, <3>1
  <2>2. CASE /\ loop.n + n < Len(wbuf[l]) /\ loop' = [loop EXCEPT !.n = loop.n + n]
             /\ UNCHANGED wbuf
    <3>1. loop'.does = "write" /\ loop'.link = l /\ loop'.n = loop.n + n
      BY <1>1, <1>i, <2>2 DEF LinkTypes
    <3>2. Sent(l)' = loop.n + n /\ wbuf'[l] = wbuf[l]
      BY <2>2, <3>1 DEF Sent
    <3> QED
      BY <3>2
  <2> QED
    BY <1>1, <2>1, <2>2
<1> DEFINE a == Len(out[l])
           c == Len(wbuf[l])
           q == loop.n
           z == Len(wbuf'[l]) - Sent(l)'
<1>6. a \in Nat /\ c \in Nat /\ q \in Nat /\ n \in Nat /\ z = c - (q + n) /\ n <= c - q /\ n >= 1
  BY <1>1, <1>2, <1>5
<1>7. Total(l)' = (a + n) + z /\ Total(l) = a + (c - q)
  <2>1. Total(l)' = Len(out'[l]) + (Len(wbuf'[l]) - Sent(l)')
    BY Zenon DEF Total
  <2>2. Total(l) = a + (c - q)
    BY <1>4, Zenon DEF Total
  <2>3. Len(out'[l]) = a + n
    BY <1>1
  <2>4. z = Len(wbuf'[l]) - Sent(l)'
    OBVIOUS
  <2> HIDE DEF a, c, q, z
  <2> QED
    BY <1>3, <1>6, <2>1, <2>2, <2>3, <2>4
<1>8. Total(l)' = Total(l)
  <2> HIDE DEF a, c, q, z
  <2> QED
    BY <1>6, <1>7
<1>9. ASSUME NEW i \in 1..Total(l) PROVE Stream(l)'[i] = Stream(l)[i]
  <2>1. Stream(l)'[i] = IF i <= Len(out'[l]) THEN out'[l][i]
                        ELSE wbuf'[l][(i - Len(out'[l])) + Sent(l)']
    BY <1>8 DEF Stream
  <2>2. Stream(l)[i] = IF i <= Len(out[l]) THEN out[l][i]
                       ELSE wbuf[l][(i - Len(out[l])) + loop.n]
    BY <1>4 DEF Stream
  <2>3. CASE i <= Len(out[l])
    BY <1>1, <1>2, <1>6, <2>1, <2>2, <2>3
  <2>4. CASE i > Len(out[l]) /\ i <= Len(out'[l])
    <3>1. i - a \in 1..n /\ a + (i - a) = i /\ q + (i - a) = (i - a) + q
      BY <1>1, <1>6, <2>4, SMTT(30)
    <3>2. out'[l][a + (i - a)] = wbuf[l][q + (i - a)]
      BY <1>1, <3>1
    <3> QED
      BY <1>2, <2>1, <2>2, <2>4, <3>1, <3>2
  <2>5. CASE i > Len(out'[l])
    <3>1. z # 0
      BY <1>1, <1>6, <1>7, <1>8, <2>5
    <3>2. wbuf'[l] = wbuf[l] /\ Sent(l)' = loop.n + n
      <4>1. Len(wbuf'[l]) # 0
        BY <1>3, <3>1
      <4> QED
        BY <1>5, <4>1
    <3>3. (i - (a + n)) + (q + n) = (i - a) + q
      BY <1>6
    <3> QED
      BY <1>1, <1>6, <2>1, <2>2, <2>5, <3>2, <3>3
  <2> QED
    BY <1>1, <1>2, <1>3, <2>3, <2>4, <2>5, SMTT(30)
<1>10. InReplyTo(l, done[l], Stream(l), Total(l)) /\ AllReplied(done[l], Stream(l), Total(l))
  BY <1>1 DEF Answering
<1>11. InReplyTo(l, done[l], Stream(l)', Total(l))
  <2> DEFINE s == Stream(l)
             x == Stream(l)'
             m == Total(l)
             d == done[l]
  <2>1. /\ m \in Nat /\ Len(d) \in Nat /\ InReplyTo(l, d, s, m)
        /\ \A i \in 1..m : x[i] = s[i]
    BY <1>2, <1>9, <1>10
  <2> HIDE DEF s, x, m, d
  <2>2. InReplyTo(l, d, x, m)
    <3>1. m <= m
      BY <2>1
    <3> QED
      BY <2>1, <3>1, PrefixInReply, Zenon
  <2> QED
    BY <2>2 DEF x, m, d
<1>12. AllReplied(done[l], Stream(l)', Total(l))
  BY <1>2, <1>9, <1>10 DEF AllReplied
<1>13. InReplyTo(l, done[l], out'[l], Len(out'[l]))
  <2>1. \A i \in 1..Len(out'[l]) : out'[l][i] = Stream(l)'[i]
    BY <1>3 DEF Stream
  <2> DEFINE o == out'[l]
             x == Stream(l)'
             m == Total(l)
             d == done[l]
             k == Len(o)
  <2>2. /\ m \in Nat /\ k \in Nat /\ k <= m /\ Len(d) \in Nat /\ InReplyTo(l, d, x, m)
        /\ \A i \in 1..k : o[i] = x[i]
    BY <1>2, <1>3, <1>8, <1>11, <2>1
  <2> HIDE DEF o, x, m, d, k
  <2>3. InReplyTo(l, d, o, k)
    BY <2>2, PrefixInReply, Zenon
  <2> QED
    BY <2>3 DEF o, k, d
<1> QED
  BY <1>1, <1>8, <1>11, <1>12, <1>13 DEF Answering, InReplyTo, AllReplied, Quiet

LEMMA ExecAnswers ==
  ASSUME IInv, NEW l \in Links, Answering(l), Exec(l)
  PROVE  Answering(l)'
<1>i. LinkTypes /\ LinkTypes'
  <2>1. IInv'
    BY ExecStep
  <2> QED
    BY <2>1 DEF IInv
<1>l. StreamLengths /\ StreamLengths'
  BY <1>i, StreamType, PTL
<1>1. /\ loop.does = "exec" /\ loop' = Waiting /\ UNCHANGED <<out, err>>
      /\ Len(done[l]) \in Nat /\ Len(done'[l]) = Len(done[l]) + 1
      /\ \A i \in 1..Len(done[l]) : done'[l][i] = done[l][i]
      /\ \/ UNCHANGED wbuf /\ done'[l][Len(done[l]) + 1].cmd \in Silent
         \/ wbuf' = [wbuf EXCEPT ![l] = @ \o Reply(l, Len(done[l]) + 1)]
  BY <1>i, ExecEffect
<1>2. Sent(l) = 0 /\ Sent(l)' = 0
  BY <1>1 DEF Sent, Waiting
<1>3. /\ Len(out[l]) \in Nat /\ Len(wbuf[l]) \in Nat
      /\ Total(l) \in Nat /\ Len(out[l]) <= Total(l)
      /\ Len(done'[l]) \in Nat
  BY <1>l DEF StreamLengths, Lengths
<1>4. /\ Total(l) = Len(out[l]) + Len(wbuf[l])
      /\ Total(l)' = Len(out[l]) + Len(wbuf'[l])
  <2>1. /\ Total(l) = Len(out[l]) + (Len(wbuf[l]) - Sent(l))
        /\ Total(l)' = Len(out'[l]) + (Len(wbuf'[l]) - Sent(l)')
    BY Zenon DEF Total
  <2>2. Len(wbuf'[l]) \in Nat
    BY <1>l DEF StreamLengths, Lengths
  <2> QED
    BY <1>1, <1>2, <1>3, <2>1, <2>2
<1> DEFINE d == done[l]
           e == done'[l]
           s == Stream(l)
           x == Stream(l)'
           o == out[l]
           m == Total(l)
           k == Len(o)
<1>5. /\ InReplyTo(l, d, o, k)
      /\ ~err[l] => InReplyTo(l, d, s, m) /\ AllReplied(d, s, m)
  BY DEF Answering
<1>6. /\ m \in Nat /\ k \in Nat /\ k <= m
      /\ Len(d) \in Nat /\ Len(e) \in Nat /\ Len(e) = Len(d) + 1
      /\ \A i \in 1..Len(d) : e[i] = d[i]
  BY <1>1, <1>3
<1>7. InReplyTo(l, e, o, k)
  <2> HIDE DEF d, e, s, x, o, m, k
  <2>1. k <= k /\ Len(d) <= Len(e) /\ \A i \in 1..k : o[i] = o[i]
    BY <1>6
  <2> QED
    BY <1>5, <1>6, <2>1, StillInReply, Zenon
<1>8. CASE UNCHANGED wbuf /\ done'[l][Len(done[l]) + 1].cmd \in Silent
  <2>1. x = s /\ Total(l)' = m
    BY <1>1, <1>2, <1>4, <1>8 DEF Stream
  <2>2. e[Len(d) + 1].cmd \in Silent
    BY <1>8
  <2>3. ~err[l] => InReplyTo(l, e, s, m) /\ AllReplied(e, s, m)
    <3> HIDE DEF d, e, s, x, o, m, k
    <3> QED
      BY <1>5, <1>6, <2>2, SilentAdded, Zenon
  <2> QED
    BY <1>1, <1>7, <2>1, <2>3 DEF Answering, InReplyTo, AllReplied, Quiet
<1>9. CASE wbuf' = [wbuf EXCEPT ![l] = @ \o Reply(l, Len(done[l]) + 1)]
  <2> DEFINE w == wbuf[l]
             y == wbuf'[l]
             h == Len(w)
  <2>1. /\ y = w \o Reply(l, Len(d) + 1) /\ w \in Seq(Unit) /\ Len(d) + 1 \in Nat
    BY <1>1, <1>9, <1>i, SMTT(30) DEF LinkTypes
  <2>2. /\ h \in Nat /\ Len(y) = h + 2
        /\ \A i \in 1..h : y[i] = w[i]
        /\ y[h + 1] = [link |-> l, n |-> Len(d) + 1, half |-> 1]
        /\ y[h + 2] = [link |-> l, n |-> Len(d) + 1, half |-> 2]
    <3> HIDE DEF w, y, d
    <3>1. /\ Len(w) \in Nat /\ Len(w \o Reply(l, Len(d) + 1)) = Len(w) + 2
          /\ \A i \in 1..Len(w) : (w \o Reply(l, Len(d) + 1))[i] = w[i]
          /\ (w \o Reply(l, Len(d) + 1))[Len(w) + 1] = [link |-> l, n |-> Len(d) + 1, half |-> 1]
          /\ (w \o Reply(l, Len(d) + 1))[Len(w) + 2] = [link |-> l, n |-> Len(d) + 1, half |-> 2]
      BY <2>1, ReplyEffect
    <3> QED
      BY <2>1, <3>1, Zenon
  <2>3. m = k + h /\ Total(l)' = m + 2
    <3>1. m = k + h /\ Total(l)' = k + Len(y)
      BY <1>4
    <3> HIDE DEF m, k, h, y
    <3> QED
      BY <1>6, <2>2, <3>1
  <2>4. /\ s = [i \in 1..m |-> IF i <= k THEN o[i] ELSE w[(i - k) + 0]]
        /\ x = [i \in 1..(m + 2) |-> IF i <= k THEN o[i] ELSE y[(i - k) + 0]]
    <3>1. s = [i \in 1..m |-> IF i <= k THEN o[i] ELSE w[(i - k) + Sent(l)]]
      BY Zenon DEF Stream
    <3>2. x = [i \in 1..(Total(l)') |-> IF i <= Len(out'[l]) THEN out'[l][i]
                                        ELSE y[(i - Len(out'[l])) + Sent(l)']]
      BY Zenon DEF Stream
    <3>3. out'[l] = o
      BY <1>1
    <3> HIDE DEF s, x, m, o, w, y
    <3> QED
      BY <1>2, <2>3, <3>1, <3>2, <3>3
  <2> HIDE DEF d, e, s, x, o, m, k, w, y, h
  <2>5. \A i \in 1..m : x[i] = s[i]
    <3> SUFFICES ASSUME NEW i \in 1..m PROVE x[i] = s[i]
      OBVIOUS
    <3>1. CASE i <= k
      BY <1>6, <2>4, <3>1
    <3>2. CASE i > k
      <4>1. (i - k) + 0 \in 1..h
        BY <1>6, <2>2, <2>3, <3>2
      <4>2. i \in 1..(m + 2) /\ ~(i <= k)
        BY <1>6, <3>2
      <4> QED
        BY <2>2, <2>4, <4>1, <4>2
    <3> QED
      BY <1>6, <3>1, <3>2
  <2>6. x[m + 1] = y[h + 1] /\ x[m + 2] = y[h + 2]
    <3>1. /\ ((m + 1) - k) + 0 = h + 1 /\ ((m + 2) - k) + 0 = h + 2
          /\ m + 1 \in 1..(m + 2) /\ m + 2 \in 1..(m + 2) /\ ~(m + 1 <= k) /\ ~(m + 2 <= k)
      BY <1>6, <2>2, <2>3
    <3> QED
      BY <2>4, <3>1
  <2>7. ~err[l] => InReplyTo(l, e, x, m + 2) /\ AllReplied(e, x, m + 2)
    <3>1. /\ x[m + 1] = [link |-> l, n |-> Len(d) + 1, half |-> 1]
          /\ x[m + 2] = [link |-> l, n |-> Len(d) + 1, half |-> 2]
      BY <2>2, <2>6, Zenon
    <3> QED
      BY <1>5, <1>6, <2>5, <3>1, ReplyAdded, Zenon
  <2> QED
    BY <1>1, <1>7, <2>3, <2>7 DEF Answering, InReplyTo, AllReplied, Quiet, e, x, o, k
<1> QED
  BY <1>1, <1>8, <1>9

(* Reading does not change what is being written.                          *)
LEMMA NothingSent ==
  ASSUME LinkTypes, NEW k \in Links, NEW l \in Links,
         OnRead(l) \/ Recv(l) \/ OnWrite(l) \/ \E n : RecvShort(l, n)
  PROVE  Sent(k)' = 0
<1>1. CASE OnRead(l) \/ OnWrite(l)
  BY <1>1 DEF OnRead, OnWrite, Sent
<1>2. ASSUME NEW n, Took(l, n), Doing("read", l) PROVE loop'.does # "write"
  <2>1. loop.does = "read"
    BY <1>2 DEF Doing
  <2> DEFINE b == Put(rbuf[l], SubSeq(in[l], 1, n))
             next == NextLen(b, n)
  <2>2. loop' = [loop EXCEPT !.does = "exec"] \/ loop' = [loop EXCEPT !.n = next]
    BY <1>2 DEF Took
  <2> HIDE DEF next
  <2>3. loop \in [does : {"read"}, link : Links \cup {Nobody}, n : {loop.n}]
    BY <2>1 DEF LinkTypes
  <2> QED
    BY <2>2, <2>3
<1> QED
  BY <1>1, <1>2 DEF Recv, RecvShort, Sent

(* Executing and sending for one link leaves the others alone.             *)
LEMMA ExecOthers ==
  ASSUME LinkTypes, NEW l \in Links, Exec(l), NEW k \in Links, k # l
  PROVE  UNCHANGED <<asked[k], done[k], out[k], wbuf[k], Sent(k), err[k]>>
<1>1. /\ loop.does = "exec" /\ loop' = Waiting /\ UNCHANGED <<asked, out, err>>
      /\ done'[k] = done[k]
      /\ UNCHANGED wbuf \/ wbuf' = [wbuf EXCEPT ![l] = @ \o Reply(l, Len(done[l]) + 1)]
  BY ExecEffect
<1>2. wbuf'[k] = wbuf[k]
  BY <1>1 DEF LinkTypes
<1>3. Sent(k) = 0 /\ Sent(k)' = 0
  BY <1>1 DEF Sent, Waiting
<1> QED
  BY <1>1, <1>2, <1>3

LEMMA SendOthers ==
  ASSUME IInv, NEW l \in Links, NEW n, Send(l, n), NEW k \in Links, k # l
  PROVE  UNCHANGED <<asked[k], done[k], out[k], wbuf[k], Sent(k), err[k]>>
<1>1. /\ loop.link = l /\ UNCHANGED <<asked, done, err>> /\ out'[k] = out[k]
      /\ \/ loop' = Waiting /\ wbuf' = [wbuf EXCEPT ![l] = <<>>]
         \/ loop' = [loop EXCEPT !.n = loop.n + n] /\ UNCHANGED wbuf
  BY SendEffect DEF IInv
<1>2. wbuf'[k] = wbuf[k]
  BY <1>1 DEF IInv, LinkTypes
<1>3. loop'.link # k
  <2>1. loop \in [does : {"wait", "read", "exec", "write"}, link : Links \cup {Nobody},
                  n : {loop.n}]
    BY DEF IInv, LinkTypes
  <2> QED
    BY <1>1, <2>1, NobodyAssumption DEF Waiting
<1>4. Sent(k) = 0 /\ Sent(k)' = 0
  BY <1>1, <1>3 DEF Sent
<1> QED
  BY <1>1, <1>2, <1>4

LEMMA AnsweringStep ==
  ASSUME IInv, [Next]_vars, NEW k \in Links, Answering(k)
  PROVE  Answering(k)'
<1>i. LinkTypes
  BY DEF IInv
<1> USE DEF client, link
<1>1. CASE UNCHANGED vars
  BY <1>1, AnsweringFrame DEF vars, Sent
<1>2. ASSUME NEW l \in Links,
             \/ Accept(l) \/ Hang(l) \/ SendKills(l)
             \/ \E r \in Requests[l] : \E n \in Nat : Ask(l, r, n)
      PROVE  Answering(k)'
  <2>1. UNCHANGED <<done, out, wbuf, err, loop>>
    BY <1>2 DEF Accept, Hang, SendKills, Ask
  <2> QED
    BY <2>1, AnsweringFrame DEF Sent
<1>3. ASSUME NEW l \in Links, OnRead(l) \/ Recv(l) \/ OnWrite(l) \/ \E n : RecvShort(l, n)
      PROVE  Answering(k)'
  <2>1. UNCHANGED <<done, out, wbuf, err>>
    BY <1>3 DEF OnRead, OnWrite, Recv, RecvShort, Took
  <2>2. Sent(k) = 0
    BY <1>3 DEF OnRead, OnWrite, Recv, RecvShort, Doing, Sent, Waiting
  <2>3. Sent(k)' = 0
    BY <1>3, <1>i, NothingSent
  <2> QED
    BY <2>1, <2>2, <2>3, AnsweringFrame
<1>4. ASSUME NEW l \in Links, RecvFails(l) \/ SendFails(l) PROVE Answering(k)'
  <2>1. /\ UNCHANGED <<done, out, wbuf>> /\ loop.link = l /\ loop' = Waiting
        /\ err' = [err EXCEPT ![l] = TRUE] /\ err \in [Links -> BOOLEAN]
    BY <1>4, <1>i DEF RecvFails, SendFails, Fails, Doing, LinkTypes
  <2>2. CASE k = l
    BY <2>1, <2>2 DEF Answering, InReplyTo, Quiet
  <2>3. CASE k # l
    <3>1. Sent(k) = 0 /\ Sent(k)' = 0 /\ err'[k] = err[k]
      BY <2>1, <2>3 DEF Sent, Waiting
    <3> QED
      BY <2>1, <3>1, AnsweringFrame
  <2> QED
    BY <2>2, <2>3
<1>5. ASSUME NEW l \in Links, Exec(l) PROVE Answering(k)'
  <2>1. CASE k = l
    BY <1>5, <2>1, ExecAnswers
  <2>2. CASE k # l
    BY <1>5, <1>i, <2>2, ExecOthers, AnsweringFrame
  <2> QED
    BY <2>1, <2>2
<1>6. ASSUME NEW l \in Links, NEW n, Send(l, n) PROVE Answering(k)'
  <2>1. CASE k = l
    BY <1>6, <2>1, SendAnswers
  <2>2. CASE k # l
    BY <1>6, <2>2, SendOthers, AnsweringFrame
  <2> QED
    BY <2>1, <2>2
<1> QED
  BY <1>1, <1>2, <1>3, <1>4, <1>5, <1>6, Steps

(* What a client receives is the replies of its own link to the commands   *)
(* executed for it: one for each that is replied to, whole but for the     *)
(* last, in order, and none of another link's, however the writes are cut  *)
(* and whatever descriptors are used again (sendMsg, onWrite,              *)
(* Connect::send).                                                         *)
THEOREM OwnRepliesInOrder == Spec => []OwnReplies
<1> DEFINE J == \A l \in Links : Answering(l)
<1>1. Init => J
  <2> SUFFICES ASSUME Init, NEW l \in Links PROVE Answering(l)
    OBVIOUS
  <2>1. out[l] = <<>> /\ wbuf[l] = <<>> /\ done[l] = <<>> /\ Sent(l) = 0
    BY DEF Init, Sent, Waiting
  <2>2. Total(l) = 0
    BY <2>1 DEF Total
  <2> QED
    BY <2>1, <2>2 DEF Answering, InReplyTo, AllReplied, Quiet
<1>2. IInv /\ J /\ [Next]_vars => J'
  BY AnsweringStep
<1>3. J => OwnReplies
  BY DEF OwnReplies, Answering
<1> QED
  BY <1>1, <1>2, <1>3, InvAlways, PTL DEF Spec

-----------------------------------------------------------------------------
(* The bytes.  What is asked for is a pack whose size its head can say; a  *)
(* request that is cut ends before its head does, and is the last one.     *)
Asks == [type : 0..(Power(Base, TypeLen) - 1), body : Seq(Byte), cells : Seq(Byte)]
Fits(e) == HeadLen + Len(e.body) < Wrap
Whole(e) == e.cells = PackOf(e.type, e.body)
AskedOK(a, g) ==
  /\ a \in Seq(Asks)
  /\ \A i \in 1..Len(a) :
       Fits(a[i]) /\ (Whole(a[i]) \/ (i = Len(a) /\ g /\ Len(a[i].cells) < HeadLen))

(* The bytes of the requests behind the first k.                           *)
Rest(a, k) == FlattenSeq([j \in 1..(Len(a) - k) |-> a[k + j].cells])

(* What has been read of a pack whose command is not yet executed.         *)
Reading(l) == loop.link = l /\ loop.does \in {"read", "exec"}
Part(l) == IF Reading(l) THEN rbuf[l].buf ELSE <<>>

Buffers == [buf : Seq(Byte), rpos : Nat, wpos : Nat]
ReadTypes ==
  /\ rbuf \in [Links -> Buffers] /\ rio \in [Links -> BOOLEAN]
  /\ in \in [Links -> Seq(Byte)]

(* A link that met an error reads no more; one that reads fills its buffer *)
(* at the end, and a command is executed when the buffer is as long as its *)
(* head says.                                                              *)
ReadingOK(l) ==
  /\ err[l] => ~rio[l] /\ ~Reading(l)
  /\ Reading(l) => rbuf[l].wpos = Size(rbuf[l])
  /\ Reading(l) /\ loop.does = "read" => loop.n \in Nat
  /\ Reading(l) /\ loop.does = "exec" => /\ Size(rbuf[l]) >= HeadLen
                                         /\ Size(rbuf[l]) = Get(rbuf[l], 0, SizeLen)

(* What was read for the next command, and what is still in the socket,    *)
(* are the requests that are not yet done.                                 *)
StreamOK(l) ==
  /\ Len(done[l]) <= Len(asked[l])
  /\ ~err[l] => Rest(asked[l], Len(done[l])) = Part(l) \o in[l]

DoneParsed(a, d) ==
  \A i \in 1..Len(d) : /\ d[i].cmd = Fetch(a[i].type)
                       /\ a[i].type # Hset => d[i].len = Len(a[i].body)

(* On a link that has not gone astray read_ asks for the rest of the head, *)
(* then for no more than the rest of the pack.                             *)
HeadOK(l) ==
  Reading(l) /\ loop.does = "read" /\ l \notin strayed =>
    /\ Size(rbuf[l]) < HeadLen => Size(rbuf[l]) + loop.n = HeadLen
    /\ Size(rbuf[l]) \in 1..(HeadLen - 1) => cut
    /\ Size(rbuf[l]) >= HeadLen => Size(rbuf[l]) + loop.n <= Get(rbuf[l], 0, SizeLen)

(* The replies to the first k requests.                                    *)
RepliesTo(l, a, k) ==
  FlattenSeq([i \in 1..k |-> IF a[i].type \in Silent THEN <<>> ELSE Reply(l, i)])

Replied(l) ==
  /\ IsPrefix(out[l], RepliesTo(l, asked[l], Len(done[l])))
  /\ ~err[l] => RepliesTo(l, asked[l], Len(done[l]))
                  = out[l] \o SubSeq(wbuf[l], Sent(l) + 1, Len(wbuf[l]))

LinkInv(l) ==
  /\ AskedOK(asked[l], gone[l])
  /\ ReadingOK(l)
  /\ StreamOK(l)
  /\ DoneParsed(asked[l], done[l])
  /\ HeadOK(l)

LInv == ReadTypes /\ \A l \in Links : LinkInv(l)

-----------------------------------------------------------------------------
(* Bytes: what is put and read, and the head of a pack.                    *)
LEMMA ByteFacts ==
  /\ Base \in Nat /\ Base > 1
  /\ SizeLen \in Nat \ {0} /\ FlagLen \in Nat \ {0} /\ TypeLen \in Nat \ {0}
  /\ HeadLen \in Nat \ {0} /\ HeadLen = (SizeLen + FlagLen) + TypeLen
  /\ Wrap \in Nat \ {0} /\ Power(Base, TypeLen) \in Nat \ {0}
  /\ 0 \in Byte /\ Byte \subseteq Nat
<1>1. /\ Base \in Nat /\ Base > 1 /\ Base > 0
      /\ SizeLen \in Nat \ {0} /\ FlagLen \in Nat \ {0} /\ TypeLen \in Nat \ {0}
  BY BytesAssumption
<1>2. Wrap \in Nat \ {0} /\ Power(Base, TypeLen) \in Nat \ {0}
  BY <1>1, PowerFacts DEF Wrap
<1> QED
  BY <1>1, <1>2 DEF HeadLen, Byte

LEMMA ZerosType ==
  ASSUME NEW n \in Nat
  PROVE  Zeros(n) \in Seq(Byte) /\ Len(Zeros(n)) = n /\ \A i \in 1..n : Zeros(n)[i] = 0
  BY ByteFacts DEF Zeros

LEMMA ReadType ==
  ASSUME NEW b \in Buffers, NEW at \in Nat, NEW w \in Nat
  PROVE  ReadAt(b, at, w) \in Seq(Byte) /\ Get(b, at, w) \in Nat
<1>1. b.buf \in Seq(Byte) /\ Len(b.buf) \in Nat
  BY DEF Buffers
<1>2. ReadAt(b, at, w) \in Seq(Byte)
  <2>1. CASE at + w <= Size(b)
    <3>1. SubSeq(b.buf, at + 1, at + w) \in Seq(Byte)
      BY <1>1, <2>1, PartOf DEF Size
    <3> QED
      BY <2>1, <3>1 DEF ReadAt
  <2>2. CASE ~(at + w <= Size(b))
    BY <2>2, ZerosType DEF ReadAt
  <2> QED
    BY <2>1, <2>2
<1> DEFINE s == ReadAt(b, at, w)
<1>3. s \in Seq(Nat)
  <2>1. s \in Seq(Byte) /\ Byte \subseteq Nat
    BY <1>2, ByteFacts
  <2> HIDE DEF s
  <2>2. Len(s) \in Nat /\ s = [i \in 1..Len(s) |-> s[i]] /\ \A i \in 1..Len(s) : s[i] \in Byte
    BY <2>1
  <2>3. \A i \in 1..Len(s) : s[i] \in Nat
    BY <2>1, <2>2, Zenon
  <2> QED
    BY <2>2, <2>3
<1>4. NumberOf(Base, s) \in Nat
  <2> HIDE DEF s
  <2> QED
    BY <1>3, ByteFacts, NumberType
<1> QED
  BY <1>2, <1>4 DEF Get, Number

LEMMA ResizedIs ==
  ASSUME NEW s \in Seq(Byte), NEW n \in Nat
  PROVE  /\ Resized(s, n) \in Seq(Byte) /\ Len(Resized(s, n)) = n
         /\ \A i \in 1..n : Resized(s, n)[i] = IF i <= Len(s) THEN s[i] ELSE 0
<1> DEFINE z == Zeros(n)
           c == s \o z
           m == Len(s)
<1>1. z \in Seq(Byte) /\ Len(z) = n /\ \A i \in 1..n : z[i] = 0
  BY ZerosType
<1>2. m \in Nat
  OBVIOUS
<1> HIDE DEF z
<1>3. /\ c \in Seq(Byte) /\ Len(c) = m + n
      /\ \A i \in 1..(m + n) : c[i] = IF i <= m THEN s[i] ELSE z[i - m]
  <2>1. /\ s \o z \in Seq(Byte) /\ Len(s \o z) = Len(s) + Len(z)
        /\ \A i \in 1..(Len(s) + Len(z)) :
             (s \o z)[i] = IF i <= Len(s) THEN s[i] ELSE z[i - Len(s)]
    BY <1>1, ConcatProperties, Zenon
  <2> QED
    BY <1>1, <2>1, Zenon
<1> HIDE DEF c, m
<1>4. n \in 0..Len(c)
  BY <1>2, <1>3
<1>5. /\ SubSeq(c, 1, n) \in Seq(Byte) /\ Len(SubSeq(c, 1, n)) = n
      /\ \A i \in 1..n : SubSeq(c, 1, n)[i] = c[i]
  BY <1>3, <1>4, SplitAt, Zenon
<1>6. ASSUME NEW i \in 1..n PROVE c[i] = IF i <= m THEN s[i] ELSE 0
  <2>1. i \in 1..(m + n) /\ (~(i <= m) => i - m \in 1..n)
    BY <1>2
  <2> QED
    BY <1>1, <1>3, <2>1
<1>7. Resized(s, n) = SubSeq(c, 1, n)
  BY DEF Resized, c, z
<1> QED
  BY <1>5, <1>6, <1>7, Zenon DEF m

(* A write at the write position, whether or not the buffer has to grow.   *)
LEMMA PutIs ==
  ASSUME NEW b \in Buffers, NEW s \in Seq(Byte)
  PROVE  /\ Put(b, s) \in Buffers
         /\ Put(b, s).rpos = b.rpos /\ Put(b, s).wpos = b.wpos + Len(s)
         /\ Len(Put(b, s).buf) \in Nat
         /\ Len(Put(b, s).buf) >= Len(b.buf) /\ Len(Put(b, s).buf) >= b.wpos + Len(s)
         /\ Len(Put(b, s).buf) \in {Len(b.buf), b.wpos + Len(s)}
         /\ \A i \in 1..Len(Put(b, s).buf) :
              Put(b, s).buf[i] = IF i \in (b.wpos + 1)..(b.wpos + Len(s)) THEN s[i - b.wpos]
                                 ELSE IF i <= Len(b.buf) THEN b.buf[i] ELSE 0
<1> DEFINE at == b.wpos
           n == Len(s)
           old == b.buf
           g == IF Size(b) < at + n THEN Resized(old, at + n) ELSE old
           new == Copied(g, at, s)
<1>1. at \in Nat /\ n \in Nat /\ old \in Seq(Byte) /\ Len(old) \in Nat /\ b.rpos \in Nat
  BY DEF Buffers
<1>2. Put(b, s) = [b EXCEPT !.buf = new, !.wpos = @ + n]
  BY Zenon DEF Put
<1>3. /\ g \in Seq(Byte) /\ Len(g) \in Nat /\ Len(g) \in {Len(old), at + n}
      /\ Len(g) >= Len(old) /\ Len(g) >= at + n
      /\ \A i \in 1..Len(g) : g[i] = IF i <= Len(old) THEN old[i] ELSE 0
  <2> HIDE DEF old, at, n
  <2>1. CASE Size(b) < at + n
    <3>1. /\ Resized(old, at + n) \in Seq(Byte) /\ Len(Resized(old, at + n)) = at + n
          /\ \A i \in 1..(at + n) : Resized(old, at + n)[i] = IF i <= Len(old) THEN old[i] ELSE 0
      <4>1. at + n \in Nat
        BY <1>1
      <4> QED
        BY <1>1, <4>1, ResizedIs
    <3>2. g = Resized(old, at + n)
      BY <2>1
    <3>3. Len(old) < at + n
      BY <2>1 DEF Size, old
    <3> HIDE DEF g
    <3> QED
      BY <1>1, <3>1, <3>2, <3>3
  <2>2. CASE ~(Size(b) < at + n)
    <3>1. g = old /\ ~(Len(old) < at + n)
      BY <2>2 DEF Size, old
    <3> HIDE DEF g
    <3> QED
      BY <1>1, <3>1
  <2> QED
    BY <2>1, <2>2
<1> HIDE DEF g
<1>4. /\ new \in Seq(Byte) /\ Len(new) = Len(g)
      /\ \A i \in 1..Len(g) : new[i] = IF i \in (at + 1)..(at + n) THEN s[i - at] ELSE g[i]
  <2>1. new = [i \in 1..Len(g) |-> IF i \in (at + 1)..(at + n) THEN s[i - at] ELSE g[i]]
    BY Zenon DEF Copied
  <2>2. ASSUME NEW i \in 1..Len(g)
        PROVE  (IF i \in (at + 1)..(at + n) THEN s[i - at] ELSE g[i]) \in Byte
    <3>1. CASE i \in (at + 1)..(at + n)
      <4> HIDE DEF at
      <4>1. i - at \in 1..n
        BY <1>1, <3>1
      <4>2. s[i - at] \in Byte
        BY <4>1
      <4> QED
        BY <3>1, <4>2
    <3>2. CASE ~(i \in (at + 1)..(at + n))
      <4>1. g[i] \in Byte
        BY <1>3
      <4> QED
        BY <3>2, <4>1
    <3> QED
      BY <3>1, <3>2
  <2> HIDE DEF new, at, n
  <2>3. new \in [1..Len(g) -> Byte]
    BY <2>1, <2>2
  <2>4. new \in Seq(Byte) /\ Len(new) = Len(g)
    BY <1>3, <2>3
  <2> QED
    BY <2>1, <2>4
<1> HIDE DEF new
<1>5. /\ Put(b, s).buf = new /\ Put(b, s).rpos = b.rpos /\ Put(b, s).wpos = at + n
      /\ Put(b, s) \in Buffers
  <2>1. new \in Seq(Byte) /\ at + n \in Nat
    BY <1>1, <1>4
  <2>2. Put(b, s) = [b EXCEPT !.buf = new, !.wpos = at + n]
    BY <1>2
  <2> HIDE DEF n
  <2> QED
    BY <2>1, <2>2 DEF Buffers
<1>6. ASSUME NEW i \in 1..Len(g)
      PROVE  new[i] = IF i \in (at + 1)..(at + n) THEN s[i - at]
                      ELSE IF i <= Len(old) THEN old[i] ELSE 0
  BY <1>3, <1>4, Zenon
<1>7. Len(new) = Len(g)
  BY <1>4
<1> QED
  BY <1>3, <1>5, <1>6, <1>7, Zenon

LEMMA PutAppends ==
  ASSUME NEW b \in Buffers, NEW s \in Seq(Byte), b.wpos = Size(b)
  PROVE  /\ Put(b, s) \in Buffers
         /\ Put(b, s).buf = b.buf \o s /\ Put(b, s).wpos = Size(Put(b, s))
<1> DEFINE c == Put(b, s)
           m == Len(b.buf)
           n == Len(s)
           new == c.buf
           old == b.buf
           j == old \o s
<1>1. /\ c \in Buffers /\ c.rpos = b.rpos /\ c.wpos = m + n
      /\ Len(new) \in {m, m + n} /\ Len(new) >= m + n
      /\ \A i \in 1..Len(new) : new[i] = IF i \in (m + 1)..(m + n) THEN s[i - m]
                                         ELSE IF i <= m THEN old[i] ELSE 0
  <2>1. b.wpos = m
    BY DEF Size
  <2>2. /\ c \in Buffers /\ c.rpos = b.rpos /\ c.wpos = b.wpos + n
        /\ Len(new) \in {m, b.wpos + n} /\ Len(new) >= b.wpos + n
        /\ \A i \in 1..Len(new) : new[i] = IF i \in (b.wpos + 1)..(b.wpos + n) THEN s[i - b.wpos]
                                           ELSE IF i <= m THEN old[i] ELSE 0
    BY PutIs, Zenon
  <2> HIDE DEF c, m, n, new, old
  <2> QED
    BY <2>1, <2>2, Zenon
<1>2. new \in Seq(Byte) /\ old \in Seq(Byte) /\ m \in Nat /\ n \in Nat
  BY <1>1 DEF Buffers
<1>3. /\ j \in Seq(Byte) /\ Len(j) = m + n
      /\ \A i \in 1..(m + n) : j[i] = IF i <= m THEN old[i] ELSE s[i - m]
  BY <1>2, ConcatProperties, Zenon
<1> HIDE DEF c, m, n, new, old, j
<1>4. Len(new) = m + n
  BY <1>1, <1>2
<1>5. ASSUME NEW i \in 1..(m + n) PROVE new[i] = j[i]
  <2>1. i \in 1..Len(new)
    BY <1>4
  <2>2. i \in (m + 1)..(m + n) <=> ~(i <= m)
    BY <1>2
  <2> QED
    BY <1>1, <1>3, <2>1, <2>2, Zenon
<1>6. new = j
  BY <1>2, <1>3, <1>4, <1>5, SeqEqual
<1> QED
  BY <1>1, <1>4, <1>6 DEF c, new, old, j, Size

LEMMA PackIs ==
  ASSUME NEW type \in 0..(Power(Base, TypeLen) - 1), NEW body \in Seq(Byte)
  PROVE  /\ PackOf(type, body) \in Seq(Byte)
         /\ Len(PackOf(type, body)) = HeadLen + Len(body)
         /\ \A i \in 1..SizeLen : PackOf(type, body)[i] = Digits(HeadLen + Len(body), SizeLen)[i]
         /\ \A i \in 1..TypeLen :
              PackOf(type, body)[(SizeLen + FlagLen) + i] = Digits(type, TypeLen)[i]
         /\ \A i \in 1..Len(body) : PackOf(type, body)[HeadLen + i] = body[i]
<1> DEFINE d == Digits(HeadLen + Len(body), SizeLen)
           z == Zeros(FlagLen)
           t == Digits(type, TypeLen)
           p == d \o z
           q == p \o t
           r == q \o body
<1>1. Len(body) \in Nat /\ type \in Nat /\ HeadLen + Len(body) \in Nat
  BY ByteFacts
<1>2. ASSUME NEW v \in Nat, NEW w \in Nat PROVE Digits(v, w) \in Seq(Byte) /\ Len(Digits(v, w)) = w
  <2>1. Base > 0
    BY ByteFacts
  <2> QED
    BY <2>1, ByteFacts, DigitsType DEF Digits, Byte
<1>3. /\ d \in Seq(Byte) /\ Len(d) = SizeLen /\ z \in Seq(Byte) /\ Len(z) = FlagLen
      /\ t \in Seq(Byte) /\ Len(t) = TypeLen
  BY <1>1, <1>2, ByteFacts, ZerosType
<1>4. ASSUME NEW x \in Seq(Byte), NEW y \in Seq(Byte)
      PROVE  /\ x \o y \in Seq(Byte) /\ Len(x \o y) = Len(x) + Len(y)
             /\ \A i \in 1..Len(x) : (x \o y)[i] = x[i]
             /\ \A i \in 1..Len(y) : (x \o y)[Len(x) + i] = y[i]
  OBVIOUS
<1> HIDE DEF d, z, t
<1>5. p \in Seq(Byte) /\ Len(p) = SizeLen + FlagLen /\ \A i \in 1..SizeLen : p[i] = d[i]
  BY <1>3, <1>4, Zenon
<1> HIDE DEF p
<1>6. /\ q \in Seq(Byte) /\ Len(q) = HeadLen
      /\ \A i \in 1..(SizeLen + FlagLen) : q[i] = p[i]
      /\ \A i \in 1..TypeLen : q[(SizeLen + FlagLen) + i] = t[i]
  <2>1. /\ q \in Seq(Byte) /\ Len(q) = (SizeLen + FlagLen) + TypeLen
        /\ \A i \in 1..(SizeLen + FlagLen) : q[i] = p[i]
        /\ \A i \in 1..TypeLen : q[(SizeLen + FlagLen) + i] = t[i]
    <3>1. /\ p \o t \in Seq(Byte) /\ Len(p \o t) = Len(p) + Len(t)
          /\ \A i \in 1..Len(p) : (p \o t)[i] = p[i]
          /\ \A i \in 1..Len(t) : (p \o t)[Len(p) + i] = t[i]
      BY <1>3, <1>4, <1>5, Zenon
    <3> QED
      BY <1>3, <1>5, <3>1, Zenon
  <2> QED
    BY <2>1, ByteFacts, Zenon
<1> HIDE DEF q
<1>7. /\ r \in Seq(Byte) /\ Len(r) = HeadLen + Len(body)
      /\ \A i \in 1..HeadLen : r[i] = q[i]
      /\ \A i \in 1..Len(body) : r[HeadLen + i] = body[i]
  BY <1>4, <1>6, Zenon
<1> HIDE DEF r
<1>8. \A i \in 1..SizeLen : i \in 1..(SizeLen + FlagLen) /\ i \in 1..HeadLen
  BY ByteFacts
<1>9. \A i \in 1..TypeLen : (SizeLen + FlagLen) + i \in 1..HeadLen
  BY ByteFacts
<1>10. PackOf(type, body) = r
  BY DEF PackOf, r, q, p, d, z, t
<1>11. \A i \in 1..SizeLen : r[i] = d[i]
  BY <1>5, <1>6, <1>7, <1>8, Zenon
<1>12. \A i \in 1..TypeLen : r[(SizeLen + FlagLen) + i] = t[i]
  BY <1>6, <1>7, <1>9, Zenon
<1> QED
  BY <1>7, <1>10, <1>11, <1>12, Zenon DEF d, t

(* The head at the front of a buffer says what pack it is of.              *)
LEMMA HeadSays ==
  ASSUME NEW b \in Buffers,
         NEW type \in 0..(Power(Base, TypeLen) - 1), NEW body \in Seq(Byte),
         HeadLen + Len(body) < Wrap, Size(b) >= HeadLen,
         \A i \in 1..HeadLen : b.buf[i] = PackOf(type, body)[i]
  PROVE  /\ Get(b, 0, SizeLen) = HeadLen + Len(body)
         /\ Get(b, SizeLen + FlagLen, TypeLen) = type
<1> DEFINE s == b.buf
           d == Digits(HeadLen + Len(body), SizeLen)
           t == Digits(type, TypeLen)
           r == PackOf(type, body)
           g == SizeLen + FlagLen
<1>1. s \in Seq(Byte) /\ Len(s) \in Nat /\ Len(s) >= HeadLen
  BY DEF Buffers, Size
<1>2. Len(body) \in Nat /\ type \in Nat /\ HeadLen + Len(body) \in Nat /\ Base > 0
  BY ByteFacts
<1>3. d \in Seq(Byte) /\ Len(d) = SizeLen /\ t \in Seq(Byte) /\ Len(t) = TypeLen
  BY <1>2, ByteFacts, DigitsType DEF Digits, Byte
<1>4. /\ \A i \in 1..SizeLen : r[i] = d[i]
      /\ \A i \in 1..TypeLen : r[g + i] = t[i]
  BY PackIs, Zenon
<1>5. \A i \in 1..HeadLen : s[i] = r[i]
  OBVIOUS
<1>6. NumberOf(Base, d) = HeadLen + Len(body) /\ NumberOf(Base, t) = type
  <2>1. HeadLen + Len(body) < Power(Base, SizeLen) /\ type < Power(Base, TypeLen)
    BY ByteFacts DEF Wrap
  <2> QED
    BY <1>2, <2>1, ByteFacts, NumberOfDigits DEF Digits
<1> HIDE DEF s, d, t, r, g
<1>7. g \in Nat /\ g + TypeLen = HeadLen /\ 0 + SizeLen <= HeadLen
  BY ByteFacts DEF g
<1>8. SubSeq(s, 0 + 1, 0 + SizeLen) = d
  <2>1. 0 + Len(d) <= Len(s) /\ \A j \in 1..Len(d) : d[j] = s[0 + j]
    <3>1. \A j \in 1..SizeLen : j \in 1..HeadLen /\ 0 + j = j
      BY <1>7, ByteFacts
    <3>2. \A j \in 1..SizeLen : d[j] = s[j]
      BY <1>4, <1>5, <3>1
    <3> QED
      BY <1>1, <1>3, <1>7, <3>1, <3>2
  <2> QED
    BY <1>1, <1>3, <2>1, IsPart
<1>9. SubSeq(s, g + 1, g + TypeLen) = t
  <2>1. g + Len(t) <= Len(s) /\ \A j \in 1..Len(t) : t[j] = s[g + j]
    <3>1. \A j \in 1..TypeLen : g + j \in 1..HeadLen
      BY <1>7, ByteFacts
    <3>2. \A j \in 1..TypeLen : t[j] = s[g + j]
      BY <1>4, <1>5, <3>1
    <3> QED
      BY <1>1, <1>3, <1>7, <3>2
  <2> QED
    BY <1>1, <1>3, <1>7, <2>1, IsPart
<1>10. ReadAt(b, 0, SizeLen) = d
  <2>1. 0 + SizeLen <= Size(b)
    BY <1>1, <1>7, ByteFacts DEF Size, s
  <2> QED
    BY <1>8, <2>1 DEF ReadAt, s
<1>11. ReadAt(b, SizeLen + FlagLen, TypeLen) = t
  <2>1. g + TypeLen <= Size(b)
    BY <1>1, <1>7, ByteFacts DEF Size, s
  <2> QED
    BY <1>9, <2>1 DEF ReadAt, s, g
<1> QED
  BY <1>6, <1>10, <1>11 DEF Get, Number

-----------------------------------------------------------------------------
(* The requests that are not yet done, as bytes.                           *)
LEMMA AskFacts ==
  ASSUME NEW e \in Asks
  PROVE  /\ e.type \in 0..(Power(Base, TypeLen) - 1) /\ e.body \in Seq(Byte) /\ Len(e.body) \in Nat
         /\ e.cells \in Seq(Byte) /\ Len(e.cells) \in Nat
  BY DEF Asks

LEMMA RestType ==
  ASSUME NEW a \in Seq(Asks), NEW k \in 0..Len(a)
  PROVE  /\ [j \in 1..(Len(a) - k) |-> a[k + j].cells] \in Seq(Seq(Byte))
         /\ Len([j \in 1..(Len(a) - k) |-> a[k + j].cells]) = Len(a) - k
         /\ Rest(a, k) \in Seq(Byte)
<1> DEFINE n == Len(a) - k
           c == [j \in 1..n |-> a[k + j].cells]
<1>1. n \in Nat
  OBVIOUS
<1>2. ASSUME NEW j \in 1..n PROVE a[k + j].cells \in Seq(Byte)
  <2>1. k + j \in 1..Len(a)
    OBVIOUS
  <2>2. a[k + j] \in Asks
    BY <2>1
  <2> QED
    BY <2>2 DEF Asks
<1> HIDE DEF n
<1>3. c \in Seq(Seq(Byte)) /\ Len(c) = n
  BY <1>1, <1>2
<1>4. FlattenSeq(c) \in Seq(Byte)
  <2> HIDE DEF c
  <2> QED
    BY <1>3, FlattenType
<1> QED
  BY <1>3, <1>4 DEF Rest, n

LEMMA RestNone ==
  ASSUME NEW a \in Seq(Asks)
  PROVE  Rest(a, Len(a)) = <<>>
<1> DEFINE c == [j \in 1..(Len(a) - Len(a)) |-> a[Len(a) + j].cells]
<1>1. c \in Seq(Seq(Byte)) /\ Len(c) = 0
  <2>1. Len(a) \in 0..Len(a) /\ Len(a) - Len(a) = 0
    OBVIOUS
  <2>2. Len(c) = Len(a) - Len(a) /\ c \in Seq(Seq(Byte))
    BY <2>1, RestType, Zenon
  <2> QED
    BY <2>1, <2>2, Zenon
<1> HIDE DEF c
<1>2. c = <<>>
  BY <1>1, EmptySeq
<1> QED
  BY <1>2, FlattenEmpty DEF Rest, c

LEMMA RestNext ==
  ASSUME NEW a \in Seq(Asks), NEW k \in 0..(Len(a) - 1)
  PROVE  /\ Rest(a, k) = a[k + 1].cells \o Rest(a, k + 1)
         /\ a[k + 1] \in Asks /\ a[k + 1].cells \in Seq(Byte)
         /\ Rest(a, k + 1) \in Seq(Byte)
<1> DEFINE n == Len(a) - k
           c == [j \in 1..n |-> a[k + j].cells]
           d == [j \in 1..(Len(a) - (k + 1)) |-> a[(k + 1) + j].cells]
           f == a[k + 1].cells
<1>1. /\ n \in Nat /\ n >= 1 /\ k + 1 \in 1..Len(a) /\ k \in 0..Len(a) /\ k + 1 \in 0..Len(a)
      /\ Len(a) - (k + 1) = n - 1 /\ k \in Nat
  OBVIOUS
<1>2. a[k + 1] \in Asks /\ f \in Seq(Byte)
  <2>1. a[k + 1] \in Asks
    BY <1>1
  <2> QED
    BY <2>1, AskFacts
<1>3. /\ c \in Seq(Seq(Byte)) /\ Len(c) = n
      /\ d \in Seq(Seq(Byte)) /\ Len(d) = n - 1 /\ Rest(a, k + 1) \in Seq(Byte)
  BY <1>1, RestType
<1>4. c[1] = f /\ \A j \in 1..(n - 1) : c[1 + j] = d[j]
  <2>1. c[1] = f
    <3>1. 1 \in 1..n
      BY <1>1
    <3> QED
      BY <3>1
  <2>2. ASSUME NEW j \in 1..(n - 1) PROVE c[1 + j] = d[j]
    <3>1. 1 + j \in 1..n /\ k + (1 + j) = (k + 1) + j /\ j \in 1..(Len(a) - (k + 1))
      BY <1>1
    <3> HIDE DEF n
    <3> QED
      BY <3>1
  <2> QED
    BY <2>1, <2>2
<1>5. Rest(a, k) = FlattenSeq(c) /\ Rest(a, k + 1) = FlattenSeq(d)
  BY DEF Rest
<1> HIDE DEF n, c, d, f
<1>6. 1 \in 0..Len(c)
  BY <1>1, <1>3
<1>7. /\ SubSeq(c, 1, 1) \in Seq(Seq(Byte)) /\ Len(SubSeq(c, 1, 1)) = 1
      /\ SubSeq(c, 1 + 1, Len(c)) \in Seq(Seq(Byte)) /\ Len(SubSeq(c, 1 + 1, Len(c))) = n - 1
      /\ SubSeq(c, 1, 1)[1] = f
      /\ \A j \in 1..(n - 1) : SubSeq(c, 1 + 1, Len(c))[j] = d[j]
  <2>1. /\ SubSeq(c, 1, 1) \in Seq(Seq(Byte)) /\ Len(SubSeq(c, 1, 1)) = 1
        /\ SubSeq(c, 1 + 1, Len(c)) \in Seq(Seq(Byte))
        /\ Len(SubSeq(c, 1 + 1, Len(c))) = Len(c) - 1
        /\ \A i \in 1..1 : SubSeq(c, 1, 1)[i] = c[i]
        /\ \A i \in 1..(Len(c) - 1) : SubSeq(c, 1 + 1, Len(c))[i] = c[1 + i]
    BY <1>3, <1>6, SplitAt
  <2>2. 1 \in 1..1
    OBVIOUS
  <2> QED
    BY <1>3, <1>4, <2>1, <2>2, Zenon
<1>8. SubSeq(c, 1, 1) = <<f>>
  <2> DEFINE u == SubSeq(c, 1, 1)
  <2> HIDE DEF u
  <2>1. u \in Seq(Seq(Byte)) /\ Len(u) = 1 /\ u[1] = f
    BY <1>7 DEF u
  <2>2. u = <<f>>
    BY <1>2, <2>1
  <2> QED
    BY <2>2 DEF u
<1>9. SubSeq(c, 1 + 1, Len(c)) = d
  <2> DEFINE u == SubSeq(c, 1 + 1, Len(c))
  <2>1. u \in Seq(Seq(Byte)) /\ Len(u) = n - 1 /\ \A j \in 1..(n - 1) : u[j] = d[j]
    BY <1>7
  <2> HIDE DEF u
  <2>2. u = d
    BY <1>3, <2>1, SeqEqual
  <2> QED
    BY <2>2 DEF u
<1>10. FlattenSeq(c) = FlattenSeq(SubSeq(c, 1, 1)) \o FlattenSeq(SubSeq(c, 1 + 1, Len(c)))
  BY <1>3, <1>6, FlattenSplit
<1>11. FlattenSeq(<<f>>) = f
  BY <1>2, FlattenOne
<1> QED
  BY <1>2, <1>3, <1>5, <1>8, <1>9, <1>10, <1>11, Zenon DEF f

LEMMA RestAppend ==
  ASSUME NEW a \in Seq(Asks), NEW k \in 0..Len(a), NEW e \in Asks
  PROVE  Rest(Append(a, e), k) = Rest(a, k) \o e.cells
<1> DEFINE b == Append(a, e)
           n == Len(a) - k
           c == [j \in 1..(Len(a) - k) |-> a[k + j].cells]
           d == [j \in 1..(Len(b) - k) |-> b[k + j].cells]
           f == e.cells
           x == Append(c, f)
<1>1. /\ b \in Seq(Asks) /\ Len(b) = Len(a) + 1 /\ b[Len(a) + 1] = e
      /\ \A i \in 1..Len(a) : b[i] = a[i]
  BY AppendProperties
<1>2. Len(a) \in Nat /\ k \in Nat /\ n \in Nat /\ k \in 0..Len(b) /\ k + n = Len(a)
  BY <1>1
<1>3. /\ c \in Seq(Seq(Byte)) /\ Len(c) = n /\ f \in Seq(Byte)
      /\ d \in Seq(Seq(Byte)) /\ Len(d) = Len(b) - k
  <2>1. f \in Seq(Byte)
    BY DEF Asks
  <2> HIDE DEF b
  <2> QED
    BY <1>1, <1>2, <2>1, RestType
<1>4. \A j \in 1..n : d[j] = c[j]
  <2> SUFFICES ASSUME NEW j \in 1..n PROVE d[j] = c[j]
    OBVIOUS
  <2>1. k + j \in 1..Len(a) /\ j \in 1..(Len(a) - k) /\ j \in 1..(Len(b) - k)
    BY <1>1, <1>2
  <2> HIDE DEF b
  <2> QED
    BY <1>1, <2>1
<1>5. d[n + 1] = f
  <2>1. n + 1 \in 1..(Len(b) - k) /\ k + (n + 1) = Len(a) + 1
    BY <1>1, <1>2
  <2> HIDE DEF b, n
  <2> QED
    BY <1>1, <2>1
<1>6. Rest(a, k) = FlattenSeq(c) /\ Rest(b, k) = FlattenSeq(d)
  BY DEF Rest
<1>7. Len(d) = n + 1
  BY <1>1, <1>2, <1>3
<1> HIDE DEF b, n, c, d
<1>8. /\ x \in Seq(Seq(Byte)) /\ Len(x) = n + 1 /\ x[n + 1] = f /\ \A j \in 1..n : x[j] = c[j]
  <2>1. /\ x \in Seq(Seq(Byte)) /\ Len(x) = Len(c) + 1 /\ x[Len(c) + 1] = f
        /\ \A j \in 1..Len(c) : x[j] = c[j]
    BY <1>3, AppendProperties
  <2> QED
    BY <1>3, <2>1, Zenon
<1> HIDE DEF x, f
<1>9. \A j \in 1..(n + 1) : d[j] = x[j]
  <2>1. \A j \in 1..(n + 1) : j \in 1..n \/ j = n + 1
    BY <1>2
  <2> QED
    BY <1>4, <1>5, <1>8, <2>1, Zenon
<1>10. d = x
  BY <1>3, <1>7, <1>8, <1>9, SeqEqual
<1>11. FlattenSeq(Append(c, f)) = FlattenSeq(c) \o f
  BY <1>3, FlattenAppend
<1> QED
  BY <1>6, <1>10, <1>11 DEF x, b, f

LEMMA RestAll ==
  ASSUME NEW a \in Seq(Asks), NEW k \in 0..Len(a)
  PROVE  /\ FlattenSeq([i \in 1..Len(a) |-> a[i].cells])
              = FlattenSeq([i \in 1..k |-> a[i].cells]) \o Rest(a, k)
         /\ FlattenSeq([i \in 1..k |-> a[i].cells]) \in Seq(Byte)
<1> DEFINE n == Len(a) - k
           c == [i \in 1..Len(a) |-> a[i].cells]
           d == [i \in 1..k |-> a[i].cells]
           f == [j \in 1..(Len(a) - k) |-> a[k + j].cells]
           p == SubSeq(c, 1, k)
           q == SubSeq(c, k + 1, Len(c))
<1>1. Len(a) \in Nat /\ k \in Nat /\ n \in Nat /\ k <= Len(a)
  OBVIOUS
<1>2. \A i \in 1..Len(a) : a[i].cells \in Seq(Byte)
  <2>1. \A i \in 1..Len(a) : a[i] \in Asks
    OBVIOUS
  <2> QED
    BY <2>1, AskFacts
<1>3. c \in Seq(Seq(Byte)) /\ Len(c) = Len(a) /\ \A i \in 1..Len(a) : c[i] = a[i].cells
  BY <1>1, <1>2
<1>4. d \in Seq(Seq(Byte)) /\ Len(d) = k /\ \A i \in 1..k : d[i] = a[i].cells
  <2>1. \A i \in 1..k : a[i].cells \in Seq(Byte)
    BY <1>1, <1>2
  <2> QED
    BY <1>1, <2>1
<1>5. /\ f \in Seq(Seq(Byte)) /\ Len(f) = n /\ \A j \in 1..n : f[j] = a[k + j].cells
      /\ Rest(a, k) = FlattenSeq(f)
  <2>1. f \in Seq(Seq(Byte)) /\ Len(f) = n
    BY RestType
  <2> QED
    BY <2>1 DEF Rest
<1>6. k \in 0..Len(c)
  BY <1>1, <1>3
<1> HIDE DEF c, d, f
<1>7. /\ p \in Seq(Seq(Byte)) /\ Len(p) = k /\ \A i \in 1..k : p[i] = c[i]
      /\ q \in Seq(Seq(Byte)) /\ Len(q) = Len(c) - k /\ \A i \in 1..(Len(c) - k) : q[i] = c[k + i]
      /\ FlattenSeq(c) = FlattenSeq(p) \o FlattenSeq(q) /\ FlattenSeq(p) \in Seq(Byte)
  BY <1>3, <1>6, SplitAt, FlattenSplit, ZenonT(30)
<1> HIDE DEF p, q
<1>8. p = d
  <2>1. \A i \in 1..k : p[i] = d[i]
    <3>1. \A i \in 1..k : i \in 1..Len(a)
      BY <1>1
    <3> QED
      BY <1>3, <1>4, <1>7, <3>1, Zenon
  <2> QED
    BY <1>4, <1>7, <2>1, SeqEqual
<1>9. q = f
  <2>1. \A i \in 1..n : q[i] = f[i]
    <3>1. \A i \in 1..n : k + i \in 1..Len(a)
      BY <1>1
    <3>2. Len(c) - k = n
      BY <1>3
    <3> QED
      BY <1>3, <1>5, <1>7, <3>1, <3>2, Zenon
  <2>2. Len(q) = n
    BY <1>3, <1>7
  <2> QED
    BY <1>5, <1>7, <2>1, <2>2, SeqEqual
<1> QED
  BY <1>5, <1>7, <1>8, <1>9, Zenon DEF c, d

(* When at least a head has been read, it is that of the next request, and *)
(* a buffer as long as the head says holds that request and nothing else.  *)
LEMMA FrontPack ==
  ASSUME NEW a, NEW g, AskedOK(a, g), NEW k \in 0..Len(a), NEW b \in Buffers, NEW i \in Seq(Byte),
         Rest(a, k) = b.buf \o i, Size(b) >= HeadLen
  PROVE  /\ k < Len(a) /\ a[k + 1] \in Asks /\ Len(a[k + 1].cells) = HeadLen + Len(a[k + 1].body)
         /\ Get(b, 0, SizeLen) = HeadLen + Len(a[k + 1].body)
         /\ Get(b, SizeLen + FlagLen, TypeLen) = a[k + 1].type
         /\ Size(b) = Get(b, 0, SizeLen) => b.buf = a[k + 1].cells /\ i = Rest(a, k + 1)
<1> DEFINE s == b.buf
           r == Rest(a, k)
<1>1. /\ a \in Seq(Asks) /\ Len(a) \in Nat /\ k \in Nat
      /\ s \in Seq(Byte) /\ Len(s) \in Nat /\ Len(s) >= HeadLen
  BY DEF AskedOK, Buffers, Size
<1>2. /\ Len(r) = Len(s) + Len(i) /\ Len(i) \in Nat
      /\ \A j \in 1..Len(s) : r[j] = s[j]
  BY <1>1, ConcatProperties
<1>3. k < Len(a)
  <2> SUFFICES ASSUME k = Len(a) PROVE FALSE
    BY <1>1
  <2>1. Len(r) = 0
    BY <1>1, RestNone
  <2>2. HeadLen \in Nat \ {0}
    BY ByteFacts
  <2> DEFINE m == Len(s)
             n == Len(i)
  <2>3. m \in Nat /\ n \in Nat /\ m >= HeadLen /\ 0 = m + n
    BY <1>1, <1>2, <2>1
  <2> HIDE DEF m, n
  <2> QED
    BY <2>2, <2>3
<1> DEFINE e == a[k + 1]
           f == e.cells
           t == Rest(a, k + 1)
<1>4. r = f \o t /\ e \in Asks /\ f \in Seq(Byte) /\ t \in Seq(Byte)
  <2>1. k \in 0..(Len(a) - 1)
    BY <1>1, <1>3
  <2> QED
    BY <1>1, <2>1, RestNext
<1>5. /\ Len(r) = Len(f) + Len(t) /\ Len(f) \in Nat /\ Len(t) \in Nat
      /\ \A j \in 1..Len(f) : r[j] = f[j]
  <2> HIDE DEF e, f, t, r
  <2> QED
    BY <1>4, ConcatProperties
<1>6. Fits(e) /\ Whole(e)
  <2>1. k + 1 \in 1..Len(a)
    BY <1>1, <1>3
  <2>2. Fits(e) /\ (Whole(e) \/ (k + 1 = Len(a) /\ Len(f) < HeadLen))
    BY <2>1 DEF AskedOK
  <2>3. ASSUME k + 1 = Len(a), Len(f) < HeadLen PROVE FALSE
    <3>1. Len(t) = 0
      BY <1>1, <2>3, RestNone
    <3> HIDE DEF e, f, t, r, s
    <3> QED
      BY <1>1, <1>2, <1>5, <2>3, <3>1, ByteFacts
  <2> QED
    BY <2>2, <2>3
<1>7. e.type \in 0..(Power(Base, TypeLen) - 1) /\ e.body \in Seq(Byte) /\ Len(e.body) \in Nat
  BY <1>4 DEF Asks
<1>8. f = PackOf(e.type, e.body) /\ HeadLen + Len(e.body) < Wrap
  BY <1>6 DEF Whole, Fits
<1>9. Len(f) = HeadLen + Len(e.body)
  BY <1>7, <1>8, PackIs
<1>10. \A j \in 1..HeadLen : s[j] = PackOf(e.type, e.body)[j]
  <2> SUFFICES ASSUME NEW j \in 1..HeadLen PROVE s[j] = f[j]
    BY <1>8
  <2> HIDE DEF e, f, s, r, t
  <2>1. j \in 1..Len(s) /\ j \in 1..Len(f)
    <3>1. HeadLen \in Nat
      BY ByteFacts
    <3> DEFINE m == Len(s)
               n == Len(f)
               h == Len(e.body)
    <3>2. m \in Nat /\ m >= HeadLen /\ h \in Nat /\ n = HeadLen + h
      BY <1>1, <1>7, <1>9
    <3> HIDE DEF m, n, h
    <3>3. j \in 1..m /\ j \in 1..n
      BY <3>1, <3>2
    <3> QED
      BY <3>3 DEF m, n
  <2> QED
    BY <1>2, <1>5, <2>1
<1>11. Get(b, 0, SizeLen) = HeadLen + Len(e.body) /\ Get(b, SizeLen + FlagLen, TypeLen) = e.type
  <2> HIDE DEF e
  <2> QED
    BY <1>7, <1>8, <1>10, HeadSays
<1>12. ASSUME Size(b) = Get(b, 0, SizeLen) PROVE s = f /\ i = t
  <2>1. Len(s) = Len(f)
    BY <1>9, <1>11, <1>12 DEF Size
  <2>2. s \o i = f \o t
    BY <1>4
  <2> HIDE DEF e, f, s, r, t
  <2> QED
    BY <1>1, <1>4, <2>1, <2>2, ConcatCancel
<1> QED
  BY <1>3, <1>4, <1>9, <1>11, <1>12, Zenon

-----------------------------------------------------------------------------
(* The steps.  A link that is not read from, before or after, is left as   *)
(* it was if its own variables are.                                        *)
LEMMA LinkFrame ==
  ASSUME NEW k \in Links, LinkInv(k),
         asked'[k] = asked[k], gone'[k] = gone[k], in'[k] = in[k], err'[k] = err[k],
         done'[k] = done[k], rbuf'[k] = rbuf[k], rio'[k] = rio[k],
         ~Reading(k), ~Reading(k)'
  PROVE  LinkInv(k)'
<1>1. AskedOK(asked'[k], gone'[k]) /\ DoneParsed(asked'[k], done'[k])
  BY DEF LinkInv
<1>2. ReadingOK(k)'
  BY DEF LinkInv, ReadingOK
<1>3. HeadOK(k)'
  BY DEF HeadOK
<1>4. Part(k) = <<>> /\ Part(k)' = <<>>
  BY DEF Part
<1>5. StreamOK(k)'
  BY <1>4, Zenon DEF LinkInv, StreamOK
<1> QED
  BY <1>1, <1>2, <1>3, <1>5 DEF LinkInv, AskedOK, DoneParsed

(* Another link is neither read from before nor after a step of the loop   *)
(* for link l.                                                             *)
LEMMA OthersWait ==
  ASSUME NEW l \in Links, NEW k \in Links \ {l},
         loop = Waiting \/ loop.link = l, loop' = Waiting \/ loop'.link = l
  PROVE  ~Reading(k) /\ ~Reading(k)'
<1>1. Waiting.link = Nobody /\ Waiting.does = "wait"
  BY DEF Waiting
<1>2. k # l
  OBVIOUS
<1> QED
  BY <1>1, <1>2 DEF Reading

LEMMA StayStep ==
  ASSUME LInv, UNCHANGED <<asked, gone, in, err, done, rbuf, rio>>,
         \A k \in Links : (Reading(k) \/ Reading(k)') => UNCHANGED <<loop, cut, strayed>>
  PROVE  LInv'
<1>1. ReadTypes'
  BY DEF LInv, ReadTypes
<1>2. ASSUME NEW k \in Links PROVE LinkInv(k)'
  <2>1. LinkInv(k)
    BY DEF LInv
  <2>2. CASE ~Reading(k) /\ ~Reading(k)'
    BY <2>1, <2>2, LinkFrame
  <2>3. CASE Reading(k) \/ Reading(k)'
    <3>1. UNCHANGED <<asked, gone, in, err, done, rbuf, rio, loop, cut, strayed>>
      BY <2>3
    <3>2. Reading(k)' <=> Reading(k)
      BY <3>1 DEF Reading
    <3>3. Part(k)' = Part(k)
      BY <3>1, <3>2, Zenon DEF Part
    <3>4. ReadingOK(k)' /\ HeadOK(k)'
      BY <2>1, <3>1, <3>2 DEF LinkInv, ReadingOK, HeadOK
    <3>5. StreamOK(k)'
      BY <2>1, <3>1, <3>3, Zenon DEF LinkInv, StreamOK
    <3> QED
      BY <2>1, <3>1, <3>4, <3>5 DEF LinkInv, AskedOK, DoneParsed
  <2> QED
    BY <2>2, <2>3
<1> QED
  BY <1>1, <1>2 DEF LInv

LEMMA AcceptReads ==
  ASSUME IInv, LInv, NEW l \in Links, Accept(l)
  PROVE  LInv'
<1>1. /\ UNCHANGED <<asked, gone, in, err, done, rbuf, loop>> /\ rio' = [rio EXCEPT ![l] = TRUE]
      /\ loop = Waiting /\ asked[l] = <<>> /\ ~gone[l]
  BY DEF Accept, client
<1>2. ~err[l]
  BY <1>1 DEF IInv, OnlyStarted, Started
<1>3. /\ rio \in [Links -> BOOLEAN] /\ rbuf \in [Links -> Buffers]
      /\ in \in [Links -> Seq(Byte)] /\ \A k \in Links : LinkInv(k)
  BY DEF LInv, ReadTypes
<1>4. rio' \in [Links -> BOOLEAN] /\ \A k \in Links \ {l} : rio'[k] = rio[k]
  BY <1>1, <1>3
<1>5. ASSUME NEW k \in Links PROVE LinkInv(k)'
  <2>1. ~Reading(k) /\ ~Reading(k)'
    BY <1>1 DEF Reading, Waiting
  <2>2. CASE k # l
    BY <1>1, <1>3, <1>4, <2>1, <2>2, LinkFrame
  <2>3. CASE k = l
    <3>1. ReadingOK(k)' /\ HeadOK(k)'
      BY <1>1, <1>2, <2>1, <2>3 DEF ReadingOK, HeadOK
    <3>2. Part(k) = <<>> /\ Part(k)' = <<>>
      BY <2>1 DEF Part
    <3>3. LinkInv(k)
      BY <1>3
    <3>4. StreamOK(k)'
      BY <1>1, <3>2, <3>3, Zenon DEF LinkInv, StreamOK
    <3> QED
      BY <1>1, <3>1, <3>3, <3>4 DEF LinkInv, AskedOK, DoneParsed
  <2> QED
    BY <2>2, <2>3
<1> QED
  BY <1>1, <1>3, <1>4, <1>5 DEF LInv, ReadTypes

LEMMA HangReads ==
  ASSUME IInv, LInv, NEW l \in Links, Hang(l)
  PROVE  LInv'
<1>1. /\ UNCHANGED <<asked, in, err, done, rbuf, rio, loop, cut, strayed>>
      /\ gone' = [gone EXCEPT ![l] = TRUE]
  BY DEF Hang, link
<1>2. gone \in [Links -> BOOLEAN]
  BY DEF IInv, LinkTypes
<1>3. \A k \in Links : gone[k] => gone'[k]
  BY <1>1, <1>2
<1>4. ASSUME NEW k \in Links PROVE LinkInv(k)'
  <2>1. LinkInv(k)
    BY DEF LInv
  <2>2. AskedOK(asked'[k], gone'[k])
    BY <1>1, <1>3, <2>1 DEF LinkInv, AskedOK
  <2>3. Reading(k)' <=> Reading(k)
    BY <1>1 DEF Reading
  <2>4. Part(k)' = Part(k)
    BY <1>1, <2>3, Zenon DEF Part
  <2>5. ReadingOK(k)' /\ HeadOK(k)'
    BY <1>1, <2>1, <2>3 DEF LinkInv, ReadingOK, HeadOK
  <2>6. StreamOK(k)'
    BY <1>1, <2>1, <2>4, Zenon DEF LinkInv, StreamOK
  <2> QED
    BY <1>1, <2>1, <2>2, <2>5, <2>6 DEF LinkInv, AskedOK, DoneParsed
<1> QED
  BY <1>1, <1>4 DEF LInv, ReadTypes

(* What a client sends is a whole pack, or less than a head.               *)
LEMMA AskIs ==
  ASSUME NEW l \in Links, NEW r \in Requests[l], NEW n \in Cuts \cup {HeadLen + Len(r.body)}
  PROVE  LET p == PackOf(r.type, r.body)
             e == [type |-> r.type, body |-> r.body, cells |-> SubSeq(p, 1, n)]
         IN  /\ e \in Asks /\ Fits(e)
             /\ Whole(e) \/ (n < Len(p) /\ Len(e.cells) < HeadLen)
<1> DEFINE p == PackOf(r.type, r.body)
           c == SubSeq(p, 1, n)
           e == [type |-> r.type, body |-> r.body, cells |-> c]
           m == Len(r.body)
<1>1. /\ r.type \in 0..(Power(Base, TypeLen) - 1) /\ r.body \in Seq(Byte) /\ m \in Nat
      /\ HeadLen + Len(r.body) < Wrap /\ Cuts \subseteq 1..(HeadLen - 1)
  BY LinkAssumption
<1>2. p \in Seq(Byte) /\ Len(p) = HeadLen + m
  BY <1>1, PackIs
<1>3. HeadLen \in Nat \ {0}
  BY ByteFacts
<1> HIDE DEF p, m
<1>4. n \in 0..Len(p) /\ (n = Len(p) \/ n < HeadLen) /\ (n < HeadLen => n < Len(p)) /\ n \in Nat
  <2>1. CASE n \in Cuts
    BY <1>1, <1>2, <1>3, <2>1
  <2>2. CASE n = HeadLen + m
    BY <1>1, <1>2, <1>3, <2>2
  <2> QED
    BY <2>1, <2>2 DEF m
<1>5. c \in Seq(Byte) /\ Len(c) = n /\ (n = Len(p) => c = p)
  <2>1. c \in Seq(Byte) /\ Len(c) = n /\ \A i \in 1..n : c[i] = p[i]
    BY <1>2, <1>4, SplitAt
  <2> HIDE DEF c
  <2>2. n = Len(p) => c = p
    BY <1>2, <2>1, SeqEqual
  <2> QED
    BY <2>1, <2>2
<1> HIDE DEF c
<1>6. e \in Asks
  BY <1>1, <1>5 DEF Asks
<1>7. Fits(e)
  BY <1>1 DEF Fits
<1>8. Whole(e) \/ (n < Len(p) /\ Len(e.cells) < HeadLen)
  <2>1. CASE n = Len(p)
    BY <1>5, <2>1 DEF Whole, p
  <2>2. CASE n < HeadLen
    BY <1>4, <1>5, <2>2
  <2> QED
    BY <1>4, <2>1, <2>2
<1> QED
  BY <1>6, <1>7, <1>8 DEF c, p

LEMMA JoinedBytes == \A p, q, r \in Seq(Byte) : (p \o q) \o r = p \o (q \o r)
  BY ConcatAssociative

LEMMA PartType ==
  ASSUME ReadTypes, NEW l \in Links
  PROVE  Part(l) \in Seq(Byte)
<1>1. rbuf[l] \in Buffers /\ <<>> \in Seq(Byte)
  BY DEF ReadTypes
<1>2. rbuf[l].buf \in Seq(Byte)
  BY <1>1 DEF Buffers
<1> QED
  BY <1>1, <1>2 DEF Part

LEMMA AskReads ==
  ASSUME IInv, LInv, NEW l \in Links, NEW r \in Requests[l],
         NEW n \in Cuts \cup {HeadLen + Len(r.body)}, Ask(l, r, n)
  PROVE  LInv'
<1> DEFINE p == PackOf(r.type, r.body)
           c == SubSeq(p, 1, n)
           e == [type |-> r.type, body |-> r.body, cells |-> c]
           ends == n < Len(p)
           a == asked[l]
           d == done[l]
<1>1. /\ asked' = [asked EXCEPT ![l] = Append(@, e)]
      /\ in' = [in EXCEPT ![l] = @ \o c]
      /\ gone' = [gone EXCEPT ![l] = ends]
      /\ UNCHANGED <<err, done, rbuf, rio, loop, cut, strayed>> /\ ~gone[l]
  BY DEF Ask, link
<1>2. e \in Asks /\ Fits(e) /\ (Whole(e) \/ (ends /\ Len(e.cells) < HeadLen)) /\ e.cells = c
  BY AskIs
<1>3. ends \in BOOLEAN /\ c \in Seq(Byte)
  <2> HIDE DEF c
  <2> QED
    BY <1>2, AskFacts DEF e
<1> HIDE DEF e, ends, c
<1>4. /\ asked = [k \in Links |-> asked[k]] /\ gone \in [Links -> BOOLEAN]
      /\ in \in [Links -> Seq(Byte)] /\ \A k \in Links : LinkInv(k)
  BY DEF IInv, LinkTypes, LInv, ReadTypes
<1>5. /\ asked'[l] = Append(a, e) /\ in'[l] = in[l] \o c /\ gone'[l] = ends /\ in[l] \in Seq(Byte)
      /\ \A k \in Links \ {l} : asked'[k] = asked[k] /\ in'[k] = in[k] /\ gone'[k] = gone[k]
      /\ in' \in [Links -> Seq(Byte)]
  <2>1. in[l] \o c \in Seq(Byte)
    BY <1>3, <1>4, ConcatProperties
  <2> QED
    BY <1>1, <1>4, <2>1
<1>6. ASSUME NEW k \in Links
      PROVE  (Reading(k)' <=> Reading(k)) /\ ReadingOK(k)' /\ HeadOK(k)' /\ Part(k)' = Part(k)
  <2>1. LinkInv(k)
    BY <1>4
  <2>2. Reading(k)' <=> Reading(k)
    BY <1>1 DEF Reading
  <2>3. Part(k)' = Part(k)
    BY <1>1, <2>2, Zenon DEF Part
  <2> QED
    BY <1>1, <2>1, <2>2, <2>3 DEF LinkInv, ReadingOK, HeadOK
<1>7. ASSUME NEW k \in Links \ {l} PROVE LinkInv(k)'
  <2>1. LinkInv(k)
    BY <1>4
  <2>2. StreamOK(k)'
    BY <1>1, <1>5, <1>6, <2>1, Zenon DEF LinkInv, StreamOK
  <2> QED
    BY <1>1, <1>5, <1>6, <2>1, <2>2 DEF LinkInv, AskedOK, DoneParsed
<1>8. /\ a \in Seq(Asks) /\ Len(a) \in Nat /\ Len(d) \in Nat /\ Len(d) <= Len(a)
      /\ Append(a, e) \in Seq(Asks) /\ Len(Append(a, e)) = Len(a) + 1
      /\ Append(a, e)[Len(a) + 1] = e /\ \A i \in 1..Len(a) : Append(a, e)[i] = a[i]
  <2>1. a \in Seq(Asks) /\ Len(d) <= Len(a)
    BY <1>4 DEF LinkInv, AskedOK, StreamOK
  <2>2. Len(d) \in Nat
    BY DEF IInv, LinkTypes, IsSeq
  <2> HIDE DEF a
  <2> QED
    BY <1>2, <2>1, <2>2, AppendProperties
<1>9. AskedOK(Append(a, e), ends)
  <2> SUFFICES ASSUME NEW i \in 1..(Len(a) + 1)
               PROVE  /\ Fits(Append(a, e)[i])
                      /\ \/ Whole(Append(a, e)[i])
                         \/ i = Len(a) + 1 /\ ends /\ Len(Append(a, e)[i].cells) < HeadLen
    BY <1>8 DEF AskedOK
  <2>1. CASE i \in 1..Len(a)
    <3>1. Fits(a[i]) /\ Whole(a[i])
      BY <1>1, <1>4, <2>1 DEF LinkInv, AskedOK
    <3> QED
      BY <1>8, <2>1, <3>1
  <2>2. CASE i = Len(a) + 1
    BY <1>2, <1>8, <2>2
  <2> QED
    BY <1>8, <2>1, <2>2
<1>10. DoneParsed(Append(a, e), d)
  <2>1. DoneParsed(a, d)
    BY <1>4 DEF LinkInv
  <2>2. \A i \in 1..Len(d) : i \in 1..Len(a)
    BY <1>8
  <2> QED
    BY <1>8, <2>1, <2>2, Zenon DEF DoneParsed
<1>11. StreamOK(l)'
  <2>1. Len(d) <= Len(Append(a, e))
    <3> DEFINE x == Len(a)
               y == Len(d)
               z == Len(Append(a, e))
    <3>1. x \in Nat /\ y \in Nat /\ z = x + 1 /\ y <= x
      BY <1>8
    <3> HIDE DEF x, y, z
    <3>2. y <= z
      BY <3>1
    <3> QED
      BY <3>2 DEF y, z
  <2>2. ASSUME ~err[l] PROVE Rest(Append(a, e), Len(d)) = Part(l) \o (in[l] \o c)
    <3>1. Rest(a, Len(d)) = Part(l) \o in[l]
      BY <1>4, <2>2 DEF LinkInv, StreamOK
    <3>2. Rest(Append(a, e), Len(d)) = Rest(a, Len(d)) \o c
      <4>1. Len(d) \in 0..Len(a)
        BY <1>8
      <4> HIDE DEF a, d
      <4>2. Rest(Append(a, e), Len(d)) = Rest(a, Len(d)) \o e.cells
        BY <1>2, <1>8, <4>1, RestAppend
      <4> QED
        BY <1>2, <4>2, Zenon
    <3>3. Part(l) \in Seq(Byte)
      BY PartType DEF LInv
    <3>4. (Part(l) \o in[l]) \o c = Part(l) \o (in[l] \o c)
      BY <1>3, <1>5, <3>3, JoinedBytes, Zenon
    <3> QED
      BY <3>1, <3>2, <3>4, Zenon
  <2>3. Part(l)' = Part(l)
    BY <1>6
  <2>4. err'[l] = err[l] /\ done'[l] = d
    BY <1>1
  <2> QED
    BY <1>5, <2>1, <2>2, <2>3, <2>4, Zenon DEF StreamOK
<1>12. LinkInv(l)'
  <2>1. AskedOK(asked'[l], gone'[l]) /\ DoneParsed(asked'[l], done'[l])
    <3>1. done'[l] = d
      BY <1>1
    <3> QED
      BY <1>5, <1>9, <1>10, <3>1, Zenon
  <2> QED
    BY <1>6, <1>11, <2>1 DEF LinkInv, AskedOK, DoneParsed
<1>13. ReadTypes'
  BY <1>1, <1>5 DEF LInv, ReadTypes
<1> QED
  BY <1>7, <1>12, <1>13 DEF LInv

LEMMA OnReadReads ==
  ASSUME IInv, LInv, NEW l \in Links, OnRead(l)
  PROVE  LInv'
<1>1. /\ UNCHANGED <<asked, gone, in, err, done, rio>> /\ rio[l] /\ loop = Waiting
      /\ rbuf' = [rbuf EXCEPT ![l] = NewBytes]
      /\ loop' = [does |-> "read", link |-> l, n |-> HeadLen]
  BY DEF OnRead, client, link
<1>2. /\ rbuf \in [Links -> Buffers] /\ \A k \in Links : LinkInv(k)
  BY DEF LInv, ReadTypes
<1>3. NewBytes \in Buffers /\ Size(NewBytes) = 0 /\ NewBytes.buf = <<>> /\ NewBytes.wpos = 0
  BY DEF NewBytes, Buffers, Size
<1>4. /\ rbuf' \in [Links -> Buffers] /\ rbuf'[l] = NewBytes
      /\ \A k \in Links \ {l} : rbuf'[k] = rbuf[k]
  BY <1>1, <1>2, <1>3
<1>5. HeadLen \in Nat \ {0}
  BY ByteFacts
<1>6. ASSUME NEW k \in Links \ {l} PROVE LinkInv(k)'
  <2>1. ~Reading(k) /\ ~Reading(k)'
    BY <1>1, OthersWait
  <2> QED
    BY <1>1, <1>2, <1>4, <2>1, LinkFrame
<1>7. LinkInv(l)'
  <2>1. LinkInv(l)
    BY <1>2
  <2>2. ~Reading(l) /\ Reading(l)' /\ loop'.does = "read" /\ loop'.n = HeadLen
    BY <1>1 DEF Reading, Waiting
  <2>3. ~err[l]
    BY <1>1, <2>1 DEF LinkInv, ReadingOK
  <2>4. ReadingOK(l)'
    BY <1>1, <1>3, <1>4, <1>5, <2>2, <2>3 DEF ReadingOK
  <2>5. HeadOK(l)'
    BY <1>3, <1>4, <1>5, <2>2 DEF HeadOK
  <2>6. Part(l) = <<>> /\ Part(l)' = <<>>
    BY <1>3, <1>4, <2>2 DEF Part
  <2>7. StreamOK(l)'
    BY <1>1, <2>1, <2>6, Zenon DEF LinkInv, StreamOK
  <2> QED
    BY <1>1, <2>1, <2>4, <2>5, <2>7 DEF LinkInv, AskedOK, DoneParsed
<1> QED
  BY <1>1, <1>2, <1>4, <1>6, <1>7 DEF LInv, ReadTypes

(* The length that read_ asks for next.                                    *)
LEMMA NextLenIs ==
  ASSUME NEW b \in Buffers, NEW n \in Nat, n <= Size(b)
  PROVE  /\ NextLen(b, n) \in Nat
         /\ Size(b) < HeadLen => NextLen(b, n) = HeadLen - n
         /\ Size(b) >= HeadLen /\ Size(b) <= Get(b, 0, SizeLen) /\ Get(b, 0, SizeLen) < Wrap
              => Size(b) + NextLen(b, n) <= Get(b, 0, SizeLen)
<1> DEFINE s == Size(b)
           g == Get(b, 0, SizeLen)
           x == (g - s) % Wrap
<1>1. s \in Nat /\ g \in Nat /\ Wrap \in Nat \ {0} /\ HeadLen \in Nat /\ ReadBuf \in Nat
  <2>1. g \in Nat
    BY ByteFacts, ReadType
  <2>2. s \in Nat
    BY DEF Size, Buffers
  <2> QED
    BY <2>1, <2>2, ByteFacts, LinkAssumption
<1>2. NextLen(b, n) = IF s < HeadLen THEN HeadLen - n ELSE Min({x, ReadBuf})
  BY Zenon DEF NextLen
<1>3. n <= s
  OBVIOUS
<1> HIDE DEF s, g
<1>4. x \in Nat /\ (s <= g /\ g < Wrap => x = g - s)
  <2>1. g - s \in Int /\ (g - s) % Wrap \in 0..(Wrap - 1)
    BY <1>1
  <2>2. ASSUME s <= g, g < Wrap PROVE x = g - s
    <3>1. g - s \in 0..(Wrap - 1)
      BY <1>1, <2>2
    <3> QED
      BY <1>1, <3>1
  <2> QED
    BY <1>1, <2>1, <2>2
<1> HIDE DEF x
<1>5. Min({x, ReadBuf}) \in Nat /\ Min({x, ReadBuf}) <= x
  <2>1. x \in Int /\ ReadBuf \in Int
    BY <1>1, <1>4
  <2>2. Min({x, ReadBuf}) \in {x, ReadBuf} /\ Min({x, ReadBuf}) <= x
    BY <2>1, MinOfTwo
  <2> QED
    BY <1>1, <1>4, <2>2
<1> DEFINE m == Min({x, ReadBuf})
           z == NextLen(b, n)
<1>6. m \in Nat /\ m <= x /\ z = IF s < HeadLen THEN HeadLen - n ELSE m
  BY <1>2, <1>5
<1> HIDE DEF m, z
<1>7. /\ z \in Nat /\ (s < HeadLen => z = HeadLen - n)
      /\ (s >= HeadLen /\ s <= g /\ g < Wrap => s + z <= g)
  BY <1>1, <1>3, <1>4, <1>6
<1> QED
  BY <1>7 DEF z, s, g

LEMMA TookReads ==
  ASSUME IInv, LInv, NEW l \in Links, NEW n \in Nat, Doing("read", l), Took(l, n),
         n <= Len(in[l]), n <= loop.n
  PROVE  LInv'
<1> DEFINE o == rbuf[l]
           i == in[l]
           s == SubSeq(i, 1, n)
           t == SubSeq(i, n + 1, Len(i))
           b == Put(o, s)
           piece == Size(b) < HeadLen
           whole == Size(b) >= HeadLen /\ Size(b) = Get(b, 0, SizeLen)
           next == NextLen(b, n)
           k == Len(done[l])
           a == asked[l]
<1>1. /\ loop.does = "read" /\ loop.link = l /\ Reading(l)
      /\ UNCHANGED <<asked, gone, err, done, rio>>
      /\ in' = [in EXCEPT ![l] = t]
      /\ rbuf' = [rbuf EXCEPT ![l] = b]
      /\ cut' = ((cut \/ piece) /\ ~whole)
      /\ strayed' = IF piece /\ cut THEN strayed \cup {l} ELSE strayed
      /\ loop' = IF whole THEN [loop EXCEPT !.does = "exec"] ELSE [loop EXCEPT !.n = next]
  BY Zenon DEF Doing, Took, Reading, client, link
<1>2. /\ rbuf \in [Links -> Buffers] /\ in \in [Links -> Seq(Byte)] /\ rio \in [Links -> BOOLEAN]
      /\ \A m \in Links : LinkInv(m)
      /\ loop \in [does : {"read"}, link : {l}, n : {loop.n}]
      /\ o \in Buffers /\ i \in Seq(Byte)
  BY <1>1 DEF LInv, ReadTypes, IInv, LinkTypes
<1>3. LinkInv(l)
  BY <1>2
<1>4. ~err[l] /\ o.wpos = Size(o) /\ loop.n \in Nat
  BY <1>1, <1>3 DEF LinkInv, ReadingOK
<1>5. /\ i = s \o t /\ s \in Seq(Byte) /\ t \in Seq(Byte) /\ Len(s) = n
  <2>1. n \in 0..Len(i) /\ i \in Seq(Byte)
    BY <1>2
  <2> HIDE DEF i
  <2> QED
    BY <2>1, SplitAt, Zenon
<1> HIDE DEF i, s, t
<1>6. b \in Buffers /\ b.buf = o.buf \o s /\ b.wpos = Size(b)
  BY <1>2, <1>4, <1>5, PutAppends
<1>7. /\ Size(b) = Size(o) + n /\ Size(o) \in Nat /\ o.buf \in Seq(Byte) /\ b.buf \in Seq(Byte)
      /\ Size(b) \in Nat
  <2>1. o.buf \in Seq(Byte) /\ b.buf \in Seq(Byte)
    BY <1>2, <1>6 DEF Buffers
  <2>2. Len(o.buf \o s) = Len(o.buf) + Len(s)
    BY <1>5, <2>1, ConcatProperties
  <2> QED
    BY <1>5, <1>6, <2>1, <2>2 DEF Size
<1> HIDE DEF o, b
<1>8. /\ next \in Nat
      /\ Size(b) < HeadLen => next = HeadLen - n
      /\ Size(b) >= HeadLen /\ Size(b) <= Get(b, 0, SizeLen) /\ Get(b, 0, SizeLen) < Wrap
              => Size(b) + next <= Get(b, 0, SizeLen)
  BY <1>6, <1>7, NextLenIs
<1> HIDE DEF next, whole, piece
<1>9. /\ rbuf' \in [Links -> Buffers] /\ rbuf'[l] = b /\ in' \in [Links -> Seq(Byte)] /\ in'[l] = t
      /\ \A m \in Links \ {l} : rbuf'[m] = rbuf[m] /\ in'[m] = in[m]
  BY <1>1, <1>2, <1>5, <1>6
<1>10. /\ loop'.link = l
       /\ whole => loop'.does = "exec"
       /\ ~whole => loop'.does = "read" /\ loop'.n = next
  BY <1>1, <1>2
<1>11. Reading(l)' /\ Part(l) = o.buf /\ Part(l)' = b.buf
  <2>1. Reading(l)'
    BY <1>10 DEF Reading
  <2> QED
    BY <1>1, <1>9, <2>1 DEF Part, o
<1>12. ASSUME NEW m \in Links \ {l} PROVE LinkInv(m)'
  <2>1. ~Reading(m) /\ ~Reading(m)'
    BY <1>1, <1>10, OthersWait
  <2> QED
    BY <1>1, <1>2, <1>9, <2>1, LinkFrame
<1>13. ReadingOK(l)'
  BY <1>1, <1>4, <1>6, <1>8, <1>9, <1>10 DEF ReadingOK, whole
<1>14. Rest(a, k) = o.buf \o i /\ Rest(a, k) = b.buf \o t /\ k <= Len(a)
  <2>1. Rest(a, k) = o.buf \o i /\ k <= Len(a)
    BY <1>3, <1>4, <1>11 DEF LinkInv, StreamOK, i
  <2>2. o.buf \o (s \o t) = (o.buf \o s) \o t
    BY <1>5, <1>7, JoinedBytes, Zenon
  <2> QED
    BY <1>5, <1>6, <2>1, <2>2, Zenon
<1>15. StreamOK(l)'
  <2>1. asked'[l] = a /\ done'[l] = done[l]
    BY <1>1
  <2> QED
    BY <1>9, <1>11, <1>14, <2>1, Zenon DEF StreamOK
<1>16. HeadOK(l)'
  <2> SUFFICES ASSUME ~whole, l \notin strayed'
               PROVE  /\ Size(b) < HeadLen => Size(b) + next = HeadLen
                      /\ Size(b) \in 1..(HeadLen - 1) => cut'
                      /\ Size(b) >= HeadLen => Size(b) + next <= Get(b, 0, SizeLen)
    BY <1>9, <1>10 DEF HeadOK
  <2>1. l \notin strayed /\ ~(piece /\ cut)
    BY <1>1
  <2>2. /\ Size(o) < HeadLen => Size(o) + loop.n = HeadLen
        /\ Size(o) \in 1..(HeadLen - 1) => cut
        /\ Size(o) >= HeadLen => Size(o) + loop.n <= Get(o, 0, SizeLen)
    BY <1>1, <1>3, <2>1 DEF LinkInv, HeadOK, o
  <2>3. HeadLen \in Nat \ {0}
    BY ByteFacts
  <2>4. CASE Size(b) < HeadLen
    <3>1. piece /\ ~cut
      BY <2>1, <2>4 DEF piece
    <3>2. Size(o) = 0
      BY <1>7, <2>2, <2>3, <2>4, <3>1
    <3>3. Size(b) = n /\ next = HeadLen - n
      BY <1>7, <1>8, <2>4, <3>2
    <3>4. cut'
      BY <1>1, <3>1
    <3> QED
      BY <2>3, <2>4, <3>3, <3>4
  <2>5. CASE Size(b) >= HeadLen
    <3> DEFINE m == Len(a[k + 1].body)
    <3>1. AskedOK(a, gone[l]) /\ k \in 0..Len(a)
      <4>1. AskedOK(a, gone[l])
        BY <1>3 DEF LinkInv
      <4>2. Len(a) \in Nat /\ k \in Nat
        BY <4>1 DEF AskedOK, IInv, LinkTypes, IsSeq
      <4> HIDE DEF a, k
      <4> QED
        BY <1>14, <4>1, <4>2
    <3>2. Get(b, 0, SizeLen) = HeadLen + m /\ k < Len(a) /\ a[k + 1] \in Asks
      <4> HIDE DEF a, k
      <4> QED
        BY <1>5, <1>6, <1>14, <2>5, <3>1, FrontPack
    <3>3. Size(o) >= HeadLen => Get(o, 0, SizeLen) = HeadLen + m
      <4>1. i \in Seq(Byte) /\ o \in Buffers
        BY <1>2 DEF i, o
      <4> HIDE DEF a, k
      <4> QED
        BY <1>14, <3>1, <4>1, FrontPack
    <3>4. m \in Nat /\ HeadLen + m < Wrap
      <4>1. k + 1 \in 1..Len(a)
        <5> HIDE DEF a, k
        <5>1. Len(a) \in Nat
          BY <3>1 DEF AskedOK
        <5> QED
          BY <3>1, <3>2, <5>1
      <4>2. Fits(a[k + 1])
        BY <3>1, <4>1 DEF AskedOK
      <4> QED
        BY <3>2, <4>2, AskFacts DEF Fits
    <3> HIDE DEF m
    <3>5. Size(b) <= HeadLen + m
      <4>1. CASE Size(o) < HeadLen
        BY <1>4, <1>7, <2>2, <2>3, <3>4, <4>1
      <4>2. CASE Size(o) >= HeadLen
        BY <1>4, <1>7, <2>2, <2>3, <3>3, <3>4, <4>2
      <4> QED
        BY <1>7, <2>3, <4>1, <4>2
    <3> QED
      BY <1>7, <1>8, <2>3, <2>5, <3>2, <3>4, <3>5
  <2> QED
    BY <1>7, <2>3, <2>4, <2>5
<1>17. LinkInv(l)'
  BY <1>1, <1>3, <1>13, <1>15, <1>16 DEF LinkInv, AskedOK, DoneParsed
<1>18. ReadTypes'
  BY <1>1, <1>2, <1>9 DEF ReadTypes
<1> QED
  BY <1>12, <1>17, <1>18 DEF LInv

LEMMA RecvReads ==
  ASSUME IInv, LInv, NEW l \in Links, Recv(l) \/ \E n \in 1..(loop.n - 1) : RecvShort(l, n)
  PROVE  LInv'
<1>1. Doing("read", l)
  BY DEF Recv, RecvShort
<1>2. in[l] \in Seq(Byte) /\ loop.n \in Nat
  <2>1. Reading(l) /\ loop.does = "read"
    BY <1>1 DEF Doing, Reading
  <2> QED
    BY <2>1 DEF LInv, ReadTypes, LinkInv, ReadingOK
<1> DEFINE c == Len(in[l])
           q == loop.n
<1>3. c \in Nat /\ q \in Nat
  BY <1>2
<1>4. CASE Recv(l)
  <2> DEFINE m == Min({q, c})
  <2>1. Took(l, m)
    BY <1>4 DEF Recv
  <2>2. m \in Nat /\ m <= q /\ m <= c
    <3> HIDE DEF q, c
    <3>1. q \in Int /\ c \in Int
      BY <1>3
    <3>2. m \in {q, c} /\ m <= q /\ m <= c
      BY <3>1, MinOfTwo
    <3> QED
      BY <1>3, <3>2
  <2> HIDE DEF m
  <2> QED
    BY <1>1, <2>1, <2>2, TookReads
<1>5. ASSUME NEW n \in 1..(loop.n - 1), RecvShort(l, n) PROVE LInv'
  <2>1. Took(l, n) /\ n <= Len(in[l])
    BY <1>5 DEF RecvShort
  <2>2. n \in Nat /\ n <= loop.n
    BY <1>3
  <2> QED
    BY <1>1, <2>1, <2>2, TookReads
<1> QED
  BY <1>4, <1>5

LEMMA FailReads ==
  ASSUME IInv, LInv, NEW l \in Links, RecvFails(l) \/ SendFails(l)
  PROVE  LInv'
<1>1. /\ UNCHANGED <<asked, gone, rbuf, done>> /\ loop.link = l /\ loop' = Waiting
      /\ err' = [err EXCEPT ![l] = TRUE] /\ rio' = [rio EXCEPT ![l] = FALSE]
      /\ in' = [in EXCEPT ![l] = <<>>] \/ UNCHANGED in
  BY DEF RecvFails, SendFails, Fails, Closed, Doing, client
<1>2. /\ err \in [Links -> BOOLEAN] /\ rbuf \in [Links -> Buffers]
      /\ in \in [Links -> Seq(Byte)] /\ rio \in [Links -> BOOLEAN]
      /\ \A k \in Links : LinkInv(k)
  BY DEF IInv, LinkTypes, LInv, ReadTypes
<1>3. /\ err'[l] /\ ~rio'[l] /\ rio' \in [Links -> BOOLEAN] /\ in' \in [Links -> Seq(Byte)]
      /\ \A k \in Links \ {l} : err'[k] = err[k] /\ rio'[k] = rio[k] /\ in'[k] = in[k]
  <2>1. in' \in [Links -> Seq(Byte)] /\ \A k \in Links \ {l} : in'[k] = in[k]
    <3>1. <<>> \in Seq(Byte)
      OBVIOUS
    <3> QED
      BY <1>1, <1>2, <3>1
  <2>2. /\ err'[l] /\ ~rio'[l] /\ rio' \in [Links -> BOOLEAN]
        /\ \A k \in Links \ {l} : err'[k] = err[k] /\ rio'[k] = rio[k]
    BY <1>1, <1>2
  <2> QED
    BY <2>1, <2>2
<1>4. ASSUME NEW k \in Links \ {l} PROVE LinkInv(k)'
  <2>1. ~Reading(k) /\ ~Reading(k)'
    BY <1>1, OthersWait
  <2> QED
    BY <1>1, <1>2, <1>3, <2>1, LinkFrame
<1>5. LinkInv(l)'
  <2>1. LinkInv(l)
    BY <1>2
  <2>2. ~Reading(l)'
    BY <1>1 DEF Reading, Waiting
  <2>3. ReadingOK(l)' /\ HeadOK(l)'
    BY <1>3, <2>2 DEF ReadingOK, HeadOK
  <2>4. StreamOK(l)'
    BY <1>1, <1>3, <2>1, Zenon DEF LinkInv, StreamOK
  <2> QED
    BY <1>1, <2>1, <2>3, <2>4 DEF LinkInv, AskedOK, DoneParsed
<1> QED
  BY <1>1, <1>2, <1>3, <1>4, <1>5 DEF LInv, ReadTypes

(* The command that is executed is that of the next request.               *)
LEMMA ExecIs ==
  ASSUME IInv, LInv, NEW l \in Links, Exec(l)
  PROVE  LET k == Len(done[l])
             e == asked[l][k + 1]
             b == HeadRead(rbuf[l])
         IN  /\ k \in Nat /\ k + 1 \in 1..Len(asked[l]) /\ e \in Asks /\ ~err[l]
             /\ Get(b, SizeLen + FlagLen, TypeLen) = e.type
             /\ e.type # Hset => BodyLen(e.type, b) = Len(e.body)
             /\ in[l] = Rest(asked[l], k + 1) /\ b \in Buffers
<1> DEFINE k == Len(done[l])
           a == asked[l]
           e == a[k + 1]
           r == rbuf[l]
           b == HeadRead(r)
<1>1. Reading(l) /\ loop.does = "exec" /\ LinkInv(l) /\ r \in Buffers /\ in[l] \in Seq(Byte)
  BY DEF Exec, Doing, Reading, LInv, ReadTypes
<1>2. ~err[l] /\ Size(r) >= HeadLen /\ Size(r) = Get(r, 0, SizeLen)
  BY <1>1 DEF LinkInv, ReadingOK
<1>3. AskedOK(a, gone[l]) /\ k <= Len(a) /\ Rest(a, k) = r.buf \o in[l]
  BY <1>1, <1>2 DEF LinkInv, StreamOK, Part
<1>4. k \in Nat /\ Len(a) \in Nat
  BY <1>3 DEF AskedOK, IInv, LinkTypes, IsSeq
<1>5. k \in 0..Len(a)
  BY <1>3, <1>4
<1> HIDE DEF a, k
<1>6. /\ k < Len(a) /\ e \in Asks
      /\ Get(r, 0, SizeLen) = HeadLen + Len(e.body)
      /\ Get(r, SizeLen + FlagLen, TypeLen) = e.type
      /\ in[l] = Rest(a, k + 1)
  BY <1>1, <1>2, <1>3, <1>5, FrontPack
<1>7. k + 1 \in 1..Len(a)
  BY <1>4, <1>6
<1>8. b \in Buffers /\ b.buf = r.buf
  <2>1. HeadLen \in Nat
    BY ByteFacts
  <2> HIDE DEF r
  <2> QED
    BY <1>1, <2>1 DEF HeadRead, Advanced, Buffers
<1>9. ASSUME NEW at, NEW w PROVE Get(b, at, w) = Get(r, at, w)
  BY <1>8, Zenon DEF Get, ReadAt, Size
<1>10. ASSUME e.type # Hset PROVE BodyLen(e.type, b) = Len(e.body)
  <2> DEFINE m == Len(e.body)
  <2>1. Fits(e) /\ m \in Nat
    BY <1>3, <1>6, <1>7, AskFacts DEF AskedOK
  <2>2. BodyLen(e.type, b) = (Get(b, 0, SizeLen) - HeadLen) % Wrap
    BY <1>10 DEF BodyLen
  <2>3. BodyLen(e.type, b) = ((HeadLen + m) - HeadLen) % Wrap
    BY <1>6, <1>9, <2>2
  <2>4. HeadLen + m < Wrap
    BY <2>1 DEF Fits
  <2> HIDE DEF m
  <2>5. HeadLen \in Nat /\ Wrap \in Nat \ {0}
    BY ByteFacts
  <2>6. (HeadLen + m) - HeadLen = m /\ m \in 0..(Wrap - 1)
    BY <2>1, <2>4, <2>5
  <2>7. m % Wrap = m
    BY <2>5, <2>6
  <2> QED
    BY <2>3, <2>6, <2>7 DEF m
<1> QED
  BY <1>2, <1>4, <1>6, <1>7, <1>8, <1>9, <1>10, Zenon DEF a, k

LEMMA ExecReads ==
  ASSUME IInv, LInv, NEW l \in Links, Exec(l)
  PROVE  LInv'
<1> DEFINE k == Len(done[l])
           a == asked[l]
           e == a[k + 1]
           b == HeadRead(rbuf[l])
           d == done[l]
           f == done'[l]
           type == Get(b, SizeLen + FlagLen, TypeLen)
           x == [cmd |-> Fetch(type), len |-> BodyLen(type, b)]
<1>1. /\ k \in Nat /\ k + 1 \in 1..Len(a) /\ e \in Asks /\ ~err[l]
      /\ type = e.type
      /\ e.type # Hset => BodyLen(e.type, b) = Len(e.body)
      /\ in[l] = Rest(a, k + 1) /\ b \in Buffers
  BY ExecIs
<1>2. /\ loop.does = "exec" /\ loop.link = l /\ loop' = Waiting
      /\ UNCHANGED <<asked, gone, in, err>>
      /\ \A m \in Links \ {l} : done'[m] = done[m]
      /\ Len(f) = k + 1 /\ \A i \in 1..k : f[i] = d[i]
  BY ExecEffect DEF IInv
<1>3. rbuf' = [rbuf EXCEPT ![l] = b] /\ UNCHANGED rio /\ done' = [done EXCEPT ![l] = Append(@, x)]
  BY DEF Exec, link
<1>4. f[k + 1] = x
  <2>1. done = [m \in Links |-> done[m]] /\ IsSeq(d)
    BY DEF IInv, LinkTypes
  <2> HIDE DEF x
  <2>2. f = Append(d, x)
    BY <1>3, <2>1
  <2> HIDE DEF d, f
  <2>3. Append(d, x)[Len(d) + 1] = x
    BY <2>1, AppendIsSeq
  <2> QED
    BY <2>2, <2>3 DEF d
<1>5. /\ rbuf \in [Links -> Buffers] /\ in \in [Links -> Seq(Byte)] /\ rio \in [Links -> BOOLEAN]
      /\ \A m \in Links : LinkInv(m)
  BY DEF LInv, ReadTypes
<1>6. rbuf' \in [Links -> Buffers] /\ \A m \in Links \ {l} : rbuf'[m] = rbuf[m]
  BY <1>1, <1>3, <1>5
<1>7. ASSUME NEW m \in Links \ {l} PROVE LinkInv(m)'
  <2>1. ~Reading(m) /\ ~Reading(m)'
    BY <1>2, OthersWait
  <2> QED
    BY <1>2, <1>3, <1>5, <1>6, <2>1, LinkFrame
<1>8. LinkInv(l)'
  <2>1. LinkInv(l)
    BY <1>5
  <2>2. ~Reading(l)'
    BY <1>2 DEF Reading, Waiting
  <2>3. ReadingOK(l)' /\ HeadOK(l)'
    BY <1>1, <1>2, <2>2 DEF ReadingOK, HeadOK
  <2>4. StreamOK(l)'
    <3>1. Part(l)' = <<>>
      BY <2>2 DEF Part
    <3>2. <<>> \o in[l] = in[l]
      <4>1. in[l] \in Seq(Byte)
        BY <1>5
      <4> QED
        BY <4>1, ConcatEmptySeq
    <3>3. k + 1 <= Len(a)
      BY <1>1
    <3>4. asked'[l] = a /\ in'[l] = in[l]
      BY <1>2
    <3> QED
      BY <1>1, <1>2, <3>1, <3>2, <3>3, <3>4, Zenon DEF StreamOK
  <2>5. DoneParsed(a, f)
    <3> SUFFICES ASSUME NEW i \in 1..(k + 1)
                 PROVE  /\ f[i].cmd = Fetch(a[i].type)
                        /\ a[i].type # Hset => f[i].len = Len(a[i].body)
      BY <1>2 DEF DoneParsed
    <3>1. CASE i \in 1..k
      BY <1>2, <2>1, <3>1 DEF LinkInv, DoneParsed
    <3>2. CASE i = k + 1
      <4>1. f[i] = x /\ a[i] = e
        BY <1>4, <3>2
      <4>2. x.cmd = Fetch(e.type) /\ x.len = BodyLen(e.type, b)
        BY <1>1
      <4> QED
        BY <1>1, <4>1, <4>2
    <3> QED
      BY <1>1, <3>1, <3>2
  <2> QED
    BY <1>2, <2>1, <2>3, <2>4, <2>5 DEF LinkInv, AskedOK, DoneParsed
<1> QED
  BY <1>2, <1>3, <1>5, <1>6, <1>7, <1>8 DEF LInv, ReadTypes

LEMMA WriteReads ==
  ASSUME IInv, LInv, NEW l \in Links, OnWrite(l) \/ SendKills(l) \/ \E n : Send(l, n)
  PROVE  LInv'
<1>1. UNCHANGED <<asked, gone, in, err, done, rbuf, rio>>
  BY DEF OnWrite, SendKills, Send, client, link
<1>2. ASSUME NEW k \in Links PROVE ~Reading(k) /\ ~Reading(k)'
  <2>1. CASE OnWrite(l)
    BY <2>1 DEF OnWrite, Reading, Waiting
  <2>2. CASE SendKills(l)
    BY <2>2 DEF SendKills, Reading, Doing
  <2>3. ASSUME NEW n, Send(l, n) PROVE ~Reading(k) /\ ~Reading(k)'
    <3>1. /\ loop.does = "write"
          /\ loop' = Waiting \/ loop' = [loop EXCEPT !.n = loop.n + n]
      BY <2>3, SendEffect DEF IInv
    <3>2. loop \in [does : {"wait", "read", "exec", "write"}, link : Links \cup {Nobody},
                    n : {loop.n}]
      BY DEF IInv, LinkTypes
    <3>3. loop'.does \in {"wait", "write"}
      BY <3>1, <3>2 DEF Waiting
    <3> QED
      BY <3>1, <3>3 DEF Reading
  <2> QED
    BY <2>1, <2>2, <2>3
<1> QED
  BY <1>1, <1>2, StayStep

LEMMA LInvInit == Init => LInv
<1> SUFFICES ASSUME Init PROVE LInv
  OBVIOUS
<1>1. /\ NewBytes \in Buffers /\ <<>> \in Seq(Byte) /\ <<>> \in Seq(Asks) /\ Len(<<>>) = 0
  BY DEF NewBytes, Buffers
<1>2. ReadTypes
  BY <1>1 DEF Init, ReadTypes
<1>3. ASSUME NEW l \in Links PROVE LinkInv(l)
  <2>1. /\ asked[l] = <<>> /\ in[l] = <<>> /\ done[l] = <<>> /\ ~err[l] /\ ~Reading(l)
    BY DEF Init, Reading, Waiting
  <2>2. AskedOK(asked[l], gone[l]) /\ DoneParsed(asked[l], done[l])
    BY <1>1, <2>1 DEF AskedOK, DoneParsed
  <2>3. ReadingOK(l) /\ HeadOK(l)
    BY <2>1 DEF ReadingOK, HeadOK
  <2>4. StreamOK(l)
    <3>1. Rest(asked[l], Len(asked[l])) = <<>>
      BY <1>1, <2>1, RestNone
    <3>2. Part(l) = <<>> /\ <<>> \o <<>> = <<>>
      BY <2>1 DEF Part
    <3>3. Len(done[l]) <= Len(asked[l]) /\ Len(done[l]) = Len(asked[l])
      BY <1>1, <2>1
    <3> QED
      BY <2>1, <3>1, <3>2, <3>3, Zenon DEF StreamOK
  <2> QED
    BY <2>2, <2>3, <2>4 DEF LinkInv
<1> QED
  BY <1>2, <1>3 DEF LInv

LEMMA LInvStep == IInv /\ LInv /\ [Next]_vars => LInv'
<1> SUFFICES ASSUME IInv, LInv, [Next]_vars PROVE LInv'
  OBVIOUS
<1>1. CASE UNCHANGED vars
  <2>1. UNCHANGED <<asked, gone, in, err, done, rbuf, rio, loop, cut, strayed>>
    BY <1>1 DEF vars, client, link
  <2> QED
    BY <2>1, StayStep
<1>2. CASE LoopStep
  BY <1>2, RecvReads, FailReads, ExecReads, WriteReads DEF LoopStep
<1>3. ASSUME NEW l \in Links,
             \/ Accept(l) \/ Hang(l) \/ OnRead(l) \/ OnWrite(l) \/ SendKills(l)
             \/ \E r \in Requests[l] : \E n \in Cuts \cup {HeadLen + Len(r.body)} : Ask(l, r, n)
             \/ \E n \in 1..(loop.n - 1) : RecvShort(l, n)
      PROVE  LInv'
  BY <1>3, AcceptReads, HangReads, OnReadReads, WriteReads, AskReads, RecvReads
<1> QED
  BY <1>1, <1>2, <1>3 DEF Next

LEMMA LInvAlways == Spec => [](IInv /\ LInv)
  BY InvInit, InvStep, LInvInit, LInvStep, PTL DEF Spec

(* The commands executed for a client are those it asked for, in order,    *)
(* and each but HSET gives to ParseFromArray exactly the body of its own   *)
(* pack, however the bytes arrive, also when the head comes in many pieces *)
(* and read_ asks for too much (client_link.cpp onRead, connection.cpp     *)
(* read_, pack.cpp deSerialize).                                           *)
THEOREM CommandsAreRequests == Spec => []ParsesOwnBody
<1>1. LInv => ParsesOwnBody
  BY DEF LInv, LinkInv, DoneParsed, ParsesOwnBody
<1> QED
  BY <1>1, LInvAlways, PTL

(* read_ takes one pack from the socket and nothing of the next, if the    *)
(* head came in at most two pieces (connection.cpp read_).                 *)
THEOREM ReadsOnePack == Spec => []OnePack
<1>1. IInv /\ LInv => OnePack
  <2> SUFFICES ASSUME IInv, LInv, NEW l \in Links \ strayed, ~err[l]
               PROVE  LET k == Len(done[l])
                          before == FlattenSeq([i \in 1..k |-> asked[l][i].cells])
                          reading == loop.link = l /\ loop.does \in {"read", "exec"}
                          part == IF reading THEN rbuf[l].buf ELSE <<>>
                          all == FlattenSeq([i \in 1..Len(asked[l]) |-> asked[l][i].cells])
                      IN  /\ all = before \o part \o in[l]
                          /\ reading /\ k < Len(asked[l]) => IsPrefix(part, asked[l][k + 1].cells)
    BY Zenon DEF OnePack
  <2> DEFINE a == asked[l]
             k == Len(done[l])
             before == FlattenSeq([i \in 1..k |-> a[i].cells])
             part == Part(l)
             i == in[l]
             all == FlattenSeq([j \in 1..Len(a) |-> a[j].cells])
  <2>1. /\ LinkInv(l) /\ rbuf[l] \in Buffers /\ part \in Seq(Byte) /\ i \in Seq(Byte)
    BY PartType DEF LInv, ReadTypes
  <2>2. AskedOK(a, gone[l]) /\ k <= Len(a) /\ Rest(a, k) = part \o i
    BY <2>1 DEF LinkInv, StreamOK
  <2>3. a \in Seq(Asks) /\ Len(a) \in Nat /\ k \in Nat /\ k \in 0..Len(a)
    <3>1. a \in Seq(Asks) /\ Len(a) \in Nat /\ k \in Nat
      BY <2>2 DEF AskedOK, IInv, LinkTypes, IsSeq
    <3> HIDE DEF a, k
    <3> QED
      BY <2>2, <3>1
  <2>4. all = (before \o part) \o i
    <3>1. all = before \o Rest(a, k) /\ before \in Seq(Byte)
      <4> HIDE DEF a, k
      <4> QED
        BY <2>3, RestAll
    <3> QED
      <4>1. (before \o part) \o i = before \o (part \o i)
        <5> HIDE DEF before, part, i
        <5> QED
          BY <2>1, <3>1, JoinedBytes, Zenon
      <4> QED
        BY <2>2, <3>1, <4>1, Zenon
  <2>5. ASSUME Reading(l), k < Len(a) PROVE IsPrefix(part, a[k + 1].cells)
    <3> DEFINE f == a[k + 1].cells
               t == Rest(a, k + 1)
               m == Len(part)
    <3>1. Rest(a, k) = f \o t /\ a[k + 1] \in Asks /\ f \in Seq(Byte) /\ t \in Seq(Byte)
      <4> HIDE DEF a, k
      <4>1. k \in 0..(Len(a) - 1)
        BY <2>3, <2>5
      <4> QED
        BY <2>3, <4>1, RestNext
    <3>2. part = rbuf[l].buf /\ m = Size(rbuf[l]) /\ m \in Nat
      BY <2>1, <2>5 DEF Part, Size
    <3>3. m <= Len(f)
      <4>1. CASE m >= HeadLen
        <5>1. /\ Len(f) = HeadLen + Len(a[k + 1].body)
              /\ Get(rbuf[l], 0, SizeLen) = HeadLen + Len(a[k + 1].body)
          <6> HIDE DEF a, k
          <6> QED
            BY <2>1, <2>2, <2>3, <3>2, <4>1, FrontPack
        <5>2. CASE loop.does = "exec"
          <6>1. Size(rbuf[l]) = Get(rbuf[l], 0, SizeLen)
            BY <2>1, <2>5, <5>2 DEF LinkInv, ReadingOK
          <6> HIDE DEF m, f
          <6> QED
            BY <3>2, <5>1, <6>1
        <5>3. CASE loop.does = "read"
          <6>1. /\ loop.n \in Nat
                /\ Size(rbuf[l]) >= HeadLen => Size(rbuf[l]) + loop.n <= Get(rbuf[l], 0, SizeLen)
            BY <2>1, <2>5, <5>3 DEF LinkInv, HeadOK, ReadingOK
          <6>2. Len(f) \in Nat
            BY <3>1, SMTT(30)
          <6> HIDE DEF m, f
          <6> QED
            BY <3>2, <4>1, <5>1, <6>1, <6>2
        <5> QED
          BY <2>5, <5>2, <5>3 DEF Reading
      <4>2. CASE m < HeadLen
        <5>1. Fits(a[k + 1]) /\ (Whole(a[k + 1]) \/ k + 1 = Len(a))
          <6>1. k + 1 \in 1..Len(a)
            <7> HIDE DEF a, k
            <7> QED
              BY <2>3, <2>5
          <6> QED
            BY <2>2, <6>1 DEF AskedOK
        <5>2. CASE Whole(a[k + 1])
          <6> DEFINE e == a[k + 1]
          <6>1. f = PackOf(e.type, e.body)
            BY <5>2 DEF Whole
          <6>2. Len(f) = HeadLen + Len(e.body) /\ Len(e.body) \in Nat
            <7> HIDE DEF e
            <7>1. e \in Asks
              BY <3>1 DEF e
            <7> QED
              BY <6>1, <7>1, AskFacts, PackIs
          <6>3. HeadLen \in Nat
            BY ByteFacts
          <6> HIDE DEF e, m, f
          <6> QED
            BY <3>2, <4>2, <6>2, <6>3
        <5>3. CASE k + 1 = Len(a)
          <6>1. t = <<>>
            BY <2>3, <5>3, RestNone
          <6>2. part \o i = f /\ Len(part \o i) = Len(part) + Len(i)
            <7>1. part \o i = f \o t
              BY <2>2, <3>1
            <7> HIDE DEF f, t, part, i
            <7>2. f \o <<>> = f
              BY <3>1, ConcatEmptySeq
            <7>3. Len(part \o i) = Len(part) + Len(i)
              BY <2>1, ConcatIs
            <7> QED
              BY <6>1, <7>1, <7>2, <7>3, Zenon
          <6>3. Len(i) \in Nat
            BY <2>1
          <6> DEFINE c == Len(f)
                     g == Len(i)
          <6>4. c = m + g /\ g \in Nat
            BY <6>2, <6>3
          <6> HIDE DEF c, g, m
          <6>5. m <= c
            BY <3>2, <6>4
          <6> QED
            BY <6>5 DEF c
        <5> QED
          BY <5>1, <5>2, <5>3
      <4> QED
        <5>1. HeadLen \in Nat
          BY ByteFacts
        <5> QED
          BY <3>2, <4>1, <4>2, <5>1
    <3>4. part \o i = f \o t
      BY <2>2, <3>1
    <3> HIDE DEF f, t, part, i
    <3> QED
      BY <2>1, <3>1, <3>3, <3>4, ShorterFront DEF m, f
  <2> QED
    BY <2>4, <2>5, Zenon DEF Part, Reading
<1> QED
  BY <1>1, LInvAlways, PTL

-----------------------------------------------------------------------------
(* The replies.  Each request is answered by two units or by none.         *)
LEMMA AnswerType ==
  ASSUME NEW l \in Links, NEW e, NEW i \in Nat
  PROVE  (IF e.type \in Silent THEN <<>> ELSE Reply(l, i)) \in Seq(Unit)
<1>1. Reply(l, i) \in Seq(Unit)
  BY DEF Reply, Unit
<1>2. <<>> \in Seq(Unit)
  OBVIOUS
<1> QED
  BY <1>1, <1>2

LEMMA RepliesType ==
  ASSUME NEW l \in Links, NEW a, NEW k \in Nat
  PROVE  LET c == [i \in 1..k |-> IF a[i].type \in Silent THEN <<>> ELSE Reply(l, i)]
         IN  /\ c \in Seq(Seq(Unit)) /\ Len(c) = k
             /\ RepliesTo(l, a, k) = FlattenSeq(c) /\ RepliesTo(l, a, k) \in Seq(Unit)
<1> DEFINE x(i) == IF a[i].type \in Silent THEN <<>> ELSE Reply(l, i)
           c == [i \in 1..k |-> x(i)]
<1>1. \A i \in 1..k : x(i) \in Seq(Unit)
  BY AnswerType
<1> HIDE DEF x
<1>2. c \in Seq(Seq(Unit)) /\ Len(c) = k
  BY <1>1
<1>3. RepliesTo(l, a, k) = FlattenSeq(c)
  BY DEF RepliesTo, x
<1> HIDE DEF c
<1>4. FlattenSeq(c) \in Seq(Unit)
  BY <1>2, FlattenType
<1> QED
  BY <1>2, <1>3, <1>4 DEF c, x

LEMMA RepliesNone ==
  ASSUME NEW l, NEW a
  PROVE  RepliesTo(l, a, 0) = <<>>
<1> DEFINE c == [i \in 1..0 |-> IF a[i].type \in Silent THEN <<>> ELSE Reply(l, i)]
<1>1. c = <<>>
  OBVIOUS
<1> QED
  BY <1>1, FlattenEmpty DEF RepliesTo

LEMMA RepliesNext ==
  ASSUME NEW l \in Links, NEW a, NEW k \in Nat
  PROVE  RepliesTo(l, a, k + 1)
           = RepliesTo(l, a, k) \o (IF a[k + 1].type \in Silent THEN <<>> ELSE Reply(l, k + 1))
<1> DEFINE x(i) == IF a[i].type \in Silent THEN <<>> ELSE Reply(l, i)
           c == [i \in 1..k |-> x(i)]
           d == [i \in 1..(k + 1) |-> x(i)]
           f == x(k + 1)
<1>1. /\ c \in Seq(Seq(Unit)) /\ Len(c) = k /\ RepliesTo(l, a, k) = FlattenSeq(c)
  BY RepliesType
<1>2. /\ d \in Seq(Seq(Unit)) /\ Len(d) = k + 1 /\ RepliesTo(l, a, k + 1) = FlattenSeq(d)
  <2>1. k + 1 \in Nat
    OBVIOUS
  <2> QED
    BY <2>1, RepliesType
<1>3. f \in Seq(Unit)
  BY AnswerType
<1> HIDE DEF x
<1>4. d[k + 1] = f /\ \A i \in 1..k : d[i] = c[i]
  OBVIOUS
<1> DEFINE y == Append(c, f)
<1> HIDE DEF c, d, f
<1>5. /\ y \in Seq(Seq(Unit)) /\ Len(y) = k + 1 /\ y[k + 1] = f /\ \A i \in 1..k : y[i] = c[i]
  <2>1. /\ y \in Seq(Seq(Unit)) /\ Len(y) = Len(c) + 1 /\ y[Len(c) + 1] = f
        /\ \A j \in 1..Len(c) : y[j] = c[j]
    BY <1>1, <1>3, AppendProperties
  <2> QED
    BY <1>1, <2>1, Zenon
<1> HIDE DEF y
<1>6. \A i \in 1..(k + 1) : d[i] = y[i]
  <2>1. \A i \in 1..(k + 1) : i \in 1..k \/ i = k + 1
    OBVIOUS
  <2> QED
    BY <1>4, <1>5, <2>1, Zenon
<1>7. d = y
  BY <1>2, <1>5, <1>6, SeqEqual
<1>8. FlattenSeq(y) = FlattenSeq(c) \o f
  BY <1>1, <1>3, FlattenAppend DEF y
<1> QED
  BY <1>1, <1>2, <1>7, <1>8 DEF f, x

LEMMA RepliesSame ==
  ASSUME NEW l, NEW a, NEW b, NEW k, \A i \in 1..k : b[i] = a[i]
  PROVE  RepliesTo(l, b, k) = RepliesTo(l, a, k)
<1> DEFINE x(e, i) == IF e.type \in Silent THEN <<>> ELSE Reply(l, i)
<1> HIDE DEF x
<1>1. [i \in 1..k |-> x(b[i], i)] = [i \in 1..k |-> x(a[i], i)]
  OBVIOUS
<1> QED
  BY <1>1 DEF RepliesTo, x

(* More requests only add to the replies.                                  *)
LEMMA RepliesPrefix ==
  ASSUME NEW l \in Links, NEW a, NEW n \in Nat, NEW k \in 0..n
  PROVE  IsPrefix(RepliesTo(l, a, k), RepliesTo(l, a, n))
<1> DEFINE x(i) == IF a[i].type \in Silent THEN <<>> ELSE Reply(l, i)
           c == [i \in 1..k |-> x(i)]
           d == [i \in 1..n |-> x(i)]
<1>k. k \in Nat
  OBVIOUS
<1>1. /\ c \in Seq(Seq(Unit)) /\ Len(c) = k /\ RepliesTo(l, a, k) = FlattenSeq(c)
  BY <1>k, RepliesType
<1>2. /\ d \in Seq(Seq(Unit)) /\ Len(d) = n /\ RepliesTo(l, a, n) = FlattenSeq(d)
  BY RepliesType
<1> HIDE DEF x
<1>3. \A i \in 1..k : d[i] = c[i]
  OBVIOUS
<1> HIDE DEF c, d
<1> DEFINE y == SubSeq(d, 1, k)
           z == SubSeq(d, k + 1, Len(d))
<1>4. k \in 0..Len(d)
  BY <1>2
<1>5. y \in Seq(Seq(Unit)) /\ Len(y) = k /\ \A i \in 1..k : y[i] = d[i]
  BY <1>2, <1>4, SplitAt
<1>6. /\ FlattenSeq(d) = FlattenSeq(y) \o FlattenSeq(z)
      /\ FlattenSeq(y) \in Seq(Unit) /\ FlattenSeq(z) \in Seq(Unit)
  BY <1>2, <1>4, FlattenSplit
<1> HIDE DEF y, z
<1>7. y = c
  BY <1>1, <1>3, <1>5, SeqEqual
<1>8. IsPrefix(FlattenSeq(y), FlattenSeq(y) \o FlattenSeq(z))
  BY <1>6, FrontIsPrefix
<1> QED
  BY <1>1, <1>2, <1>6, <1>7, <1>8, Zenon

LEMMA JoinedUnits ==
  \A p, q, r \in Seq(Unit) : (p \o q) \o r = p \o (q \o r) /\ p \o q \in Seq(Unit)
<1> TAKE p, q, r \in Seq(Unit)
<1>1. (p \o q) \o r = p \o (q \o r)
  BY ConcatAssociative
<1>2. p \o q \in Seq(Unit)
  BY ConcatIs
<1> QED
  BY <1>1, <1>2

LEMMA RepliedFrame ==
  ASSUME NEW k, Replied(k), UNCHANGED <<done[k], out[k], wbuf[k], Sent(k)>>,
         err'[k] \/ ~err[k], \A i \in 1..Len(done[k]) : asked'[k][i] = asked[k][i]
  PROVE  Replied(k)'
<1>1. RepliesTo(k, asked'[k], Len(done[k])) = RepliesTo(k, asked[k], Len(done[k]))
  BY RepliesSame
<1> QED
  BY <1>1 DEF Replied

(* A send moves units from the front of what is to be written to the end   *)
(* of what was received.                                                   *)
LEMMA MoveUnits ==
  \A o, w \in Seq(Unit) : \A q, n \in Nat :
    q + n <= Len(w) =>
      /\ o \o SubSeq(w, q + 1, Len(w))
           = (o \o SubSeq(w, q + 1, q + n)) \o SubSeq(w, (q + n) + 1, Len(w))
      /\ SubSeq(w, (q + n) + 1, Len(w)) \in Seq(Unit)
      /\ o \o SubSeq(w, q + 1, q + n) \in Seq(Unit)
      /\ q + n = Len(w) => SubSeq(w, (q + n) + 1, Len(w)) = <<>>
<1> TAKE o, w \in Seq(Unit)
<1> TAKE q, n \in Nat
<1> HAVE q + n <= Len(w)
<1> DEFINE m == Len(w)
           u == SubSeq(w, q + 1, m)
           x == SubSeq(w, q + 1, q + n)
           z == SubSeq(w, (q + n) + 1, m)
           y == x \o z
<1>1. m \in Nat /\ q \in 0..m /\ q + n \in 0..m /\ m - q \in Nat /\ m - (q + n) \in Nat
  OBVIOUS
<1>2. u \in Seq(Unit) /\ Len(u) = m - q /\ \A i \in 1..(m - q) : u[i] = w[q + i]
  BY <1>1, SplitAt
<1>3. /\ z \in Seq(Unit) /\ Len(z) = m - (q + n)
      /\ \A i \in 1..(m - (q + n)) : z[i] = w[(q + n) + i]
  BY <1>1, SplitAt
<1>4. x \in Seq(Unit) /\ Len(x) = n /\ \A i \in 1..n : x[i] = w[q + i]
  BY PartOf
<1> HIDE DEF m, u, x, z
<1>5. /\ y \in Seq(Unit) /\ Len(y) = Len(x) + Len(z)
      /\ \A i \in 1..Len(x) : y[i] = x[i]
      /\ \A i \in 1..Len(z) : y[Len(x) + i] = z[i]
  <2>1. x \in Seq(Unit) /\ z \in Seq(Unit)
    BY <1>3, <1>4
  <2> QED
    BY <2>1, ConcatIs
<1> HIDE DEF y
<1>6. Len(y) = m - q
  BY <1>1, <1>3, <1>4, <1>5
<1>7. ASSUME NEW i \in 1..(m - q) PROVE y[i] = u[i]
  <2>1. CASE i \in 1..n
    BY <1>2, <1>4, <1>5, <2>1
  <2>2. CASE i > n
    <3>1. /\ i - n \in 1..(m - (q + n)) /\ n + (i - n) = i /\ (q + n) + (i - n) = q + i
      BY <1>1, <2>2
    <3>2. y[n + (i - n)] = z[i - n]
      BY <1>3, <1>4, <1>5, <3>1
    <3>3. z[i - n] = w[(q + n) + (i - n)]
      BY <1>3, <3>1
    <3> QED
      BY <1>2, <3>1, <3>2, <3>3
  <2> QED
    BY <1>1, <2>1, <2>2
<1>8. y = u
  BY <1>2, <1>5, <1>6, <1>7, SeqEqual
<1>9. o \o y = (o \o x) \o z /\ o \o x \in Seq(Unit)
  <2>1. x \in Seq(Unit) /\ z \in Seq(Unit)
    BY <1>3, <1>4
  <2> QED
    BY <2>1, JoinedUnits, Zenon DEF y
<1>10. q + n = m => z = <<>>
  BY <1>1, <1>3, EmptySeq
<1> QED
  BY <1>3, <1>8, <1>9, <1>10 DEF m, u, x, z

LEMMA SendReplies ==
  ASSUME IInv, NEW l \in Links, Replied(l), NEW n, Send(l, n)
  PROVE  Replied(l)'
<1>i. LinkTypes /\ OwnSockets
  BY DEF IInv
<1> DEFINE o == out[l]
           w == wbuf[l]
           q == loop.n
           r == RepliesTo(l, asked[l], Len(done[l]))
           x == SubSeq(w, q + 1, q + n)
           z == SubSeq(w, (q + n) + 1, Len(w))
<1>1. /\ loop.does = "write" /\ loop.link = l /\ q \in Nat
      /\ n \in 1..(Len(w) - q) /\ ~err[l] /\ w \in Seq(Unit) /\ o \in Seq(Unit)
      /\ UNCHANGED <<asked, err, done>>
      /\ out'[l] = o \o x
      /\ \/ /\ q + n = Len(w) /\ loop' = Waiting
            /\ wbuf' = [wbuf EXCEPT ![l] = <<>>]
         \/ /\ q + n < Len(w) /\ loop' = [loop EXCEPT !.n = loop.n + n]
            /\ UNCHANGED wbuf
  BY <1>i, SendEffect
<1>2. /\ wbuf \in [Links -> Seq(Unit)]
      /\ loop \in [does : {"wait", "read", "exec", "write"}, link : Links \cup {Nobody},
                   n : {loop.n}]
  BY <1>i DEF LinkTypes
<1>3. Sent(l) = q
  BY <1>1 DEF Sent
<1>4. r = o \o SubSeq(w, q + 1, Len(w))
  BY <1>1, <1>3 DEF Replied
<1>5. /\ r = (o \o x) \o z /\ z \in Seq(Unit) /\ o \o x \in Seq(Unit)
      /\ q + n = Len(w) => z = <<>>
  <2> DEFINE m == Len(w)
  <2>1. q \in Nat /\ n \in 1..(m - q) /\ w \in Seq(Unit) /\ o \in Seq(Unit)
    BY <1>1, Zenon
  <2>2. m \in Nat
    BY <2>1, LenProperties
  <2>3. m \in Nat /\ q \in Nat /\ n \in 1..(m - q) /\ w \in Seq(Unit) /\ o \in Seq(Unit)
    BY <2>1, <2>2, Zenon
  <2> HIDE DEF o, w, q, r, m
  <2>4. n \in Nat /\ q + n <= m
    BY <2>3
  <2>5. q + n <= Len(w)
    BY <2>4 DEF m
  <2>6. /\ o \o SubSeq(w, q + 1, Len(w)) = (o \o x) \o z
        /\ z \in Seq(Unit) /\ o \o x \in Seq(Unit)
        /\ q + n = Len(w) => z = <<>>
    <3>1. q \in Nat /\ n \in Nat /\ w \in Seq(Unit) /\ o \in Seq(Unit)
      BY <2>3, <2>4
    <3>2. \A j, k \in Nat :
            j + k <= Len(w) =>
              /\ o \o SubSeq(w, j + 1, Len(w))
                   = (o \o SubSeq(w, j + 1, j + k)) \o SubSeq(w, (j + k) + 1, Len(w))
              /\ SubSeq(w, (j + k) + 1, Len(w)) \in Seq(Unit)
              /\ o \o SubSeq(w, j + 1, j + k) \in Seq(Unit)
              /\ j + k = Len(w) => SubSeq(w, (j + k) + 1, Len(w)) = <<>>
      BY <3>1, MoveUnits, Zenon
    <3> QED
      BY <2>5, <3>1, <3>2, Zenon
  <2> QED
    BY <1>4, <2>6, Zenon
<1>6. SubSeq(wbuf'[l], Sent(l)' + 1, Len(wbuf'[l])) = z
  <2>1. CASE q + n = Len(w) /\ loop' = Waiting /\ wbuf' = [wbuf EXCEPT ![l] = <<>>]
    <3>1. wbuf'[l] = <<>> /\ Sent(l)' = 0
      BY <1>2, <2>1 DEF Sent, Waiting
    <3>2. SubSeq(<<>>, 0 + 1, Len(<<>>)) = <<>>
      OBVIOUS
    <3>3. z = <<>>
      BY <1>5, <2>1
    <3> QED
      BY <3>1, <3>2, <3>3, Zenon
  <2>2. CASE q + n < Len(w) /\ loop' = [loop EXCEPT !.n = loop.n + n] /\ UNCHANGED wbuf
    <3>1. loop'.does = "write" /\ loop'.link = l /\ loop'.n = q + n /\ wbuf'[l] = w
      BY <1>1, <1>2, <2>2
    <3>2. Sent(l)' = q + n
      BY <3>1 DEF Sent
    <3> QED
      BY <3>1, <3>2, Zenon
  <2> QED
    BY <1>1, <2>1, <2>2
<1>7. IsPrefix(o \o x, r)
  <2>1. IsPrefix(o \o x, (o \o x) \o z)
    <3> HIDE DEF x, z, o
    <3> QED
      BY <1>5, FrontIsPrefix
  <2> QED
    BY <1>5, <2>1
<1>8. RepliesTo(l, asked'[l], Len(done'[l])) = r
  BY <1>1
<1> QED
  BY <1>1, <1>5, <1>6, <1>7, <1>8, Zenon DEF Replied

LEMMA ExecReplies ==
  ASSUME IInv, LInv, NEW l \in Links, Replied(l), Exec(l)
  PROVE  Replied(l)'
<1>i. LinkTypes
  BY DEF IInv
<1> DEFINE k == Len(done[l])
           a == asked[l]
           o == out[l]
           w == wbuf[l]
           v == wbuf'[l]
           x == IF a[k + 1].type \in Silent THEN <<>> ELSE Reply(l, k + 1)
           type == Get(HeadRead(rbuf[l]), SizeLen + FlagLen, TypeLen)
<1>1. k \in Nat /\ ~err[l] /\ type = a[k + 1].type
  BY ExecIs
<1>2. /\ loop.does = "exec" /\ loop.link = l /\ loop' = Waiting
      /\ UNCHANGED <<asked, out, err>> /\ Len(done'[l]) = k + 1
  BY <1>i, ExecEffect
<1>3. o \in Seq(Unit) /\ w \in Seq(Unit) /\ wbuf \in [Links -> Seq(Unit)]
  BY <1>i DEF LinkTypes
<1>4. x \in Seq(Unit)
  <2>1. k + 1 \in Nat
    BY <1>1
  <2> QED
    BY <2>1, AnswerType
<1>5. v = w \o x
  <2>1. ExecSilent(l, type) \/ ExecReply(l, type)
    BY DEF Exec
  <2> HIDE DEF type
  <2>2. CASE ExecSilent(l, type)
    <3>1. wbuf' = wbuf /\ x = <<>>
      BY <1>1, <2>2 DEF ExecSilent
    <3>2. w \o <<>> = w
      BY <1>3, ConcatEmptySeq
    <3> QED
      BY <3>1, <3>2, Zenon
  <2>3. CASE ExecReply(l, type)
    <3>1. x = Reply(l, k + 1) /\ wbuf' = [wbuf EXCEPT ![l] = @ \o Reply(l, k + 1)]
      BY <1>1, <2>3 DEF ExecReply, SendMsg
    <3> QED
      BY <1>3, <3>1
  <2> QED
    BY <2>1, <2>2, <2>3
<1>6. Sent(l) = 0 /\ Sent(l)' = 0
  BY <1>2 DEF Sent, Waiting
<1>7. ASSUME NEW s \in Seq(Unit) PROVE SubSeq(s, 0 + 1, Len(s)) = s
  <2>1. SubSeq(s, 1, Len(s)) = s
    BY SubSeqFull
  <2> QED
    BY <2>1
<1>8. RepliesTo(l, a, k) = o \o w
  BY <1>1, <1>3, <1>6, <1>7 DEF Replied
<1>9. RepliesTo(l, a, k + 1) = RepliesTo(l, a, k) \o x
  BY <1>1, RepliesNext
<1> HIDE DEF k, a, o, w, v, x
<1>10. RepliesTo(l, a, k + 1) = o \o v /\ v \in Seq(Unit)
  <2>1. o \in Seq(Unit) /\ w \in Seq(Unit)
    BY <1>3
  <2>2. (o \o w) \o x = o \o (w \o x) /\ w \o x \in Seq(Unit)
    BY <1>4, <2>1, JoinedUnits, Zenon
  <2> QED
    BY <1>5, <1>8, <1>9, <2>2
<1>11. IsPrefix(o, o \o v)
  BY <1>3, <1>10, FrontIsPrefix
<1>12. SubSeq(v, 0 + 1, Len(v)) = v
  BY <1>7, <1>10
<1>13. asked'[l] = a /\ out'[l] = o /\ wbuf'[l] = v /\ Len(done'[l]) = k + 1
  BY <1>2 DEF a, o, v
<1> QED
  BY <1>6, <1>10, <1>11, <1>12, <1>13, Zenon DEF Replied

LEMMA RepliedStep ==
  ASSUME IInv, LInv, [Next]_vars, NEW k \in Links, Replied(k)
  PROVE  Replied(k)'
<1>i. LinkTypes
  BY DEF IInv
<1> USE DEF client, link
<1>1. CASE UNCHANGED vars
  BY <1>1, RepliedFrame DEF vars, Sent
<1>2. ASSUME NEW l \in Links, Accept(l) \/ Hang(l) \/ SendKills(l) PROVE Replied(k)'
  <2>1. UNCHANGED <<asked, done, out, wbuf, err, loop>>
    BY <1>2 DEF Accept, Hang, SendKills
  <2> QED
    BY <2>1, RepliedFrame DEF Sent
<1>3. ASSUME NEW l \in Links, NEW r \in Requests[l], NEW n \in Nat, Ask(l, r, n)
      PROVE  Replied(k)'
  <2> DEFINE e == [type |-> r.type, body |-> r.body, cells |-> SubSeq(PackOf(r.type, r.body), 1, n)]
  <2>1. /\ UNCHANGED <<done, out, wbuf, err, loop>>
        /\ asked' = [asked EXCEPT ![l] = Append(@, e)]
    BY <1>3 DEF Ask
  <2> HIDE DEF e
  <2>2. asked = [j \in Links |-> asked[j]] /\ IsSeq(asked[k])
    BY <1>i DEF LinkTypes
  <2>3. asked'[k] = asked[k] \/ asked'[k] = Append(asked[k], e)
    BY <2>1, <2>2
  <2>4. Len(done[k]) <= Len(asked[k]) /\ Len(done[k]) \in Nat /\ Len(asked[k]) \in Nat
    BY <1>i DEF LInv, LinkInv, StreamOK, LinkTypes, IsSeq
  <2> DEFINE a == asked[k]
             m == Len(done[k])
  <2>5. \A i \in 1..Len(a) : Append(a, e)[i] = a[i]
    BY <2>2, AppendIsSeq
  <2>6. \A i \in 1..m : i \in 1..Len(a)
    <3> DEFINE p == Len(a)
    <3> HIDE DEF m, p
    <3>1. m \in Nat /\ p \in Nat /\ m <= p
      BY <2>4 DEF m, p
    <3>2. \A i \in 1..m : i \in 1..p
      BY <3>1
    <3> QED
      BY <3>2 DEF p
  <2>7. \A i \in 1..m : asked'[k][i] = asked[k][i]
    BY <2>3, <2>5, <2>6, Zenon
  <2>8. UNCHANGED Sent(k)
    BY <2>1 DEF Sent
  <2> QED
    BY <2>1, <2>7, <2>8, RepliedFrame
<1>4. ASSUME NEW l \in Links, OnRead(l) \/ Recv(l) \/ OnWrite(l) \/ \E n : RecvShort(l, n)
      PROVE  Replied(k)'
  <2>1. UNCHANGED <<asked, done, out, wbuf, err>>
    BY <1>4 DEF OnRead, OnWrite, Recv, RecvShort, Took
  <2>2. Sent(k) = 0
    BY <1>4 DEF OnRead, OnWrite, Recv, RecvShort, Doing, Sent, Waiting
  <2>3. Sent(k)' = 0
    BY <1>4, <1>i, NothingSent
  <2> QED
    BY <2>1, <2>2, <2>3, RepliedFrame
<1>5. ASSUME NEW l \in Links, RecvFails(l) \/ SendFails(l) PROVE Replied(k)'
  <2>1. /\ UNCHANGED <<asked, done, out, wbuf>> /\ loop.link = l /\ loop' = Waiting
        /\ err' = [err EXCEPT ![l] = TRUE] /\ err \in [Links -> BOOLEAN]
    BY <1>5, <1>i DEF RecvFails, SendFails, Fails, Doing, LinkTypes
  <2>2. CASE k = l
    BY <2>1, <2>2 DEF Replied
  <2>3. CASE k # l
    <3>1. Sent(k) = 0 /\ Sent(k)' = 0 /\ err'[k] = err[k]
      BY <2>1, <2>3 DEF Sent, Waiting
    <3> QED
      BY <2>1, <3>1, RepliedFrame
  <2> QED
    BY <2>2, <2>3
<1>6. ASSUME NEW l \in Links, Exec(l) PROVE Replied(k)'
  <2>1. CASE k = l
    BY <1>6, <2>1, ExecReplies
  <2>2. CASE k # l
    BY <1>6, <1>i, <2>2, ExecOthers, RepliedFrame
  <2> QED
    BY <2>1, <2>2
<1>7. ASSUME NEW l \in Links, NEW n, Send(l, n) PROVE Replied(k)'
  <2>1. CASE k = l
    BY <1>7, <2>1, SendReplies
  <2>2. CASE k # l
    BY <1>7, <2>2, SendOthers, RepliedFrame
  <2> QED
    BY <2>1, <2>2
<1> QED
  BY <1>1, <1>2, <1>3, <1>4, <1>5, <1>6, <1>7, Steps

(* A client receives the replies to its own requests, in their order, each *)
(* once and none of another client's, however the bytes of the requests    *)
(* arrive and the writes are cut (client_link.cpp onRead, onWrite and      *)
(* sendMsg, Connect::send).                                                *)
THEOREM RepliesFollowRequests == Spec => []RepliesInOrder
<1> DEFINE J == \A l \in Links : Replied(l)
<1>1. Init => J
  <2> SUFFICES ASSUME Init, NEW l \in Links PROVE Replied(l)
    OBVIOUS
  <2>1. out[l] = <<>> /\ wbuf[l] = <<>> /\ done[l] = <<>> /\ Sent(l) = 0
    BY DEF Init, Sent, Waiting
  <2>2. RepliesTo(l, asked[l], Len(<<>>)) = <<>>
    <3>1. Len(<<>>) = 0
      OBVIOUS
    <3> QED
      BY <3>1, RepliesNone
  <2>3. <<>> \o SubSeq(<<>>, 0 + 1, Len(<<>>)) = <<>>
    OBVIOUS
  <2>4. IsPrefix(<<>>, <<>>)
    <3>1. <<>> \in Seq(Unit) /\ <<>> \o <<>> = <<>>
      OBVIOUS
    <3> QED
      BY <3>1, FrontIsPrefix
  <2> QED
    BY <2>1, <2>2, <2>3, <2>4, Zenon DEF Replied
<1>2. IInv /\ LInv /\ J /\ [Next]_vars => J'
  BY RepliedStep
<1>3. IInv /\ LInv /\ J => RepliesInOrder
  <2> SUFFICES ASSUME IInv, LInv, J, NEW l \in Links PROVE IsPrefix(out[l], Replies(l))
    BY DEF RepliesInOrder
  <2> DEFINE n == Len(asked[l])
             k == Len(done[l])
  <2>1. n \in Nat /\ k \in Nat /\ k <= n
    BY DEF IInv, LInv, LinkInv, StreamOK, LinkTypes, IsSeq
  <2>2. Replies(l) = RepliesTo(l, asked[l], n)
    BY DEF Replies, RepliesTo
  <2>3. IsPrefix(out[l], RepliesTo(l, asked[l], k)) /\ out[l] \in Seq(Unit)
    BY DEF Replied, IInv, LinkTypes
  <2> HIDE DEF n, k
  <2>4. IsPrefix(RepliesTo(l, asked[l], k), RepliesTo(l, asked[l], n))
    <3>1. k \in 0..n
      BY <2>1
    <3> QED
      BY <2>1, <3>1, RepliesPrefix
  <2>5. RepliesTo(l, asked[l], k) \in Seq(Unit) /\ RepliesTo(l, asked[l], n) \in Seq(Unit)
    BY <2>1, RepliesType
  <2> QED
    BY <2>2, <2>3, <2>4, <2>5, PrefixTransitive
<1> QED
  BY <1>1, <1>2, <1>3, LInvAlways, PTL DEF Spec

-----------------------------------------------------------------------------
(* The Bytes objects by themselves (BytesUse).  A pack stays readable when *)
(* all its bytes are where they were put; what a queue holds is the bytes  *)
(* of the numbers put, up to the write position, and the read position is  *)
(* behind those that were read.                                            *)

(* The numbers that are put: each has a width it fits in.                  *)
Puts == {e \in [v : Numbers, w : Nat] : e.w \in Widths(e.v)}

(* The pack of message m is at the front of the bytes s.                   *)
FrontIs(s, m) ==
  /\ HeadLen + Len(m.body) <= Len(s)
  /\ \A i \in 1..(HeadLen + Len(m.body)) : s[i] = PackOf(m.type, m.body)[i]

(* The bytes of the numbers p.                                             *)
BytesOf(p) == FlattenSeq([i \in 1..Len(p) |-> Digits(p[i].v, p[i].w)])

(* The buffer s holds the bytes t behind the first k of its own.           *)
Holds(s, k, t) == \A i \in 1..Len(t) : k + i <= Len(s) /\ s[k + i] = t[i]

QueueFrom(b, p) == b.wpos - Len(BytesOf(p))
QueueOK(b, p, g) ==
  /\ QueueFrom(b, p) >= 0 /\ Len(g) <= Len(p)
  /\ Holds(b.buf, QueueFrom(b, p), BytesOf(p))
  /\ b.rpos = QueueFrom(b, p) + Len(BytesOf(SubSeq(p, 1, Len(g))))
  /\ \A i \in 1..Len(g) : g[i] = p[i].v

(* An object b, the numbers p put in it and g read from it, whether it is  *)
(* used as a queue (q), and the message m at its front.                    *)
UseTypes(b, p, g, q, m) ==
  /\ b \in Buffers /\ p \in Seq(Puts) /\ g \in Seq(Nat) /\ q \in BOOLEAN
  /\ m \in Messages \cup {NoPack}
UseOK(b, p, g, q, m) ==
  /\ Len(b.buf) <= Capacity
  /\ m # NoPack => FrontIs(b.buf, m)
  /\ q => QueueOK(b, p, g)

UInv ==
  /\ obj = [x \in Objects |-> obj[x]]
  /\ put = [x \in Objects |-> put[x]]
  /\ got = [x \in Objects |-> got[x]]
  /\ queue = [x \in Objects |-> queue[x]]
  /\ pack = [x \in Objects |-> pack[x]]
  /\ \A x \in Objects : /\ UseTypes(obj[x], put[x], got[x], queue[x], pack[x])
                        /\ UseOK(obj[x], put[x], got[x], queue[x], pack[x])

LEMMA UseFrame ==
  ASSUME UInv, NEW x \in Objects, NEW b, NEW p, NEW g, NEW q, NEW m,
         UseTypes(b, p, g, q, m), UseOK(b, p, g, q, m),
         obj' = [obj EXCEPT ![x] = b], put' = [put EXCEPT ![x] = p],
         got' = [got EXCEPT ![x] = g], queue' = [queue EXCEPT ![x] = q],
         pack' = [pack EXCEPT ![x] = m]
  PROVE  UInv'
<1>1. /\ obj' = [z \in Objects |-> obj'[z]] /\ put' = [z \in Objects |-> put'[z]]
      /\ got' = [z \in Objects |-> got'[z]] /\ queue' = [z \in Objects |-> queue'[z]]
      /\ pack' = [z \in Objects |-> pack'[z]]
  BY DEF UInv
<1>2. ASSUME NEW z \in Objects
      PROVE  /\ UseTypes(obj'[z], put'[z], got'[z], queue'[z], pack'[z])
             /\ UseOK(obj'[z], put'[z], got'[z], queue'[z], pack'[z])
  <2>1. CASE z = x
    <3>1. obj'[z] = b /\ put'[z] = p /\ got'[z] = g /\ queue'[z] = q /\ pack'[z] = m
      BY <2>1 DEF UInv
    <3> QED
      BY <3>1, Zenon
  <2>2. CASE z # x
    <3>1. /\ obj'[z] = obj[z] /\ put'[z] = put[z] /\ got'[z] = got[z] /\ queue'[z] = queue[z]
          /\ pack'[z] = pack[z]
      BY <2>2 DEF UInv
    <3>2. /\ UseTypes(obj[z], put[z], got[z], queue[z], pack[z])
          /\ UseOK(obj[z], put[z], got[z], queue[z], pack[z])
      BY DEF UInv
    <3> QED
      BY <3>1, <3>2, Zenon
  <2> QED
    BY <2>1, <2>2
<1> QED
  BY <1>1, <1>2, Zenon DEF UInv

LEMMA PutsFacts ==
  ASSUME NEW e \in Puts
  PROVE  /\ e.v \in Nat /\ e.w \in Nat \ {0} /\ Digits(e.v, e.w) \in Seq(Byte)
         /\ Len(Digits(e.v, e.w)) = e.w /\ Number(Digits(e.v, e.w)) = e.v
<1> DEFINE v == e.v
           w == e.w
<1>1. v \in Numbers /\ w \in Widths(v)
  BY DEF Puts
<1>2. Numbers \subseteq 0..(Wrap - 1) /\ Wrap \in Nat
  BY UseAssumption, ByteFacts
<1>3. v \in Nat /\ v < Wrap
  <2>1. v \in 0..(Wrap - 1)
    BY <1>1, <1>2, Zenon
  <2> HIDE DEF v
  <2> QED
    BY <1>2, <2>1
<1>4. Base \in Nat /\ Base > 0 /\ SizeLen \in Nat \ {0}
  BY ByteFacts
<1> HIDE DEF v, w
<1>5. w \in Nat \ {0} /\ v < Power(Base, w)
  <2>1. CASE w = SizeLen
    BY <1>3, <1>4, <2>1 DEF Wrap
  <2>2. CASE w = 1 /\ v < Base
    <3>1. Power(Base, 0 + 1) = Base * Power(Base, 0) /\ Power(Base, 0) = 1
      BY <1>4, PowerFacts
    <3>2. Power(Base, 1) = Base
      BY <1>4, <3>1
    <3> QED
      BY <2>2, <3>2
  <2> QED
    BY <1>1, <2>1, <2>2 DEF Widths
<1>6. DigitsOf(Base, v, w) \in Seq(0..(Base - 1)) /\ Len(DigitsOf(Base, v, w)) = w
  BY <1>3, <1>4, <1>5, DigitsType
<1>7. NumberOf(Base, DigitsOf(Base, v, w)) = v
  BY <1>3, <1>4, <1>5, NumberOfDigits
<1> QED
  BY <1>3, <1>5, <1>6, <1>7 DEF v, w, Digits, Number, Byte

LEMMA BytesOfType ==
  ASSUME NEW p \in Seq(Puts)
  PROVE  /\ [i \in 1..Len(p) |-> Digits(p[i].v, p[i].w)] \in Seq(Seq(Byte))
         /\ Len([i \in 1..Len(p) |-> Digits(p[i].v, p[i].w)]) = Len(p)
         /\ BytesOf(p) \in Seq(Byte)
<1> DEFINE n == Len(p)
           d(i) == Digits(p[i].v, p[i].w)
           c == [i \in 1..n |-> d(i)]
<1>1. n \in Nat /\ \A i \in 1..n : p[i] \in Puts
  OBVIOUS
<1>2. \A i \in 1..n : d(i) \in Seq(Byte)
  BY <1>1, PutsFacts
<1> HIDE DEF n, d
<1>3. c \in Seq(Seq(Byte)) /\ Len(c) = n
  BY <1>1, <1>2
<1>4. FlattenSeq(c) \in Seq(Byte)
  <2> HIDE DEF c
  <2> QED
    BY <1>3, FlattenType
<1> QED
  BY <1>3, <1>4 DEF n, d, BytesOf

LEMMA BytesOfConcat ==
  ASSUME NEW p \in Seq(Puts), NEW r \in Seq(Puts)
  PROVE  p \o r \in Seq(Puts) /\ BytesOf(p \o r) = BytesOf(p) \o BytesOf(r)
<1> DEFINE d(e) == Digits(e.v, e.w)
           u == p \o r
           c == [i \in 1..Len(p) |-> d(p[i])]
           f == [i \in 1..Len(r) |-> d(r[i])]
           h == [i \in 1..Len(u) |-> d(u[i])]
           j == c \o f
           m == Len(p)
           n == Len(r)
<1>1. /\ u \in Seq(Puts) /\ m \in Nat /\ n \in Nat /\ Len(u) = m + n
      /\ \A i \in 1..m : u[i] = p[i]
      /\ \A i \in 1..n : u[m + i] = r[i]
  BY ConcatIs
<1>2. c \in Seq(Seq(Byte)) /\ Len(c) = m /\ f \in Seq(Seq(Byte)) /\ Len(f) = n
  BY BytesOfType
<1>3. h \in Seq(Seq(Byte)) /\ Len(h) = Len(u)
  BY <1>1, BytesOfType
<1> HIDE DEF d, u
<1>4. /\ \A i \in 1..m : h[i] = c[i]
      /\ \A i \in 1..n : h[m + i] = f[i]
  <2>1. ASSUME NEW i \in 1..m PROVE h[i] = c[i]
    <3>1. i \in 1..Len(u) /\ u[i] = p[i]
      BY <1>1
    <3> QED
      BY <3>1
  <2>2. ASSUME NEW i \in 1..n PROVE h[m + i] = f[i]
    <3>1. m + i \in 1..Len(u) /\ u[m + i] = r[i]
      BY <1>1
    <3> QED
      BY <3>1
  <2> QED
    BY <2>1, <2>2
<1>5. BytesOf(p) = FlattenSeq(c) /\ BytesOf(r) = FlattenSeq(f) /\ BytesOf(u) = FlattenSeq(h)
  BY DEF BytesOf, d
<1> HIDE DEF c, f, h, m, n
<1>6. /\ j \in Seq(Seq(Byte)) /\ Len(j) = m + n
      /\ \A i \in 1..m : j[i] = c[i]
      /\ \A i \in 1..n : j[m + i] = f[i]
  <2>1. /\ j \in Seq(Seq(Byte)) /\ Len(j) = Len(c) + Len(f)
        /\ \A i \in 1..Len(c) : j[i] = c[i]
        /\ \A i \in 1..Len(f) : j[Len(c) + i] = f[i]
    <3>1. c \in Seq(Seq(Byte)) /\ f \in Seq(Seq(Byte))
      BY <1>2
    <3> QED
      BY <3>1, ConcatIs
  <2> QED
    BY <1>2, <2>1, Zenon
<1> HIDE DEF j
<1>7. ASSUME NEW i \in 1..(m + n) PROVE h[i] = j[i]
  <2>1. CASE i \in 1..m
    BY <1>4, <1>6, <2>1
  <2>2. CASE ~(i \in 1..m)
    <3>1. i - m \in 1..n /\ m + (i - m) = i
      BY <1>1, <2>2
    <3>2. h[m + (i - m)] = j[m + (i - m)]
      BY <1>4, <1>6, <3>1, Zenon
    <3> QED
      BY <3>1, <3>2
  <2> QED
    BY <2>1, <2>2
<1>8. h = j
  BY <1>1, <1>3, <1>6, <1>7, SeqEqual
<1>9. FlattenSeq(j) = FlattenSeq(c) \o FlattenSeq(f)
  BY <1>2, FlattenConcat DEF j
<1> QED
  BY <1>1, <1>5, <1>8, <1>9 DEF u

LEMMA BytesOfOne ==
  ASSUME NEW e \in Puts
  PROVE  <<e>> \in Seq(Puts) /\ BytesOf(<<e>>) = Digits(e.v, e.w)
<1> DEFINE d(f) == Digits(f.v, f.w)
           s == <<e>>
           c == [i \in 1..Len(s) |-> d(s[i])]
<1>1. s \in Seq(Puts) /\ Len(s) = 1 /\ s[1] = e
  OBVIOUS
<1>2. d(e) \in Seq(Byte)
  BY PutsFacts
<1>3. BytesOf(s) = FlattenSeq(c)
  BY DEF BytesOf
<1> HIDE DEF d, s
<1>4. c = <<d(e)>>
  BY <1>1
<1>5. FlattenSeq(<<d(e)>>) = d(e)
  BY <1>2, FlattenOne
<1> QED
  BY <1>1, <1>3, <1>4, <1>5 DEF s, d

LEMMA BytesOfNone == BytesOf(<<>>) = <<>> /\ <<>> \in Seq(Puts)
<1> DEFINE c == [i \in 1..Len(<<>>) |-> Digits(<<>>[i].v, <<>>[i].w)]
<1>1. c = <<>>
  OBVIOUS
<1> QED
  BY <1>1, FlattenEmpty DEF BytesOf

LEMMA MessageFacts ==
  ASSUME NEW m \in Messages
  PROVE  /\ m = [type |-> m.type, body |-> m.body]
         /\ m.type \in 0..(Power(Base, TypeLen) - 1) /\ m.body \in Seq(Byte)
         /\ HeadLen + Len(m.body) \in Nat /\ Len(m.body) \in Nat
<1>1. m \in [type : 0..(Power(Base, TypeLen) - 1), body : Seq(Byte)]
  BY UseAssumption
<1>2. m.body \in Seq(Byte) /\ m = [type |-> m.type, body |-> m.body]
  BY <1>1
<1> DEFINE n == Len(m.body)
<1>3. n \in Nat
  BY <1>2
<1>4. HeadLen \in Nat
  BY ByteFacts
<1> HIDE DEF n
<1>5. HeadLen + n \in Nat
  BY <1>3, <1>4
<1> QED
  BY <1>1, <1>2, <1>3, <1>5 DEF n

(* A pack at the front is found, whatever the positions are.               *)
LEMMA FrontSays ==
  ASSUME NEW b \in Buffers, NEW m \in Messages, FrontIs(b.buf, m), Len(b.buf) <= Capacity
  PROVE  DeSerialize(b) = m
<1> DEFINE n == Len(m.body)
           s == b.buf
           r == PackOf(m.type, m.body)
           g == Get(b, 0, SizeLen)
           body == SubSeq(s, HeadLen + 1, HeadLen + n)
<1>1. /\ m.type \in 0..(Power(Base, TypeLen) - 1) /\ m.body \in Seq(Byte)
      /\ n \in Nat /\ m = [type |-> m.type, body |-> m.body]
  BY MessageFacts
<1>2. HeadLen \in Nat \ {0} /\ Wrap \in Nat \ {0} /\ Capacity \in 0..(Wrap - 1)
  BY ByteFacts, UseAssumption
<1>3. s \in Seq(Byte) /\ Len(s) \in Nat /\ Len(s) <= Capacity
  BY DEF Buffers
<1>4. HeadLen + n <= Len(s) /\ \A i \in 1..(HeadLen + n) : s[i] = r[i]
  BY DEF FrontIs
<1> HIDE DEF n, s, r
<1>5. HeadLen + n < Wrap /\ Len(s) >= HeadLen /\ \A i \in 1..HeadLen : i \in 1..(HeadLen + n)
  BY <1>1, <1>2, <1>3, <1>4
<1>6. g = HeadLen + n /\ Get(b, SizeLen + FlagLen, TypeLen) = m.type
  <2>1. Size(b) >= HeadLen /\ HeadLen + Len(m.body) < Wrap
    BY <1>5 DEF Size, s, n
  <2>2. \A i \in 1..HeadLen : b.buf[i] = PackOf(m.type, m.body)[i]
    BY <1>4, <1>5 DEF s, r
  <2> QED
    BY <1>1, <2>1, <2>2, HeadSays DEF n
<1> HIDE DEF g
<1>7. (g - HeadLen) % Wrap = n
  <2>1. g - HeadLen = n /\ n \in 0..(Wrap - 1)
    BY <1>1, <1>2, <1>5, <1>6
  <2> QED
    BY <1>2, <2>1
<1>8. body = m.body
  <2> DEFINE t == m.body
  <2>1. t \in Seq(Byte) /\ Len(t) = n
    BY <1>1 DEF n
  <2>2. \A i \in 1..n : r[HeadLen + i] = t[i]
    BY <1>1, PackIs DEF r, n
  <2> HIDE DEF t
  <2>3. HeadLen + Len(t) <= Len(s) /\ \A i \in 1..Len(t) : t[i] = s[HeadLen + i]
    <3>1. \A i \in 1..n : HeadLen + i \in 1..(HeadLen + n)
      BY <1>1, <1>2
    <3> QED
      BY <1>4, <2>1, <2>2, <3>1
  <2>4. t = SubSeq(s, HeadLen + 1, HeadLen + Len(t))
    <3>1. HeadLen \in Nat
      BY <1>2
    <3> QED
      BY <1>3, <2>1, <2>3, <3>1, IsPart
  <2> QED
    BY <2>1, <2>4 DEF t
<1>9. DeSerialize(b) = [type |-> Get(b, SizeLen + FlagLen, TypeLen),
                        body |-> SubSeq(s, HeadLen + 1, HeadLen + ((g - HeadLen) % Wrap))]
  BY DEF DeSerialize, g, s
<1> QED
  BY <1>1, <1>6, <1>7, <1>8, <1>9

(* What leaves the bytes of the pack alone leaves the pack.                *)
LEMMA FrontKept ==
  ASSUME NEW m \in Messages, NEW s \in Seq(Byte), NEW t \in Seq(Byte), FrontIs(s, m),
         Len(s) <= Len(t), \A i \in 1..Len(s) : i <= HeadLen + Len(m.body) => t[i] = s[i]
  PROVE  FrontIs(t, m)
<1> DEFINE n == HeadLen + Len(m.body)
           k == Len(s)
           j == Len(t)
           r == PackOf(m.type, m.body)
<1>1. /\ n \in Nat /\ k \in Nat /\ j \in Nat /\ n <= k /\ k <= j
      /\ \A i \in 1..n : s[i] = r[i]
      /\ \A i \in 1..k : i <= n => t[i] = s[i]
  BY MessageFacts DEF FrontIs
<1> HIDE DEF n, k, j, r
<1>2. n <= j /\ \A i \in 1..n : t[i] = r[i]
  BY <1>1
<1> QED
  BY <1>2 DEF FrontIs, n, j, r

LEMMA PutFront ==
  ASSUME NEW b \in Buffers, NEW s \in Seq(Byte), NEW m \in Messages, FrontIs(b.buf, m),
         b.wpos >= HeadLen + Len(m.body)
  PROVE  FrontIs(Put(b, s).buf, m)
<1> DEFINE t == Put(b, s).buf
           o == b.buf
           at == b.wpos
           n == HeadLen + Len(m.body)
           k == Len(s)
<1>1. /\ Put(b, s) \in Buffers /\ Len(t) >= Len(o)
      /\ \A i \in 1..Len(t) : t[i] = IF i \in (at + 1)..(at + k) THEN s[i - at]
                                     ELSE IF i <= Len(o) THEN o[i] ELSE 0
  BY PutIs, Zenon
<1>2. t \in Seq(Byte) /\ o \in Seq(Byte) /\ at \in Nat /\ k \in Nat /\ n \in Nat /\ at >= n
  BY <1>1, MessageFacts DEF Buffers
<1>3. Len(t) \in Nat /\ Len(o) \in Nat
  BY <1>2
<1>4. FrontIs(o, m)
  OBVIOUS
<1> HIDE DEF t, o, at, n, k
<1>5. ASSUME NEW i \in 1..Len(o), i <= n PROVE t[i] = o[i]
  <2>1. i \in 1..Len(t) /\ i <= Len(o) /\ ~(i \in (at + 1)..(at + k))
    BY <1>1, <1>2, <1>3, <1>5
  <2> QED
    BY <1>1, <2>1
<1>6. Len(o) <= Len(t)
  BY <1>1, <1>3
<1>7. \A i \in 1..Len(o) : i <= HeadLen + Len(m.body) => t[i] = o[i]
  BY <1>5 DEF n
<1> QED
  BY <1>2, <1>4, <1>6, <1>7, FrontKept DEF t

(* What is written at the front begins with the pack it begins with.       *)
LEMMA PutAtFront ==
  ASSUME NEW b \in Buffers, NEW s \in Seq(Byte), NEW m \in Messages, FrontIs(s, m), b.wpos = 0
  PROVE  FrontIs(Put(b, s).buf, m)
<1> DEFINE t == Put(b, s).buf
           o == b.buf
           k == Len(s)
<1>1. /\ Put(b, s) \in Buffers /\ Len(t) >= 0 + k
      /\ \A i \in 1..Len(t) : t[i] = IF i \in (0 + 1)..(0 + k) THEN s[i - 0]
                                     ELSE IF i <= Len(o) THEN o[i] ELSE 0
  <2>1. /\ Put(b, s) \in Buffers /\ Len(t) >= b.wpos + k
        /\ \A i \in 1..Len(t) : t[i] = IF i \in (b.wpos + 1)..(b.wpos + k) THEN s[i - b.wpos]
                                       ELSE IF i <= Len(o) THEN o[i] ELSE 0
    BY PutIs, Zenon
  <2> HIDE DEF t, o, k
  <2> QED
    BY <2>1, Zenon
<1>2. t \in Seq(Byte) /\ k \in Nat
  BY <1>1 DEF Buffers
<1>3. Len(t) \in Nat
  BY <1>2
<1> HIDE DEF t, o
<1>4. Len(s) <= Len(t)
  BY <1>1, <1>2, <1>3
<1>5. ASSUME NEW i \in 1..k PROVE t[i] = s[i]
  <2>1. i \in 1..Len(t) /\ i \in (0 + 1)..(0 + k) /\ i - 0 = i
    BY <1>2, <1>3, <1>4
  <2> QED
    BY <1>1, <2>1
<1> QED
  BY <1>2, <1>4, <1>5, FrontKept DEF t

LEMMA PackFront ==
  ASSUME NEW m \in Messages
  PROVE  /\ PackOf(m.type, m.body) \in Seq(Byte) /\ FrontIs(PackOf(m.type, m.body), m)
         /\ Len(PackOf(m.type, m.body)) = HeadLen + Len(m.body)
<1> DEFINE r == PackOf(m.type, m.body)
           n == HeadLen + Len(m.body)
<1>1. r \in Seq(Byte) /\ Len(r) = n
  BY MessageFacts, PackIs
<1>2. n \in Nat
  BY MessageFacts
<1> HIDE DEF r, n
<1>3. n <= Len(r)
  BY <1>1, <1>2
<1> QED
  BY <1>1, <1>3 DEF FrontIs, r, n

LEMMA PutSize ==
  ASSUME NEW b \in Buffers, NEW s \in Seq(Byte), Len(b.buf) <= Capacity, b.wpos + Len(s) <= Capacity
  PROVE  Put(b, s) \in Buffers /\ Len(Put(b, s).buf) <= Capacity
  BY PutIs

(* The queue.  Bytes put at the write position are the last ones.          *)
LEMMA PutQueue ==
  ASSUME NEW b \in Buffers, NEW p \in Seq(Puts), NEW r \in Seq(Puts), NEW g \in Seq(Nat),
         QueueOK(b, p, g)
  PROVE  QueueOK(Put(b, BytesOf(r)), p \o r, g)
<1> DEFINE s == BytesOf(r)
           c == Put(b, s)
           f == BytesOf(p)
           h == BytesOf(p \o r)
           t == c.buf
           o == b.buf
           at == b.wpos
           k == Len(s)
           m == Len(f)
           from == QueueFrom(b, p)
           u == SubSeq(p, 1, Len(g))
           v == SubSeq(p \o r, 1, Len(g))
<1>1. s \in Seq(Byte) /\ f \in Seq(Byte) /\ h \in Seq(Byte) /\ p \o r \in Seq(Puts)
  BY BytesOfConcat, BytesOfType
<1>2. h = f \o s
  BY BytesOfConcat
<1>3. /\ c \in Buffers /\ c.rpos = b.rpos /\ c.wpos = at + k
      /\ Len(t) >= Len(o) /\ Len(t) >= at + k
      /\ \A i \in 1..Len(t) : t[i] = IF i \in (at + 1)..(at + k) THEN s[i - at]
                                     ELSE IF i <= Len(o) THEN o[i] ELSE 0
  <2>1. s \in Seq(Byte)
    BY <1>1
  <2> HIDE DEF s
  <2> QED
    BY <2>1, PutIs, Zenon
<1>4. k \in Nat /\ m \in Nat /\ at \in Nat /\ Len(o) \in Nat /\ Len(t) \in Nat
  <2>1. k \in Nat
    BY <1>1
  <2>2. m \in Nat
    BY <1>1
  <2>3. at \in Nat /\ Len(o) \in Nat
    BY DEF Buffers
  <2>4. Len(t) \in Nat
    <3> HIDE DEF c
    <3> QED
      BY <1>3 DEF Buffers
  <2> QED
    BY <2>1, <2>2, <2>3, <2>4
<1>5. /\ from = at - m /\ from >= 0 /\ Len(g) <= Len(p) /\ Holds(o, from, f)
      /\ b.rpos = from + Len(BytesOf(u)) /\ \A i \in 1..Len(g) : g[i] = p[i].v
  BY DEF QueueOK, QueueFrom
<1> HIDE DEF s, c, f, h, t, o, at, k, m, from
<1>6. /\ Len(h) = m + k /\ \A i \in 1..m : h[i] = f[i]
      /\ \A i \in 1..k : h[m + i] = s[i]
  <2>1. /\ Len(f \o s) = Len(f) + Len(s)
        /\ \A i \in 1..Len(f) : (f \o s)[i] = f[i]
        /\ \A i \in 1..Len(s) : (f \o s)[Len(f) + i] = s[i]
    <3>1. f \in Seq(Byte) /\ s \in Seq(Byte)
      BY <1>1
    <3> QED
      BY <3>1, ConcatIs
  <2> QED
    BY <1>2, <2>1, Zenon DEF m, k
<1>7. QueueFrom(c, p \o r) = from
  <2>1. QueueFrom(c, p \o r) = (at + k) - (m + k)
    BY <1>3, <1>6, Zenon DEF QueueFrom, h
  <2> QED
    BY <1>4, <1>5, <2>1
<1>8. Holds(t, from, h)
  <2> SUFFICES ASSUME NEW i \in 1..(m + k) PROVE from + i <= Len(t) /\ t[from + i] = h[i]
    BY <1>6 DEF Holds
  <2>1. CASE i <= m
    <3>1. i \in 1..m /\ i \in 1..Len(f)
      BY <1>4, <2>1 DEF m
    <3>2. from + i <= Len(o) /\ o[from + i] = f[i]
      BY <1>5, <3>1 DEF Holds
    <3>3. from + i \in 1..Len(t) /\ ~(from + i \in (at + 1)..(at + k))
      BY <1>3, <1>4, <1>5, <2>1, <3>2
    <3>4. t[from + i] = o[from + i]
      BY <1>3, <3>2, <3>3
    <3> QED
      BY <1>6, <3>1, <3>2, <3>3, <3>4
  <2>2. CASE i > m
    <3>1. /\ i - m \in 1..k /\ m + (i - m) = i /\ from + i \in 1..Len(t)
          /\ from + i \in (at + 1)..(at + k) /\ (from + i) - at = i - m
      BY <1>3, <1>4, <1>5, <2>2
    <3>2. t[from + i] = s[i - m]
      BY <1>3, <3>1
    <3>3. h[m + (i - m)] = s[i - m]
      BY <1>6, <3>1
    <3> QED
      BY <3>1, <3>2, <3>3
  <2> QED
    BY <1>4, <2>1, <2>2
<1>9. Len(g) \in Nat /\ Len(p) \in Nat /\ Len(r) \in Nat /\ Len(p \o r) = Len(p) + Len(r)
  <2>1. Len(p) \in Nat /\ Len(r) \in Nat /\ Len(p \o r) = Len(p) + Len(r)
    BY ConcatIs
  <2> QED
    BY <2>1
<1>10. \A i \in 1..Len(g) : i \in 1..Len(p) /\ (p \o r)[i] = p[i]
  <2>1. \A i \in 1..Len(p) : (p \o r)[i] = p[i]
    BY ConcatIs
  <2>2. \A i \in 1..Len(g) : i \in 1..Len(p)
    BY <1>5, <1>9
  <2> QED
    BY <2>1, <2>2
<1>11. v = u
  <2> DEFINE n == Len(g)
             w == p \o r
  <2>1. n \in 0..Len(p) /\ n \in 0..Len(w) /\ w \in Seq(Puts)
    BY <1>1, <1>5, <1>9
  <2>2. \A i \in 1..n : w[i] = p[i]
    BY <1>10
  <2> HIDE DEF n, w
  <2>3. u \in Seq(Puts) /\ Len(u) = n /\ \A i \in 1..n : u[i] = p[i]
    BY <2>1, SplitAt DEF n
  <2>4. v \in Seq(Puts) /\ Len(v) = n /\ \A i \in 1..n : v[i] = w[i]
    BY <2>1, SplitAt DEF n, w
  <2> HIDE DEF u, v
  <2> QED
    BY <2>2, <2>3, <2>4, SeqEqual
<1>12. Len(g) <= Len(p \o r)
  BY <1>5, <1>9
<1> QED
  BY <1>3, <1>5, <1>7, <1>8, <1>10, <1>11, <1>12, Zenon DEF QueueOK, s, c, t, h

(* The next read of the width of the next number gives that number.        *)
LEMMA GetQueue ==
  ASSUME NEW b \in Buffers, NEW p \in Seq(Puts), NEW g \in Seq(Nat), QueueOK(b, p, g),
         Len(g) + 1 <= Len(p)
  PROVE  LET e == p[Len(g) + 1]
         IN  QueueOK(Advanced(b, e.w), p, Append(g, Get(b, b.rpos, e.w)))
<1> DEFINE k == Len(g)
           e == p[k + 1]
           w == e.w
           u == SubSeq(p, 1, k)
           a == BytesOf(u)
           d == Digits(e.v, w)
           f == BytesOf(p)
           s == b.buf
           at == b.rpos
           n == Len(a)
           from == QueueFrom(b, p)
           c == Advanced(b, w)
           x == Get(b, at, w)
           h == Append(g, x)
<1>1. k \in Nat /\ Len(p) \in Nat /\ k + 1 \in 1..Len(p) /\ k \in 0..Len(p) /\ k + 1 \in 0..Len(p)
      /\ k \in 0..(Len(p) - 1)
  OBVIOUS
<1>2. e \in Puts
  BY <1>1
<1>3. /\ e.v \in Nat /\ w \in Nat \ {0} /\ d \in Seq(Byte) /\ Len(d) = w /\ Number(d) = e.v
  BY <1>2, PutsFacts
<1>4. /\ from = b.wpos - Len(f) /\ from >= 0 /\ Holds(s, from, f) /\ at = from + n
      /\ \A i \in 1..k : g[i] = p[i].v
  BY DEF QueueOK, QueueFrom
<1>5. s \in Seq(Byte) /\ Len(s) \in Nat /\ at \in Nat /\ b.wpos \in Nat
  BY DEF Buffers
<1> HIDE DEF k, w, e
<1>6. /\ u \in Seq(Puts) /\ SubSeq(p, k + 1, Len(p)) \in Seq(Puts)
      /\ SubSeq(p, (k + 1) + 1, Len(p)) \in Seq(Puts)
      /\ SubSeq(p, 1, k + 1) = u \o <<e>>
      /\ p = SubSeq(p, 1, k + 1) \o SubSeq(p, (k + 1) + 1, Len(p))
  <2>1. u \in Seq(Puts) /\ SubSeq(p, k + 1, Len(p)) \in Seq(Puts)
    BY <1>1, SplitAt
  <2>2. /\ SubSeq(p, (k + 1) + 1, Len(p)) \in Seq(Puts)
        /\ p = SubSeq(p, 1, k + 1) \o SubSeq(p, (k + 1) + 1, Len(p))
    BY <1>1, SplitAt
  <2>3. SubSeq(p, 1, k + 1) = Append(u, p[k + 1])
    BY <1>1, NextPrefix
  <2> HIDE DEF u
  <2>4. Append(u, e) = u \o <<e>>
    BY <1>2, <2>1
  <2>5. p[k + 1] = e
    BY DEF e
  <2> QED
    BY <2>1, <2>2, <2>3, <2>4, <2>5
<1> DEFINE y == SubSeq(p, (k + 1) + 1, Len(p))
           z == BytesOf(y)
           q == SubSeq(p, 1, k + 1)
<1>7. /\ a \in Seq(Byte) /\ z \in Seq(Byte) /\ f \in Seq(Byte)
      /\ BytesOf(q) = a \o d /\ f = (a \o d) \o z
  <2> HIDE DEF u, y, q
  <2>1. u \in Seq(Puts) /\ y \in Seq(Puts) /\ q = u \o <<e>> /\ p = q \o y
    BY <1>6 DEF y, q
  <2>2. <<e>> \in Seq(Puts) /\ BytesOf(<<e>>) = d
    BY <1>2, BytesOfOne DEF w
  <2>3. u \o <<e>> \in Seq(Puts) /\ BytesOf(u \o <<e>>) = BytesOf(u) \o BytesOf(<<e>>)
    BY <2>1, <2>2, BytesOfConcat
  <2>4. q \in Seq(Puts)
    BY <2>1, <2>3
  <2>5. BytesOf(q \o y) = BytesOf(q) \o BytesOf(y)
    BY <2>1, <2>4, BytesOfConcat
  <2>6. a \in Seq(Byte) /\ z \in Seq(Byte) /\ f \in Seq(Byte)
    BY <2>1, BytesOfType
  <2> QED
    BY <2>1, <2>2, <2>3, <2>5, <2>6, Zenon
<1> HIDE DEF a, d, f, s, at, from, z, n, u
<1>8. n \in Nat
  BY <1>7 DEF n
<1>9. Len(a \o d) = n + w
  <2>1. Len(a \o d) = Len(a) + Len(d)
    BY <1>3, <1>7, ConcatIs
  <2> QED
    BY <1>3, <2>1 DEF n
<1>10. n + w <= Len(f) /\ \A j \in 1..w : f[n + j] = d[j]
  <2> DEFINE ad == a \o d
  <2>1. ad \in Seq(Byte) /\ \A j \in 1..Len(d) : ad[Len(a) + j] = d[j]
    BY <1>3, <1>7, ConcatIs
  <2>2. Len(ad) = n + w /\ \A j \in 1..w : ad[n + j] = d[j]
    BY <1>3, <1>9, <2>1, Zenon DEF n
  <2> HIDE DEF ad
  <2>3. Len(ad \o z) = Len(ad) + Len(z) /\ Len(z) \in Nat /\ \A j \in 1..Len(ad) : (ad \o z)[j] = ad[j]
    BY <1>7, <2>1, ConcatIs
  <2>4. f = ad \o z
    BY <1>7 DEF ad
  <2> DEFINE lz == Len(z)
  <2>5. Len(f) = (n + w) + lz /\ lz \in Nat /\ \A j \in 1..(n + w) : f[j] = ad[j]
    BY <2>2, <2>3, <2>4, Zenon
  <2> HIDE DEF lz
  <2>6. \A j \in 1..w : n + j \in 1..(n + w)
    BY <1>3, <1>8
  <2> QED
    BY <1>3, <1>8, <2>2, <2>5, <2>6
<1>11. from \in Nat
  <2>1. Len(f) \in Nat
    BY <1>7
  <2> QED
    BY <1>4, <1>5, <2>1
<1>12. at + w <= Len(s) /\ \A j \in 1..w : d[j] = s[at + j]
  <2>1. ASSUME NEW j \in 1..w PROVE at + j <= Len(s) /\ s[at + j] = d[j]
    <3>1. n + j \in 1..Len(f) /\ from + (n + j) = at + j
      <4>1. Len(f) \in Nat
        BY <1>7
      <4>2. at = from + n /\ w \in Nat \ {0} /\ n + w <= Len(f)
        BY <1>3, <1>4, <1>10
      <4> QED
        BY <1>8, <1>11, <4>1, <4>2
    <3>2. from + (n + j) <= Len(s) /\ s[from + (n + j)] = f[n + j]
      BY <1>4, <3>1 DEF Holds
    <3> QED
      BY <1>10, <3>1, <3>2
  <2>2. w \in 1..w
    BY <1>3
  <2> QED
    BY <2>1, <2>2
<1>13. x = e.v
  <2>1. d = SubSeq(s, at + 1, at + Len(d))
    <3>1. at + Len(d) <= Len(s) /\ \A j \in 1..Len(d) : d[j] = s[at + j]
      BY <1>3, <1>12
    <3> QED
      BY <1>3, <1>5, <3>1, IsPart
  <2>2. ReadAt(b, at, w) = d
    <3>1. at + w <= Size(b)
      BY <1>12 DEF Size, s
    <3> QED
      BY <1>3, <2>1, <3>1 DEF ReadAt, s
  <2> QED
    BY <1>3, <2>2 DEF Get
<1> HIDE DEF x
<1>14. c.buf = s /\ c.wpos = b.wpos /\ c.rpos = at + w
  BY DEF Advanced, Buffers, s, at
<1> HIDE DEF c
<1>15. h \in Seq(Nat) /\ Len(h) = k + 1 /\ h[k + 1] = x /\ \A i \in 1..k : h[i] = g[i]
  <2>1. x \in Nat
    BY <1>3, <1>13
  <2> QED
    BY <2>1, AppendProperties DEF k
<1> HIDE DEF h
<1>16. QueueFrom(c, p) = from
  BY <1>14 DEF QueueFrom, from
<1>17. c.rpos = from + Len(BytesOf(SubSeq(p, 1, k + 1)))
  <2>1. Len(BytesOf(q)) = n + w
    BY <1>7, <1>9
  <2>2. at + w = from + (n + w)
    BY <1>3, <1>4, <1>8, <1>11
  <2> QED
    BY <1>14, <2>1, <2>2
<1>18. \A i \in 1..(k + 1) : h[i] = p[i].v
  <2>1. \A i \in 1..(k + 1) : i \in 1..k \/ i = k + 1
    BY <1>1
  <2>2. h[k + 1] = p[k + 1].v
    BY <1>13, <1>15 DEF e
  <2> QED
    BY <1>4, <1>15, <2>1, <2>2
<1>19. k + 1 <= Len(p)
  BY <1>1
<1>20. QueueOK(c, p, h)
  BY <1>4, <1>14, <1>15, <1>16, <1>17, <1>18, <1>19, Zenon DEF QueueOK, f
<1> QED
  BY <1>20 DEF c, h, x, at, w, e, k

(* An object into which nothing has been put is a queue if its positions   *)
(* are the same.                                                           *)
LEMMA EmptyQueue ==
  ASSUME NEW b \in Buffers, b.rpos = b.wpos
  PROVE  QueueOK(b, <<>>, <<>>)
<1>1. BytesOf(<<>>) = <<>> /\ SubSeq(<<>>, 1, Len(<<>>)) = <<>> /\ Len(<<>>) = 0
  BY BytesOfNone
<1>2. b.wpos \in Nat
  BY DEF Buffers
<1>3. QueueFrom(b, <<>>) = b.wpos
  BY <1>1, <1>2 DEF QueueFrom
<1>4. Holds(b.buf, b.wpos, <<>>)
  BY <1>1 DEF Holds
<1>5. b.wpos >= 0 /\ b.wpos + 0 = b.wpos /\ 0 <= 0 /\ ~\E i : i \in 1..0
  BY <1>2
<1>6. Len(BytesOf(SubSeq(<<>>, 1, Len(<<>>)))) = 0
  BY <1>1, Zenon
<1> QED
  BY <1>1, <1>3, <1>4, <1>5, <1>6, Zenon DEF QueueOK

LEMMA CopiedIs ==
  ASSUME NEW o \in Seq(Byte), NEW at \in Nat, NEW s \in Seq(Byte)
  PROVE  /\ Copied(o, at, s) \in Seq(Byte) /\ Len(Copied(o, at, s)) = Len(o)
         /\ \A i \in 1..Len(o) : i <= at => Copied(o, at, s)[i] = o[i]
<1> DEFINE k == Len(s)
           n == Len(o)
           new == Copied(o, at, s)
<1>1. new = [i \in 1..n |-> IF i \in (at + 1)..(at + k) THEN s[i - at] ELSE o[i]]
  BY Zenon DEF Copied
<1>2. k \in Nat /\ n \in Nat
  OBVIOUS
<1>3. ASSUME NEW i \in 1..n
      PROVE  (IF i \in (at + 1)..(at + k) THEN s[i - at] ELSE o[i]) \in Byte
  <2>1. CASE i \in (at + 1)..(at + k)
    <3>1. i - at \in 1..k
      BY <1>2, <2>1
    <3>2. s[i - at] \in Byte
      BY <3>1
    <3> QED
      BY <2>1, <3>2
  <2>2. CASE ~(i \in (at + 1)..(at + k))
    <3>1. o[i] \in Byte
      OBVIOUS
    <3> QED
      BY <2>2, <3>1
  <2> QED
    BY <2>1, <2>2
<1> HIDE DEF k, n, new
<1>4. new \in [1..n -> Byte]
  BY <1>1, <1>3
<1>5. new \in Seq(Byte) /\ Len(new) = n
  BY <1>2, <1>4
<1>6. ASSUME NEW i \in 1..n, i <= at PROVE new[i] = o[i]
  <2>1. ~(i \in (at + 1)..(at + k))
    BY <1>2, <1>6
  <2> QED
    BY <1>1, <2>1
<1> QED
  BY <1>5, <1>6 DEF n, new

LEMMA PutAtIs ==
  ASSUME NEW b \in Buffers, NEW s \in Seq(Byte), NEW at \in Nat
  PROVE  /\ PutAt(b, s, at) \in Buffers /\ Len(PutAt(b, s, at).buf) = Len(b.buf)
         /\ \A i \in 1..Len(b.buf) : i <= at => PutAt(b, s, at).buf[i] = b.buf[i]
<1>1. CASE at + Len(s) > Size(b)
  BY <1>1 DEF PutAt
<1>2. CASE ~(at + Len(s) > Size(b))
  <2> DEFINE n == Len(s)
             o == b.buf
             new == Copied(o, at, s)
  <2>1. o \in Seq(Byte) /\ n \in Nat
    BY DEF Buffers
  <2>2. new \in Seq(Byte) /\ Len(new) = Len(o) /\ \A i \in 1..Len(o) : i <= at => new[i] = o[i]
    BY <2>1, CopiedIs
  <2>3. PutAt(b, s, at) = [b EXCEPT !.buf = new, !.wpos = at + n]
    BY <1>2 DEF PutAt
  <2>4. at + n \in Nat
    BY <2>1
  <2> HIDE DEF new, n
  <2>5. PutAt(b, s, at) \in Buffers /\ PutAt(b, s, at).buf = new
    BY <2>2, <2>3, <2>4 DEF Buffers
  <2> QED
    BY <2>2, <2>5
<1> QED
  BY <1>1, <1>2

LEMMA ReplaceIs ==
  ASSUME NEW b \in Buffers, NEW key, NEW rep \in Byte, NEW first
  PROVE  /\ Replace(b, key, rep, 0, first) \in Buffers
         /\ Len(Replace(b, key, rep, 0, first).buf) = Len(b.buf)
<1> DEFINE stops == {i \in 0..(Size(b) - 1) : key # 0 /\ b.buf[i + 1] = 0}
           hits == {i \in 0..(Size(b) - 1) : b.buf[i + 1] = key /\ \A s \in stops : i < s}
           these == IF first /\ hits # {} THEN {Min(hits)} ELSE hits
           n == Len(b.buf)
           new == [i \in 1..n |-> IF i - 1 \in these THEN rep ELSE b.buf[i]]
<1>1. Replace(b, key, rep, 0, first) = [b EXCEPT !.buf = new]
  BY DEF Replace
<1> HIDE DEF stops, hits, these
<1>2. b.buf \in Seq(Byte) /\ n \in Nat
  BY DEF Buffers
<1>3. new \in [1..n -> Byte]
  BY <1>2
<1> HIDE DEF new, n
<1>4. new \in Seq(Byte) /\ Len(new) = n
  BY <1>2, <1>3
<1> QED
  BY <1>1, <1>4 DEF Buffers, n

(* One object.                                                             *)
LEMMA UseFacts ==
  ASSUME UInv, NEW x \in Objects
  PROVE  /\ obj[x] \in Buffers /\ put[x] \in Seq(Puts) /\ got[x] \in Seq(Nat)
         /\ queue[x] \in BOOLEAN /\ pack[x] \in Messages \cup {NoPack}
         /\ Len(obj[x].buf) <= Capacity
         /\ pack[x] # NoPack => FrontIs(obj[x].buf, pack[x])
         /\ queue[x] => QueueOK(obj[x], put[x], got[x])
         /\ obj[x].buf \in Seq(Byte) /\ obj[x].rpos \in Nat /\ obj[x].wpos \in Nat
<1>1. UseTypes(obj[x], put[x], got[x], queue[x], pack[x])
      /\ UseOK(obj[x], put[x], got[x], queue[x], pack[x])
  BY DEF UInv
<1>2. obj[x] \in Buffers
  BY <1>1 DEF UseTypes
<1>3. obj[x].buf \in Seq(Byte) /\ obj[x].rpos \in Nat /\ obj[x].wpos \in Nat
  BY <1>2 DEF Buffers
<1> QED
  BY <1>1, <1>3, Zenon DEF UseTypes, UseOK

LEMMA UseSame ==
  ASSUME UInv, NEW x \in Objects
  PROVE  /\ obj = [obj EXCEPT ![x] = obj[x]] /\ put = [put EXCEPT ![x] = put[x]]
         /\ got = [got EXCEPT ![x] = got[x]] /\ queue = [queue EXCEPT ![x] = queue[x]]
         /\ pack = [pack EXCEPT ![x] = pack[x]]
  BY DEF UInv

(* The pack that a write spares is still there.                            *)
LEMMA SparedFront ==
  ASSUME UInv, NEW x \in Objects, NEW b \in Buffers, b.buf = obj[x].buf, NEW s \in Seq(Byte)
  PROVE  /\ Spared(x, b.wpos) \in Messages \cup {NoPack}
         /\ Spared(x, b.wpos) # NoPack => FrontIs(Put(b, s).buf, Spared(x, b.wpos))
<1>1. pack[x] \in Messages \cup {NoPack} /\ (pack[x] # NoPack => FrontIs(b.buf, pack[x]))
  BY UseFacts
<1>2. CASE b.wpos >= HeadLen + Len(pack[x].body)
  <2>1. Spared(x, b.wpos) = pack[x]
    BY <1>2 DEF Spared
  <2>2. ASSUME pack[x] # NoPack PROVE FrontIs(Put(b, s).buf, pack[x])
    BY <1>1, <1>2, <2>2, PutFront
  <2> QED
    BY <1>1, <2>1, <2>2
<1>3. CASE ~(b.wpos >= HeadLen + Len(pack[x].body))
  BY <1>3 DEF Spared
<1> QED
  BY <1>2, <1>3

LEMMA PutNumberKeeps ==
  ASSUME UInv, NEW x \in Objects, NEW v \in Numbers, NEW w \in Widths(v), PutNumber(x, v, w)
  PROVE  UInv'
<1> DEFINE e == [v |-> v, w |-> w]
           s == Digits(v, w)
           b == Put(obj[x], s)
           p == put[x] \o <<e>>
           m == Spared(x, obj[x].wpos)
<1>1. /\ obj[x] \in Buffers /\ put[x] \in Seq(Puts) /\ got[x] \in Seq(Nat)
      /\ queue[x] \in BOOLEAN /\ Len(obj[x].buf) <= Capacity
      /\ queue[x] => QueueOK(obj[x], put[x], got[x])
  BY UseFacts
<1>2. e \in Puts
  <2>1. w \in Nat
    BY ByteFacts DEF Widths
  <2> QED
    BY <2>1 DEF Puts
<1>3. s \in Seq(Byte) /\ Len(s) = w /\ <<e>> \in Seq(Puts) /\ BytesOf(<<e>>) = s
  BY <1>2, PutsFacts, BytesOfOne
<1>4. /\ obj[x].wpos + w <= Capacity /\ obj' = [obj EXCEPT ![x] = b]
      /\ put' = [put EXCEPT ![x] = Append(put[x], e)]
      /\ pack' = [pack EXCEPT ![x] = m] /\ UNCHANGED <<got, queue>>
  BY DEF PutNumber
<1>5. Append(put[x], e) = p /\ p \in Seq(Puts)
  <2> DEFINE t == put[x]
  <2> HIDE DEF t, e
  <2>1. t \in Seq(Puts)
    BY <1>1 DEF t
  <2>2. Append(t, e) = t \o <<e>>
    BY <1>2, <2>1
  <2>3. t \o <<e>> \in Seq(Puts)
    BY <1>3, <2>1, BytesOfConcat
  <2> QED
    BY <2>2, <2>3 DEF t
<1>6. m \in Messages \cup {NoPack} /\ (m # NoPack => FrontIs(b.buf, m))
  <2> HIDE DEF s
  <2> QED
    BY <1>1, <1>3, SparedFront
<1>7. b \in Buffers /\ Len(b.buf) <= Capacity
  <2> HIDE DEF s
  <2> QED
    BY <1>1, <1>3, <1>4, PutSize
<1>8. ASSUME queue[x] PROVE QueueOK(b, p, got[x])
  <2>1. QueueOK(Put(obj[x], BytesOf(<<e>>)), put[x] \o <<e>>, got[x])
    <3> HIDE DEF e
    <3> QED
      BY <1>1, <1>3, <1>8, PutQueue
  <2> QED
    BY <1>3, <2>1, Zenon
<1> HIDE DEF b, p, m, s, e
<1>9. UseTypes(b, p, got[x], queue[x], m) /\ UseOK(b, p, got[x], queue[x], m)
  BY <1>1, <1>5, <1>6, <1>7, <1>8, Zenon DEF UseTypes, UseOK
<1>10. got' = [got EXCEPT ![x] = got[x]] /\ queue' = [queue EXCEPT ![x] = queue[x]]
  BY <1>4, UseSame
<1>11. /\ put' = [put EXCEPT ![x] = p] /\ obj' = [obj EXCEPT ![x] = b]
       /\ pack' = [pack EXCEPT ![x] = m]
  BY <1>4, <1>5
<1> QED
  BY <1>9, <1>10, <1>11, UseFrame

LEMMA GetNumberKeeps ==
  ASSUME UInv, NEW x \in Objects, NEW w \in {1, SizeLen}, GetNumber(x, w)
  PROVE  UInv'
<1> DEFINE b == obj[x]
           p == put[x]
           c == Advanced(b, w)
           n == Len(got[x]) + 1
           v == Get(b, b.rpos, w)
           g == Append(got[x], v)
           q == queue[x] /\ n <= Len(p) /\ p[n].w = w
           m == pack[x]
<1>1. /\ b \in Buffers /\ p \in Seq(Puts) /\ got[x] \in Seq(Nat)
      /\ queue[x] \in BOOLEAN /\ Len(b.buf) <= Capacity /\ m \in Messages \cup {NoPack}
      /\ queue[x] => QueueOK(b, p, got[x])
      /\ b.rpos \in Nat
      /\ m # NoPack => FrontIs(b.buf, m)
  BY UseFacts
<1>2. w \in Nat
  BY ByteFacts
<1>3. v \in Nat
  <2> HIDE DEF b
  <2> QED
    BY <1>1, <1>2, ReadType
<1>4. c \in Buffers /\ c.buf = b.buf
  <2> HIDE DEF b
  <2> QED
    BY <1>1, <1>2 DEF Advanced, Buffers
<1>5. /\ obj' = [obj EXCEPT ![x] = c] /\ got' = [got EXCEPT ![x] = g]
      /\ queue' = [queue EXCEPT ![x] = q] /\ UNCHANGED <<put, pack>>
  BY DEF GetNumber
<1>6. g \in Seq(Nat)
  <2> DEFINE t == got[x]
  <2> HIDE DEF t, v
  <2>1. t \in Seq(Nat)
    BY <1>1 DEF t
  <2>2. Append(t, v) \in Seq(Nat)
    BY <1>3, <2>1
  <2> QED
    BY <2>2 DEF t
<1>7. ASSUME q PROVE QueueOK(c, p, g)
  <2>1. QueueOK(b, p, got[x]) /\ Len(got[x]) + 1 <= Len(p) /\ p[Len(got[x]) + 1].w = w
    BY <1>1, <1>7
  <2> HIDE DEF b, p
  <2>2. QueueOK(Advanced(b, p[Len(got[x]) + 1].w), p,
                Append(got[x], Get(b, b.rpos, p[Len(got[x]) + 1].w)))
    BY <1>1, <2>1, GetQueue
  <2> QED
    BY <2>1, <2>2
<1>8. q \in BOOLEAN
  BY <1>1, Zenon
<1> HIDE DEF b, p, c, n, v, g, q, m
<1>9. UseTypes(c, p, g, q, m) /\ UseOK(c, p, g, q, m)
  BY <1>1, <1>4, <1>6, <1>7, <1>8, Zenon DEF UseTypes, UseOK
<1>10. put' = [put EXCEPT ![x] = p] /\ pack' = [pack EXCEPT ![x] = m]
  BY <1>5, UseSame DEF p, m
<1> QED
  BY <1>5, <1>9, <1>10, UseFrame

LEMMA PutNumberAtKeeps ==
  ASSUME UInv, NEW x \in Objects, NEW v \in Numbers, NEW w \in Widths(v), NEW at \in Positions,
         PutNumberAt(x, v, w, at)
  PROVE  UInv'
<1> DEFINE s == Digits(v, w)
           b == obj[x]
           c == PutAt(b, s, at)
           q == queue[x] /\ c = b
           m == IF c = b THEN pack[x] ELSE Spared(x, at)
<1>1. /\ b \in Buffers /\ put[x] \in Seq(Puts) /\ got[x] \in Seq(Nat)
      /\ queue[x] \in BOOLEAN /\ Len(b.buf) <= Capacity /\ pack[x] \in Messages \cup {NoPack}
      /\ queue[x] => QueueOK(b, put[x], got[x])
      /\ pack[x] # NoPack => FrontIs(b.buf, pack[x])
      /\ b.buf \in Seq(Byte)
  BY UseFacts
<1>2. s \in Seq(Byte) /\ at \in Nat
  <2> DEFINE e == [v |-> v, w |-> w]
  <2>1. w \in Nat
    BY ByteFacts DEF Widths
  <2>2. e \in Puts
    BY <2>1 DEF Puts
  <2>3. Digits(e.v, e.w) \in Seq(Byte)
    <3> HIDE DEF e
    <3> QED
      BY <2>2, PutsFacts
  <2>4. Positions \subseteq 0..Capacity /\ Capacity \in 0..(Wrap - 1)
    BY UseAssumption
  <2>5. at \in Nat
    BY <2>4
  <2> QED
    BY <2>3, <2>5
<1>3. /\ c \in Buffers /\ Len(c.buf) = Len(b.buf)
      /\ \A i \in 1..Len(b.buf) : i <= at => c.buf[i] = b.buf[i]
  <2> HIDE DEF s, b
  <2> QED
    BY <1>1, <1>2, PutAtIs
<1>4. obj'[x] = c /\ obj' = [obj EXCEPT ![x] = c]
  BY DEF PutNumberAt, UInv
<1>5. /\ queue' = [queue EXCEPT ![x] = q] /\ pack' = [pack EXCEPT ![x] = m]
      /\ UNCHANGED <<put, got>>
  <2> HIDE DEF c
  <2>1. /\ queue' = [queue EXCEPT ![x] = queue[x] /\ obj'[x] = obj[x]]
        /\ pack' = [pack EXCEPT ![x] = IF obj'[x] = obj[x] THEN pack[x] ELSE Spared(x, at)]
        /\ UNCHANGED <<put, got>>
    BY DEF PutNumberAt
  <2> QED
    BY <1>4, <2>1
<1>6. m \in Messages \cup {NoPack} /\ (m # NoPack => FrontIs(c.buf, m))
  <2>1. CASE c = b
    BY <1>1, <2>1
  <2>2. CASE c # b /\ at >= HeadLen + Len(pack[x].body)
    <3>1. m = pack[x]
      BY <2>2 DEF Spared
    <3>2. ASSUME pack[x] # NoPack PROVE FrontIs(c.buf, pack[x])
      <4> DEFINE o == b.buf
                 t == c.buf
                 k == pack[x]
                 n == HeadLen + Len(k.body)
      <4>1. /\ o \in Seq(Byte) /\ t \in Seq(Byte) /\ Len(t) = Len(o) /\ k \in Messages
            /\ FrontIs(o, k) /\ \A i \in 1..Len(o) : i <= at => t[i] = o[i]
        BY <1>1, <1>3, <3>2 DEF Buffers
      <4>2. n \in Nat /\ at >= n
        BY <2>2, <4>1, MessageFacts
      <4> HIDE DEF o, t, k
      <4>3. Len(o) <= Len(t)
        BY <4>1
      <4>4. \A i \in 1..Len(o) : i <= n => t[i] = o[i]
        <5> HIDE DEF n
        <5>1. \A i \in 1..Len(o) : i <= n => i <= at
          BY <1>2, <4>2
        <5> QED
          BY <4>1, <5>1
      <4>5. FrontIs(t, k)
        BY <4>1, <4>3, <4>4, FrontKept
      <4> QED
        BY <4>5 DEF t, k
    <3> QED
      BY <1>1, <3>1, <3>2
  <2>3. CASE c # b /\ ~(at >= HeadLen + Len(pack[x].body))
    BY <2>3 DEF Spared
  <2> QED
    BY <2>1, <2>2, <2>3
<1>7. q => QueueOK(c, put[x], got[x])
  BY <1>1, Zenon
<1>8. q \in BOOLEAN
  BY <1>1, Zenon
<1>9. Len(c.buf) <= Capacity
  BY <1>1, <1>3
<1> HIDE DEF b, c, q, m, s
<1>10. UseTypes(c, put[x], got[x], q, m) /\ UseOK(c, put[x], got[x], q, m)
  BY <1>1, <1>3, <1>6, <1>7, <1>8, <1>9, Zenon DEF UseTypes, UseOK
<1>11. put' = [put EXCEPT ![x] = put[x]] /\ got' = [got EXCEPT ![x] = got[x]]
  BY <1>5, UseSame
<1> QED
  BY <1>4, <1>5, <1>10, <1>11, UseFrame, ZenonT(40)

LEMMA PutArrayAtKeeps ==
  ASSUME UInv, NEW x \in Objects, NEW k \in Messages, NEW at \in Positions,
         PutArrayAt(x, k.body, at)
  PROVE  UInv'
<1> DEFINE s == k.body
           b == [obj[x] EXCEPT !.wpos = at]
           c == Put(b, s)
           m == Spared(x, at)
<1>1. /\ obj[x] \in Buffers /\ put[x] \in Seq(Puts) /\ got[x] \in Seq(Nat)
      /\ Len(obj[x].buf) <= Capacity
  BY UseFacts
<1>2. s \in Seq(Byte) /\ at \in Nat
  <2>1. s \in Seq(Byte)
    BY MessageFacts
  <2>2. Positions \subseteq 0..Capacity /\ Capacity \in 0..(Wrap - 1)
    BY UseAssumption
  <2>3. at \in Nat
    BY <2>2
  <2> QED
    BY <2>1, <2>3
<1>3. b \in Buffers /\ b.buf = obj[x].buf /\ b.wpos = at
  BY <1>1, <1>2 DEF Buffers
<1>4. /\ at + Len(s) <= Capacity /\ obj' = [obj EXCEPT ![x] = c]
      /\ queue' = [queue EXCEPT ![x] = FALSE] /\ pack' = [pack EXCEPT ![x] = m]
      /\ UNCHANGED <<put, got>>
  BY DEF PutArrayAt, PutBytesAt
<1> HIDE DEF s, b
<1>5. c \in Buffers /\ Len(c.buf) <= Capacity
  <2>1. Len(b.buf) <= Capacity /\ b.wpos + Len(s) <= Capacity
    BY <1>1, <1>3, <1>4
  <2> QED
    BY <1>2, <1>3, <2>1, PutSize
<1>6. m \in Messages \cup {NoPack} /\ (m # NoPack => FrontIs(c.buf, m))
  <2>1. /\ Spared(x, b.wpos) \in Messages \cup {NoPack}
        /\ Spared(x, b.wpos) # NoPack => FrontIs(Put(b, s).buf, Spared(x, b.wpos))
    BY <1>2, <1>3, SparedFront
  <2> QED
    BY <1>3, <2>1, Zenon
<1> HIDE DEF c, m
<1>7. UseTypes(c, put[x], got[x], FALSE, m) /\ UseOK(c, put[x], got[x], FALSE, m)
  BY <1>1, <1>5, <1>6, Zenon DEF UseTypes, UseOK
<1>8. put' = [put EXCEPT ![x] = put[x]] /\ got' = [got EXCEPT ![x] = got[x]]
  BY <1>4, UseSame
<1> QED
  BY <1>4, <1>7, <1>8, UseFrame

(* Bytes that are put at the write position, a pack k at their front: what *)
(* was put at position 0 begins with that pack, what was put further on    *)
(* may spare the one at the front.                                         *)
LEMMA PutFrontOr ==
  ASSUME UInv, NEW x \in Objects, NEW s \in Seq(Byte), NEW k \in Messages \cup {NoPack},
         k # NoPack => FrontIs(s, k)
  PROVE  LET m == IF obj[x].wpos = 0 THEN k ELSE Spared(x, obj[x].wpos)
         IN  m \in Messages \cup {NoPack} /\ (m # NoPack => FrontIs(Put(obj[x], s).buf, m))
<1> DEFINE m == IF obj[x].wpos = 0 THEN k ELSE Spared(x, obj[x].wpos)
<1>1. obj[x] \in Buffers
  BY UseFacts
<1>2. CASE obj[x].wpos = 0
  <2>1. m = k
    BY <1>2
  <2>2. ASSUME k # NoPack PROVE FrontIs(Put(obj[x], s).buf, k)
    BY <1>1, <1>2, <2>2, PutAtFront
  <2> QED
    BY <2>1, <2>2
<1>3. CASE obj[x].wpos # 0
  <2>1. m = Spared(x, obj[x].wpos)
    BY <1>3
  <2>2. /\ Spared(x, obj[x].wpos) \in Messages \cup {NoPack}
        /\ Spared(x, obj[x].wpos) # NoPack
             => FrontIs(Put(obj[x], s).buf, Spared(x, obj[x].wpos))
    BY <1>1, SparedFront
  <2> QED
    BY <2>1, <2>2
<1> QED
  BY <1>2, <1>3

LEMMA PutPackKeeps ==
  ASSUME UInv, NEW x \in Objects, NEW k \in Messages, PutPack(x, k)
  PROVE  UInv'
<1> DEFINE s == PackOf(k.type, k.body)
           c == Put(obj[x], s)
           m == IF obj[x].wpos = 0 THEN k ELSE Spared(x, obj[x].wpos)
<1>1. /\ obj[x] \in Buffers /\ put[x] \in Seq(Puts) /\ got[x] \in Seq(Nat)
      /\ Len(obj[x].buf) <= Capacity /\ obj[x].wpos \in Nat
  BY UseFacts
<1>2. s \in Seq(Byte) /\ FrontIs(s, k) /\ Len(s) = HeadLen + Len(k.body)
  BY PackFront
<1>3. /\ obj[x].wpos + HeadLen + Len(k.body) <= Capacity /\ obj' = [obj EXCEPT ![x] = c]
      /\ queue' = [queue EXCEPT ![x] = FALSE] /\ pack' = [pack EXCEPT ![x] = m]
      /\ UNCHANGED <<put, got>>
  BY DEF PutPack, PutMessage
<1> HIDE DEF s
<1>4. c \in Buffers /\ Len(c.buf) <= Capacity
  <2> DEFINE n == Len(k.body)
             at == obj[x].wpos
  <2>1. n \in Nat /\ HeadLen \in Nat /\ at \in Nat /\ at + HeadLen + n <= Capacity
    BY <1>1, <1>3, MessageFacts, ByteFacts
  <2> HIDE DEF n, at
  <2>2. at + (HeadLen + n) <= Capacity
    BY <2>1
  <2>3. obj[x].wpos + Len(s) <= Capacity
    BY <1>2, <2>2 DEF n, at
  <2> QED
    BY <1>1, <1>2, <2>3, PutSize
<1>5. m \in Messages \cup {NoPack} /\ (m # NoPack => FrontIs(c.buf, m))
  <2>1. k \in Messages \cup {NoPack} /\ (k # NoPack => FrontIs(s, k))
    BY <1>2
  <2> QED
    BY <1>2, <2>1, PutFrontOr, Zenon
<1> HIDE DEF c, m
<1>6. UseTypes(c, put[x], got[x], FALSE, m) /\ UseOK(c, put[x], got[x], FALSE, m)
  BY <1>1, <1>4, <1>5, Zenon DEF UseTypes, UseOK
<1>7. put' = [put EXCEPT ![x] = put[x]] /\ got' = [got EXCEPT ![x] = got[x]]
  BY <1>3, UseSame
<1> QED
  BY <1>3, <1>6, <1>7, UseFrame

LEMMA PutAllKeeps ==
  ASSUME UInv, NEW x \in Objects, NEW y \in Objects, PutAll(x, y)
  PROVE  UInv'
<1> DEFINE s == obj[y].buf
           r == put[y]
           c == Put(obj[x], s)
           m == IF obj[x].wpos = 0 THEN pack[y] ELSE Spared(x, obj[x].wpos)
<1>1. /\ obj[x] \in Buffers /\ put[x] \in Seq(Puts) /\ got[x] \in Seq(Nat)
      /\ queue[x] \in BOOLEAN /\ Len(obj[x].buf) <= Capacity
      /\ queue[x] => QueueOK(obj[x], put[x], got[x])
  BY UseFacts
<1>2. /\ s \in Seq(Byte) /\ r \in Seq(Puts) /\ pack[y] \in Messages \cup {NoPack}
      /\ pack[y] # NoPack => FrontIs(s, pack[y])
  BY UseFacts
<1>3. /\ obj[x].wpos + Len(s) <= Capacity /\ obj' = [obj EXCEPT ![x] = c]
      /\ pack' = [pack EXCEPT ![x] = m] /\ UNCHANGED got
      /\ \/ /\ s = BytesOf(r) /\ put' = [put EXCEPT ![x] = put[x] \o r] /\ UNCHANGED queue
         \/ queue' = [queue EXCEPT ![x] = FALSE] /\ UNCHANGED put
  BY DEF PutAll, Size, BytesOf
<1> HIDE DEF s, r
<1>4. c \in Buffers /\ Len(c.buf) <= Capacity
  BY <1>1, <1>2, <1>3, PutSize
<1>5. m \in Messages \cup {NoPack} /\ (m # NoPack => FrontIs(c.buf, m))
  BY <1>2, PutFrontOr, Zenon
<1>6. got' = [got EXCEPT ![x] = got[x]]
  BY <1>3, UseSame
<1> HIDE DEF m
<1>7. CASE s = BytesOf(r) /\ put' = [put EXCEPT ![x] = put[x] \o r] /\ UNCHANGED queue
  <2> DEFINE p == put[x] \o r
  <2>1. p \in Seq(Puts)
    BY <1>1, <1>2, BytesOfConcat
  <2>2. ASSUME queue[x] PROVE QueueOK(c, p, got[x])
    <3>1. QueueOK(Put(obj[x], BytesOf(r)), put[x] \o r, got[x])
      BY <1>1, <1>2, <2>2, PutQueue
    <3> QED
      BY <1>7, <3>1, Zenon
  <2> HIDE DEF c
  <2>3. put' = [put EXCEPT ![x] = p] /\ queue' = [queue EXCEPT ![x] = queue[x]]
    BY <1>7, UseSame
  <2> HIDE DEF p
  <2>4. UseTypes(c, p, got[x], queue[x], m) /\ UseOK(c, p, got[x], queue[x], m)
    BY <1>1, <1>4, <1>5, <2>1, <2>2, Zenon DEF UseTypes, UseOK
  <2> QED
    BY <1>3, <1>6, <2>3, <2>4, UseFrame
<1>8. CASE queue' = [queue EXCEPT ![x] = FALSE] /\ UNCHANGED put
  <2> HIDE DEF c
  <2>1. UseTypes(c, put[x], got[x], FALSE, m) /\ UseOK(c, put[x], got[x], FALSE, m)
    BY <1>1, <1>4, <1>5, Zenon DEF UseTypes, UseOK
  <2>2. put' = [put EXCEPT ![x] = put[x]]
    BY <1>8, UseSame
  <2> QED
    BY <1>3, <1>6, <1>8, <2>1, <2>2, UseFrame
<1> QED
  BY <1>3, <1>7, <1>8

LEMMA FreshKeeps ==
  ASSUME UInv, NEW x \in Objects, Clear(x) \/ \E n \in Positions : ResizeTo(x, n)
  PROVE  UInv'
<1>1. obj[x] \in Buffers /\ obj[x].buf \in Seq(Byte)
  BY UseFacts
<1>2. PICK b : /\ b = NewBytes \/ \E n \in Positions : b = Resize(obj[x], n)
               /\ obj' = [obj EXCEPT ![x] = b] /\ queue' = [queue EXCEPT ![x] = TRUE] /\ Fresh(x)
  BY DEF Clear, ResizeTo
<1>3. b \in Buffers /\ Len(b.buf) <= Capacity /\ b.rpos = b.wpos
  <2>1. Positions \subseteq 0..Capacity /\ Capacity \in 0..(Wrap - 1)
    BY UseAssumption
  <2>2. CASE b = NewBytes
    BY <2>1, <2>2 DEF NewBytes, Buffers
  <2>3. ASSUME NEW n \in Positions, b = Resize(obj[x], n)
        PROVE  b \in Buffers /\ Len(b.buf) <= Capacity /\ b.rpos = b.wpos
    <3>1. n \in Nat /\ n <= Capacity
      BY <2>1
    <3>2. Resized(obj[x].buf, n) \in Seq(Byte) /\ Len(Resized(obj[x].buf, n)) = n
      BY <1>1, <3>1, ResizedIs
    <3> QED
      BY <2>3, <3>1, <3>2 DEF Resize, Buffers
  <2> QED
    BY <1>2, <2>2, <2>3
<1>4. QueueOK(b, <<>>, <<>>)
  BY <1>3, EmptyQueue
<1>5. UseTypes(b, <<>>, <<>>, TRUE, NoPack) /\ UseOK(b, <<>>, <<>>, TRUE, NoPack)
  BY <1>3, <1>4 DEF UseTypes, UseOK
<1> QED
  BY <1>2, <1>5, UseFrame DEF Fresh

LEMMA CloneKeeps ==
  ASSUME UInv, NEW x \in Objects, NEW y \in Objects, CloneTo(x, y)
  PROVE  UInv'
<1> DEFINE b == Clone(obj[x])
           m == pack[x]
<1>1. /\ obj[x] \in Buffers /\ m \in Messages \cup {NoPack} /\ Len(obj[x].buf) <= Capacity
      /\ m # NoPack => FrontIs(obj[x].buf, m)
  BY UseFacts
<1>2. b \in Buffers /\ b.buf = obj[x].buf /\ b.rpos = b.wpos
  BY <1>1 DEF Clone, Buffers
<1>3. QueueOK(b, <<>>, <<>>)
  <2> HIDE DEF b
  <2> QED
    BY <1>2, EmptyQueue
<1>4. /\ obj' = [obj EXCEPT ![y] = b] /\ put' = [put EXCEPT ![y] = <<>>]
      /\ got' = [got EXCEPT ![y] = <<>>] /\ queue' = [queue EXCEPT ![y] = TRUE]
      /\ pack' = [pack EXCEPT ![y] = m]
  BY DEF CloneTo
<1> HIDE DEF b, m
<1>5. <<>> \in Seq(Puts) /\ <<>> \in Seq(Nat)
  OBVIOUS
<1>6. UseTypes(b, <<>>, <<>>, TRUE, m) /\ UseOK(b, <<>>, <<>>, TRUE, m)
  BY <1>1, <1>2, <1>3, <1>5 DEF UseTypes, UseOK
<1> QED
  BY <1>4, <1>6, UseFrame

LEMMA MoveKeeps ==
  ASSUME UInv, NEW x \in Objects, NEW y \in Objects, MoveTo(x, y)
  PROVE  UInv'
<1> DEFINE b == MovedFrom(obj[x])
           q == obj[x].rpos = obj[x].wpos
<1>1. obj[x] \in Buffers
  BY UseFacts
<1>2. b \in Buffers /\ Len(b.buf) <= Capacity /\ b.rpos = obj[x].rpos /\ b.wpos = obj[x].wpos
  <2>1. Capacity \in 0..(Wrap - 1)
    BY UseAssumption
  <2>2. \A o \in Buffers : /\ MovedFrom(o) \in Buffers /\ MovedFrom(o).buf = <<>>
                           /\ MovedFrom(o).rpos = o.rpos /\ MovedFrom(o).wpos = o.wpos
    <3> SUFFICES ASSUME NEW o \in Buffers
                 PROVE  /\ MovedFrom(o) \in Buffers /\ MovedFrom(o).buf = <<>>
                        /\ MovedFrom(o).rpos = o.rpos /\ MovedFrom(o).wpos = o.wpos
      OBVIOUS
    <3>1. o.rpos \in Nat /\ o.wpos \in Nat /\ o = [buf |-> o.buf, rpos |-> o.rpos, wpos |-> o.wpos]
      BY DEF Buffers
    <3>2. MovedFrom(o) = [buf |-> <<>>, rpos |-> o.rpos, wpos |-> o.wpos]
      BY <3>1 DEF MovedFrom
    <3>3. <<>> \in Seq(Byte)
      OBVIOUS
    <3> QED
      BY <3>1, <3>2, <3>3 DEF Buffers
  <2>3. b \in Buffers /\ b.buf = <<>> /\ b.rpos = obj[x].rpos /\ b.wpos = obj[x].wpos
    BY <1>1, <2>2
  <2>4. Len(b.buf) = 0
    BY <2>3
  <2> QED
    BY <2>1, <2>3, <2>4
<1>3. /\ x # y
      /\ obj' = [obj EXCEPT ![y] = obj[x], ![x] = b]
      /\ put' = [put EXCEPT ![y] = put[x], ![x] = <<>>]
      /\ got' = [got EXCEPT ![y] = got[x], ![x] = <<>>]
      /\ queue' = [queue EXCEPT ![y] = queue[x], ![x] = q]
      /\ pack' = [pack EXCEPT ![y] = pack[x], ![x] = NoPack]
  BY DEF MoveTo, UInv
<1> HIDE DEF b
<1>4. ASSUME q PROVE QueueOK(b, <<>>, <<>>)
  BY <1>2, <1>4, EmptyQueue
<1> HIDE DEF q
<1>5. q \in BOOLEAN
  BY DEF q
<1>6. UseTypes(b, <<>>, <<>>, q, NoPack) /\ UseOK(b, <<>>, <<>>, q, NoPack)
  <2>1. <<>> \in Seq(Puts) /\ <<>> \in Seq(Nat)
    OBVIOUS
  <2> QED
    BY <1>2, <1>4, <1>5, <2>1, Zenon DEF UseTypes, UseOK
<1>7. /\ obj' = [z \in Objects |-> obj'[z]] /\ put' = [z \in Objects |-> put'[z]]
      /\ got' = [z \in Objects |-> got'[z]] /\ queue' = [z \in Objects |-> queue'[z]]
      /\ pack' = [z \in Objects |-> pack'[z]]
  BY <1>3 DEF UInv
<1>8. ASSUME NEW z \in Objects
      PROVE  /\ UseTypes(obj'[z], put'[z], got'[z], queue'[z], pack'[z])
             /\ UseOK(obj'[z], put'[z], got'[z], queue'[z], pack'[z])
  <2>1. CASE z = x
    <3>1. /\ obj'[z] = b /\ put'[z] = <<>> /\ got'[z] = <<>> /\ queue'[z] = q
          /\ pack'[z] = NoPack
      BY <1>3, <2>1 DEF UInv
    <3> QED
      BY <1>6, <3>1, Zenon
  <2>2. CASE z # x
    <3> DEFINE k == IF z = y THEN x ELSE z
    <3>1. /\ obj'[z] = obj[k] /\ put'[z] = put[k] /\ got'[z] = got[k] /\ queue'[z] = queue[k]
          /\ pack'[z] = pack[k] /\ k \in Objects
      BY <1>3, <2>2 DEF UInv
    <3> HIDE DEF k
    <3>2. /\ UseTypes(obj[k], put[k], got[k], queue[k], pack[k])
          /\ UseOK(obj[k], put[k], got[k], queue[k], pack[k])
      BY <3>1 DEF UInv
    <3> QED
      BY <3>1, <3>2, Zenon
  <2> QED
    BY <2>1, <2>2
<1> QED
  BY <1>7, <1>8, Zenon DEF UInv

LEMMA ReplaceKeeps ==
  ASSUME UInv, NEW x \in Objects, NEW key, NEW rep \in Byte, NEW first,
         ReplaceIn(x, key, rep, first)
  PROVE  UInv'
<1> DEFINE b == obj[x]
           c == Replace(b, key, rep, 0, first)
           q == queue[x] /\ c = b
           m == IF c = b THEN pack[x] ELSE NoPack
<1>1. /\ b \in Buffers /\ put[x] \in Seq(Puts) /\ got[x] \in Seq(Nat)
      /\ queue[x] \in BOOLEAN /\ Len(b.buf) <= Capacity /\ pack[x] \in Messages \cup {NoPack}
      /\ queue[x] => QueueOK(b, put[x], got[x])
      /\ pack[x] # NoPack => FrontIs(b.buf, pack[x])
  BY UseFacts
<1>2. c \in Buffers /\ Len(c.buf) = Len(b.buf)
  <2> HIDE DEF b
  <2> QED
    BY <1>1, ReplaceIs
<1>3. obj'[x] = c /\ obj' = [obj EXCEPT ![x] = c]
  BY DEF ReplaceIn, UInv
<1> HIDE DEF c
<1>4. /\ queue' = [queue EXCEPT ![x] = q] /\ pack' = [pack EXCEPT ![x] = m]
      /\ UNCHANGED <<put, got>>
  <2>1. /\ queue' = [queue EXCEPT ![x] = queue[x] /\ obj'[x] = obj[x]]
        /\ pack' = [pack EXCEPT ![x] = IF obj'[x] = obj[x] THEN pack[x] ELSE NoPack]
        /\ UNCHANGED <<put, got>>
    BY DEF ReplaceIn
  <2> QED
    BY <1>3, <2>1
<1>5. m \in Messages \cup {NoPack} /\ (m # NoPack => FrontIs(c.buf, m))
  BY <1>1
<1>6. (q => QueueOK(c, put[x], got[x])) /\ q \in BOOLEAN
  BY <1>1, Zenon
<1>7. Len(c.buf) <= Capacity
  BY <1>1, <1>2
<1> HIDE DEF b, q, m
<1>8. UseTypes(c, put[x], got[x], q, m) /\ UseOK(c, put[x], got[x], q, m)
  BY <1>1, <1>2, <1>5, <1>6, <1>7, Zenon DEF UseTypes, UseOK
<1>9. put' = [put EXCEPT ![x] = put[x]] /\ got' = [got EXCEPT ![x] = got[x]]
  BY <1>4, UseSame
<1> QED
  BY <1>3, <1>4, <1>8, <1>9, UseFrame, ZenonT(40)

LEMMA SetReadPosKeeps ==
  ASSUME UInv, NEW x \in Objects, NEW at \in Positions, SetReadPos(x, at)
  PROVE  UInv'
<1> DEFINE b == obj[x]
           c == [b EXCEPT !.rpos = at]
           q == queue[x] /\ at = b.rpos
           m == pack[x]
<1>1. /\ b \in Buffers /\ put[x] \in Seq(Puts) /\ got[x] \in Seq(Nat)
      /\ queue[x] \in BOOLEAN /\ Len(b.buf) <= Capacity /\ m \in Messages \cup {NoPack}
      /\ queue[x] => QueueOK(b, put[x], got[x])
      /\ m # NoPack => FrontIs(b.buf, m)
  BY UseFacts
<1>2. at \in Nat
  <2>1. Positions \subseteq 0..Capacity /\ Capacity \in 0..(Wrap - 1)
    BY UseAssumption
  <2> QED
    BY <2>1
<1>3. c \in Buffers /\ c.buf = b.buf /\ (at = b.rpos => c = b)
  <2> HIDE DEF b
  <2> QED
    BY <1>1, <1>2 DEF Buffers
<1>4. /\ obj' = [obj EXCEPT ![x] = c] /\ queue' = [queue EXCEPT ![x] = q]
      /\ UNCHANGED <<put, got, pack>>
  BY DEF SetReadPos, UInv
<1> HIDE DEF c
<1>5. (q => QueueOK(c, put[x], got[x])) /\ q \in BOOLEAN
  BY <1>1, <1>3, Zenon
<1> HIDE DEF b, q, m
<1>6. UseTypes(c, put[x], got[x], q, m) /\ UseOK(c, put[x], got[x], q, m)
  BY <1>1, <1>3, <1>5, Zenon DEF UseTypes, UseOK
<1>7. /\ put' = [put EXCEPT ![x] = put[x]] /\ got' = [got EXCEPT ![x] = got[x]]
      /\ pack' = [pack EXCEPT ![x] = m]
  BY <1>4, UseSame DEF m
<1> QED
  BY <1>4, <1>6, <1>7, UseFrame

LEMMA UInvInit == BInit => UInv
<1> SUFFICES ASSUME BInit PROVE UInv
  OBVIOUS
<1>1. NewBytes \in Buffers /\ NewBytes.rpos = NewBytes.wpos /\ NewBytes.buf = <<>>
  BY DEF NewBytes, Buffers
<1>2. QueueOK(NewBytes, <<>>, <<>>)
  BY <1>1, EmptyQueue
<1>3. Len(NewBytes.buf) <= Capacity
  BY <1>1, UseAssumption
<1>4. <<>> \in Seq(Puts) /\ <<>> \in Seq(Nat)
  OBVIOUS
<1>5. /\ UseTypes(NewBytes, <<>>, <<>>, TRUE, NoPack)
      /\ UseOK(NewBytes, <<>>, <<>>, TRUE, NoPack)
  BY <1>1, <1>2, <1>3, <1>4 DEF UseTypes, UseOK
<1>6. ASSUME NEW x \in Objects
      PROVE  /\ obj[x] = NewBytes /\ put[x] = <<>> /\ got[x] = <<>> /\ queue[x] = TRUE
             /\ pack[x] = NoPack
  BY DEF BInit
<1>7. /\ obj = [x \in Objects |-> obj[x]] /\ put = [x \in Objects |-> put[x]]
      /\ got = [x \in Objects |-> got[x]] /\ queue = [x \in Objects |-> queue[x]]
      /\ pack = [x \in Objects |-> pack[x]]
  BY DEF BInit
<1> QED
  BY <1>5, <1>6, <1>7 DEF UInv

LEMMA UInvStep == UInv /\ [BNext]_bvars => UInv'
<1> SUFFICES ASSUME UInv, [BNext]_bvars PROVE UInv'
  OBVIOUS
<1>1. CASE UNCHANGED bvars
  BY <1>1 DEF bvars, UInv
<1>2. CASE BNext
  <2> PICK x \in Objects :
        \/ \E v \in Numbers : \E w \in Widths(v) :
             \/ PutNumber(x, v, w)
             \/ \E at \in Positions : PutNumberAt(x, v, w, at)
        \/ \E w \in {1, SizeLen} : GetNumber(x, w)
        \/ \E m \in Messages :
             \/ PutPack(x, m)
             \/ \E at \in Positions : PutArrayAt(x, m.body, at)
        \/ Clear(x)
        \/ \E n \in Positions : ResizeTo(x, n) \/ SetReadPos(x, n)
        \/ \E y \in Objects : PutAll(x, y) \/ CloneTo(x, y) \/ MoveTo(x, y)
        \/ \E key, rep \in {0} \cup (Numbers \cap Byte), first \in BOOLEAN :
             ReplaceIn(x, key, rep, first)
    BY <1>2 DEF BNext
  <2>1. {0} \cup (Numbers \cap Byte) \subseteq Byte
    BY ByteFacts
  <2>2. ASSUME NEW v \in Numbers, NEW w \in Widths(v),
               PutNumber(x, v, w) \/ \E at \in Positions : PutNumberAt(x, v, w, at)
        PROVE  UInv'
    BY <2>2, PutNumberKeeps, PutNumberAtKeeps
  <2>3. ASSUME NEW w \in {1, SizeLen}, GetNumber(x, w) PROVE UInv'
    BY <2>3, GetNumberKeeps
  <2>4. ASSUME NEW m \in Messages, PutPack(x, m) \/ \E at \in Positions : PutArrayAt(x, m.body, at)
        PROVE  UInv'
    BY <2>4, PutPackKeeps, PutArrayAtKeeps
  <2>5. CASE Clear(x) \/ \E n \in Positions : ResizeTo(x, n)
    BY <2>5, FreshKeeps
  <2>6. ASSUME NEW n \in Positions, SetReadPos(x, n) PROVE UInv'
    BY <2>6, SetReadPosKeeps
  <2>7. ASSUME NEW y \in Objects, PutAll(x, y) \/ CloneTo(x, y) \/ MoveTo(x, y) PROVE UInv'
    BY <2>7, PutAllKeeps, CloneKeeps, MoveKeeps
  <2>8. ASSUME NEW key \in {0} \cup (Numbers \cap Byte), NEW rep \in {0} \cup (Numbers \cap Byte),
               NEW first \in BOOLEAN, ReplaceIn(x, key, rep, first)
        PROVE  UInv'
    BY <2>1, <2>8, ReplaceKeeps
  <2> QED
    BY <2>2, <2>3, <2>4, <2>5, <2>6, <2>7, <2>8
<1> QED
  BY <1>1, <1>2

LEMMA UInvAlways == BSpec => []UInv
  BY UInvInit, UInvStep, PTL DEF BSpec

(* Relative reads give the numbers that relative writes put, in order and  *)
(* in their widths, for any base and any lengths: also in an object that   *)
(* was resized over old bytes, was appended whole to another, was moved,   *)
(* or was moved from when all of it had been read (bytes.h append, read).  *)
THEOREM ReadsWhatWasPut == BSpec => []FirstInFirstOut
<1>1. UInv => FirstInFirstOut
  <2> SUFFICES ASSUME UInv, NEW x \in Objects, queue[x], NEW i \in 1..Len(got[x])
               PROVE  got[x][i] = put[x][i].v
    BY DEF FirstInFirstOut
  <2>1. QueueOK(obj[x], put[x], got[x])
    BY UseFacts
  <2> QED
    BY <2>1 DEF QueueOK
<1> QED
  BY <1>1, UInvAlways, PTL

(* A pack that was put at the front is found by Pack::deSerialize whatever *)
(* has been read, whatever follows it, and whatever bytes the object held  *)
(* before, as long as the object is shorter than 2^32 bytes                *)
(* (bytes.cpp putMessage, pack.cpp deSerialize).                           *)
THEOREM FindsPackAtFront == BSpec => []PackAtFront
<1>1. UInv => PackAtFront
  <2> SUFFICES ASSUME UInv, NEW x \in Objects, pack[x] # NoPack
               PROVE  DeSerialize(obj[x]) = pack[x]
    BY DEF PackAtFront
  <2>1. /\ obj[x] \in Buffers /\ pack[x] \in Messages /\ FrontIs(obj[x].buf, pack[x])
        /\ Len(obj[x].buf) <= Capacity
    BY UseFacts
  <2> QED
    BY <2>1, FrontSays
<1> QED
  BY <1>1, UInvAlways, PTL

-----------------------------------------------------------------------------
(* The dump file.                                                          *)

MapData == UNION {[S -> Values] : S \in SUBSET MapKeys}
Data == [type : Scalars, data : Values]
        \cup [type : Lists, data : {d \in Seq(Values) : Len(d) <= MaxLen}]
        \cup [type : {"MAP"}, data : MapData]
Elements == [create : Nat, lru : Nat, expire : Nat, obj : Data]
Row == UNION {[F -> Elements] : F \in SUBSET Fields}
Db == UNION {[K -> Row] : K \in SUBSET Keys}

(* A pack of the file is that of a saved row, and its length fits its head.*)
PackFor(p, rows) ==
  /\ p.id \in DOMAIN rows
  /\ p.feature = [f \in DOMAIN rows[p.id] |-> Feature(rows[p.id][f])]
  /\ \E body \in Seq(Byte) : p.cells = PackOf(ReplObject, body) /\ HeadLen + Len(body) < Wrap
FileOK(packs, rows) == Len(packs) \in Nat /\ \A i \in 1..Len(packs) : PackFor(packs[i], rows)

Loading == loader.pc \in {"chunk", "packs"}

(* What is read is a front of the file, and ends with a chunk.             *)
LoaderTypes ==
  loader \in [pc : {"idle", "chunk", "packs", "undefined", "dead"}, chunk : Nat \ {0},
              pos : Nat, eof : BOOLEAN, bytes : Buffers]
FrontRead ==
  /\ loader.chunk \in Chunks
  /\ loader.pos <= Len(Content)
  /\ loader.bytes.buf = SubSeq(Content, 1, loader.pos)
  /\ loader.bytes.wpos = loader.pos
  /\ loader.eof => loader.pos = Len(Content)
  /\ loader.eof \/ \E n \in Nat : loader.pos = n * loader.chunk

DumpTypes == objs \in Db /\ saved \in Db /\ FileOK(file, saved) /\ LoaderTypes

-----------------------------------------------------------------------------
(* Rows and what a save and a load make of them.                           *)
LEMMA DumpFacts ==
  /\ 0 \in Values /\ Values \subseteq Nat /\ Ms \in Nat \ {0} /\ MaxLen \in Nat
  /\ Chunks \subseteq Nat \ {0} /\ BodyBytes \subseteq Byte
  /\ \A b \in Births : b.create \in Nat /\ b.expire \in Nat
  /\ IsFiniteSet(Keys) /\ IsFiniteSet(Fields) /\ IsFiniteSet(MapKeys)
  /\ \A c \in Chunks : SizeLen + c < Wrap
BY DumpAssumption

LEMMA RowsAre ==
  /\ \A r : r \in Row <=> /\ r = [f \in DOMAIN r |-> r[f]] /\ DOMAIN r \subseteq Fields
                          /\ \A f \in DOMAIN r : r[f] \in Elements
  /\ \A d : d \in Db <=> /\ d = [k \in DOMAIN d |-> d[k]] /\ DOMAIN d \subseteq Keys
                         /\ \A k \in DOMAIN d : d[k] \in Row
<1>1. ASSUME NEW T, NEW S, NEW D, D = UNION {[F -> T] : F \in SUBSET S}
      PROVE  \A r : r \in D <=> /\ r = [f \in DOMAIN r |-> r[f]] /\ DOMAIN r \subseteq S
                                /\ \A f \in DOMAIN r : r[f] \in T
  <2>1. ASSUME NEW r \in D
        PROVE  /\ r = [f \in DOMAIN r |-> r[f]] /\ DOMAIN r \subseteq S
               /\ \A f \in DOMAIN r : r[f] \in T
    <3>1. PICK F \in SUBSET S : r \in [F -> T]
      BY <1>1, <2>1
    <3> QED
      BY <3>1
  <2>2. ASSUME NEW r, r = [f \in DOMAIN r |-> r[f]], DOMAIN r \subseteq S,
               \A f \in DOMAIN r : r[f] \in T
        PROVE  r \in D
    <3>1. r \in [DOMAIN r -> T] /\ DOMAIN r \in SUBSET S
      BY <2>2
    <3> QED
      BY <1>1, <3>1
  <2> QED
    BY <2>1, <2>2
<1> QED
  BY <1>1 DEF Row, Db

LEMMA NothingIs ==
  /\ DOMAIN Nothing = {} /\ Nothing \in MapData /\ Nothing \in Row /\ Nothing \in Db
  /\ \A r : r = [f \in DOMAIN r |-> r[f]] /\ DOMAIN r = {} => r = Nothing
<1>1. /\ DOMAIN Nothing = {} /\ Nothing = [f \in {} |-> Nothing[f]]
      /\ \A r : r = [f \in DOMAIN r |-> r[f]] /\ DOMAIN r = {} => r = Nothing
  BY DEF Nothing
<1>2. \A T : Nothing \in [{} -> T]
  BY <1>1
<1>3. Nothing \in MapData
  BY <1>2 DEF MapData
<1> QED
  BY <1>1, <1>3, RowsAre

LEMMA DataIs ==
  ASSUME NEW o \in Data
  PROVE  /\ o = [type |-> o.type, data |-> o.data]
         /\ o.type \in Types
         /\ o.type \in Scalars => o.data \in Values
         /\ o.type \in Lists => o.data \in Seq(Values) /\ Len(o.data) <= MaxLen
         /\ o.type = "MAP" => o.data \in MapData
BY DEF Data, Types, Scalars, Lists

LEMMA DataMade ==
  ASSUME NEW t, NEW d
  PROVE  /\ t \in Scalars /\ d \in Values => [type |-> t, data |-> d] \in Data
         /\ t \in Lists /\ d \in Seq(Values) /\ Len(d) <= MaxLen => [type |-> t, data |-> d] \in Data
         /\ t = "MAP" /\ d \in MapData => [type |-> t, data |-> d] \in Data
BY DEF Data

(* The kind that an object selects: none if it is an empty list or map.    *)
LEMMA KindIs ==
  ASSUME NEW o \in Data
  PROVE  /\ Kind(o) \in {o.type, None} /\ o.type # None
         /\ Kind(o) # None <=> o.type \in Scalars \/ DOMAIN o.data # {}
<1>1. o.type # None /\ o.type \in Scalars \cup Lists \cup {"MAP"}
  BY DataIs DEF None, Types, Scalars, Lists
<1>2. CASE o.type \in Scalars
  <2>1. o.type \notin Lists /\ o.type # "MAP"
    BY <1>2 DEF Scalars, Lists
  <2>2. Kind(o) = o.type
    BY <1>2, <2>1 DEF Kind
  <2> QED
    BY <1>1, <1>2, <2>2
<1>3. CASE o.type \in Lists
  <2>1. Kind(o) = ListKind(o) /\ o.type \notin Scalars
    BY <1>3 DEF Kind, Lists, Scalars
  <2>2. o.data \in Seq(Values)
    BY <1>3, DataIs
  <2>3. o.data = NewList <=> DOMAIN o.data = {}
    <3> DEFINE d == o.data
    <3>1. d \in Seq(Values)
      BY <2>2
    <3> HIDE DEF d
    <3>2. Len(d) \in Nat /\ DOMAIN d = 1..Len(d)
      BY <3>1
    <3>3. d = <<>> <=> Len(d) = 0
      BY <3>1, EmptySeq
    <3>4. 1..Len(d) = {} <=> Len(d) = 0
      BY <3>2
    <3> QED
      BY <3>2, <3>3, <3>4 DEF NewList, d
  <2> QED
    BY <1>1, <2>1, <2>3 DEF ListKind
<1>4. CASE o.type = "MAP"
  <2>1. Kind(o) = MapKind(o) /\ o.type \notin Scalars
    BY <1>4 DEF Kind, Lists, Scalars
  <2>2. o.data \in MapData
    BY <1>4, DataIs
  <2>3. o.data = NewMap <=> DOMAIN o.data = {}
    <3>1. PICK S \in SUBSET MapKeys : o.data \in [S -> Values]
      BY <2>2 DEF MapData
    <3> QED
      BY <3>1, NothingIs DEF NewMap
  <2> QED
    BY <1>1, <1>4, <2>1, <2>3 DEF MapKind
<1> QED
  BY <1>1, <1>2, <1>3, <1>4

LEMMA CutIs ==
  ASSUME NEW t \in Nat
  PROVE  (t \div Ms) * Ms = t - (t % Ms) /\ t - (t % Ms) \in Nat
<1>1. Ms \in Nat /\ Ms > 0
  BY DumpFacts
<1>2. t \div Ms \in Nat /\ t = Ms * (t \div Ms) + (t % Ms) /\ t % Ms \in 0..(Ms - 1)
  BY <1>1, DivIs
<1> DEFINE q == t \div Ms
           r == t % Ms
<1> HIDE DEF q, r
<1>3. q \in Nat /\ r \in Nat /\ t = Ms * q + r
  BY <1>1, <1>2 DEF q, r
<1>4. Ms * q = q * Ms /\ Ms * q \in Nat
  BY <1>1, <1>3
<1>5. q * Ms = t - r /\ t - r \in Nat
  BY <1>3, <1>4
<1> QED
  BY <1>5 DEF q, r

Cut(t) == t - (t % Ms)
Kept(row) == {f \in DOMAIN row : row[f].obj.type \in Scalars \/ DOMAIN row[f].obj.data # {}}

LEMMA RestoredIs ==
  ASSUME NEW row \in Row
  PROVE  /\ Restored(row) \in Row /\ DOMAIN Restored(row) = Kept(row)
         /\ \A f \in Kept(row) :
              Restored(row)[f] = [create |-> Cut(row[f].create), lru |-> Cut(row[f].lru),
                                  expire |-> Cut(row[f].lru), obj |-> row[f].obj]
<1> DEFINE R == Restored(row)
           K == Kept(row)
<1>1. K \subseteq DOMAIN row /\ DOMAIN row \subseteq Fields /\ \A f \in DOMAIN row : row[f] \in Elements
  BY RowsAre DEF Kept
<1>2. R = [f \in K |-> [row[f] EXCEPT !.create = @ - (@ % Ms), !.lru = @ - (@ % Ms),
                                      !.expire = row[f].lru - (row[f].lru % Ms)]]
  BY DEF Restored, Kept
<1>3. ASSUME NEW f \in K
      PROVE  /\ R[f] = [create |-> Cut(row[f].create), lru |-> Cut(row[f].lru),
                        expire |-> Cut(row[f].lru), obj |-> row[f].obj]
             /\ R[f] \in Elements
  <2>1. row[f] \in Elements
    BY <1>1
  <2>2. row[f].create \in Nat /\ row[f].lru \in Nat /\ row[f].obj \in Data
        /\ row[f] = [create |-> row[f].create, lru |-> row[f].lru, expire |-> row[f].expire,
                     obj |-> row[f].obj]
    BY <2>1 DEF Elements
  <2>3. R[f] = [row[f] EXCEPT !.create = @ - (@ % Ms), !.lru = @ - (@ % Ms),
                              !.expire = row[f].lru - (row[f].lru % Ms)]
    BY <1>2
  <2>4. Cut(row[f].create) \in Nat /\ Cut(row[f].lru) \in Nat
    BY <2>2, CutIs DEF Cut
  <2>5. R[f] = [create |-> Cut(row[f].create), lru |-> Cut(row[f].lru),
                expire |-> Cut(row[f].lru), obj |-> row[f].obj]
    BY <2>2, <2>3 DEF Cut
  <2> QED
    BY <2>2, <2>4, <2>5 DEF Elements
<1>4. R = [f \in DOMAIN R |-> R[f]] /\ DOMAIN R = K
  BY <1>2
<1> HIDE DEF R, K
<1>5. R \in Row
  BY <1>1, <1>3, <1>4, RowsAre
<1> QED
  BY <1>3, <1>4, <1>5 DEF R, K

(* What parse makes of the features of a row is the row restored.          *)
LEMMA ParsedIs ==
  ASSUME NEW rows \in Db, NEW p, PackFor(p, rows)
  PROVE  /\ rows[p.id] \in Row /\ p.id \in Keys
         /\ {f \in DOMAIN p.feature : p.feature[f].kind # None} = Kept(rows[p.id])
         /\ \A f \in Kept(rows[p.id]) : Parsed(p.feature[f]) = Restored(rows[p.id])[f]
<1> DEFINE row == rows[p.id]
<1>1. p.id \in DOMAIN rows /\ p.feature = [f \in DOMAIN row |-> Feature(row[f])]
  BY DEF PackFor
<1>2. row \in Row /\ p.id \in Keys
  BY <1>1, RowsAre
<1> HIDE DEF row
<1>3. \A f \in DOMAIN row : row[f] \in Elements
  BY <1>2, RowsAre
<1>4. ASSUME NEW f \in DOMAIN row
      PROVE  /\ p.feature[f].kind # None <=> f \in Kept(row)
             /\ f \in Kept(row) => Parsed(p.feature[f]) = Restored(row)[f]
  <2> DEFINE e == row[f]
             x == p.feature[f]
  <2>1. x = [type |-> e.obj.type, kind |-> Kind(e.obj), value |-> e.obj.data,
             create |-> e.create \div Ms, lru |-> e.lru \div Ms, expire |-> e.lru \div Ms]
    BY <1>1 DEF Feature
  <2>2. e.create \in Nat /\ e.lru \in Nat /\ e.obj \in Data
    BY <1>3 DEF Elements
  <2>3. f \in Kept(row) <=> e.obj.type \in Scalars \/ DOMAIN e.obj.data # {}
    BY DEF Kept
  <2> HIDE DEF e, x
  <2>4. Kind(e.obj) \in {e.obj.type, None} /\ e.obj.type # None
        /\ (Kind(e.obj) # None <=> e.obj.type \in Scalars \/ DOMAIN e.obj.data # {})
    BY <2>2, KindIs
  <2>5. x.kind # None <=> f \in Kept(row)
    BY <2>1, <2>3, <2>4
  <2>6. ASSUME f \in Kept(row) PROVE Parsed(x) = Restored(row)[f]
    <3>1. x.kind = e.obj.type /\ x.type = e.obj.type /\ x.value = e.obj.data
      BY <2>1, <2>4, <2>5, <2>6
    <3>2. e.obj = [type |-> e.obj.type, data |-> e.obj.data]
      BY <2>2, DataIs
    <3>3. DeSeralized(x) = e.obj
      BY <3>1, <3>2 DEF DeSeralized
    <3>4. x.create * Ms = Cut(e.create) /\ x.lru * Ms = Cut(e.lru) /\ x.expire * Ms = Cut(e.lru)
      <4>1. x.create = e.create \div Ms /\ x.lru = e.lru \div Ms /\ x.expire = e.lru \div Ms
        BY <2>1
      <4>2. (e.create \div Ms) * Ms = Cut(e.create) /\ (e.lru \div Ms) * Ms = Cut(e.lru)
        BY <2>2, CutIs DEF Cut
      <4> QED
        BY <4>1, <4>2, Zenon
    <3>5. Parsed(x) = [create |-> Cut(e.create), lru |-> Cut(e.lru), expire |-> Cut(e.lru),
                       obj |-> e.obj]
      BY <3>3, <3>4, Zenon DEF Parsed
    <3>6. Restored(row)[f] = [create |-> Cut(e.create), lru |-> Cut(e.lru), expire |-> Cut(e.lru),
                              obj |-> e.obj]
      BY <1>2, <2>6, RestoredIs DEF e
    <3> QED
      BY <3>5, <3>6
  <2> QED
    BY <2>5, <2>6 DEF x
<1>5. Kept(row) \subseteq DOMAIN row /\ DOMAIN p.feature = DOMAIN row
  BY <1>1 DEF Kept
<1>6. {f \in DOMAIN p.feature : p.feature[f].kind # None} = Kept(row)
  BY <1>4, <1>5
<1> QED
  BY <1>2, <1>4, <1>5, <1>6 DEF row

(* Only saved rows, as a load restores them.                               *)
FromSaved(db, rows) == \A k \in DOMAIN db : k \in DOMAIN rows /\ db[k] = Restored(rows[k])

LEMMA ParsedRowIs ==
  ASSUME NEW rows \in Db, NEW db \in Db, FromSaved(db, rows), NEW p, PackFor(p, rows)
  PROVE  /\ ParsedRow(p, db) \in Db /\ FromSaved(ParsedRow(p, db), rows)
         /\ Columns(ParsedRow(p, db), p.id) = Restored(rows[p.id])
         /\ \A k \in DOMAIN rows : Columns(db, k) = Restored(rows[k]) =>
                                     Columns(ParsedRow(p, db), k) = Restored(rows[k])
<1> DEFINE R == Restored(rows[p.id])
           K == Kept(rows[p.id])
           new == ParsedRow(p, db)
           made == [f \in K |-> Parsed(p.feature[f])]
<1>1. /\ rows[p.id] \in Row /\ p.id \in Keys /\ p.id \in DOMAIN rows
      /\ {f \in DOMAIN p.feature : p.feature[f].kind # None} = K
      /\ \A f \in K : Parsed(p.feature[f]) = R[f]
  BY ParsedIs DEF PackFor
<1>2. R \in Row /\ DOMAIN R = K /\ R = [f \in K |-> R[f]]
  BY <1>1, RestoredIs, RowsAre
<1>3. made = R
  <2> HIDE DEF R, K
  <2> QED
    BY <1>1, <1>2
<1>4. new = IF K = {} THEN db ELSE Assign(db, p.id, Joined(Columns(db, p.id), made))
  BY <1>1 DEF ParsedRow
<1>5. \A k \in DOMAIN db : db[k] = Restored(rows[k]) /\ k \in DOMAIN rows
  BY DEF FromSaved
<1> HIDE DEF R, K, new, made
<1>6. CASE K = {}
  <2>1. new = db /\ R = Nothing
    BY <1>2, <1>4, <1>6, NothingIs
  <2>2. Columns(db, p.id) = R
    BY <1>5, <2>1 DEF Columns, R
  <2> QED
    BY <2>1, <2>2 DEF R, new
<1>7. CASE K # {}
  <2>1. Joined(Columns(db, p.id), R) = R
    <3>1. CASE p.id \in DOMAIN db
      <4>1. Columns(db, p.id) = R
        BY <1>5, <3>1 DEF Columns, R
      <4> QED
        BY <1>2, <4>1 DEF Joined
    <3>2. CASE p.id \notin DOMAIN db
      <4>1. Columns(db, p.id) = Nothing
        BY <3>2 DEF Columns
      <4>2. Joined(Nothing, R) = [f \in K |-> R[f]]
        BY <1>2, NothingIs DEF Joined
      <4> QED
        BY <1>2, <4>1, <4>2
    <3> QED
      BY <3>1, <3>2
  <2>2. new = Assign(db, p.id, R)
    BY <1>3, <1>4, <1>7, <2>1
  <2>3. new = [k \in {p.id} \cup DOMAIN db |-> IF k \in {p.id} THEN R ELSE db[k]]
    BY <2>2 DEF Assign, Joined
  <2>4. /\ DOMAIN new = {p.id} \cup DOMAIN db /\ new = [k \in DOMAIN new |-> new[k]]
        /\ new[p.id] = R /\ \A k \in DOMAIN db : k # p.id => new[k] = db[k]
    BY <2>3
  <2>5. DOMAIN db \subseteq Keys /\ \A k \in DOMAIN db : db[k] \in Row
    BY RowsAre
  <2>6. new \in Db
    <3>1. DOMAIN new \subseteq Keys /\ \A k \in DOMAIN new : new[k] \in Row
      BY <1>1, <1>2, <2>4, <2>5
    <3> QED
      BY <2>4, <3>1, RowsAre
  <2>7. FromSaved(new, rows)
    BY <1>1, <1>5, <2>4 DEF FromSaved, R
  <2>8. \A k : k # p.id => Columns(new, k) = Columns(db, k)
    BY <2>4 DEF Columns
  <2>9. Columns(new, p.id) = R
    BY <2>4 DEF Columns
  <2> QED
    BY <2>6, <2>7, <2>8, <2>9 DEF R, new
<1> QED
  BY <1>6, <1>7

-----------------------------------------------------------------------------
(* The packs of the file, and where they are in it.                        *)
LEMMA MessageFits ==
  ASSUME NEW row \in Row
  PROVE  MessageLen(row) \in Nat \ {0} /\ HeadLen + MessageLen(row) < Wrap
<1> DEFINE M == 1 + MaxLen + Cardinality(MapKeys)
           U == UNION {{f} \X (0..Count(row[f].obj)) : f \in DOMAIN row}
           V == Fields \X (0..M)
<1>1. /\ MaxLen \in Nat /\ Cardinality(MapKeys) \in Nat /\ Cardinality(Fields) \in Nat
      /\ IsFiniteSet(Fields) /\ IsFiniteSet(MapKeys)
  BY DumpFacts, FS_CardinalityType
<1>2. M \in Nat /\ \A x \in Nat : x <= 1 \/ x <= MaxLen \/ x <= Cardinality(MapKeys) => x \in 0..M
  <2> DEFINE c == Cardinality(MapKeys)
  <2>1. c \in Nat /\ M = 1 + MaxLen + c
    BY <1>1
  <2> HIDE DEF c, M
  <2>2. M \in Nat /\ \A x \in Nat : x <= 1 \/ x <= MaxLen \/ x <= c => x \in 0..M
    BY <1>1, <2>1
  <2> QED
    BY <2>2 DEF c
<1> HIDE DEF M
<1>3. ASSUME NEW f \in DOMAIN row
      PROVE  f \in Fields /\ Count(row[f].obj) \in 0..M
  <2> DEFINE o == row[f].obj
  <2>1. f \in Fields /\ o \in Data
    BY RowsAre DEF Elements
  <2> HIDE DEF o
  <2>2. o.type \in Types
    BY <2>1, DataIs
  <2>3. ASSUME o.type \in Scalars PROVE Count(o) \in 0..M
    <3>1. Count(o) = 1
      BY <2>3 DEF Count
    <3> QED
      BY <1>2, <3>1
  <2>4. ASSUME o.type \in Lists PROVE Count(o) \in 0..M
    <3> DEFINE d == o.data
    <3>1. d \in Seq(Values) /\ Len(d) <= MaxLen
      BY <2>1, <2>4, DataIs
    <3>2. o.type \notin Scalars
      BY <2>4 DEF Lists, Scalars
    <3>3. Count(o) = Cardinality(DOMAIN d)
      BY <3>2 DEF Count
    <3> HIDE DEF d
    <3>4. Len(d) \in Nat /\ DOMAIN d = 1..Len(d)
      BY <3>1
    <3>5. Cardinality(1..Len(d)) = Len(d)
      BY <3>4, FS_Interval
    <3>6. Count(o) = Len(d)
      BY <3>3, <3>4, <3>5
    <3> QED
      BY <1>2, <3>1, <3>4, <3>6
  <2>5. ASSUME o.type = "MAP" PROVE Count(o) \in 0..M
    <3>1. PICK S \in SUBSET MapKeys : o.data \in [S -> Values]
      BY <2>1, <2>5, DataIs DEF MapData
    <3>2. o.type \notin Scalars
      BY <2>5 DEF Lists, Scalars
    <3>3. Count(o) = Cardinality(S)
      BY <3>1, <3>2 DEF Count
    <3>4. IsFiniteSet(S) /\ Cardinality(S) <= Cardinality(MapKeys)
      BY <1>1, FS_Subset
    <3>5. Cardinality(S) \in Nat
      BY <3>4, FS_CardinalityType
    <3> QED
      BY <1>2, <3>3, <3>4, <3>5
  <2>6. Count(o) \in 0..M
    <3>1. o.type \in Scalars \/ o.type \in Lists \/ o.type = "MAP"
      BY <2>2 DEF Types
    <3> QED
      BY <2>3, <2>4, <2>5, <3>1
  <2> QED
    BY <2>1, <2>6 DEF o
<1>4. U \in SUBSET V
  BY <1>2, <1>3
<1>5. IsFiniteSet(0..M) /\ Cardinality(0..M) = M + 1
  BY <1>2, FS_Interval
<1>6. IsFiniteSet(V) /\ Cardinality(V) = Cardinality(Fields) * (M + 1)
  BY <1>1, <1>5, FS_Product
<1> HIDE DEF U, V
<1>7. IsFiniteSet(U) /\ Cardinality(U) <= Cardinality(V)
  BY <1>4, <1>6, FS_Subset
<1>8. Cardinality(U) \in Nat
  BY <1>7, FS_CardinalityType
<1>9. HeadLen + 1 + Cardinality(Fields) * (M + 1) < Wrap
  <2>1. M + 1 = 2 + MaxLen + Cardinality(MapKeys)
    BY <1>1 DEF M
  <2>2. HeadLen + 1 + Cardinality(Fields) * (2 + MaxLen + Cardinality(MapKeys)) < Wrap
    BY DumpAssumption
  <2> QED
    BY <2>1, <2>2
<1> DEFINE u == Cardinality(U)
           v == Cardinality(Fields) * (M + 1)
<1>10. u \in Nat /\ v \in Nat /\ u <= v /\ HeadLen + 1 + v < Wrap
  BY <1>1, <1>2, <1>6, <1>7, <1>8, <1>9
<1>11. MessageLen(row) = 1 + u
  BY DEF MessageLen, U
<1> HIDE DEF u, v
<1> QED
  BY <1>10, <1>11, ByteFacts

LEMMA SerializedIs ==
  ASSUME NEW n \in Nat, NEW byte \in Byte
  PROVE  Serialized(n, byte) \in Seq(Byte) /\ Len(Serialized(n, byte)) = n
<1>1. 0 \in Byte
  BY ByteFacts
<1>2. Serialized(n, byte) \in [1..n -> Byte]
  BY <1>1 DEF Serialized
<1> QED
  BY <1>2

(* What a save writes.                                                     *)
LEMMA DumpWrites ==
  ASSUME objs \in Db, Dump
  PROVE  FileOK(file', objs)
<1>1. PICK s \in Orders, byte \in BodyBytes : file' = [i \in 1..Len(s) |-> PackOfRow(s[i], byte)]
  BY DEF Dump
<1>2. s \in [1..Cardinality(DOMAIN objs) -> DOMAIN objs]
  BY DEF Orders, SetToSeqs
<1>3. Cardinality(DOMAIN objs) \in Nat
  <2>1. DOMAIN objs \in SUBSET Keys
    BY RowsAre
  <2> QED
    BY <2>1, DumpFacts, FS_Subset, FS_CardinalityType
<1>4. Len(s) = Cardinality(DOMAIN objs) /\ \A i \in 1..Len(s) : s[i] \in DOMAIN objs
  BY <1>2, <1>3
<1>5. ASSUME NEW k \in DOMAIN objs
      PROVE  PackFor(PackOfRow(k, byte), objs)
  <2> DEFINE body == Serialized(MessageLen(objs[k]), byte)
             p == PackOfRow(k, byte)
  <2>1. p.id = k /\ p.feature = [f \in DOMAIN objs[k] |-> Feature(objs[k][f])]
        /\ p.cells = PackOf(ReplObject, body)
    BY DEF PackOfRow
  <2>2. MessageLen(objs[k]) \in Nat /\ HeadLen + MessageLen(objs[k]) < Wrap
    <3>1. objs[k] \in Row
      BY RowsAre
    <3> QED
      BY <3>1, MessageFits
  <2>3. byte \in Byte
    BY DumpFacts
  <2>4. body \in Seq(Byte) /\ Len(body) = MessageLen(objs[k])
    BY <2>2, <2>3, SerializedIs
  <2> HIDE DEF p, body
  <2>5. PackFor(p, objs)
    BY <2>1, <2>2, <2>4, Zenon DEF PackFor
  <2> QED
    BY <2>5 DEF p
<1>6. Len(file') = Len(s)
  BY <1>1, <1>3, <1>4
<1>7. \A i \in 1..Len(file') : file'[i] = PackOfRow(s[i], byte) /\ s[i] \in DOMAIN objs
  BY <1>1, <1>4, <1>6
<1>8. \A i \in 1..Len(file') : PackFor(file'[i], objs)
  BY <1>5, <1>7
<1> QED
  BY <1>3, <1>4, <1>6, <1>8 DEF FileOK

LEMMA ReplObjectFits == ReplObject \in 0..(Power(Base, TypeLen) - 1)
<1> DEFINE n == TypeLen - 1
           p == Power(Base, n)
<1>1. Base \in Nat /\ Base > 1 /\ Base > 0 /\ n \in Nat /\ n + 1 = TypeLen
  BY ByteFacts
<1> HIDE DEF n
<1>2. p \in Nat \ {0} /\ Power(Base, n + 1) = Base * p
  BY <1>1, PowerFacts
<1> HIDE DEF p
<1>3. Base * p >= Base
  <2>1. 1 <= p /\ p \in Nat
    BY <1>2
  <2>2. Base * 1 <= Base * p
    BY <1>1, <2>1, MulMono
  <2> QED
    BY <1>1, <2>1, <2>2
<1>4. Power(Base, TypeLen) = Base * p
  BY <1>1, <1>2
<1> DEFINE q == Base * p
<1>5. q \in Nat /\ q > 1 /\ Power(Base, TypeLen) = q
  BY <1>1, <1>2, <1>3, <1>4
<1> HIDE DEF q
<1> QED
  BY <1>5 DEF ReplObject

Cells == [i \in 1..Len(file) |-> file[i].cells]

LEMMA CellsAre ==
  ASSUME FileOK(file, saved)
  PROVE  /\ Len(file) \in Nat /\ Len(Cells) = Len(file) /\ Cells \in Seq(Seq(Byte))
         /\ \A i \in 1..Len(file) :
              /\ Cells[i] = file[i].cells
              /\ \E body \in Seq(Byte) : Cells[i] = PackOf(ReplObject, body) /\ HeadLen + Len(body) < Wrap
              /\ Len(Cells[i]) \in Nat /\ HeadLen <= Len(Cells[i]) /\ Len(Cells[i]) < Wrap
<1>1. Len(file) \in Nat
  BY DEF FileOK
<1>2. /\ Cells = [i \in 1..Len(file) |-> Cells[i]] /\ Len(Cells) = Len(file)
      /\ \A i \in 1..Len(file) : Cells[i] = file[i].cells
  BY <1>1 DEF Cells
<1>3. ASSUME NEW i \in 1..Len(file)
      PROVE  /\ \E body \in Seq(Byte) : Cells[i] = PackOf(ReplObject, body) /\ HeadLen + Len(body) < Wrap
             /\ Cells[i] \in Seq(Byte)
             /\ Len(Cells[i]) \in Nat /\ HeadLen <= Len(Cells[i]) /\ Len(Cells[i]) < Wrap
  <2>1. PICK body \in Seq(Byte) : Cells[i] = PackOf(ReplObject, body) /\ HeadLen + Len(body) < Wrap
    BY <1>2 DEF FileOK, PackFor
  <2>2. ReplObject \in 0..(Power(Base, TypeLen) - 1)
    BY ReplObjectFits
  <2>3. PackOf(ReplObject, body) \in Seq(Byte) /\ Len(PackOf(ReplObject, body)) = HeadLen + Len(body)
    BY <2>2, PackIs
  <2>4. Len(body) \in Nat /\ HeadLen \in Nat
    BY ByteFacts
  <2> QED
    BY <2>1, <2>3, <2>4
<1>4. Cells \in Seq(Seq(Byte))
  <2>1. Cells \in [1..Len(file) -> Seq(Byte)]
    BY <1>2, <1>3
  <2> HIDE DEF Cells
  <2> QED
    BY <1>1, <2>1
<1> QED
  BY <1>1, <1>2, <1>3, <1>4

(* Where a pack begins is the length of those before it.                   *)
LEMMA PlaceIs ==
  ASSUME FileOK(file, saved)
  PROVE  /\ Content = FlattenSeq(Cells) /\ Content \in Seq(Byte) /\ Len(Content) \in Nat
         /\ \A n \in 0..Len(file) : /\ StartOf(n + 1) = Len(FlattenSeq(SubSeq(Cells, 1, n)))
                                    /\ FlattenSeq(SubSeq(Cells, 1, n)) \in Seq(Byte)
                                    /\ StartOf(n + 1) \in Nat
<1>1. Len(file) \in Nat /\ Len(Cells) = Len(file) /\ Cells \in Seq(Seq(Byte))
      /\ \A i \in 1..Len(file) : Cells[i] = file[i].cells
  BY CellsAre
<1>2. Content = FlattenSeq(Cells)
  BY DEF Content, Cells
<1>3. FlattenSeq(Cells) \in Seq(Byte)
  <2> HIDE DEF Cells
  <2> QED
    BY <1>1, FlattenType
<1>4. ASSUME NEW n \in 0..Len(file)
      PROVE  /\ StartOf(n + 1) = Len(FlattenSeq(SubSeq(Cells, 1, n)))
             /\ FlattenSeq(SubSeq(Cells, 1, n)) \in Seq(Byte)
             /\ StartOf(n + 1) \in Nat
  <2> DEFINE c == [j \in 1..((n + 1) - 1) |-> file[j].cells]
             t == SubSeq(Cells, 1, n)
  <2>1. /\ t \in Seq(Seq(Byte)) /\ Len(t) = n /\ \A i \in 1..n : t[i] = Cells[i]
    <3> HIDE DEF Cells
    <3> QED
      BY <1>1, SplitAt
  <2>2. n \in Nat /\ (n + 1) - 1 = n /\ \A i \in 1..n : i \in 1..Len(file)
    BY <1>1
  <2> HIDE DEF Cells, t
  <2>3. c = [j \in 1..n |-> t[j]]
    BY <1>1, <2>1, <2>2
  <2>4. t = [j \in 1..n |-> t[j]]
    BY <2>1
  <2>5. StartOf(n + 1) = Len(FlattenSeq(c))
    BY DEF StartOf
  <2>6. FlattenSeq(t) \in Seq(Byte)
    BY <2>1, FlattenType
  <2>7. StartOf(n + 1) = Len(FlattenSeq(t))
    BY <2>3, <2>4, <2>5
  <2>8. Len(FlattenSeq(t)) \in Nat
    BY <2>6
  <2> QED
    BY <2>6, <2>7, <2>8 DEF t
<1>5. Len(FlattenSeq(Cells)) \in Nat
  BY <1>3
<1> QED
  BY <1>2, <1>3, <1>4, <1>5

LEMMA PackPlace ==
  ASSUME FileOK(file, saved), NEW i \in 1..Len(file)
  PROVE  /\ StartOf(i) \in Nat /\ StartOf(i + 1) = StartOf(i) + Len(Cells[i])
         /\ StartOf(i + 1) <= Len(Content)
         /\ \A j \in 1..Len(Cells[i]) : Content[StartOf(i) + j] = Cells[i][j]
<1> DEFINE n == i - 1
           C == Cells
           a == FlattenSeq(SubSeq(C, 1, n))
           b == FlattenSeq(SubSeq(C, 1, n + 1))
           r == FlattenSeq(SubSeq(C, (n + 1) + 1, Len(C)))
           F == FlattenSeq(C)
<1>1. /\ Len(file) \in Nat /\ Len(C) = Len(file) /\ C \in Seq(Seq(Byte))
      /\ n \in 0..(Len(C) - 1) /\ n + 1 = i /\ n \in 0..Len(C) /\ n + 1 \in 0..Len(C)
  BY CellsAre
<1>2. /\ Content = F /\ F \in Seq(Byte) /\ a \in Seq(Byte) /\ b \in Seq(Byte)
      /\ StartOf(n + 1) = Len(a) /\ StartOf((n + 1) + 1) = Len(b)
  BY <1>1, PlaceIs
<1> HIDE DEF C, n
<1>3. b = a \o C[n + 1] /\ C[n + 1] \in Seq(Byte)
  <2>1. C[n + 1] \in Seq(Byte)
    BY <1>1
  <2> QED
    BY <1>1, <2>1, FlattenNext
<1>4. F = b \o r /\ r \in Seq(Byte)
  BY <1>1, FlattenSplit
<1> HIDE DEF a, b, r, F
<1> DEFINE x == C[n + 1]
<1> HIDE DEF x
<1>5. /\ Len(b) = Len(a) + Len(x) /\ Len(a) \in Nat /\ Len(x) \in Nat
      /\ \A j \in 1..Len(x) : b[Len(a) + j] = x[j]
  BY <1>2, <1>3, ConcatIs DEF x
<1>6. /\ Len(F) = Len(b) + Len(r) /\ Len(b) \in Nat /\ Len(r) \in Nat
      /\ \A j \in 1..Len(b) : F[j] = b[j]
  BY <1>2, <1>4, ConcatIs
<1>7. \A j \in 1..Len(x) : F[Len(a) + j] = x[j]
  <2>1. \A j \in 1..Len(x) : Len(a) + j \in 1..Len(b)
    BY <1>5
  <2> QED
    BY <1>5, <1>6, <2>1
<1>8. Len(b) <= Len(F)
  BY <1>6
<1> QED
  BY <1>1, <1>2, <1>5, <1>7, <1>8 DEF x, C

LEMMA PlacesGrow ==
  ASSUME FileOK(file, saved), NEW i \in 1..Len(file), NEW j \in 1..Len(file),
         StartOf(i) = StartOf(j)
  PROVE  i = j
<1>1. Len(file) \in Nat
  BY CellsAre
<1>2. \A k \in 1..Len(file) : StartOf(k) \in Nat /\ StartOf(k + 1) \in Nat /\ StartOf(k) < StartOf(k + 1)
  <2> SUFFICES ASSUME NEW k \in 1..Len(file)
               PROVE  StartOf(k) \in Nat /\ StartOf(k + 1) \in Nat /\ StartOf(k) < StartOf(k + 1)
    OBVIOUS
  <2>1. Len(Cells[k]) \in Nat /\ HeadLen <= Len(Cells[k])
    BY CellsAre
  <2>2. StartOf(k) \in Nat /\ StartOf(k + 1) = StartOf(k) + Len(Cells[k])
    BY PackPlace
  <2> QED
    BY <2>1, <2>2, ByteFacts
<1>3. ASSUME NEW u \in 1..Len(file), NEW v \in 1..Len(file), u < v
      PROVE  StartOf(u) < StartOf(v)
  <2> DEFINE N == v - (u + 1)
             P == {n \in Nat : StartOf(u) < StartOf((u + 1) + n)}
  <2>1. N \in Nat /\ (u + 1) + N = v /\ (u + 1) + 0 = u + 1 /\ 0 \in Nat
    BY <1>1, <1>3
  <2>2. 0 \in P
    BY <1>2, <2>1
  <2>3. ASSUME NEW n \in 0..(N - 1), n \in P PROVE n + 1 \in P
    <3>1. (u + 1) + n \in 1..Len(file) /\ ((u + 1) + n) + 1 = (u + 1) + (n + 1) /\ n + 1 \in Nat
      BY <1>1, <2>1
    <3> DEFINE w == (u + 1) + n
    <3>2. StartOf(u) < StartOf(w)
      BY <2>3
    <3>3. /\ StartOf(w) < StartOf(w + 1) /\ StartOf(u) \in Nat /\ StartOf(w) \in Nat
          /\ StartOf(w + 1) \in Nat
      BY <1>2, <3>1
    <3>4. StartOf(u) < StartOf(w + 1)
      <4> HIDE DEF w
      <4> QED
        BY <3>2, <3>3
    <3> QED
      BY <3>1, <3>4
  <2>4. \A n \in 0..N : n \in P
    <3> HIDE DEF P, N
    <3> QED
      BY <2>1, <2>2, <2>3, InductionTo
  <2>5. N \in P
    <3> HIDE DEF P
    <3> QED
      BY <2>1, <2>4
  <2> QED
    BY <2>1, <2>5
<1>4. CASE i < j
  BY <1>2, <1>3, <1>4
<1>5. CASE j < i
  BY <1>2, <1>3, <1>5
<1> QED
  BY <1>4, <1>5

LEMMA LastPlace ==
  ASSUME FileOK(file, saved)
  PROVE  StartOf(1) = 0 /\ StartOf(Len(file) + 1) = Len(Content)
<1>1. Len(file) \in Nat /\ Len(Cells) = Len(file) /\ Cells \in Seq(Seq(Byte))
  BY CellsAre
<1>2. 0 \in 0..Len(file) /\ Len(file) \in 0..Len(file) /\ 0 + 1 = 1
  BY <1>1
<1>3. /\ Content = FlattenSeq(Cells)
      /\ StartOf(0 + 1) = Len(FlattenSeq(SubSeq(Cells, 1, 0)))
      /\ StartOf(Len(file) + 1) = Len(FlattenSeq(SubSeq(Cells, 1, Len(file))))
  BY <1>2, PlaceIs
<1> HIDE DEF Cells
<1>4. SubSeq(Cells, 1, 0) = <<>> /\ SubSeq(Cells, 1, Len(file)) = Cells
  <2>1. SubSeq(Cells, 1, Len(Cells)) = Cells
    BY <1>1, SubSeqFull
  <2>2. SubSeq(Cells, 1, 0) \in Seq(Seq(Byte)) /\ Len(SubSeq(Cells, 1, 0)) = 0
    BY <1>1, <1>2, SplitAt
  <2>3. SubSeq(Cells, 1, 0) = <<>>
    BY <2>2, EmptySeq
  <2> QED
    BY <1>1, <2>1, <2>3
<1>5. Len(FlattenSeq(<<>>)) = 0
  BY FlattenEmpty
<1> QED
  BY <1>2, <1>3, <1>4, <1>5

(* The length that is read at the beginning of a pack is that of the pack. *)
LEMMA LengthRead ==
  ASSUME FileOK(file, saved), NEW i \in 1..Len(file), NEW b \in Buffers, NEW pos \in Nat,
         pos <= Len(Content), b.buf = SubSeq(Content, 1, pos), StartOf(i) + SizeLen <= pos
  PROVE  Get(b, StartOf(i), SizeLen) = Len(Cells[i])
<1> DEFINE at == StartOf(i)
           c == Cells[i]
           s == b.buf
           F == Content
<1>1. /\ at \in Nat /\ at + Len(c) <= Len(F) /\ \A j \in 1..Len(c) : F[at + j] = c[j]
  BY PackPlace
<1>2. PICK body \in Seq(Byte) : c = PackOf(ReplObject, body) /\ HeadLen + Len(body) < Wrap
  BY CellsAre
<1>3. F \in Seq(Byte) /\ Len(F) \in Nat /\ pos \in 0..Len(F)
  BY PlaceIs
<1> DEFINE v == HeadLen + Len(body)
           d == Digits(v, SizeLen)
<1>4. v \in Nat /\ v < Power(Base, SizeLen) /\ Base \in Nat /\ Base > 0 /\ SizeLen \in Nat
  BY <1>2, ByteFacts DEF Wrap
<1>5. Len(c) = v /\ \A j \in 1..SizeLen : c[j] = d[j]
  BY <1>2, ReplObjectFits, PackIs
<1>6. d \in Seq(Byte) /\ Len(d) = SizeLen /\ NumberOf(Base, d) = v
  <2> HIDE DEF v
  <2> QED
    BY <1>4, DigitsType, NumberOfDigits DEF Digits, Byte
<1>7. SizeLen <= Len(c)
  BY <1>5, ByteFacts
<1> HIDE DEF c, s, F, v, d, at
<1>8. s \in Seq(Byte) /\ Len(s) = pos /\ \A j \in 1..pos : s[j] = F[j]
  <2>1. s = SubSeq(F, 1, pos)
    BY DEF s, F
  <2> QED
    BY <1>3, <2>1, SplitAt
<1>9. at + SizeLen <= pos
  BY DEF at
<1>10. ASSUME NEW j \in 1..SizeLen PROVE d[j] = s[at + j]
  <2>1. j \in 1..Len(c) /\ at + j \in 1..pos
    BY <1>1, <1>4, <1>5, <1>7, <1>9
  <2> QED
    BY <1>1, <1>5, <1>8, <2>1
<1>11. d = SubSeq(s, at + 1, at + SizeLen)
  <2>1. at + Len(d) <= Len(s) /\ \A j \in 1..Len(d) : d[j] = s[at + j]
    BY <1>6, <1>8, <1>9, <1>10
  <2>2. d = SubSeq(s, at + 1, at + Len(d))
    BY <1>1, <1>6, <1>8, <2>1, IsPart
  <2> QED
    BY <1>6, <2>2
<1>12. ReadAt(b, at, SizeLen) = d
  <2>1. at + SizeLen <= Size(b)
    BY <1>8, <1>9 DEF Size, s
  <2> QED
    BY <1>11, <2>1 DEF ReadAt, s
<1>13. Get(b, at, SizeLen) = Len(c)
  BY <1>5, <1>6, <1>12 DEF Get, Number
<1> QED
  BY <1>13 DEF at, c

-----------------------------------------------------------------------------
(* How far the load has come: m packs are loaded, and either the next one  *)
(* begins at the read position, or it straddles a chunk.                   *)
Loaded(m) == \A i \in 1..m : Columns(objs, file[i].id) = Restored(saved[file[i].id])
Aligned(m) ==
  LET p == loader.pos
      r == loader.bytes.rpos
  IN  /\ r = StartOf(m + 1) /\ r <= p
      /\ p - r <= SizeLen + (IF loader.pc = "chunk" THEN 0 ELSE loader.chunk)
InStep ==
  \E m \in 0..Len(file) : Loaded(m) /\ (Aligned(m) \/ (m < Len(file) /\ Split(m + 1)))

DInv == DumpTypes /\ NothingInvented /\ (Loading => FrontRead /\ InStep)

-----------------------------------------------------------------------------
(* The changes of the database.                                            *)
LEMMA RowSet ==
  ASSUME NEW db \in Db, NEW k \in Keys, NEW row \in Row
  PROVE  Assign(db, k, row) \in Db /\ (k \in DOMAIN db => [db EXCEPT ![k] = row] \in Db)
<1> DEFINE a == Assign(db, k, row)
           e == [db EXCEPT ![k] = row]
<1>1. db = [x \in DOMAIN db |-> db[x]] /\ DOMAIN db \subseteq Keys /\ \A x \in DOMAIN db : db[x] \in Row
  BY RowsAre
<1>2. /\ DOMAIN a = {k} \cup DOMAIN db /\ a = [x \in DOMAIN a |-> a[x]]
      /\ \A x \in DOMAIN a : a[x] = IF x = k THEN row ELSE db[x]
  BY DEF Assign, Joined
<1>3. /\ DOMAIN e = DOMAIN db /\ e = [x \in DOMAIN e |-> e[x]]
      /\ \A x \in DOMAIN e : e[x] = IF x = k THEN row ELSE db[x]
  BY <1>1
<1> HIDE DEF a, e
<1>4. DOMAIN a \subseteq Keys /\ \A x \in DOMAIN a : a[x] \in Row
  BY <1>1, <1>2
<1>5. DOMAIN e \subseteq Keys /\ \A x \in DOMAIN e : e[x] \in Row
  BY <1>1, <1>3
<1> QED
  BY <1>2, <1>3, <1>4, <1>5, RowsAre DEF a, e

LEMMA ElementSet ==
  ASSUME NEW row \in Row, NEW f \in DOMAIN row, NEW e \in Elements
  PROVE  [row EXCEPT ![f] = e] \in Row
<1> DEFINE r == [row EXCEPT ![f] = e]
<1>1. row = [x \in DOMAIN row |-> row[x]] /\ DOMAIN row \subseteq Fields /\ \A x \in DOMAIN row : row[x] \in Elements
  BY RowsAre
<1>2. /\ DOMAIN r = DOMAIN row /\ r = [x \in DOMAIN r |-> r[x]]
      /\ \A x \in DOMAIN r : r[x] = IF x = f THEN e ELSE row[x]
  BY <1>1
<1> HIDE DEF r
<1>3. DOMAIN r \subseteq Fields /\ \A x \in DOMAIN r : r[x] \in Elements
  BY <1>1, <1>2
<1> QED
  BY <1>2, <1>3, RowsAre DEF r

LEMMA CellSet ==
  ASSUME NEW db \in Db, NEW k \in DOMAIN db, NEW f \in DOMAIN db[k], NEW e \in Elements
  PROVE  [db EXCEPT ![k] = [db[k] EXCEPT ![f] = e]] \in Db
<1>1. k \in Keys /\ db[k] \in Row
  BY RowsAre
<1>2. [db[k] EXCEPT ![f] = e] \in Row
  BY <1>1, ElementSet
<1> QED
  BY <1>1, <1>2, RowSet

LEMMA CellIs ==
  ASSUME NEW db \in Db, NEW k, NEW f, Has(db, k, f)
  PROVE  /\ k \in DOMAIN db /\ f \in DOMAIN db[k] /\ db[k][f] \in Elements
         /\ db[k][f].obj \in Data
         /\ db[k][f] = [create |-> db[k][f].create, lru |-> db[k][f].lru,
                        expire |-> db[k][f].expire, obj |-> db[k][f].obj]
<1>1. k \in DOMAIN db /\ f \in DOMAIN db[k]
  BY DEF Has
<1>2. db[k][f] \in Elements
  BY <1>1, RowsAre
<1> QED
  BY <1>1, <1>2 DEF Elements

LEMMA SetDataIs ==
  ASSUME objs \in Db, NEW k, NEW f, Has(objs, k, f), NEW d,
         [type |-> objs[k][f].obj.type, data |-> d] \in Data, SetData(k, f, d)
  PROVE  objs' \in Db
<1> DEFINE c == objs[k][f]
           o == [type |-> c.obj.type, data |-> d]
           e == [create |-> c.create, lru |-> c.lru, expire |-> c.expire, obj |-> o]
<1>1. /\ k \in DOMAIN objs /\ f \in DOMAIN objs[k] /\ c \in Elements /\ c.obj \in Data
  BY CellIs
<1>2. c.obj = [type |-> c.obj.type, data |-> c.obj.data]
  BY <1>1, DataIs
<1>3. e \in Elements /\ c = [create |-> c.create, lru |-> c.lru, expire |-> c.expire, obj |-> c.obj]
  BY <1>1 DEF Elements
<1>4. objs' = [objs EXCEPT ![k] = [objs[k] EXCEPT ![f] = [c EXCEPT !.obj = [c.obj EXCEPT !.data = d]]]]
  BY DEF SetData
<1>5. [c EXCEPT !.obj = [c.obj EXCEPT !.data = d]] = e
  <2> HIDE DEF c
  <2>1. [c.obj EXCEPT !.data = d] = o
    BY <1>2
  <2> QED
    BY <1>3, <2>1
<1> HIDE DEF e, c, o
<1>6. objs' = [objs EXCEPT ![k] = [objs[k] EXCEPT ![f] = e]]
  BY <1>4, <1>5
<1> QED
  BY <1>1, <1>3, <1>6, CellSet

LEMMA EmplaceMap ==
  ASSUME NEW d \in MapData, NEW m \in MapKeys, NEW v \in Values
  PROVE  Emplace(d, m, v) \in MapData
<1>1. PICK S \in SUBSET MapKeys : d \in [S -> Values]
  BY DEF MapData
<1>2. S \cup {m} \in SUBSET MapKeys /\ Emplace(d, m, v) \in [S \cup {m} -> Values]
  BY <1>1 DEF Emplace, Joined
<1> QED
  BY <1>2 DEF MapData

LEMMA RestrictMap ==
  ASSUME NEW d \in MapData, NEW m
  PROVE  Restrict(d, DOMAIN d \ {m}) \in MapData
<1>1. PICK S \in SUBSET MapKeys : d \in [S -> Values]
  BY DEF MapData
<1>2. S \ {m} \in SUBSET MapKeys /\ Restrict(d, DOMAIN d \ {m}) \in [S \ {m} -> Values]
  BY <1>1 DEF Restrict
<1> QED
  BY <1>2 DEF MapData

LEMMA NewObjectIs ==
  ASSUME NEW t \in Types
  PROVE  NewObject(t) \in Data
<1>1. CASE t \in Scalars
  <2>1. NewObject(t) = [type |-> t, data |-> 0]
    BY <1>1 DEF NewObject, Scalars, Lists
  <2> QED
    BY <1>1, <2>1, DataMade, DumpFacts
<1>2. CASE t \in Lists
  <2>1. NewObject(t) = [type |-> t, data |-> <<>>]
    BY <1>2 DEF NewObject, Scalars, Lists, NewList
  <2>2. <<>> \in Seq(Values) /\ Len(<<>>) <= MaxLen
    BY DumpFacts
  <2> QED
    BY <1>2, <2>1, <2>2, DataMade
<1>3. CASE t = "MAP"
  <2>1. NewObject(t) = [type |-> t, data |-> Nothing]
    BY <1>3 DEF NewObject, Scalars, Lists, NewMap
  <2> QED
    BY <1>3, <2>1, DataMade, NothingIs
<1> QED
  BY <1>1, <1>2, <1>3 DEF Types

LEMMA PutNewIs ==
  ASSUME objs \in Db, NEW k \in Keys, NEW f \in Fields, NEW t \in Types,
         NEW create \in Nat, NEW expire \in Nat, PutNew(k, f, t, create, expire)
  PROVE  objs' \in Db
<1> DEFINE e == [create |-> create, lru |-> 0, expire |-> expire, obj |-> NewObject(t)]
           c == Columns(objs, k)
           r == Emplace(c, f, e)
<1>1. e \in Elements
  BY NewObjectIs DEF Elements
<1>2. objs' = Assign(objs, k, r)
  BY DEF PutNew, Emplaced
<1>3. c \in Row
  BY RowsAre, NothingIs DEF Columns
<1> HIDE DEF e, c
<1>4. DOMAIN c \subseteq Fields /\ \A x \in DOMAIN c : c[x] \in Elements
  BY <1>3, RowsAre
<1>5. /\ DOMAIN r = DOMAIN c \cup {f} /\ r = [x \in DOMAIN r |-> r[x]]
      /\ \A x \in DOMAIN r : r[x] = IF x \in DOMAIN c THEN c[x] ELSE e
  BY DEF Emplace, Joined
<1> HIDE DEF r
<1>6. DOMAIN r \subseteq Fields /\ \A x \in DOMAIN r : r[x] \in Elements
  BY <1>1, <1>4, <1>5
<1>7. r \in Row
  BY <1>5, <1>6, RowsAre
<1> QED
  BY <1>2, <1>7, RowSet

LEMMA DelIs ==
  ASSUME objs \in Db, NEW k, NEW f, Del(k, f)
  PROVE  objs' \in Db
<1> DEFINE c == objs[k]
           r == Restrict(c, DOMAIN c \ {f})
<1>1. k \in DOMAIN objs /\ objs' = [objs EXCEPT ![k] = r]
  BY DEF Del
<1>2. k \in Keys /\ c \in Row
  BY <1>1, RowsAre
<1> HIDE DEF c
<1>3. DOMAIN c \subseteq Fields /\ \A x \in DOMAIN c : c[x] \in Elements
  BY <1>2, RowsAre
<1>4. /\ DOMAIN r = DOMAIN c \ {f} /\ r = [x \in DOMAIN r |-> r[x]]
      /\ \A x \in DOMAIN r : r[x] = c[x]
  BY DEF Restrict
<1> HIDE DEF r
<1>5. DOMAIN r \subseteq Fields /\ \A x \in DOMAIN r : r[x] \in Elements
  BY <1>3, <1>4
<1>6. r \in Row
  BY <1>4, <1>5, RowsAre
<1> QED
  BY <1>1, <1>2, <1>6, RowSet

LEMMA SetScalarIs ==
  ASSUME objs \in Db, NEW k, NEW f, NEW t \in Scalars, NEW v \in Values, NEW now \in Nat,
         SetScalar(k, f, t, v, now)
  PROVE  objs' \in Db
<1> DEFINE c == objs[k][f]
           d == IF HasOf(k, f, {t}) THEN v ELSE c.obj.data
           o == [type |-> c.obj.type, data |-> d]
           e == [create |-> c.create, lru |-> now, expire |-> c.expire, obj |-> o]
<1>1. Has(objs, k, f)
  BY DEF SetScalar
<1>2. /\ k \in DOMAIN objs /\ f \in DOMAIN objs[k] /\ c \in Elements /\ c.obj \in Data
  BY <1>1, CellIs
<1>3. c.obj = [type |-> c.obj.type, data |-> c.obj.data]
  BY <1>2, DataIs
<1>4. o \in Data
  <2>1. CASE HasOf(k, f, {t})
    <3>1. c.obj.type = t
      BY <2>1 DEF HasOf
    <3> QED
      BY <2>1, <3>1, DataMade
  <2>2. CASE ~HasOf(k, f, {t})
    BY <1>2, <1>3, <2>2
  <2> QED
    BY <2>1, <2>2
<1>5. objs' = [objs EXCEPT ![k] = [objs[k] EXCEPT ![f] = [c EXCEPT !.lru = now, !.obj.data = d]]]
  BY DEF SetScalar
<1>6. c.create \in Nat /\ c.lru \in Nat /\ c.expire \in Nat
      /\ c = [create |-> c.create, lru |-> c.lru, expire |-> c.expire, obj |-> c.obj]
  BY <1>2 DEF Elements
<1>7. [c EXCEPT !.lru = now, !.obj.data = d] = e
  <2> DEFINE b == [c EXCEPT !.lru = now]
  <2> HIDE DEF c, d
  <2>1. b = [create |-> c.create, lru |-> now, expire |-> c.expire, obj |-> c.obj]
    BY <1>6
  <2>2. [b.obj EXCEPT !.data = d] = o
    BY <1>3, <2>1
  <2>3. [b EXCEPT !.obj = [b.obj EXCEPT !.data = d]] = e
    <3> HIDE DEF b, o
    <3> QED
      BY <2>1, <2>2
  <2> QED
    BY <2>3
<1> HIDE DEF c, d, o
<1>8. e \in Elements
  BY <1>4, <1>6 DEF Elements
<1> HIDE DEF e
<1> QED
  BY <1>2, <1>5, <1>7, <1>8, CellSet

-----------------------------------------------------------------------------
(* The steps.                                                              *)
LEMMA NotLoading ==
  ASSUME objs' \in Db, saved' \in Db, FileOK(file', saved'), LoaderTypes', ~Loading'
  PROVE  DInv'
BY DEF DInv, DumpTypes, NothingInvented, Loading

LEMMA ChangeKeeps ==
  ASSUME DInv, Change, objs' \in Db
  PROVE  DInv'
<1>1. loader.pc = "idle" /\ UNCHANGED <<file, saved, loader>>
  BY DEF Change
<1>2. saved' \in Db /\ FileOK(file', saved') /\ LoaderTypes'
  BY <1>1 DEF DInv, DumpTypes, LoaderTypes
<1>3. ~Loading'
  BY <1>1 DEF Loading
<1> QED
  BY <1>2, <1>3, NotLoading

LEMMA BrokenKeeps ==
  ASSUME DInv, loader' = [loader EXCEPT !.pc = "undefined"], UNCHANGED <<objs, file, saved>>
  PROVE  DInv'
<1>1. objs' \in Db /\ saved' \in Db /\ FileOK(file', saved')
  BY DEF DInv, DumpTypes
<1>2. LoaderTypes' /\ loader'.pc = "undefined"
  BY DEF DInv, DumpTypes, LoaderTypes
<1>3. ~Loading'
  BY <1>2 DEF Loading
<1> QED
  BY <1>1, <1>2, <1>3, NotLoading

LEMMA ListChanged ==
  ASSUME objs \in Db, NEW k, NEW f, HasOf(k, f, Lists), NEW d \in Seq(Values), Len(d) <= MaxLen,
         SetData(k, f, d)
  PROVE  objs' \in Db
<1>1. Has(objs, k, f) /\ objs[k][f].obj.type \in Lists
  BY DEF HasOf
<1>2. [type |-> objs[k][f].obj.type, data |-> d] \in Data
  BY <1>1, DataMade
<1> QED
  BY <1>1, <1>2, SetDataIs

LEMMA MapChanged ==
  ASSUME objs \in Db, NEW k, NEW f, HasOf(k, f, {"MAP"}), NEW d \in MapData, SetData(k, f, d)
  PROVE  objs' \in Db
<1>1. Has(objs, k, f) /\ objs[k][f].obj.type = "MAP"
  BY DEF HasOf
<1>2. [type |-> objs[k][f].obj.type, data |-> d] \in Data
  BY <1>1, DataMade
<1> QED
  BY <1>1, <1>2, SetDataIs

LEMMA DataOf ==
  ASSUME objs \in Db, NEW k, NEW f
  PROVE  /\ HasOf(k, f, Lists) => /\ objs[k][f].obj.data \in Seq(Values)
                                  /\ Len(objs[k][f].obj.data) <= MaxLen
         /\ HasOf(k, f, {"MAP"}) => objs[k][f].obj.data \in MapData
<1>1. ASSUME Has(objs, k, f) PROVE objs[k][f].obj \in Data
  BY <1>1, CellIs
<1> QED
  BY <1>1, DataIs DEF HasOf

LEMMA LpushKeeps ==
  ASSUME DInv, NEW k, NEW f, NEW v \in Values, Lpush(k, f, v)
  PROVE  DInv'
<1> DEFINE d == objs[k][f].obj.data
<1>1. objs \in Db /\ HasOf(k, f, Lists) /\ Len(d) < MaxLen /\ SetData(k, f, Append(d, v)) /\ Change
  BY DEF Lpush, DInv, DumpTypes
<1>2. d \in Seq(Values)
  BY <1>1, DataOf
<1> HIDE DEF d
<1>3. Append(d, v) \in Seq(Values) /\ Len(Append(d, v)) <= MaxLen
  BY <1>1, <1>2, DumpFacts
<1>4. objs' \in Db
  BY <1>1, <1>3, ListChanged
<1> QED
  BY <1>1, <1>4, ChangeKeeps

LEMMA LpopKeeps ==
  ASSUME DInv, NEW k, NEW f, Lpop(k, f)
  PROVE  DInv'
<1> DEFINE d == objs[k][f].obj.data
<1>1. CASE d # <<>> /\ Change /\ SetData(k, f, Front(d))
  <2>1. objs \in Db /\ HasOf(k, f, Lists)
    BY DEF Lpop, DInv, DumpTypes
  <2>2. d \in Seq(Values) /\ Len(d) <= MaxLen
    BY <2>1, DataOf
  <2> HIDE DEF d
  <2>3. Front(d) \in Seq(Values) /\ Len(Front(d)) <= MaxLen
    <3>1. Len(d) \in Nat /\ Len(d) # 0
      BY <1>1, <2>2, EmptySeq
    <3> DEFINE n == Len(d) - 1
    <3>2. n \in 0..Len(d) /\ n <= MaxLen
      BY <2>2, <3>1, DumpFacts
    <3>3. Front(d) = SubSeq(d, 1, n)
      BY DEF Front
    <3> HIDE DEF n
    <3> QED
      BY <2>2, <3>2, <3>3, SplitAt
  <2>4. objs' \in Db
    BY <1>1, <2>1, <2>3, ListChanged
  <2> QED
    BY <1>1, <2>4, ChangeKeeps
<1>2. CASE loader' = [loader EXCEPT !.pc = "undefined"] /\ UNCHANGED <<objs, file, saved>>
  BY <1>2, BrokenKeeps
<1> QED
  BY <1>1, <1>2 DEF Lpop

LEMMA MapPutKeeps ==
  ASSUME DInv, NEW k, NEW f, NEW m \in MapKeys, NEW v \in Values, MapPut(k, f, m, v)
  PROVE  DInv'
<1> DEFINE d == objs[k][f].obj.data
<1>1. objs \in Db /\ HasOf(k, f, {"MAP"}) /\ SetData(k, f, Emplace(d, m, v)) /\ Change
  BY DEF MapPut, DInv, DumpTypes
<1>2. d \in MapData
  BY <1>1, DataOf
<1>3. objs' \in Db
  BY <1>1, <1>2, EmplaceMap, MapChanged
<1> QED
  BY <1>1, <1>3, ChangeKeeps

LEMMA MapDelKeeps ==
  ASSUME DInv, NEW k, NEW f, NEW m \in MapKeys, MapDel(k, f, m)
  PROVE  DInv'
<1> DEFINE d == objs[k][f].obj.data
<1>1. objs \in Db /\ HasOf(k, f, {"MAP"}) /\ SetData(k, f, Restrict(d, DOMAIN d \ {m})) /\ Change
  BY DEF MapDel, DInv, DumpTypes
<1>2. d \in MapData
  BY <1>1, DataOf
<1>3. objs' \in Db
  BY <1>1, <1>2, RestrictMap, MapChanged
<1> QED
  BY <1>1, <1>3, ChangeKeeps

LEMMA DumpKeeps ==
  ASSUME DInv, Dump
  PROVE  DInv'
<1>1. objs \in Db /\ objs' = objs /\ saved' = objs /\ loader' = loader /\ loader.pc = "idle"
  BY DEF Dump, DInv, DumpTypes
<1>2. FileOK(file', saved')
  BY <1>1, DumpWrites
<1>3. LoaderTypes' /\ ~Loading'
  BY <1>1 DEF DInv, DumpTypes, LoaderTypes, Loading
<1> QED
  BY <1>1, <1>2, <1>3, NotLoading

LEMMA IdleIs ==
  /\ NewBytes \in Buffers /\ NewBytes.buf = <<>> /\ NewBytes.rpos = 0 /\ NewBytes.wpos = 0
  /\ Idle = [pc |-> "idle", chunk |-> 1, pos |-> 0, eof |-> FALSE, bytes |-> NewBytes]
<1>1. <<>> \in Seq(Byte)
  OBVIOUS
<1> QED
  BY <1>1 DEF NewBytes, Buffers, Idle

LEMMA SubSeqNone ==
  ASSUME NEW S, NEW s \in Seq(S)
  PROVE  SubSeq(s, 1, 0) = <<>>
<1>1. 0 \in 0..Len(s)
  OBVIOUS
<1>2. SubSeq(s, 1, 0) \in Seq(S) /\ Len(SubSeq(s, 1, 0)) = 0
  BY <1>1, SplitAt
<1> QED
  BY <1>2, EmptySeq

LEMMA RestartKeeps ==
  ASSUME DInv, Restart
  PROVE  DInv'
<1> DEFINE empty == Len(Content) = 0
<1>1. PICK c \in Chunks : loader' = [Idle EXCEPT !.pc = "chunk", !.chunk = c, !.eof = empty]
  BY DEF Restart
<1>2. objs' = Nothing /\ file' = file /\ saved' = saved /\ saved \in Db /\ FileOK(file, saved)
  BY DEF Restart, DInv, DumpTypes
<1> HIDE DEF empty
<1>3. c \in Nat \ {0} /\ loader' = [pc |-> "chunk", chunk |-> c, pos |-> 0, eof |-> empty, bytes |-> NewBytes]
  BY <1>1, IdleIs, DumpFacts
<1>e. empty \in BOOLEAN
  BY DEF empty
<1>4. DumpTypes'
  <2>1. LoaderTypes'
    BY <1>3, <1>e, IdleIs DEF LoaderTypes
  <2> QED
    BY <1>2, <2>1, NothingIs DEF DumpTypes
<1>5. NothingInvented'
  BY <1>2, NothingIs DEF NothingInvented
<1>6. Content' = Content /\ Content \in Seq(Byte) /\ Len(Content) \in Nat
  BY <1>2, PlaceIs DEF Content
<1>7. FrontRead'
  <2>1. loader'.chunk \in Chunks /\ loader'.pos = 0 /\ loader'.bytes.buf = <<>> /\ loader'.bytes.wpos = 0
    BY <1>3, IdleIs
  <2>2. SubSeq(Content, 1, 0) = <<>>
    BY <1>6, SubSeqNone
  <2>3. 0 = 0 * c /\ loader'.chunk = c /\ 0 \in Nat
    BY <1>3
  <2>4. \E n \in Nat : loader'.pos = n * loader'.chunk
    BY <2>1, <2>3
  <2>5. loader'.eof => Len(Content) = 0
    BY <1>3 DEF empty
  <2> HIDE DEF Content
  <2> QED
    BY <1>6, <2>1, <2>2, <2>4, <2>5 DEF FrontRead
<1>8. InStep'
  <2>1. StartOf(1)' = StartOf(1) /\ StartOf(1) = 0
    BY <1>2, LastPlace DEF StartOf
  <2>2. Aligned(0)'
    <3>1. loader'.pos = 0 /\ loader'.bytes.rpos = 0 /\ loader'.pc = "chunk" /\ 0 + 1 = 1
      BY <1>3, IdleIs
    <3>2. StartOf(0 + 1)' = 0
      BY <2>1
    <3> QED
      BY <3>1, <3>2, ByteFacts DEF Aligned
  <2>3. Loaded(0)'
    BY DEF Loaded
  <2>4. 0 \in 0..Len(file')
    BY <1>2 DEF FileOK
  <2> QED
    BY <2>2, <2>3, <2>4 DEF InStep
<1> QED
  BY <1>4, <1>5, <1>7, <1>8 DEF DInv

LEMMA SplitSame ==
  ASSUME file' = file, loader'.chunk = loader.chunk, NEW i, Split(i)
  PROVE  Split(i)'
<1>1. Content' = Content /\ StartOf(i)' = StartOf(i) /\ file'[i] = file[i]
  BY DEF Content, StartOf
<1>2. PICK n \in 1..Len(Content) :
        /\ StartOf(i) + SizeLen < n * loader.chunk
        /\ n * loader.chunk < StartOf(i) + Len(file[i].cells)
  BY Zenon DEF Split
<1> QED
  BY <1>1, <1>2, Zenon DEF Split

LEMMA LoadChunkKeeps ==
  ASSUME DInv, LoadChunk
  PROVE  DInv'
<1> DEFINE F == Content
           pos == loader.pos
           c == loader.chunk
           b == loader.bytes
           new == Put(b, ChunkRead)
           end == ChunkEnd
           last == end # pos + c
<1>1. /\ objs \in Db /\ saved \in Db /\ FileOK(file, saved) /\ LoaderTypes /\ loader.pc = "chunk"
      /\ NothingInvented /\ FrontRead /\ InStep
      /\ UNCHANGED <<objs, file, saved>>
  BY DEF LoadChunk, DInv, DumpTypes, Loading
<1>2. F \in Seq(Byte) /\ Len(F) \in Nat /\ F' = F
  BY <1>1, PlaceIs DEF Content
<1>3. CASE loader.eof
  <2>1. loader' = Idle
    BY <1>3 DEF LoadChunk
  <2>2. LoaderTypes' /\ ~Loading'
    BY <2>1, IdleIs DEF LoaderTypes, Loading
  <2> QED
    BY <1>1, <2>2, NotLoading
<1>4. CASE ~loader.eof
  <2>1. loader' = [loader EXCEPT !.pc = "packs", !.pos = end, !.eof = last, !.bytes = new]
    BY <1>4 DEF LoadChunk
  <2>2. /\ pos \in Nat /\ c \in Nat \ {0} /\ c \in Chunks /\ b \in Buffers
        /\ loader = [pc |-> "chunk", chunk |-> c, pos |-> pos, eof |-> loader.eof, bytes |-> b]
    BY <1>1 DEF LoaderTypes, FrontRead
  <2>3. /\ pos <= Len(F) /\ b.buf = SubSeq(F, 1, pos) /\ b.wpos = pos
        /\ \E n \in Nat : pos = n * c
    BY <1>1, <1>4 DEF FrontRead
  <2>4. loader' = [pc |-> "packs", chunk |-> c, pos |-> end, eof |-> last, bytes |-> new]
    <3> DEFINE e == loader.eof
    <3> HIDE DEF end, new, c, pos, b, last, e
    <3>1. loader = [pc |-> "chunk", chunk |-> c, pos |-> pos, eof |-> e, bytes |-> b]
      BY <2>2 DEF e
    <3> QED
      BY <2>1, <3>1
  <2>l. last \in BOOLEAN /\ (last <=> end # pos + c)
    OBVIOUS
  <2>5. end = Min({pos + c, Len(F)}) /\ ChunkRead = SubSeq(F, pos + 1, end)
    BY DEF ChunkEnd, ChunkRead
  <2>6. /\ InStep /\ FileOK(file, saved) /\ Len(file) \in Nat
        /\ file' = file
    BY <1>1 DEF FileOK
  <2> HIDE DEF F, end, c, pos, b, new, last
  <2>7. end \in {pos + c, Len(F)} /\ end <= pos + c /\ end <= Len(F) /\ end \in Nat /\ pos <= end
    <3>1. pos + c \in Int /\ Len(F) \in Int
      BY <1>2, <2>2
    <3>2. end \in {pos + c, Len(F)} /\ end <= pos + c /\ end <= Len(F)
      BY <2>5, <3>1, MinOfTwo
    <3> QED
      BY <1>2, <2>2, <2>3, <3>2
  <2>8. ChunkRead \in Seq(Byte) /\ SubSeq(F, 1, pos) \o ChunkRead = SubSeq(F, 1, end)
        /\ Len(SubSeq(F, 1, end)) = end /\ Len(SubSeq(F, 1, pos)) = pos
    <3> DEFINE n == end - pos
    <3>1. n \in Nat /\ pos + n = end /\ pos \in 0..Len(F) /\ end \in 0..Len(F) /\ pos + n <= Len(F)
      BY <1>2, <2>2, <2>3, <2>7
    <3> HIDE DEF n
    <3>2. SubSeq(F, pos + 1, pos + n) \in Seq(Byte)
      BY <1>2, <2>2, <3>1, PartOf
    <3>3. 1 \in 1..(Len(F) + 1) /\ pos \in (1 - 1)..Len(F) /\ end \in pos..Len(F)
      BY <1>2, <2>2, <2>7, <3>1
    <3>4. SubSeq(F, 1, pos) \o SubSeq(F, pos + 1, end) = SubSeq(F, 1, end)
      BY <1>2, <3>3, ConcatAdjacentSubSeq
    <3>5. Len(SubSeq(F, 1, end)) = end /\ Len(SubSeq(F, 1, pos)) = pos
      BY <1>2, <3>1, SplitAt
    <3> QED
      BY <2>5, <3>1, <3>2, <3>4, <3>5
  <2>9. /\ new \in Buffers /\ new.buf = SubSeq(F, 1, end) /\ new.wpos = end
        /\ new.rpos = b.rpos /\ b.rpos \in Nat
    <3>1. b.wpos = Size(b)
      BY <2>3, <2>8 DEF Size
    <3>2. new \in Buffers /\ new.buf = b.buf \o ChunkRead /\ new.wpos = Size(new)
      BY <2>2, <2>8, <3>1, PutAppends DEF new
    <3>3. new.rpos = b.rpos
      BY <2>2, <2>8, PutIs DEF new
    <3>4. b.rpos \in Nat
      BY <2>2 DEF Buffers
    <3> QED
      BY <2>3, <2>8, <3>2, <3>3, <3>4 DEF Size
  <2>10. (last => end = Len(F)) /\ (last \/ \E n \in Nat : end = n * c)
    <3>1. PICK n \in Nat : pos = n * c
      BY <2>3
    <3>2. n + 1 \in Nat /\ (n + 1) * c = n * c + c
      BY <2>2
    <3> QED
      BY <2>l, <2>7, <3>1, <3>2
  <2>11. DumpTypes'
    <3>1. LoaderTypes'
      BY <2>2, <2>4, <2>l, <2>7, <2>9 DEF LoaderTypes
    <3> QED
      BY <1>1, <3>1 DEF DumpTypes
  <2>12. NothingInvented'
    BY <1>1, <2>4 DEF NothingInvented
  <2>13. FrontRead'
    <3>1. Content' = F /\ loader'.pos = end /\ loader'.chunk = c /\ loader'.bytes = new
          /\ loader'.eof = last
      BY <1>2, <2>4 DEF F
    <3> QED
      BY <2>2, <2>7, <2>9, <2>10, <3>1 DEF FrontRead
  <2>14. InStep'
    <3>1. PICK m \in 0..Len(file) : Loaded(m) /\ (Aligned(m) \/ (m < Len(file) /\ Split(m + 1)))
      BY <1>1 DEF InStep
    <3>2. Loaded(m)'
      BY <1>1, <3>1 DEF Loaded
    <3>3. ASSUME Aligned(m) PROVE Aligned(m)'
      <4>1. b.rpos = StartOf(m + 1) /\ b.rpos <= pos /\ pos - b.rpos <= SizeLen
        BY <1>1, <3>3, ByteFacts DEF Aligned, pos, b
      <4>2. /\ loader'.pc = "packs" /\ loader'.chunk = c /\ loader'.pos = end
            /\ loader'.bytes.rpos = b.rpos
        BY <2>4, <2>9
      <4>3. b.rpos <= end /\ end - b.rpos <= SizeLen + c
        <5> DEFINE r == b.rpos
        <5>1. r \in Nat /\ pos \in Nat /\ c \in Nat /\ end \in Nat /\ SizeLen \in Nat
          BY <2>2, <2>7, <2>9, ByteFacts
        <5>2. pos <= end /\ end <= pos + c /\ r <= pos /\ pos - r <= SizeLen
          BY <2>7, <4>1
        <5> HIDE DEF r
        <5>3. r <= end /\ end - r <= SizeLen + c
          BY <5>1, <5>2
        <5> QED
          BY <5>3 DEF r
      <4>4. StartOf(m + 1)' = StartOf(m + 1)
        BY <2>6 DEF StartOf
      <4> QED
        BY <4>1, <4>2, <4>3, <4>4 DEF Aligned
    <3>4. ASSUME Split(m + 1) PROVE Split(m + 1)'
      <4>1. loader'.chunk = loader.chunk
        BY <2>4 DEF c
      <4> QED
        BY <2>6, <3>4, <4>1, SplitSame
    <3> QED
      BY <2>6, <3>1, <3>2, <3>3, <3>4 DEF InStep
  <2> QED
    BY <2>11, <2>12, <2>13, <2>14 DEF DInv
<1> QED
  BY <1>3, <1>4

LEMMA ModSmall ==
  ASSUME NEW x \in Nat, NEW w \in Nat, x < w
  PROVE  x % w = x
OBVIOUS

(* What the inner loop finds when the read position is that of a pack.     *)
LEMMA AlignedPack ==
  ASSUME DInv, Loading, loader.pc = "packs", NEW m \in 0..Len(file), Aligned(m),
         NEW n, n = Get(loader.bytes, loader.bytes.rpos, SizeLen)
  PROVE  /\ ~EnoughForSize(loader.bytes) => loader.pos - loader.bytes.rpos <= SizeLen
         /\ EnoughForSize(loader.bytes) =>
              /\ m < Len(file) /\ m + 1 \in 1..Len(file) /\ n = Len(Cells[m + 1])
              /\ n >= HeadLen
              /\ loader.bytes.rpos = StartOf(m + 1)
              /\ loader.bytes.rpos + n = StartOf((m + 1) + 1)
              /\ ~EnoughForPack(Advanced(loader.bytes, SizeLen), n) => Split(m + 1)
              /\ EnoughForPack(Advanced(loader.bytes, SizeLen), n) =>
                   loader.bytes.rpos + n <= loader.pos
<1> DEFINE F == Content
           pos == loader.pos
           c == loader.chunk
           b == loader.bytes
           r == b.rpos
           s == Advanced(b, SizeLen)
<1>1. /\ FileOK(file, saved) /\ LoaderTypes /\ FrontRead /\ Len(file) \in Nat /\ Len(Cells) = Len(file)
  BY CellsAre DEF DInv, DumpTypes
<1>2. /\ pos \in Nat /\ c \in Nat \ {0} /\ c \in Chunks /\ b \in Buffers /\ r \in Nat
      /\ pos <= Len(F) /\ b.buf = SubSeq(F, 1, pos)
      /\ pos = Len(F) \/ \E q \in Nat : pos = q * c
  BY <1>1 DEF LoaderTypes, FrontRead, Buffers
<1>3. F \in Seq(Byte) /\ Len(F) \in Nat
  BY <1>1, PlaceIs
<1>4. r = StartOf(m + 1) /\ r <= pos /\ pos - r <= SizeLen + c
  BY DEF Aligned
<1>5. SizeLen + c < Wrap /\ Wrap \in Nat /\ SizeLen \in Nat /\ HeadLen \in Nat /\ SizeLen < HeadLen
  BY <1>2, DumpFacts, ByteFacts
<1>6. Size(b) = pos
  <2>1. pos \in 0..Len(F)
    BY <1>2, <1>3
  <2>2. Len(SubSeq(F, 1, pos)) = pos
    <3> HIDE DEF F, pos
    <3> QED
      BY <1>3, <2>1, SplitAt
  <2> QED
    BY <1>2, <2>2 DEF Size
<1>7. Size(s) = Size(b) /\ s.rpos = r + SizeLen
  <2>1. b = [buf |-> b.buf, rpos |-> r, wpos |-> b.wpos]
    BY <1>2 DEF Buffers
  <2> HIDE DEF b
  <2> QED
    BY <2>1 DEF Advanced, Size
<1>8. Remaining(b) = (pos - r) % Wrap /\ Remaining(s) = (pos - (r + SizeLen)) % Wrap
  BY <1>6, <1>7 DEF Remaining
<1> HIDE DEF F, pos, c, b, r, s
<1>9. Remaining(b) = pos - r
  <2> DEFINE x == pos - r
  <2>1. x \in Nat /\ x < Wrap
    BY <1>2, <1>4, <1>5
  <2> HIDE DEF x
  <2>2. x % Wrap = x
    BY <1>5, <2>1, ModSmall
  <2> QED
    BY <1>8, <2>2 DEF x
<1>10. EnoughForSize(b) <=> pos - r > SizeLen
  BY <1>9 DEF EnoughForSize
<1>11. ASSUME EnoughForSize(b)
       PROVE  /\ m < Len(file) /\ m + 1 \in 1..Len(file) /\ n = Len(Cells[m + 1])
              /\ n >= HeadLen /\ n \in Nat /\ r + n = StartOf((m + 1) + 1) /\ r + n <= Len(F)
              /\ EnoughForPack(s, n) <=> r + n <= pos
  <2>1. r + SizeLen < pos
    BY <1>2, <1>4, <1>5, <1>10, <1>11
  <2>2. m # Len(file)
    <3>1. m = Len(file) => r = Len(F)
      BY <1>1, <1>4, LastPlace DEF F
    <3> QED
      BY <1>2, <1>3, <1>5, <2>1, <3>1
  <2>3. m < Len(file) /\ m + 1 \in 1..Len(file)
    BY <1>1, <2>2
  <2>4. StartOf(m + 1) + SizeLen <= pos
    <3>1. r + SizeLen <= pos
      BY <1>2, <1>5, <2>1
    <3> QED
      BY <1>4, <3>1
  <2>5. n = Len(Cells[m + 1])
    <3>1. Get(b, StartOf(m + 1), SizeLen) = Len(Cells[m + 1])
      BY <1>1, <1>2, <2>3, <2>4, LengthRead DEF F
    <3> QED
      BY <1>4, <3>1 DEF b, r
  <2>6. n \in Nat /\ n >= HeadLen
    BY <1>1, <1>5, <2>3, <2>5, CellsAre
  <2>7. r + n = StartOf((m + 1) + 1) /\ r + n <= Len(F)
    BY <1>1, <1>4, <2>3, <2>5, PackPlace DEF F
  <2>8. Remaining(s) = pos - (r + SizeLen)
    <3> DEFINE x == pos - (r + SizeLen)
    <3>1. x \in Nat /\ x < Wrap
      BY <1>2, <1>4, <1>5, <2>1
    <3> HIDE DEF x
    <3>2. x % Wrap = x
      BY <1>5, <3>1, ModSmall
    <3> QED
      BY <1>8, <3>2 DEF x
  <2>9. EnoughForPack(s, n) <=> r + n <= pos
    <3>1. EnoughForPack(s, n) <=> n >= SizeLen /\ pos - (r + SizeLen) >= n - SizeLen
      BY <2>8 DEF EnoughForPack
    <3> QED
      BY <1>2, <1>5, <2>6, <3>1
  <2> QED
    BY <2>3, <2>5, <2>6, <2>7, <2>9
<1>12. ASSUME EnoughForSize(b), ~EnoughForPack(s, n)
       PROVE  Split(m + 1)
  <2>1. pos < r + n /\ r + n <= Len(F) /\ n = Len(Cells[m + 1]) /\ m + 1 \in 1..Len(file) /\ n \in Nat
    BY <1>2, <1>11, <1>12
  <2>2. pos # Len(F)
    BY <1>2, <1>3, <2>1
  <2>3. PICK q \in Nat : pos = q * c
    BY <1>2, <2>2
  <2>4. q \in 1..Len(F)
    <3>1. pos > 0
      BY <1>2, <1>5, <1>10, <1>12
    <3>2. q # 0
      BY <1>2, <2>3, <3>1
    <3>3. q * 1 <= q * c
      BY <1>2, MulMono
    <3>4. q <= pos
      BY <2>3, <3>3
    <3> QED
      BY <1>2, <1>3, <3>2, <3>4
  <2>5. file[m + 1].cells = Cells[m + 1]
    BY <1>1, <2>1, CellsAre
  <2>6. StartOf(m + 1) + SizeLen < q * loader.chunk /\ q * loader.chunk < StartOf(m + 1) + Len(file[m + 1].cells)
    <3>1. r + SizeLen < pos
      BY <1>2, <1>5, <1>10, <1>12
    <3> QED
      BY <1>4, <2>1, <2>3, <2>5, <3>1 DEF c
  <2> QED
    BY <2>4, <2>6 DEF Split, F
<1>13. ~EnoughForSize(b) => pos - r <= SizeLen
  BY <1>2, <1>5, <1>10
<1> QED
  BY <1>4, <1>11, <1>12, <1>13 DEF b, s, r, pos

LEMMA MinIs ==
  ASSUME NEW T \in SUBSET Nat, T # {}
  PROVE  Min(T) \in T
<1>1. \E x \in T : \A y \in T : x <= y
  BY LeastNat
<1> QED
  BY <1>1 DEF Min

LEMMA FrontSame ==
  ASSUME FrontRead, file' = file, loader'.chunk = loader.chunk, loader'.pos = loader.pos,
         loader'.eof = loader.eof,
         loader'.bytes.buf = loader.bytes.buf, loader'.bytes.wpos = loader.bytes.wpos
  PROVE  FrontRead'
<1>1. Content' = Content
  BY DEF Content
<1> QED
  BY <1>1, Zenon DEF FrontRead

LEMMA LoadPackKeeps ==
  ASSUME DInv, LoadPack
  PROVE  DInv'
<1> DEFINE b == loader.bytes
           r == b.rpos
           n == Get(b, r, SizeLen)
           s == Advanced(b, SizeLen)
           a == Advanced(b, n)
           type == Get(s, s.rpos + FlagLen, TypeLen)
           at == {i \in 1..Len(file) : StartOf(i) = r /\ Len(file[i].cells) = n}
           parsed == IF at = {} THEN objs ELSE ParsedRow(file[Min(at)], objs)
<1>1. /\ objs \in Db /\ saved \in Db /\ FileOK(file, saved) /\ LoaderTypes /\ loader.pc = "packs"
      /\ Loading /\ NothingInvented /\ FrontRead /\ InStep
      /\ UNCHANGED <<file, saved>>
  BY DEF LoadPack, DInv, DumpTypes, Loading
<1>2. /\ loader.pos \in Nat /\ loader.eof \in BOOLEAN /\ loader.chunk \in Nat \ {0} /\ b \in Buffers /\ r \in Nat
      /\ loader = [pc |-> "packs", chunk |-> loader.chunk, pos |-> loader.pos, eof |-> loader.eof, bytes |-> b]
      /\ b = [buf |-> b.buf, rpos |-> r, wpos |-> b.wpos]
      /\ b.buf \in Seq(Byte) /\ b.wpos \in Nat
  BY <1>1 DEF LoaderTypes, Buffers
<1>3. n \in Nat
  BY <1>2, ReadType, ByteFacts
<1>4. \/ ~EnoughForSize(b) /\ loader' = [loader EXCEPT !.pc = "chunk"] /\ objs' = objs
      \/ /\ EnoughForSize(b) /\ ~EnoughForPack(s, n)
         /\ loader' = [loader EXCEPT !.pc = "chunk", !.bytes = s] /\ objs' = objs
      \/ loader' = [loader EXCEPT !.pc = "dead"] /\ objs' = objs
      \/ loader' = [loader EXCEPT !.pc = "undefined"] /\ objs' = objs
      \/ /\ EnoughForSize(b) /\ EnoughForPack(s, n)
         /\ loader' = [loader EXCEPT !.bytes = a] /\ objs' = parsed
         /\ at # {} \/ type # ReplObject
      \/ FALSE
  BY Zenon DEF LoadPack
<1>5. FromSaved(objs, saved)
  BY <1>1 DEF NothingInvented, FromSaved
<1>6. Len(file) \in Nat /\ \A i \in 1..Len(file) : PackFor(file[i], saved) /\ file[i].id \in DOMAIN saved
  BY <1>1 DEF FileOK, PackFor
<1>7. PICK m \in 0..Len(file) : Loaded(m) /\ (Aligned(m) \/ (m < Len(file) /\ Split(m + 1)))
  BY <1>1 DEF InStep
<1> HIDE DEF n, type, at, parsed
<1>8. /\ s \in Buffers /\ s.buf = b.buf /\ s.wpos = b.wpos
      /\ a \in Buffers /\ a.buf = b.buf /\ a.wpos = b.wpos /\ a.rpos = r + n
  <2> HIDE DEF b, r
  <2>1. s = [buf |-> b.buf, rpos |-> r + SizeLen, wpos |-> b.wpos]
        /\ a = [buf |-> b.buf, rpos |-> r + n, wpos |-> b.wpos]
    BY <1>2 DEF Advanced
  <2> HIDE DEF s, a
  <2>2. r + SizeLen \in Nat /\ r + n \in Nat
    <3>1. r \in Nat /\ n \in Nat /\ SizeLen \in Nat
      BY <1>2, <1>3, ByteFacts, Zenon
    <3> QED
      BY <3>1
  <2> QED
    BY <1>2, <2>1, <2>2 DEF Buffers
<1>9. ASSUME Aligned(m)
      PROVE  /\ ~EnoughForSize(b) => loader.pos - r <= SizeLen
             /\ EnoughForSize(b) =>
                  /\ m < Len(file) /\ m + 1 \in 1..Len(file) /\ n = Len(Cells[m + 1])
                  /\ n >= HeadLen /\ r = StartOf(m + 1) /\ r + n = StartOf((m + 1) + 1)
                  /\ ~EnoughForPack(s, n) => Split(m + 1)
                  /\ EnoughForPack(s, n) => r + n <= loader.pos
  BY <1>1, <1>9, AlignedPack DEF n
<1> HIDE DEF b, r, s, a
(* The loader goes on with the bytes c, and has the rows x.                *)
<1>10. ASSUME NEW pc \in {"chunk", "packs"}, NEW c \in Buffers, c.buf = b.buf, c.wpos = b.wpos,
              loader' = [pc |-> pc, chunk |-> loader.chunk, pos |-> loader.pos, eof |-> loader.eof, bytes |-> c],
              objs' \in Db, FromSaved(objs', saved), InStep'
       PROVE  DInv'
  <2>1. /\ loader'.chunk = loader.chunk /\ loader'.pos = loader.pos /\ loader'.bytes = c
        /\ loader'.pc = pc /\ loader'.eof = loader.eof
    BY <1>10
  <2>2. LoaderTypes'
    BY <1>2, <1>10 DEF LoaderTypes
  <2>3. DumpTypes'
    BY <1>1, <1>10, <2>2 DEF DumpTypes
  <2>4. NothingInvented'
    BY <1>1, <1>10 DEF NothingInvented, FromSaved
  <2>5. FrontRead'
    BY <1>1, <1>10, <2>1, FrontSame DEF b
  <2> QED
    BY <1>10, <2>3, <2>4, <2>5 DEF DInv
<1>11. ASSUME loader'.chunk = loader.chunk, Loaded(m)', m < Len(file), Split(m + 1)
       PROVE  InStep'
  <2>1. Split(m + 1)'
    BY <1>1, <1>11, SplitSame
  <2> QED
    BY <1>1, <1>7, <1>11, <2>1 DEF InStep
<1>12. objs' = objs => Loaded(m)'
  BY <1>1, <1>7 DEF Loaded
<1>13. CASE ~EnoughForSize(b) /\ loader' = [loader EXCEPT !.pc = "chunk"] /\ objs' = objs
  <2>1. loader' = [pc |-> "chunk", chunk |-> loader.chunk, pos |-> loader.pos, eof |-> loader.eof, bytes |-> b]
    BY <1>2, <1>13
  <2>2. InStep'
    <3>1. CASE Aligned(m)
      <4>1. loader'.pc = "chunk" /\ loader'.pos = loader.pos /\ loader'.bytes.rpos = r
        BY <2>1 DEF r
      <4>2. r = StartOf(m + 1) /\ r <= loader.pos /\ StartOf(m + 1)' = StartOf(m + 1)
        BY <1>1, <3>1 DEF Aligned, StartOf, r, b
      <4>3. loader.pos - r <= SizeLen + 0
        BY <1>2, <1>9, <1>13, <3>1, ByteFacts
      <4>4. Aligned(m)'
        BY <4>1, <4>2, <4>3 DEF Aligned
      <4> QED
        BY <1>1, <1>7, <1>12, <1>13, <4>4 DEF InStep
    <3>2. CASE m < Len(file) /\ Split(m + 1)
      BY <1>11, <1>12, <1>13, <2>1, <3>2
    <3> QED
      BY <1>7, <3>1, <3>2
  <2> QED
    BY <1>1, <1>2, <1>5, <1>10, <1>13, <2>1, <2>2
<1>14. CASE /\ EnoughForSize(b) /\ ~EnoughForPack(s, n)
            /\ loader' = [loader EXCEPT !.pc = "chunk", !.bytes = s] /\ objs' = objs
  <2>1. loader' = [pc |-> "chunk", chunk |-> loader.chunk, pos |-> loader.pos, eof |-> loader.eof, bytes |-> s]
    BY <1>2, <1>14
  <2>2. m < Len(file) /\ Split(m + 1)
    BY <1>7, <1>9, <1>14
  <2>3. InStep'
    BY <1>11, <1>12, <1>14, <2>1, <2>2
  <2> QED
    BY <1>1, <1>5, <1>8, <1>10, <1>14, <2>1, <2>3
<1>15. ASSUME NEW pc \in {"dead", "undefined"}, loader' = [loader EXCEPT !.pc = pc], objs' = objs
       PROVE  DInv'
  <2>1. loader' = [pc |-> pc, chunk |-> loader.chunk, pos |-> loader.pos, eof |-> loader.eof, bytes |-> b]
    BY <1>2, <1>15
  <2>2. LoaderTypes' /\ ~Loading'
    BY <1>2, <1>15, <2>1 DEF LoaderTypes, Loading
  <2> QED
    BY <1>1, <1>15, <2>2, NotLoading
<1>16. CASE /\ EnoughForSize(b) /\ EnoughForPack(s, n)
            /\ loader' = [loader EXCEPT !.bytes = a] /\ objs' = parsed
  <2>1. loader' = [pc |-> "packs", chunk |-> loader.chunk, pos |-> loader.pos, eof |-> loader.eof, bytes |-> a]
    BY <1>2, <1>16
  <2>2. at \in SUBSET Nat /\ at \subseteq 1..Len(file)
    BY <1>6 DEF at
  <2>3. at # {} => Min(at) \in at
    BY <2>2, MinIs
  <2>4. /\ objs' \in Db /\ FromSaved(objs', saved)
        /\ \A k \in DOMAIN saved : Columns(objs, k) = Restored(saved[k]) =>
                                     Columns(objs', k) = Restored(saved[k])
        /\ at # {} => Columns(objs', file[Min(at)].id) = Restored(saved[file[Min(at)].id])
    <3>1. CASE at = {}
      BY <1>1, <1>5, <1>16, <3>1 DEF parsed
    <3>2. CASE at # {}
      <4> DEFINE p == file[Min(at)]
      <4>1. PackFor(p, saved)
        BY <1>6, <2>2, <2>3, <3>2
      <4>2. objs' = ParsedRow(p, objs)
        BY <1>16, <3>2 DEF parsed
      <4> HIDE DEF p
      <4>3. /\ objs' \in Db /\ FromSaved(objs', saved)
            /\ Columns(objs', p.id) = Restored(saved[p.id])
            /\ \A k \in DOMAIN saved : Columns(objs, k) = Restored(saved[k]) =>
                                         Columns(objs', k) = Restored(saved[k])
        BY <1>1, <1>5, <4>1, <4>2, ParsedRowIs
      <4> QED
        BY <4>3 DEF p
    <3> QED
      BY <3>1, <3>2
  <2>5. ASSUME NEW i \in 1..Len(file), Columns(objs, file[i].id) = Restored(saved[file[i].id])
        PROVE  Columns(objs, file[i].id)' = Restored(saved[file[i].id])'
    BY <1>1, <1>6, <2>4, <2>5 DEF Columns
  <2>6. Loaded(m)'
    BY <1>1, <1>6, <1>7, <2>5 DEF Loaded
  <2>7. InStep'
    <3>1. CASE Aligned(m)
      <4>1. /\ m + 1 \in 1..Len(file) /\ n = Len(Cells[m + 1]) /\ r = StartOf(m + 1)
            /\ r + n = StartOf((m + 1) + 1) /\ r + n <= loader.pos
        BY <1>9, <1>16, <3>1
      <4>2. file[m + 1].cells = Cells[m + 1]
        BY <1>1, <4>1, CellsAre
      <4>3. m + 1 \in at
        BY <4>1, <4>2 DEF at
      <4>4. Min(at) = m + 1
        <5>1. Min(at) \in 1..Len(file) /\ StartOf(Min(at)) = StartOf(m + 1)
          BY <2>2, <2>3, <4>1, <4>3 DEF at
        <5> QED
          BY <1>1, <4>1, <5>1, PlacesGrow
      <4>5. Loaded(m + 1)'
        <5>1. Columns(objs, file[m + 1].id)' = Restored(saved[file[m + 1].id])'
          BY <1>1, <2>4, <4>3, <4>4 DEF Columns
        <5>2. \A i \in 1..(m + 1) : i = m + 1 \/ i \in 1..m
          BY <1>6
        <5> QED
          BY <2>6, <5>1, <5>2 DEF Loaded
      <4>6. Aligned(m + 1)'
        <5>1. /\ loader'.pc = "packs" /\ loader'.pos = loader.pos /\ loader'.chunk = loader.chunk
              /\ loader'.bytes.rpos = r + n
          BY <1>8, <2>1
        <5>2. StartOf((m + 1) + 1)' = StartOf((m + 1) + 1)
          BY <1>1 DEF StartOf
        <5>3. loader.pos - (r + n) <= SizeLen + loader.chunk
          <6>1. loader.pos - r <= SizeLen + loader.chunk
            BY <1>1, <3>1 DEF Aligned, r, b
          <6> DEFINE x == loader.pos
                     y == loader.chunk
          <6>2. r \in Nat /\ n \in Nat /\ SizeLen \in Nat /\ x \in Nat /\ y \in Nat
            <7>1. loader.chunk \in Nat
              BY <1>2
            <7> QED
              BY <1>2, <1>3, <7>1, ByteFacts, Zenon
          <6>3. x - r <= SizeLen + y
            BY <6>1
          <6> HIDE DEF x, y
          <6>4. x - (r + n) <= SizeLen + y
            BY <6>2, <6>3
          <6> QED
            BY <6>4 DEF x, y
        <5> QED
          BY <4>1, <5>1, <5>2, <5>3 DEF Aligned
      <4>7. m + 1 \in 0..Len(file')
        BY <1>1, <1>6, <4>1
      <4> QED
        BY <4>5, <4>6, <4>7 DEF InStep
    <3>2. CASE m < Len(file) /\ Split(m + 1)
      BY <1>11, <2>1, <2>6, <3>2
    <3> QED
      BY <1>7, <3>1, <3>2
  <2> QED
    BY <1>8, <1>10, <2>1, <2>4, <2>7
<1> QED
  BY <1>4, <1>13, <1>14, <1>15, <1>16

LEMMA DInvInit == DInit => DInv
<1> SUFFICES ASSUME DInit PROVE DInv
  OBVIOUS
<1>1. objs = Nothing /\ file = <<>> /\ saved = Nothing /\ loader = Idle
  BY DEF DInit
<1>2. FileOK(file, saved)
  BY <1>1 DEF FileOK
<1>3. LoaderTypes /\ ~Loading
  BY <1>1, IdleIs DEF LoaderTypes, Loading
<1> QED
  BY <1>1, <1>2, <1>3, NothingIs DEF DInv, DumpTypes, NothingInvented, Loading

LEMMA DInvStep == DInv /\ [DNext]_dvars => DInv'
<1> SUFFICES ASSUME DInv, [DNext]_dvars PROVE DInv'
  OBVIOUS
<1>1. objs \in Db
  BY DEF DInv, DumpTypes
<1>2. ASSUME NEW k \in Keys, NEW f \in Fields, NEW t \in Types, NEW x \in Births,
             PutNew(k, f, t, x.create, x.expire)
      PROVE  DInv'
  <2>1. x.create \in Nat /\ x.expire \in Nat /\ Change
    BY <1>2, DumpFacts DEF PutNew
  <2>2. objs' \in Db
    BY <1>1, <1>2, <2>1, PutNewIs
  <2> QED
    BY <2>1, <2>2, ChangeKeeps
<1>3. ASSUME NEW k \in Keys, NEW f \in Fields, Del(k, f)
      PROVE  DInv'
  <2>1. objs' \in Db /\ Change
    BY <1>1, <1>3, DelIs DEF Del
  <2> QED
    BY <2>1, ChangeKeeps
<1>4. ASSUME NEW k \in Keys, NEW f \in Fields, Lpop(k, f)
      PROVE  DInv'
  BY <1>4, LpopKeeps
<1>5. ASSUME NEW k \in Keys, NEW f \in Fields, NEW end \in 0..MaxLen, Ltrim(k, f, 0, end)
      PROVE  DInv'
  BY <1>5, BrokenKeeps DEF Ltrim
<1>6. ASSUME NEW k \in Keys, NEW f \in Fields, NEW v \in Values, NEW t \in Scalars, NEW x \in Births,
             SetScalar(k, f, t, v, x.create)
      PROVE  DInv'
  <2>1. x.create \in Nat /\ Change
    BY <1>6, DumpFacts DEF SetScalar
  <2>2. objs' \in Db
    BY <1>1, <1>6, <2>1, SetScalarIs
  <2> QED
    BY <2>1, <2>2, ChangeKeeps
<1>7. ASSUME NEW k \in Keys, NEW f \in Fields, NEW v \in Values, Lpush(k, f, v)
      PROVE  DInv'
  BY <1>7, LpushKeeps
<1>8. ASSUME NEW k \in Keys, NEW f \in Fields, NEW v \in Values, NEW m \in MapKeys, MapPut(k, f, m, v)
      PROVE  DInv'
  BY <1>8, MapPutKeeps
<1>9. ASSUME NEW k \in Keys, NEW f \in Fields, NEW m \in MapKeys, MapDel(k, f, m)
      PROVE  DInv'
  BY <1>9, MapDelKeeps
<1>10. CASE Flush
  <2>1. objs' \in Db /\ Change
    BY <1>10, NothingIs DEF Flush
  <2> QED
    BY <2>1, ChangeKeeps
<1>11. CASE Dump
  BY <1>11, DumpKeeps
<1>12. CASE Restart
  BY <1>12, RestartKeeps
<1>13. CASE LoadChunk
  BY <1>13, LoadChunkKeeps
<1>14. CASE LoadPack
  BY <1>14, LoadPackKeeps
<1>15. CASE UNCHANGED dvars
  <2>1. UNCHANGED <<objs, file, saved, loader>>
    BY <1>15 DEF dvars
  <2>2. objs' \in Db /\ saved' \in Db /\ FileOK(file', saved') /\ LoaderTypes'
    BY <2>1 DEF DInv, DumpTypes, LoaderTypes
  <2>3. CASE ~Loading
    <3>1. ~Loading'
      BY <2>1, <2>3 DEF Loading
    <3> QED
      BY <2>2, <3>1, NotLoading
  <2>4. CASE Loading
    <3>1. FrontRead' /\ NothingInvented'
      BY <2>1, <2>4, FrontSame DEF DInv, NothingInvented
    <3>2. PICK m \in 0..Len(file) : Loaded(m) /\ (Aligned(m) \/ (m < Len(file) /\ Split(m + 1)))
      BY <2>4 DEF DInv, InStep
    <3>3. Loaded(m)'
      BY <2>1, <3>2 DEF Loaded
    <3>4. Aligned(m) => Aligned(m)'
      <4>1. StartOf(m + 1)' = StartOf(m + 1)
        BY <2>1 DEF StartOf
      <4> QED
        BY <2>1, <4>1 DEF Aligned
    <3>5. Split(m + 1) => Split(m + 1)'
      BY <2>1, SplitSame
    <3>6. InStep'
      BY <2>1, <3>2, <3>3, <3>4, <3>5 DEF InStep
    <3> QED
      BY <2>2, <3>1, <3>6 DEF DInv, DumpTypes
  <2> QED
    BY <2>3, <2>4
<1> QED
  BY <1>2, <1>3, <1>4, <1>5, <1>6, <1>7, <1>8, <1>9, <1>10, <1>11, <1>12, <1>13, <1>14, <1>15
     DEF DNext

LEMMA DInvAlways == DSpec => []DInv
<1>1. DInit => DInv
  BY DInvInit
<1>2. DInv /\ [DNext]_dvars => DInv'
  BY DInvStep
<1> QED
  BY <1>1, <1>2, PTL DEF DSpec

(* Nothing is in memory after a restart that was not saved, and what is    *)
(* there is the saved row as Restored says: also when loadFile has lost    *)
(* the boundaries of the packs (File::loadFile, Buckets::parse).           *)
THEOREM LoadsOnlySaved == DSpec => []NothingInvented
<1>1. DInv => NothingInvented
  BY DEF DInv
<1> QED
  BY <1>1, DInvAlways, PTL

(* After a save and a restart every row whose pack comes before the first  *)
(* one that straddles a chunk is there, with the elements that Restored    *)
(* says: whatever the rows, their order and the size of a chunk            *)
(* (bucket::dump, Buckets::parse, File::loadFile).                         *)
THEOREM LoadsUpToSplit == DSpec => []Reloaded
<1>1. DInv => Reloaded
  <2> SUFFICES ASSUME DInv, Ended, NEW i \in 1..Len(file), \A j \in 1..i : ~Split(j)
               PROVE  Columns(objs, file[i].id) = Restored(saved[file[i].id])
    BY DEF Reloaded
  <2>1. /\ loader.pc = "chunk" /\ loader.pos = Len(Content) /\ Loading
        /\ FileOK(file, saved) /\ LoaderTypes /\ FrontRead /\ InStep
    BY DEF Ended, Loading, DInv, DumpTypes, FrontRead
  <2>2. PICK m \in 0..Len(file) : Loaded(m) /\ (Aligned(m) \/ (m < Len(file) /\ Split(m + 1)))
    BY <2>1 DEF InStep
  <2>3. Len(file) \in Nat /\ Len(Content) \in Nat /\ loader.bytes.rpos \in Nat
    BY <2>1, PlaceIs DEF FileOK, LoaderTypes, Buffers
  <2>4. i <= m
    <3>1. ASSUME Aligned(m), m < Len(file) PROVE FALSE
      <4> DEFINE r == loader.bytes.rpos
                 n == Len(Cells[m + 1])
                 end == Len(Content)
      <4>1. r = StartOf(m + 1) /\ end - r <= SizeLen
        BY <2>1, <3>1, ByteFacts DEF Aligned
      <4>2. m + 1 \in 1..Len(file)
        BY <2>3, <3>1
      <4>3. n \in Nat /\ n >= HeadLen
        BY <2>1, <4>2, CellsAre
      <4>4. StartOf((m + 1) + 1) = StartOf(m + 1) + n /\ StartOf((m + 1) + 1) <= end
        BY <2>1, <4>2, PackPlace
      <4>5. r \in Nat /\ end \in Nat
        BY <2>3
      <4> HIDE DEF r, n, end
      <4>6. r + n <= end
        BY <4>1, <4>4
      <4> QED
        BY <4>1, <4>3, <4>5, <4>6, ByteFacts
    <3>2. CASE Aligned(m)
      BY <2>3, <3>1, <3>2
    <3>3. CASE Split(m + 1)
      <4>1. ~(m + 1 \in 1..i)
        BY <3>3
      <4> QED
        BY <2>3, <4>1
    <3> QED
      BY <2>2, <3>2, <3>3
  <2> QED
    BY <2>2, <2>3, <2>4 DEF Loaded
<1> QED
  BY <1>1, DInvAlways, PTL
=============================================================================
