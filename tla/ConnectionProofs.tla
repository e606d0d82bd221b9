-------------------------- MODULE ConnectionProofs --------------------------
(***************************************************************************)
(* Proofs about the connections of the client library: about Connect, for  *)
(* any set of objects and of descriptors, and about ConnectionPool, for    *)
(* any number of threads, connections and calls.                           *)
(*                                                                         *)
(* OneOwner is not inductive: that a descriptor which ::socket gives out   *)
(* belongs to nobody rests on the descriptors left behind still being      *)
(* open, and on an object that is gone having none.                        *)
(*                                                                         *)
(* That a thread reads its own reply rests on what the connections are     *)
(* like that nobody reads from: nothing is owed on an idle one, on one     *)
(* that a thread holds before it sends, and on one not yet created.        *)
(*                                                                         *)
(* That no wake-up is lost is inductive once a woken thread is known to be *)
(* one that waits.                                                         *)
(***************************************************************************)
EXTENDS Connect, ConnectionPool, TLAPS, FiniteSetTheorems

ConnectObjects == [use : {"none", "pool", "link"}, fd : Fds \cup {NoDescriptor},
            status : {"NEW", "CONNECTED", "CLOSE"}, err : BOOLEAN, addr : BOOLEAN]
SocketStates == {"free", "open", "connected"}

ConnectTypes ==
  /\ conns \in [Connects -> ConnectObjects]
  /\ socks \in [Fds -> SocketStates]
  /\ left \in SUBSET Fds

(* An object's descriptor is its own, is connected, and was not left       *)
(* behind; what was left behind stays open.                                *)
OwnDescriptors ==
  \A c \in Connects : conns[c].fd # NoDescriptor =>
    /\ socks[conns[c].fd] = "connected"
    /\ conns[c].fd \notin left
    /\ \A b \in Connects : conns[b].fd = conns[c].fd => b = c
LeftOpen == \A d \in left : socks[d] # "free"

(* What the objects are like.                                              *)
ObjectOK(c) ==
  /\ c.status = "CONNECTED" => c.fd # NoDescriptor
  /\ c.use = "pool" => c.addr /\ c.status = "CONNECTED" /\ ~c.err
  /\ c.use = "none" => c.fd = NoDescriptor

NInv ==
  /\ ConnectTypes
  /\ OwnDescriptors
  /\ LeftOpen
  /\ \A c \in Connects : ObjectOK(conns[c])

-----------------------------------------------------------------------------
(* The parts of the invariant give the properties.                         *)
LEMMA NInvGives == NInv => ConnectTypeOK /\ OneOwner /\ UsableIfNotBroken
<1> SUFFICES ASSUME NInv PROVE ConnectTypeOK /\ OneOwner /\ UsableIfNotBroken
  BY DEF NInv
<1>1. ConnectTypeOK
  BY DEF NInv, ConnectTypes, ConnectTypeOK, ConnectObjects, SocketStates
<1>2. OneOwner
  <2> SUFFICES ASSUME NEW d \in Fds
               PROVE  /\ Cardinality(Owners(d)) <= 1
                      /\ Owners(d) # {} => socks[d] # "free" /\ d \notin left
    BY DEF OneOwner
  <2>1. d # NoDescriptor
    BY DescriptorAssumption
  <2>2. \A a, b \in Owners(d) : a = b
    BY <2>1 DEF NInv, OwnDescriptors, Owners
  <2>3. Cardinality(Owners(d)) <= 1
    <3>1. CASE Owners(d) = {}
      BY <3>1, FS_EmptySet
    <3>2. CASE Owners(d) # {}
      <4>1. PICK a : Owners(d) = {a}
        BY <2>2, <3>2
      <4>2. Cardinality({a}) = 1
        BY FS_Singleton
      <4> QED
        BY <4>1, <4>2
    <3> QED
      BY <3>1, <3>2
  <2>4. Owners(d) # {} => socks[d] # "free" /\ d \notin left
    BY <2>1 DEF NInv, OwnDescriptors, Owners
  <2> QED
    BY <2>3, <2>4
<1>3. UsableIfNotBroken
  BY DEF NInv, OwnDescriptors, ObjectOK, UsableIfNotBroken, Broken, Is
<1> QED
  BY <1>1, <1>2, <1>3

LEMMA NInvInit == NInit => NInv
<1> SUFFICES ASSUME NInit PROVE NInv
  OBVIOUS
<1>1. Gone \in ConnectObjects /\ ObjectOK(Gone) /\ Gone.fd = NoDescriptor
  BY DEF Gone, NewConnect, ConnectObjects, ObjectOK
<1>2. ConnectTypes
  BY <1>1 DEF NInit, ConnectTypes, SocketStates
<1> QED
  BY <1>1, <1>2 DEF NInit, NInv, OwnDescriptors, LeftOpen

-----------------------------------------------------------------------------
(* An object is replaced by x.  Its descriptor is freed, kept by x or left *)
(* behind; a new one, of x or left behind, was free.                       *)
Replaced(o, x, lost) ==
  /\ conns' = [conns EXCEPT ![o] = x]
  /\ socks' \in [Fds -> SocketStates]
  /\ left' = left \cup lost
  /\ \A e \in Fds : e # conns[o].fd /\ e # x.fd /\ e \notin lost => socks'[e] = socks[e]
  /\ x.fd # NoDescriptor =>
       /\ socks'[x.fd] = "connected" /\ x.fd \notin lost
       /\ x.fd = conns[o].fd \/ socks[x.fd] = "free"
  /\ \A e \in lost : socks'[e] # "free" /\ (e = conns[o].fd \/ socks[e] = "free")

LEMMA ReplaceKeeps ==
  ASSUME NInv, NEW o \in Connects, NEW x \in ConnectObjects, NEW lost \in SUBSET Fds,
         ObjectOK(x), Replaced(o, x, lost)
  PROVE  NInv'
<1> USE DEF Replaced
<1>1. \A c \in Connects : conns'[c] = IF c = o THEN x ELSE conns[c]
  BY DEF NInv, ConnectTypes
<1>2. ConnectTypes'
  BY DEF NInv, ConnectTypes
<1>3. \A c \in Connects : conns[c].fd # NoDescriptor => conns[c].fd \in Fds
  BY DEF NInv, ConnectTypes, ConnectObjects
<1>4. x.fd # NoDescriptor => x.fd \in Fds
  BY DEF ConnectObjects
<1>5. ASSUME NEW c \in Connects, c # o, conns[c].fd # NoDescriptor
      PROVE  /\ conns[c].fd # conns[o].fd /\ conns[c].fd # x.fd /\ conns[c].fd \notin lost
             /\ socks'[conns[c].fd] = "connected"
  <2>1. socks[conns[c].fd] = "connected" /\ conns[c].fd # conns[o].fd
    BY <1>5 DEF NInv, OwnDescriptors
  <2>2. conns[c].fd # x.fd /\ conns[c].fd \notin lost
    BY <1>5, <2>1
  <2> QED
    BY <1>3, <1>5, <2>1, <2>2
<1>6. OwnDescriptors'
  <2> SUFFICES ASSUME NEW c \in Connects, conns'[c].fd # NoDescriptor
               PROVE  /\ socks'[conns'[c].fd] = "connected"
                      /\ conns'[c].fd \notin left \cup lost
                      /\ \A b \in Connects : conns'[b].fd = conns'[c].fd => b = c
    BY DEF OwnDescriptors
  <2>1. CASE c = o
    <3>1. conns'[c] = x
      BY <1>1, <2>1
    <3>2. x.fd \notin left
      <4>1. CASE x.fd = conns[o].fd
        BY <3>1, <4>1 DEF NInv, OwnDescriptors
      <4>2. CASE socks[x.fd] = "free"
        BY <4>2 DEF NInv, LeftOpen
      <4> QED
        BY <3>1, <4>1, <4>2
    <3>3. ASSUME NEW b \in Connects, b # o PROVE conns'[b].fd # x.fd
      BY <1>1, <1>5, <3>1, <3>3
    <3> QED
      BY <2>1, <3>1, <3>2, <3>3
  <2>2. CASE c # o
    <3>1. conns'[c] = conns[c]
      BY <1>1, <2>2
    <3>2. conns[c].fd \notin left
      BY <3>1 DEF NInv, OwnDescriptors
    <3>3. \A b \in Connects : conns'[b].fd = conns[c].fd => b = c
      BY <1>1, <1>5, <2>2, <3>1 DEF NInv, OwnDescriptors
    <3> QED
      BY <1>5, <2>2, <3>1, <3>2, <3>3
  <2> QED
    BY <2>1, <2>2
<1>7. LeftOpen'
  <2> SUFFICES ASSUME NEW d \in left \cup lost PROVE socks'[d] # "free"
    BY DEF LeftOpen
  <2>1. CASE d \in lost
    BY <2>1
  <2>2. CASE d \in left /\ d \notin lost
    <3>1. d \in Fds /\ socks[d] # "free"
      BY <2>2 DEF NInv, LeftOpen, ConnectTypes
    <3>2. d # conns[o].fd
      <4>1. conns[o].fd # NoDescriptor => conns[o].fd \notin left
        BY DEF NInv, OwnDescriptors
      <4> QED
        BY <2>2, <3>1, <4>1, DescriptorAssumption
    <3>3. d # x.fd
      BY <3>1, <3>2, DescriptorAssumption
    <3> QED
      BY <2>2, <3>1, <3>2, <3>3
  <2> QED
    BY <2>1, <2>2
<1>8. \A c \in Connects : ObjectOK(conns'[c])
  BY <1>1 DEF NInv
<1> QED
  BY <1>2, <1>6, <1>7, <1>8 DEF NInv

(* What connect() makes of an object with no descriptor: nothing but an    *)
(* error, a socket left behind, or an object with a connected socket.      *)
NoSocket(r, ss) ==
  /\ ~r.ok /\ r.left = {} /\ r.socks = ss
  /\ r.c.fd = NoDescriptor /\ r.c.status # "CONNECTED"
SocketLeft(r, ss, d) ==
  /\ ss[d] = "free" /\ r.socks = [ss EXCEPT ![d] = "open"]
  /\ ~r.ok /\ r.left = {d}
  /\ r.c.fd = NoDescriptor /\ r.c.status # "CONNECTED"
SocketOwned(r, ss, d) ==
  /\ ss[d] = "free" /\ r.socks = [ss EXCEPT ![d] = "connected"]
  /\ r.ok = ~r.c.err /\ r.left = {}
  /\ r.c.fd = d /\ r.c.status = "CONNECTED" /\ r.c.addr
Outcome(r, ss) ==
  \/ NoSocket(r, ss)
  \/ \E d \in Fds : SocketLeft(r, ss, d) \/ SocketOwned(r, ss, d)

LEMMA ConnectingIs ==
  ASSUME NEW use \in {"none", "pool", "link"}, NEW ss \in [Fds -> SocketStates],
         NEW r \in Connecting(NewConnect(use), ss)
  PROVE  r.c \in ConnectObjects /\ r.c.use = use /\ Outcome(r, ss)
<1> DEFINE like(x, fd, status, e, addr) ==
             /\ x \in ConnectObjects /\ x.use = use
             /\ x.fd = fd /\ x.status = status /\ x.err = e /\ x.addr = addr
           res(x, s, l, ok) == [c |-> x, socks |-> s, left |-> l, ok |-> ok]
           free == {e \in Fds : ss[e] = "free"}
           none == NoDescriptor
           C == NewConnect(use)
<1>1. like(C, none, "NEW", FALSE, FALSE)
  BY DEF NewConnect, ConnectObjects
<1> HIDE DEF C
<1>2. like(Closed(C), none, "CLOSE", FALSE, FALSE)
  <2>1. Closed(C) = [C EXCEPT !.fd = NoDescriptor, !.status = "CLOSE"]
    BY DEF Closed, CloseFd
  <2> QED
    BY <1>1, <2>1 DEF ConnectObjects
<1>3. /\ like([C EXCEPT !.err = TRUE], none, "NEW", TRUE, FALSE)
      /\ like([Closed(C) EXCEPT !.err = TRUE], none, "CLOSE", TRUE, FALSE)
  BY <1>1, <1>2 DEF ConnectObjects
<1>4. ASSUME NEW x \in Refused(C)
      PROVE  x \in ConnectObjects /\ x.use = use /\ x.fd = none /\ x.status # "CONNECTED"
  BY <1>2, <1>3 DEF Refused
<1>5. ASSUME NEW d \in free, NEW x \in SetBlocking(C, d)
      PROVE  like(x, d, "NEW", FALSE, FALSE) \/ like(x, none, "CLOSE", TRUE, FALSE)
  <2>1. like([C EXCEPT !.fd = d], d, "NEW", FALSE, FALSE)
    BY <1>1 DEF ConnectObjects
  <2> QED
    BY <1>3, <2>1 DEF SetBlocking
<1>6. ASSUME NEW d \in free, NEW x, like(x, d, "NEW", FALSE, FALSE),
             NEW y \in SetTimeouts(Connected(x))
      PROVE  y \in ConnectObjects /\ y.use = use /\ y.fd = d /\ y.status = "CONNECTED" /\ y.addr
  <2>1. like(Connected(x), d, "CONNECTED", FALSE, TRUE)
    BY <1>6 DEF Connected, ConnectObjects
  <2>2. like([Connected(x) EXCEPT !.err = TRUE], d, "CONNECTED", TRUE, TRUE)
    BY <2>1 DEF ConnectObjects
  <2> QED
    BY <2>1, <2>2 DEF SetTimeouts
<1> DEFINE fails == res([C EXCEPT !.err = TRUE], ss, {}, FALSE)
           refused(d) == {res(x, [ss EXCEPT ![d] = "open"], {d}, FALSE) : x \in Refused(C)}
           set(d, x) == IF x.fd = NoDescriptor
                        THEN {[fails EXCEPT !.c = x]}
                        ELSE {res(y, [ss EXCEPT ![d] = "connected"], {}, ~y.err) :
                                y \in SetTimeouts(Connected(x))}
<1>7. r \in {fails} \cup
             UNION {refused(d) \cup UNION {set(d, x) : x \in SetBlocking(C, d)} : d \in free}
  BY DEF Connecting, C
<1>8. CASE r = fails
  BY <1>3, <1>8 DEF Outcome, NoSocket
<1>9. ASSUME NEW d \in free, r \in refused(d)
      PROVE  r.c \in ConnectObjects /\ r.c.use = use /\ SocketLeft(r, ss, d)
  <2>1. PICK x \in Refused(C) : r = res(x, [ss EXCEPT ![d] = "open"], {d}, FALSE)
    BY <1>9
  <2> QED
    BY <1>4, <2>1 DEF SocketLeft
<1>10. ASSUME NEW d \in free, NEW x \in SetBlocking(C, d), r \in set(d, x)
      PROVE  r.c \in ConnectObjects /\ r.c.use = use /\ (NoSocket(r, ss) \/ SocketOwned(r, ss, d))
  <2>1. CASE like(x, none, "CLOSE", TRUE, FALSE)
    <3>1. r = [fails EXCEPT !.c = x]
      BY <1>10, <2>1
    <3>2. r.c = x /\ r.socks = ss /\ r.left = {} /\ ~r.ok
      BY <3>1
    <3> QED
      BY <2>1, <3>2 DEF NoSocket
  <2>2. CASE like(x, d, "NEW", FALSE, FALSE)
    <3>1. x.fd # NoDescriptor
      BY <2>2, DescriptorAssumption
    <3>2. PICK y \in SetTimeouts(Connected(x)) :
            r = res(y, [ss EXCEPT ![d] = "connected"], {}, ~y.err)
      BY <1>10, <3>1
    <3>3. y \in ConnectObjects /\ y.use = use /\ y.fd = d /\ y.status = "CONNECTED" /\ y.addr
      BY <1>6, <2>2, <3>2
    <3>4. r.c = y /\ r.socks = [ss EXCEPT ![d] = "connected"] /\ r.left = {} /\ r.ok = ~y.err
      BY <3>2
    <3> QED
      BY <3>3, <3>4 DEF SocketOwned
  <2> QED
    BY <1>5, <2>1, <2>2
<1> HIDE DEF fails, refused, set
<1>11. r = fails \/ \E d \in free : r \in refused(d) \/ \E x \in SetBlocking(C, d) : r \in set(d, x)
  BY <1>7
<1> QED
  BY <1>8, <1>9, <1>10, <1>11 DEF Outcome

LEMMA DestroyedIs ==
  ASSUME NEW c \in ConnectObjects
  PROVE  /\ Destroyed(c) \in SUBSET Fds
         /\ \A d \in Fds : d \in Destroyed(c) <=> d = c.fd
  BY DescriptorAssumption DEF Destroyed, ConnectObjects

LEMMA GoneIs == Gone \in ConnectObjects /\ ObjectOK(Gone) /\ Gone.fd = NoDescriptor
BY DEF Gone, NewConnect, ConnectObjects, ObjectOK

LEMMA PoolCreateKeeps ==
  ASSUME NInv, NEW o \in Connects, PoolCreate(o)
  PROVE  NInv'
<1>1. ConnectTypes /\ conns[o].fd = NoDescriptor
  BY DEF NInv, ObjectOK, PoolCreate, Is
<1>2. PICK r \in Connecting(NewConnect("pool"), socks) :
        /\ conns' = [conns EXCEPT ![o] = IF r.ok THEN r.c ELSE Gone]
        /\ socks' = r.socks
        /\ left' = left \cup r.left \cup (IF r.ok THEN {} ELSE Destroyed(r.c))
  BY DEF PoolCreate
<1>3. socks \in [Fds -> SocketStates] /\ left \in SUBSET Fds
  BY <1>1 DEF ConnectTypes
<1>4. r.c \in ConnectObjects /\ r.c.use = "pool" /\ Outcome(r, socks)
  BY <1>3, ConnectingIs
<1>5. Destroyed(r.c) \in SUBSET Fds /\ \A d \in Fds : d \in Destroyed(r.c) <=> d = r.c.fd
  BY <1>4, DestroyedIs
<1>6. CASE NoSocket(r, socks)
  <2> DEFINE lost == {}
  <2>1. /\ conns' = [conns EXCEPT ![o] = Gone] /\ socks' = socks /\ left' = left \cup lost
        /\ lost \in SUBSET Fds
    BY <1>2, <1>6 DEF NoSocket, Destroyed
  <2>2. Replaced(o, Gone, lost)
    BY <1>1, <1>3, <2>1, GoneIs, DescriptorAssumption DEF Replaced
  <2> QED
    BY <1>1, <1>3, <2>1, <2>2, GoneIs, ReplaceKeeps
<1>7. ASSUME NEW d \in Fds, SocketLeft(r, socks, d) PROVE NInv'
  <2> DEFINE lost == {d}
  <2>1. /\ conns' = [conns EXCEPT ![o] = Gone] /\ socks' = [socks EXCEPT ![d] = "open"]
        /\ left' = left \cup lost /\ lost \in SUBSET Fds /\ socks[d] = "free"
    BY <1>2, <1>7 DEF SocketLeft, Destroyed
  <2>2. socks' \in [Fds -> SocketStates]
    BY <1>3, <2>1 DEF SocketStates
  <2>3. Replaced(o, Gone, lost)
    BY <1>1, <1>3, <2>1, <2>2, GoneIs, DescriptorAssumption DEF Replaced
  <2> QED
    BY <1>1, <1>3, <2>1, <2>2, <2>3, GoneIs, ReplaceKeeps
<1>8. ASSUME NEW d \in Fds, SocketOwned(r, socks, d), r.ok PROVE NInv'
  <2> DEFINE lost == {}
             x == r.c
  <2>1. /\ conns' = [conns EXCEPT ![o] = x] /\ socks' = [socks EXCEPT ![d] = "connected"]
        /\ left' = left \cup lost /\ lost \in SUBSET Fds /\ socks[d] = "free"
        /\ x \in ConnectObjects /\ x.fd = d
    BY <1>2, <1>4, <1>8 DEF SocketOwned
  <2>2. socks' \in [Fds -> SocketStates]
    BY <1>3, <2>1 DEF SocketStates
  <2>3. ObjectOK(x)
    BY <1>4, <1>8, DescriptorAssumption DEF SocketOwned, ObjectOK
  <2> HIDE DEF x
  <2>4. Replaced(o, x, lost)
    BY <1>1, <1>3, <2>1, <2>2, <2>3, DescriptorAssumption DEF Replaced
  <2> QED
    BY <1>1, <1>3, <2>1, <2>2, <2>3, <2>4, ReplaceKeeps
<1>9. ASSUME NEW d \in Fds, SocketOwned(r, socks, d), ~r.ok PROVE NInv'
  <2> DEFINE lost == {d}
  <2>1. /\ conns' = [conns EXCEPT ![o] = Gone] /\ socks' = [socks EXCEPT ![d] = "connected"]
        /\ left' = left \cup lost /\ lost \in SUBSET Fds /\ socks[d] = "free"
    BY <1>2, <1>9, DescriptorAssumption DEF SocketOwned, Destroyed
  <2>2. socks' \in [Fds -> SocketStates]
    BY <1>3, <2>1 DEF SocketStates
  <2>3. Replaced(o, Gone, lost)
    BY <1>1, <1>3, <2>1, <2>2, GoneIs, DescriptorAssumption DEF Replaced
  <2> QED
    BY <1>1, <1>3, <2>1, <2>2, <2>3, GoneIs, ReplaceKeeps
<1> QED
  BY <1>4, <1>6, <1>7, <1>8, <1>9 DEF Outcome

LEMMA RefetchKeeps ==
  ASSUME NInv, NEW o \in Connects, Refetch(o)
  PROVE  NInv'
<1> DEFINE old == conns[o]
           closed == CloseFd(old, socks)
           cs == closed.socks
<1>1. /\ ConnectTypes /\ old \in ConnectObjects /\ old.use = "pool" /\ old.addr
      /\ old.fd \in Fds /\ socks[old.fd] = "connected"
  BY DEF NInv, ObjectOK, Refetch, Is, ConnectTypes, ConnectObjects, OwnDescriptors
<1>2. /\ closed.c = [old EXCEPT !.fd = NoDescriptor, !.status = "CLOSE"]
      /\ cs = [e \in Fds |-> IF e = old.fd THEN "free" ELSE socks[e]]
  BY DEF CloseFd
<1>3. Reconnect(o, closed.c, cs)
  BY DEF Refetch
<1> HIDE DEF closed
<1>4. closed.c \in ConnectObjects /\ closed.c.fd = NoDescriptor /\ closed.c.addr
  BY <1>1, <1>2 DEF ConnectObjects
<1>5. /\ cs \in [Fds -> SocketStates]
      /\ \A e \in Fds : cs[e] = IF e = old.fd THEN "free" ELSE socks[e]
  BY <1>1, <1>2 DEF ConnectTypes, SocketStates
<1> HIDE DEF old, cs
<1>6. PICK r \in Connecting(NewConnect("pool"), cs) :
        /\ conns' = [conns EXCEPT ![o] = IF r.ok THEN Swapped(closed.c, r.c) ELSE Gone]
        /\ socks' = r.socks
        /\ left' = left \cup r.left \cup
             (IF r.ok THEN {} ELSE Destroyed(r.c) \cup Destroyed(closed.c))
  BY <1>3 DEF Reconnect
<1>7. r.c \in ConnectObjects /\ r.c.use = "pool" /\ Outcome(r, cs)
  BY <1>5, ConnectingIs
<1>8. Destroyed(closed.c) = {}
  BY <1>4 DEF Destroyed
<1>9. \A e \in Fds : socks[e] = "free" => cs[e] = "free"
  BY <1>5
<1>10. CASE NoSocket(r, cs)
  <2> DEFINE lost == {}
  <2>1. /\ conns' = [conns EXCEPT ![o] = Gone] /\ socks' = cs /\ left' = left \cup lost
        /\ lost \in SUBSET Fds
    BY <1>6, <1>8, <1>10 DEF NoSocket, Destroyed
  <2>2. Replaced(o, Gone, lost)
    BY <1>5, <2>1, GoneIs DEF old, Replaced
  <2> QED
    BY <1>5, <2>1, <2>2, GoneIs, ReplaceKeeps
<1>11. ASSUME NEW d \in Fds, SocketLeft(r, cs, d) PROVE NInv'
  <2> DEFINE lost == {d}
  <2>1. /\ conns' = [conns EXCEPT ![o] = Gone] /\ socks' = [cs EXCEPT ![d] = "open"]
        /\ left' = left \cup lost /\ lost \in SUBSET Fds /\ cs[d] = "free"
    BY <1>6, <1>8, <1>11 DEF SocketLeft, Destroyed
  <2>2. socks' \in [Fds -> SocketStates]
    BY <1>5, <2>1 DEF SocketStates
  <2>3. d = old.fd \/ socks[d] = "free"
    BY <1>5, <2>1
  <2>4. Replaced(o, Gone, lost)
    BY <1>5, <2>1, <2>2, <2>3, GoneIs DEF old, Replaced
  <2> QED
    BY <1>5, <2>1, <2>2, <2>3, <2>4, GoneIs, ReplaceKeeps
<1>12. ASSUME NEW d \in Fds, SocketOwned(r, cs, d), r.ok PROVE NInv'
  <2> DEFINE lost == {}
             x == Swapped(closed.c, r.c)
  <2>1. /\ conns' = [conns EXCEPT ![o] = x] /\ socks' = [cs EXCEPT ![d] = "connected"]
        /\ left' = left \cup lost /\ lost \in SUBSET Fds /\ cs[d] = "free"
    BY <1>6, <1>12 DEF SocketOwned
  <2>2. /\ x \in ConnectObjects /\ x.fd = d /\ x.use = "pool" /\ x.status = "CONNECTED"
        /\ x.addr /\ ~x.err
    BY <1>4, <1>7, <1>12 DEF SocketOwned, Swapped, ConnectObjects
  <2>3. socks' \in [Fds -> SocketStates]
    BY <1>5, <2>1 DEF SocketStates
  <2>4. ObjectOK(x)
    BY <2>2, DescriptorAssumption DEF ObjectOK
  <2>5. d = old.fd \/ socks[d] = "free"
    BY <1>5, <2>1
  <2> HIDE DEF x
  <2>6. Replaced(o, x, lost)
    BY <1>5, <2>1, <2>2, <2>3, <2>4, <2>5 DEF old, Replaced
  <2> QED
    BY <1>5, <2>1, <2>2, <2>3, <2>4, <2>5, <2>6, ReplaceKeeps
<1>13. ASSUME NEW d \in Fds, SocketOwned(r, cs, d), ~r.ok PROVE NInv'
  <2> DEFINE lost == {d}
  <2>1. /\ conns' = [conns EXCEPT ![o] = Gone] /\ socks' = [cs EXCEPT ![d] = "connected"]
        /\ left' = left \cup lost /\ lost \in SUBSET Fds /\ cs[d] = "free"
    BY <1>6, <1>8, <1>13, DescriptorAssumption DEF SocketOwned, Destroyed
  <2>2. socks' \in [Fds -> SocketStates]
    BY <1>5, <2>1 DEF SocketStates
  <2>3. d = old.fd \/ socks[d] = "free"
    BY <1>5, <2>1
  <2>4. Replaced(o, Gone, lost)
    BY <1>5, <2>1, <2>2, <2>3, GoneIs DEF old, Replaced
  <2> QED
    BY <1>5, <2>1, <2>2, <2>3, <2>4, GoneIs, ReplaceKeeps
<1> QED
  BY <1>7, <1>10, <1>11, <1>12, <1>13 DEF Outcome

LEMMA DroppedKeeps ==
  ASSUME NInv, NEW o \in Connects, Dropped(o)
  PROVE  NInv'
<1>1. conns[o] \in ConnectObjects /\ socks \in [Fds -> SocketStates]
  BY DEF NInv, ConnectTypes
<1>2. Gone \in ConnectObjects /\ ObjectOK(Gone) /\ Gone.fd = NoDescriptor
  BY GoneIs
<1> DEFINE lost == Destroyed(conns[o])
<1>3. lost \in SUBSET Fds /\ \A d \in Fds : d \in lost <=> d = conns[o].fd
  BY <1>1, DestroyedIs
<1>4. \A e \in lost : socks[e] # "free"
  BY <1>3, DescriptorAssumption DEF NInv, OwnDescriptors
<1>5. /\ conns' = [conns EXCEPT ![o] = Gone] /\ left' = left \cup lost /\ socks' = socks
  BY DEF Dropped
<1> HIDE DEF lost
<1>6. Replaced(o, Gone, lost)
  BY <1>1, <1>2, <1>3, <1>4, <1>5 DEF Replaced
<1> QED
  BY <1>1, <1>2, <1>3, <1>4, <1>5, <1>6, GoneIs, ReplaceKeeps

(* The objects of a pool are gone at once, and leave what they had behind. *)
LEMMA PoolDestroyedKeeps ==
  ASSUME NInv, PoolDestroyed
  PROVE  NInv'
<1>1. PICK idle \in SUBSET {c \in Connects : Is(c, "pool")} :
        /\ left' = left \cup UNION {Destroyed(conns[c]) : c \in idle}
        /\ conns' = [c \in Connects |-> IF c \in idle THEN Gone ELSE conns[c]]
        /\ socks' = socks
  BY DEF PoolDestroyed
<1> DEFINE lost == UNION {Destroyed(conns[c]) : c \in idle}
<1>2. \A c \in Connects : conns'[c] = IF c \in idle THEN Gone ELSE conns[c]
  BY <1>1
<1>3. conns \in [Connects -> ConnectObjects] /\ socks \in [Fds -> SocketStates] /\ left \in SUBSET Fds
  BY DEF NInv, ConnectTypes
<1>4. \A d : d \in lost <=> \E c \in idle : conns[c].fd = d /\ d # NoDescriptor
  BY DEF Destroyed
<1>5. lost \in SUBSET Fds
  BY <1>1, <1>3, <1>4 DEF ConnectObjects
<1>6. left' = left \cup lost
  BY <1>1
<1> HIDE DEF lost
<1>7. ConnectTypes'
  BY <1>1, <1>3, <1>5, <1>6, GoneIs DEF ConnectTypes
<1>8. OwnDescriptors'
  <2> SUFFICES ASSUME NEW c \in Connects, conns'[c].fd # NoDescriptor
               PROVE  /\ socks'[conns'[c].fd] = "connected" /\ conns'[c].fd \notin left'
                      /\ \A b \in Connects : conns'[b].fd = conns'[c].fd => b = c
    BY DEF OwnDescriptors
  <2>1. c \notin idle /\ conns'[c] = conns[c]
    BY <1>2, GoneIs
  <2>2. \A b \in Connects : conns[b].fd = conns[c].fd => b = c
    BY <2>1 DEF NInv, OwnDescriptors
  <2>3. \A b \in Connects : conns'[b].fd = conns'[c].fd => b = c
    BY <1>2, <2>1, <2>2, GoneIs
  <2>4. socks[conns[c].fd] = "connected" /\ conns[c].fd \notin left
    BY <2>1 DEF NInv, OwnDescriptors
  <2>5. conns[c].fd \notin lost
    BY <1>4, <2>1, <2>2
  <2> QED
    BY <1>1, <1>6, <2>1, <2>3, <2>4, <2>5
<1>9. LeftOpen'
  <2>1. \A d \in lost : socks[d] = "connected"
    BY <1>4 DEF NInv, OwnDescriptors
  <2> QED
    BY <1>1, <1>6, <2>1 DEF NInv, LeftOpen
<1>10. \A c \in Connects : ObjectOK(conns'[c])
  BY <1>2, GoneIs DEF NInv
<1> QED
  BY <1>7, <1>8, <1>9, <1>10 DEF NInv

LEMMA LinkToKeeps ==
  ASSUME NInv, NEW o \in Connects, LinkTo(o)
  PROVE  NInv'
<1> DEFINE gone == Destroyed(conns[o])
<1>1. conns[o] \in ConnectObjects /\ socks \in [Fds -> SocketStates]
  BY DEF NInv, ConnectTypes
<1>2. PICK r \in Connecting(NewConnect("link"), socks) :
        /\ conns' = [conns EXCEPT ![o] = r.c]
        /\ socks' = r.socks
        /\ left' = left \cup r.left \cup gone
  BY DEF LinkTo
<1>3. r.c \in ConnectObjects /\ r.c.use = "link" /\ Outcome(r, socks)
  BY <1>1, ConnectingIs
<1>4. gone \in SUBSET Fds /\ \A d \in Fds : d \in gone <=> d = conns[o].fd
  BY <1>1, DestroyedIs
<1>5. \A d \in gone : d \in Fds /\ socks[d] = "connected"
  BY <1>4, DescriptorAssumption DEF NInv, OwnDescriptors
<1> HIDE DEF gone
<1> DEFINE x == r.c
<1>6. CASE NoSocket(r, socks)
  <2>1. /\ conns' = [conns EXCEPT ![o] = x] /\ socks' = socks /\ left' = left \cup gone
        /\ x \in ConnectObjects /\ x.fd = NoDescriptor /\ ObjectOK(x)
    BY <1>2, <1>3, <1>6 DEF NoSocket, ObjectOK
  <2> HIDE DEF x
  <2>2. Replaced(o, x, gone)
    BY <1>1, <1>4, <1>5, <2>1 DEF Replaced
  <2> QED
    BY <1>1, <1>4, <1>5, <2>1, <2>2, ReplaceKeeps
<1>7. ASSUME NEW d \in Fds, SocketLeft(r, socks, d) PROVE NInv'
  <2> DEFINE lost == gone \cup {d}
  <2>1. /\ conns' = [conns EXCEPT ![o] = x] /\ socks' = [socks EXCEPT ![d] = "open"]
        /\ left' = left \cup lost
        /\ x \in ConnectObjects /\ x.fd = NoDescriptor /\ ObjectOK(x) /\ socks[d] = "free"
    BY <1>2, <1>3, <1>7 DEF SocketLeft, ObjectOK
  <2>2. /\ lost \in SUBSET Fds /\ socks' \in [Fds -> SocketStates]
        /\ \A e \in lost : socks'[e] # "free" /\ (e = conns[o].fd \/ socks[e] = "free")
        /\ \A e \in Fds : e = conns[o].fd => e \in lost
        /\ \A e \in Fds : e \notin lost => socks'[e] = socks[e]
    BY <1>1, <1>4, <1>5, <2>1 DEF SocketStates
  <2> HIDE DEF x, lost
  <2>3. Replaced(o, x, lost)
    BY <2>1, <2>2 DEF Replaced
  <2> QED
    BY <2>1, <2>2, <2>3, ReplaceKeeps
<1>8. ASSUME NEW d \in Fds, SocketOwned(r, socks, d) PROVE NInv'
  <2>1. /\ conns' = [conns EXCEPT ![o] = x] /\ socks' = [socks EXCEPT ![d] = "connected"]
        /\ left' = left \cup gone
        /\ x \in ConnectObjects /\ x.fd = d /\ socks[d] = "free"
    BY <1>2, <1>3, <1>8 DEF SocketOwned
  <2>2. ObjectOK(x)
    BY <1>3, <1>8, DescriptorAssumption DEF SocketOwned, ObjectOK
  <2>3. /\ socks' \in [Fds -> SocketStates] /\ socks'[d] = "connected" /\ d \notin gone
        /\ \A e \in gone : socks'[e] # "free"
        /\ \A e \in Fds : e # d => socks'[e] = socks[e]
    BY <1>1, <1>4, <1>5, <2>1 DEF SocketStates
  <2> HIDE DEF x
  <2>4. Replaced(o, x, gone)
    BY <1>4, <2>1, <2>2, <2>3 DEF Replaced
  <2> QED
    BY <1>4, <2>1, <2>2, <2>3, <2>4, ReplaceKeeps
<1> QED
  BY <1>3, <1>6, <1>7, <1>8 DEF Outcome

LEMMA LinkClosedKeeps ==
  ASSUME NInv, NEW o \in Connects, LinkClosed(o)
  PROVE  NInv'
<1>1. conns[o] \in ConnectObjects /\ conns[o].use = "link" /\ socks \in [Fds -> SocketStates]
  BY DEF NInv, ConnectTypes, LinkClosed, Is
<1>2. PICK bad \in BOOLEAN :
        LET r == CloseFd([conns[o] EXCEPT !.err = @ \/ bad], socks)
        IN  conns' = [conns EXCEPT ![o] = r.c] /\ socks' = r.socks
  BY DEF LinkClosed
<1> DEFINE c == [conns[o] EXCEPT !.err = @ \/ bad]
           x == [c EXCEPT !.fd = NoDescriptor, !.status = "CLOSE"]
           lost == {}
<1>3. c.fd = conns[o].fd /\ c \in ConnectObjects /\ c.use = "link"
  BY <1>1 DEF ConnectObjects
<1>4. /\ conns' = [conns EXCEPT ![o] = x]
      /\ socks' = [d \in Fds |-> IF d = c.fd THEN "free" ELSE socks[d]]
      /\ left' = left \cup lost /\ lost \in SUBSET Fds
  BY <1>2 DEF CloseFd, LinkClosed
<1> HIDE DEF c
<1>5. x \in ConnectObjects /\ x.fd = NoDescriptor /\ x.use = "link" /\ x.status = "CLOSE"
  BY <1>3 DEF ConnectObjects
<1>6. socks' \in [Fds -> SocketStates]
  BY <1>1, <1>4 DEF SocketStates
<1>7. ObjectOK(x)
  BY <1>5 DEF ObjectOK
<1> HIDE DEF x
<1>8. Replaced(o, x, lost)
  BY <1>3, <1>4, <1>5, <1>6, <1>7 DEF Replaced
<1> QED
  BY <1>3, <1>4, <1>5, <1>6, <1>7, <1>8, ReplaceKeeps

LEMMA NInvAlways == NSpec => []NInv
<1>1. NInv /\ [NNext]_nvars => NInv'
  <2> SUFFICES ASSUME NInv, [NNext]_nvars PROVE NInv'
    OBVIOUS
  <2>1. CASE UNCHANGED nvars
    BY <2>1 DEF nvars, NInv, ConnectTypes, OwnDescriptors, LeftOpen
  <2> QED
    BY <2>1, PoolCreateKeeps, RefetchKeeps, DroppedKeeps, PoolDestroyedKeeps,
       LinkToKeeps, LinkClosedKeeps DEF NNext
<1> QED
  BY <1>1, NInvInit, PTL DEF NSpec

-----------------------------------------------------------------------------
(* No descriptor ever has two objects, or an object that does not know it  *)
(* was closed: reconnect, swap and close keep the objects of a pool and    *)
(* the links of a replica apart.                                           *)
THEOREM DescriptorsOwned == NSpec => []OneOwner
<1>1. NInv => OneOwner
  BY NInvGives
<1> QED
  BY <1>1, NInvAlways, PTL

(* A connection that is not broken() has a connected socket, and none that *)
(* the pool keeps is broken before it is used.                             *)
THEOREM NotBrokenIsUsable == NSpec => []UsableIfNotBroken
<1>1. NInv => UsableIfNotBroken
  BY NInvGives
<1> QED
  BY <1>1, NInvAlways, PTL

-----------------------------------------------------------------------------
(* The pool.                                                               *)

(* A thread holds a connection exactly between fetching and releasing it.  *)
Using == {"check", "send", "recv", "release"}
HoldsWhileUsing == \A c \in Clients : pc[c] \in Using <=> Holds(c)

(* What is still to be read from a connection.                             *)
NothingOwed ==
  /\ \A k \in Range(pool) : owed[k] = <<>>
  /\ \A k \in Conns : k > used => owed[k] = <<>>
  /\ \A c \in Clients : pc[c] \in Using \ {"recv"} => owed[conn[c]] = <<>>

IInv == TypeOK /\ InOnePlace /\ HoldsWhileUsing /\ NothingOwed /\ OwnReply

-----------------------------------------------------------------------------
(* The pool as a set.                                                      *)
LEMMA PoolBounded ==
  ASSUME NEW s \in Seq(Conns), IsInjective(s)
  PROVE  Len(s) <= MaxConns
<1>1. s \in Injection(1..Len(s), Conns)
  BY DEF Injection, IsInjective
<1>2. /\ IsFiniteSet(Conns) /\ Cardinality(Conns) = MaxConns
      /\ Len(s) \in Nat /\ Cardinality(1..Len(s)) = Len(s)
  <2>1. MaxConns \in Nat /\ Len(s) \in Nat
    BY PoolAssumption
  <2>2. ASSUME NEW b \in Nat PROVE IsFiniteSet(1..b) /\ Cardinality(1..b) = b
    <3>1. 1 \in Int /\ b \in Int
      OBVIOUS
    <3>2. IsFiniteSet(1..b) /\ Cardinality(1..b) = IF 1 > b THEN 0 ELSE b - 1 + 1
      BY <3>1, FS_Interval
    <3> QED
      BY <3>2
  <2> QED
    BY <2>1, <2>2 DEF Conns
<1>3. Cardinality(1..Len(s)) <= Cardinality(Conns)
  BY <1>1, <1>2, FS_Injection
<1> QED
  BY <1>2, <1>3

LEMMA TakenFront ==
  ASSUME NEW s \in Seq(Conns), s # <<>>, IsInjective(s)
  PROVE  /\ Tail(s) \in Seq(Conns) /\ IsInjective(Tail(s))
         /\ Head(s) \in Range(s) /\ Head(s) \in Conns
         /\ Head(s) \notin Range(Tail(s))
         /\ Range(Tail(s)) \subseteq Range(s)
<1>1. /\ Len(s) \in Nat \ {0} /\ DOMAIN s = 1..Len(s)
      /\ Tail(s) \in Seq(Conns) /\ Len(Tail(s)) = Len(s) - 1
      /\ DOMAIN Tail(s) = 1..(Len(s) - 1)
      /\ \A i \in 1..(Len(s) - 1) : Tail(s)[i] = s[i + 1]
      /\ Head(s) = s[1] /\ s[1] \in Conns
  OBVIOUS
<1>2. IsInjective(Tail(s))
  BY <1>1 DEF IsInjective
<1>3. Head(s) \notin Range(Tail(s)) /\ Range(Tail(s)) \subseteq Range(s) /\ Head(s) \in Range(s)
  BY <1>1 DEF IsInjective, Range
<1> QED
  BY <1>1, <1>2, <1>3

LEMMA PutBack ==
  ASSUME NEW s \in Seq(Conns), NEW k \in Conns, IsInjective(s), k \notin Range(s)
  PROVE  /\ Append(s, k) \in Seq(Conns) /\ IsInjective(Append(s, k))
         /\ Range(Append(s, k)) = Range(s) \cup {k}
<1> DEFINE t == Append(s, k)
<1>1. /\ Len(s) \in Nat /\ DOMAIN s = 1..Len(s)
      /\ t \in Seq(Conns) /\ DOMAIN t = 1..(Len(s) + 1)
      /\ \A i \in 1..Len(s) : t[i] = s[i]
      /\ t[Len(s) + 1] = k
  OBVIOUS
<1> HIDE DEF t
<1>2. IsInjective(t)
  BY <1>1 DEF IsInjective, Range
<1>3. Range(t) = Range(s) \cup {k}
  BY <1>1 DEF Range
<1> QED
  BY <1>1, <1>2, <1>3 DEF t

-----------------------------------------------------------------------------
LEMMA InvInit == Init => IInv
<1> SUFFICES ASSUME Init PROVE IInv
  OBVIOUS
<1>1. pool \in Seq(Conns) /\ Len(pool) = 0 /\ DOMAIN pool = {} /\ Range(pool) = {}
  BY DEF Init, Range
<1>2. owed \in [Conns -> Seq(Clients)]
  BY DEF Init
<1>3. TypeOK
  <2>1. /\ pc \in [Clients -> Phases] /\ conn \in [Clients -> Conns \cup {None}]
        /\ calls \in [Clients -> 0..MaxCalls]
    BY CallsAssumption DEF Init, Phases
  <2>2. Len(pool) <= MaxConns /\ used \in 0..MaxConns
    BY <1>1, PoolAssumption DEF Init
  <2> QED
    BY <1>1, <1>2, <2>1, <2>2 DEF Init, TypeOK
<1>4. InOnePlace
  BY <1>1 DEF Init, InOnePlace, IsInjective, Holds, None
<1>5. HoldsWhileUsing /\ NothingOwed /\ OwnReply
  BY <1>1 DEF Init, HoldsWhileUsing, NothingOwed, OwnReply, Using, Holds
<1> QED
  BY <1>3, <1>4, <1>5 DEF IInv

(* A thread that takes the oldest idle connection.                         *)
LEMMA TakeKeeps ==
  ASSUME IInv, NEW c \in Clients, pc[c] \notin Using, Take(c),
         UNCHANGED <<timed, used, err, owed, calls, failed>>, notified' \subseteq notified
  PROVE  IInv'
<1>1. TypeOK /\ InOnePlace
  BY DEF IInv
<1> DEFINE k == Head(pool)
<1>2. /\ pool' \in Seq(Conns) /\ IsInjective(pool')
      /\ k \in Range(pool) /\ k \in Conns /\ k \notin Range(pool')
      /\ Range(pool') \subseteq Range(pool)
  BY <1>1, TakenFront DEF Take, TakeFront, TypeOK, InOnePlace
<1>3. /\ \A d \in Clients : conn'[d] = IF d = c THEN k ELSE conn[d]
      /\ \A d \in Clients : pc'[d] = IF d = c THEN "check" ELSE pc[d]
      /\ conn' \in [Clients -> Conns \cup {None}]
      /\ pc' \in [Clients -> Phases]
  BY <1>1, <1>2 DEF Take, TypeOK, Phases
<1> HIDE DEF k
<1>4. TypeOK'
  BY <1>1, <1>2, <1>3, PoolBounded DEF TypeOK
<1>5. InOnePlace'
  <2>1. \A d \in Clients : Holds(d) => conn[d] # k
    BY <1>1, <1>2 DEF InOnePlace
  <2>2. \A d \in Clients : conn'[d] # None => conn'[d] \notin Range(pool')
    BY <1>1, <1>2, <1>3 DEF InOnePlace, Holds
  <2>3. \A a, d \in Clients : a # d /\ conn'[a] # None => conn'[a] # conn'[d]
    BY <1>1, <1>2, <1>3, <2>1 DEF InOnePlace, Holds, None, Conns
  <2>4. Range(pool') \cup {conn'[d] : d \in Clients} \subseteq 0..used
    BY <1>1, <1>2, <1>3 DEF InOnePlace
  <2> QED
    BY <1>2, <2>2, <2>3, <2>4 DEF InOnePlace, Holds
<1>6. HoldsWhileUsing'
  BY <1>2, <1>3 DEF IInv, HoldsWhileUsing, Holds, Using, None, Conns
<1>7. NothingOwed'
  BY <1>2, <1>3 DEF IInv, NothingOwed, Using
<1>8. OwnReply'
  BY <1>3 DEF IInv, OwnReply
<1> QED
  BY <1>4, <1>5, <1>6, <1>7, <1>8 DEF IInv

(* A thread that moves on and holds what it held.                          *)
LEMMA MoveKeeps ==
  ASSUME IInv, NEW c \in Clients, NEW p \in Phases,
         p # "recv", p \in Using <=> pc[c] \in Using, pc[c] # "recv",
         pc' = [pc EXCEPT ![c] = p],
         UNCHANGED <<timed, pool, used, owed, conn>>,
         failed' \in BOOLEAN, err' \subseteq Conns,
         calls' \in [Clients -> 0..MaxCalls], notified' \subseteq Clients
  PROVE  IInv'
<1>1. \A d \in Clients : pc'[d] = IF d = c THEN p ELSE pc[d]
  BY DEF IInv, TypeOK
<1>2. TypeOK'
  BY DEF IInv, TypeOK
<1>3. InOnePlace'
  BY DEF IInv, InOnePlace, Holds
<1>4. HoldsWhileUsing'
  BY <1>1 DEF IInv, HoldsWhileUsing, Holds
<1>5. NothingOwed'
  BY <1>1 DEF IInv, NothingOwed
<1>6. OwnReply'
  BY <1>1 DEF IInv, OwnReply
<1> QED
  BY <1>2, <1>3, <1>4, <1>5, <1>6 DEF IInv

(* A thread that lets go of a connection that failed: nothing is said of   *)
(* such a connection any more.                                             *)
LEMMA DropKeeps ==
  ASSUME IInv, NEW c \in Clients, pc[c] \in Using, Drop(c),
         UNCHANGED <<timed, used, owed, notified, calls, failed>>
  PROVE  IInv'
<1>1. /\ \A d \in Clients : conn'[d] = IF d = c THEN None ELSE conn[d]
      /\ \A d \in Clients : pc'[d] = IF d = c THEN "idle" ELSE pc[d]
      /\ conn' \in [Clients -> Conns \cup {None}]
      /\ pc' \in [Clients -> Phases]
      /\ pool' = pool
  BY DEF IInv, TypeOK, Drop, Throw, Phases
<1>2. conn[c] \in Conns
  BY DEF IInv, TypeOK, HoldsWhileUsing, Holds
<1>3. TypeOK'
  BY <1>1, <1>2 DEF IInv, TypeOK, Drop
<1>4. InOnePlace'
  <2>1. \A d \in Clients : conn'[d] # None => conn'[d] = conn[d]
    BY <1>1
  <2>2. {conn'[d] : d \in Clients} \subseteq 0..used
    BY <1>1, PoolAssumption DEF IInv, InOnePlace, TypeOK, None
  <2> QED
    BY <1>1, <2>1, <2>2 DEF IInv, InOnePlace, Holds
<1>5. HoldsWhileUsing'
  BY <1>1 DEF IInv, HoldsWhileUsing, Holds, Using
<1>6. NothingOwed'
  BY <1>1 DEF IInv, NothingOwed, Using
<1>7. OwnReply'
  BY <1>1 DEF IInv, OwnReply
<1> QED
  BY <1>3, <1>4, <1>5, <1>6, <1>7 DEF IInv

(* A thread that sends, receives or reconnects on the connection it holds: *)
(* nobody else has it, so that only its own replies are concerned.         *)
LEMMA TransferKeeps ==
  ASSUME IInv, NEW c \in Clients, NEW p \in Using, NEW v \in Seq(Clients), pc[c] \in Using,
         v = IF p = "recv" THEN <<c>> ELSE <<>>,
         owed' = [owed EXCEPT ![conn[c]] = v],
         pc' = [pc EXCEPT ![c] = p],
         err' \subseteq Conns,
         UNCHANGED <<timed, pool, used, conn, notified, calls, failed>>
  PROVE  IInv'
<1>1. TypeOK /\ InOnePlace /\ Holds(c) /\ conn[c] \in Conns
  BY DEF IInv, TypeOK, HoldsWhileUsing, Holds
<1>2. /\ \A d \in Clients : pc'[d] = IF d = c THEN p ELSE pc[d]
      /\ \A k \in Conns : owed'[k] = IF k = conn[c] THEN v ELSE owed[k]
      /\ owed' \in [Conns -> Seq(Clients)]
      /\ pc' \in [Clients -> Phases]
  BY <1>1 DEF TypeOK, Using, Phases
<1>3. TypeOK'
  BY <1>1, <1>2 DEF TypeOK
<1>4. InOnePlace'
  BY <1>1 DEF InOnePlace, Holds
<1>5. HoldsWhileUsing'
  BY <1>2 DEF IInv, HoldsWhileUsing, Holds
<1>6. /\ conn[c] \notin Range(pool) /\ Range(pool) \subseteq Conns
      /\ conn[c] \in 0..used /\ used \in Nat
      /\ \A d \in Clients : d # c => conn[d] # conn[c]
  <2>1. Range(pool) \subseteq Conns
    BY <1>1 DEF TypeOK, Range
  <2>2. used \in Nat
    BY <1>1, PoolAssumption DEF TypeOK
  <2> QED
    BY <1>1, <2>1, <2>2 DEF InOnePlace, Holds
<1>7. \A d \in Clients : pc[d] \in Using => conn[d] \in Conns
  BY DEF IInv, TypeOK, HoldsWhileUsing, Holds
<1>8. NothingOwed'
  <2>1. \A k \in Range(pool) : owed'[k] = <<>>
    BY <1>2, <1>6 DEF IInv, NothingOwed
  <2>2. \A k \in Conns : k > used => owed'[k] = <<>>
    <3>1. ASSUME NEW k \in Conns, k > used PROVE k # conn[c]
      BY <1>6, <3>1 DEF Conns
    <3> QED
      BY <1>2, <3>1 DEF IInv, NothingOwed
  <2>3. \A d \in Clients : pc'[d] \in Using \ {"recv"} => owed'[conn[d]] = <<>>
    BY <1>1, <1>2, <1>6, <1>7 DEF IInv, NothingOwed
  <2> QED
    BY <2>1, <2>2, <2>3 DEF NothingOwed
<1>9. OwnReply'
  <2>1. \A d \in Clients : pc'[d] = "recv" => owed'[conn[d]] = <<d>>
    BY <1>1, <1>2, <1>6, <1>7 DEF IInv, OwnReply, Using
  <2> QED
    BY <2>1 DEF OwnReply
<1> QED
  BY <1>3, <1>4, <1>5, <1>8, <1>9 DEF IInv

LEMMA CreateKeeps ==
  ASSUME IInv, NEW c \in Clients, Create(c)
  PROVE  IInv'
<1>1. TypeOK /\ InOnePlace /\ used \in Nat /\ pc[c] = "fetch"
  BY PoolAssumption DEF IInv, TypeOK, Create
<1>2. CASE /\ used' = used + 1
           /\ conn' = [conn EXCEPT ![c] = used + 1]
           /\ pc' = [pc EXCEPT ![c] = "send"]
  <2>1. UNCHANGED <<timed, pool, err, owed, notified, calls, failed>>
    BY DEF Create
  <2>2. used + 1 \in Conns /\ used' \in 0..MaxConns
    BY <1>1, <1>2, PoolAssumption DEF Create, AtLimit, TypeOK, Conns
  <2>3. /\ \A d \in Clients : conn'[d] = IF d = c THEN used + 1 ELSE conn[d]
        /\ \A d \in Clients : pc'[d] = IF d = c THEN "send" ELSE pc[d]
        /\ conn' \in [Clients -> Conns \cup {None}]
        /\ pc' \in [Clients -> Phases]
    BY <1>1, <1>2, <2>2 DEF TypeOK, Phases
  <2>4. /\ Range(pool) \subseteq 0..used
        /\ \A d \in Clients : conn[d] \in 0..used
    BY <1>1 DEF InOnePlace
  <2>5. TypeOK'
    BY <1>1, <2>1, <2>2, <2>3 DEF TypeOK
  <2>6. used + 1 \notin 0..used /\ 0..used \subseteq 0..(used + 1) /\ used + 1 \in 0..(used + 1)
    BY <1>1
  <2>7. InOnePlace'
    <3>1. \A d \in Clients : conn'[d] # None => conn'[d] \notin Range(pool)
      BY <1>1, <2>3, <2>4, <2>6 DEF InOnePlace, Holds
    <3>2. \A a, d \in Clients : a # d /\ conn'[a] # None => conn'[a] # conn'[d]
      BY <1>1, <2>3, <2>4, <2>6 DEF InOnePlace, Holds
    <3>3. Range(pool) \cup {conn'[d] : d \in Clients} \subseteq 0..(used + 1)
      BY <2>3, <2>4, <2>6
    <3> QED
      BY <1>1, <1>2, <2>1, <3>1, <3>2, <3>3 DEF InOnePlace, Holds
  <2>8. HoldsWhileUsing'
    BY <2>2, <2>3 DEF IInv, HoldsWhileUsing, Holds, Using, None, Conns
  <2>9. NothingOwed'
    <3>1. owed[used + 1] = <<>>
      BY <1>1, <2>2 DEF IInv, NothingOwed
    <3>2. \A k \in Conns : k > used + 1 => owed[k] = <<>>
      BY <1>1 DEF IInv, NothingOwed, Conns
    <3> QED
      BY <1>2, <2>1, <2>3, <3>1, <3>2 DEF IInv, NothingOwed
  <2>10. OwnReply'
    BY <2>1, <2>3 DEF IInv, OwnReply
  <2> QED
    BY <2>5, <2>7, <2>8, <2>9, <2>10 DEF IInv
<1>3. CASE Throw(c) /\ UNCHANGED <<used, conn>>
  <2>1. /\ pc' = [pc EXCEPT ![c] = "idle"] /\ "idle" \in Phases
        /\ "idle" \notin Using /\ pc[c] \notin Using
        /\ UNCHANGED <<timed, pool, used, owed, conn, err, calls, failed, notified>>
    BY <1>1, <1>3 DEF Create, Throw, Phases, Using
  <2> QED
    BY <1>1, <2>1, MoveKeeps DEF TypeOK
<1> QED
  BY <1>2, <1>3 DEF Create

LEMMA ReleaseKeeps ==
  ASSUME IInv, NEW c \in Clients, Release(c)
  PROVE  IInv'
<1>1. TypeOK /\ InOnePlace /\ pc[c] = "release"
  BY DEF IInv, Release
<1> DEFINE k == conn[c]
<1>2. k \in Conns /\ Holds(c) /\ k \notin Range(pool) /\ owed[k] = <<>>
  BY <1>1 DEF IInv, TypeOK, HoldsWhileUsing, Holds, Using, InOnePlace, NothingOwed
<1>3. pool' \in Seq(Conns) /\ IsInjective(pool') /\ Range(pool') = Range(pool) \cup {k}
  BY <1>1, <1>2, PutBack DEF Release, TypeOK, InOnePlace
<1>4. /\ \A d \in Clients : conn'[d] = IF d = c THEN None ELSE conn[d]
      /\ \A d \in Clients : pc'[d] = IF d = c THEN "notify" ELSE pc[d]
      /\ conn' \in [Clients -> Conns \cup {None}]
      /\ pc' \in [Clients -> Phases]
      /\ UNCHANGED <<timed, used, err, owed, notified, calls, failed>>
  BY <1>1 DEF Release, TypeOK, Phases
<1>5. TypeOK'
  BY <1>1, <1>3, <1>4, PoolBounded DEF TypeOK
<1>6. InOnePlace'
  <2>1. \A d \in Clients : d # c => conn[d] # k
    BY <1>1, <1>2 DEF InOnePlace
  <2>2. \A d \in Clients : conn'[d] # None => conn'[d] \notin Range(pool')
    BY <1>1, <1>3, <1>4, <2>1 DEF InOnePlace, Holds
  <2>3. \A a, d \in Clients : a # d /\ conn'[a] # None => conn'[a] # conn'[d]
    BY <1>1, <1>4 DEF InOnePlace, Holds
  <2>4. Range(pool') \cup {conn'[d] : d \in Clients} \subseteq 0..used
    <3>1. None \in 0..used
      BY <1>1, PoolAssumption DEF TypeOK, None
    <3> QED
      BY <1>1, <1>3, <1>4, <3>1 DEF InOnePlace
  <2> QED
    BY <1>3, <1>4, <2>2, <2>3, <2>4 DEF InOnePlace, Holds
<1>7. HoldsWhileUsing'
  BY <1>4 DEF IInv, HoldsWhileUsing, Holds, Using
<1>8. NothingOwed'
  BY <1>2, <1>3, <1>4 DEF IInv, NothingOwed, Using
<1>9. OwnReply'
  BY <1>4 DEF IInv, OwnReply
<1> QED
  BY <1>5, <1>6, <1>7, <1>8, <1>9 DEF IInv

LEMMA InvStep ==
  ASSUME IInv, [Next]_vars
  PROVE  IInv'
<1>1. TypeOK
  BY DEF IInv
<1>2. ASSUME NEW c \in Clients, Call(c) PROVE IInv'
  <2>1. /\ calls' \in [Clients -> 0..MaxCalls]
        /\ pc' = [pc EXCEPT ![c] = "fetch"] /\ pc[c] = "idle"
        /\ UNCHANGED <<timed, pool, used, err, owed, conn, notified, failed>>
    BY <1>1, <1>2, CallsAssumption DEF Call, TypeOK
  <2>2. "fetch" \in Phases /\ "fetch" \notin Using /\ "idle" \notin Using
    BY DEF Phases, Using
  <2> QED
    BY <1>1, <2>1, <2>2, MoveKeeps DEF TypeOK
<1>3. ASSUME NEW c \in Clients, FetchIdle(c) PROVE IInv'
  BY <1>3, TakeKeeps DEF FetchIdle, Using
<1>4. ASSUME NEW c \in Clients, Create(c) PROVE IInv'
  BY <1>4, CreateKeeps
<1>5. ASSUME NEW c \in Clients, WaitForConnect(c) PROVE IInv'
  <2>1. /\ pc' = [pc EXCEPT ![c] = "wait"] /\ pc[c] = "fetch"
        /\ UNCHANGED <<timed, pool, used, err, owed, conn, notified, calls, failed>>
    BY <1>5 DEF WaitForConnect
  <2>2. "wait" \in Phases /\ "wait" \notin Using /\ "fetch" \notin Using
    BY DEF Phases, Using
  <2> QED
    BY <1>1, <2>1, <2>2, MoveKeeps DEF TypeOK
<1>6. ASSUME NEW c \in Clients, Waiting(c), pc' = [pc EXCEPT ![c] = "idle"],
             UNCHANGED <<timed, pool, used, err, owed, conn, calls>>,
             failed' \in BOOLEAN, notified' \subseteq Clients
      PROVE  IInv'
  <2>1. "idle" \in Phases /\ "idle" \notin Using /\ "wait" \notin Using
    BY DEF Phases, Using
  <2> QED
    BY <1>1, <1>6, <2>1, MoveKeeps DEF TypeOK, Waiting
<1>7. ASSUME NEW c \in Clients, Waiting(c), pc' = pc,
             UNCHANGED <<timed, pool, used, err, owed, conn, calls>>,
             failed' \in BOOLEAN, notified' \subseteq Clients
      PROVE  IInv'
  BY <1>7 DEF IInv, TypeOK, InOnePlace, Holds, HoldsWhileUsing, NothingOwed, OwnReply
<1>8. ASSUME NEW c \in Clients, Waiting(c), Resume(c) PROVE IInv'
  <2>1. /\ notified' \subseteq notified /\ notified' \subseteq Clients
        /\ UNCHANGED <<timed, used, err, owed, calls, failed>>
        /\ failed' \in BOOLEAN
    BY <1>1, <1>8 DEF Resume, TypeOK
  <2>2. CASE UNCHANGED <<pool, conn, pc>>
    BY <1>7, <1>8, <2>1, <2>2
  <2>3. CASE Throw(c) /\ UNCHANGED <<pool, conn>>
    BY <1>6, <1>8, <2>1, <2>3 DEF Throw
  <2>4. CASE Take(c)
    BY <1>8, <2>1, <2>4, TakeKeeps DEF Waiting, Using
  <2> QED
    BY <1>8, <2>2, <2>3, <2>4 DEF Resume
<1>9. ASSUME NEW c \in Clients, TimeOut(c) PROVE IInv'
  <2>1. /\ notified' \subseteq Clients /\ failed' \in BOOLEAN /\ Waiting(c)
        /\ UNCHANGED <<timed, pool, used, err, owed, conn, calls>>
        /\ pc' = [pc EXCEPT ![c] = "idle"] \/ pc' = pc
    BY <1>1, <1>9 DEF TimeOut, Throw, TypeOK
  <2> QED
    BY <1>6, <1>7, <2>1
<1>10. ASSUME NEW c \in Clients, Check(c) PROVE IInv'
  <2>1. /\ UNCHANGED <<timed, used, notified, calls, failed>> /\ pc[c] = "check"
        /\ <<>> \in Seq(Clients)
    BY <1>10 DEF Check
  <2>2. CASE /\ pc' = [pc EXCEPT ![c] = "send"]
             /\ UNCHANGED <<pool, err, owed, conn>>
    <3>1. "send" \in Phases /\ "send" \in Using /\ "check" \in Using
      BY DEF Phases, Using
    <3> QED
      BY <1>1, <2>1, <2>2, <3>1, MoveKeeps DEF TypeOK
  <2>3. CASE /\ owed' = [owed EXCEPT ![conn[c]] = <<>>]
             /\ err' = err \ {conn[c]}
             /\ pc' = [pc EXCEPT ![c] = "send"]
             /\ UNCHANGED <<pool, conn>>
    <3>1. "send" \in Using /\ "check" \in Using /\ err' \subseteq Conns
      BY <1>1, <2>3 DEF Using, TypeOK
    <3> QED
      BY <2>1, <2>3, <3>1, TransferKeeps
  <2>4. CASE Drop(c) /\ UNCHANGED owed
    BY <2>1, <2>4, DropKeeps DEF Using
  <2> QED
    BY <1>10, <2>2, <2>3, <2>4 DEF Check
<1>11. ASSUME NEW c \in Clients, Send(c) PROVE IInv'
  <2>1. UNCHANGED <<timed, used, notified, calls, failed>> /\ pc[c] = "send"
    BY <1>11 DEF Send
  <2>2. CASE /\ owed' = [owed EXCEPT ![conn[c]] = Append(@, c)]
             /\ pc' = [pc EXCEPT ![c] = "recv"]
             /\ UNCHANGED <<pool, err, conn>>
    <3>1. owed[conn[c]] = <<>> /\ Append(<<>>, c) = <<c>> /\ <<c>> \in Seq(Clients)
      BY <2>1 DEF IInv, NothingOwed, Using
    <3>2. owed' = [owed EXCEPT ![conn[c]] = <<c>>]
      BY <2>2, <3>1
    <3>3. "recv" \in Using /\ "send" \in Using /\ err' \subseteq Conns
      BY <1>1, <2>2 DEF Using, TypeOK
    <3> QED
      BY <2>1, <2>2, <3>1, <3>2, <3>3, TransferKeeps
  <2>3. CASE Drop(c) /\ UNCHANGED owed
    BY <2>1, <2>3, DropKeeps DEF Using
  <2> QED
    BY <1>11, <2>2, <2>3 DEF Send
<1>12. ASSUME NEW c \in Clients, Recv(c) PROVE IInv'
  <2>1. UNCHANGED <<timed, used, notified, calls, failed>> /\ pc[c] = "recv"
    BY <1>12 DEF Recv
  <2>2. CASE /\ owed' = [owed EXCEPT ![conn[c]] = Tail(@)]
             /\ pc' = [pc EXCEPT ![c] = "release"]
             /\ UNCHANGED <<pool, err, conn>>
    <3>1. owed[conn[c]] = <<c>> /\ Tail(<<c>>) = <<>> /\ <<>> \in Seq(Clients)
      BY <2>1 DEF IInv, OwnReply
    <3>2. owed' = [owed EXCEPT ![conn[c]] = <<>>]
      BY <2>2, <3>1
    <3>3. "recv" \in Using /\ "release" \in Using /\ err' \subseteq Conns
      BY <1>1, <2>2 DEF Using, TypeOK
    <3> QED
      BY <2>1, <2>2, <3>1, <3>2, <3>3, TransferKeeps
  <2>3. CASE Drop(c) /\ UNCHANGED owed
    BY <2>1, <2>3, DropKeeps DEF Using
  <2> QED
    BY <1>12, <2>2, <2>3 DEF Recv
<1>13. ASSUME NEW c \in Clients, Notify(c) PROVE IInv'
  <2>1. notified' \subseteq Clients
    BY <1>1, <1>13 DEF Notify, NotifyOne, TypeOK
  <2>2. /\ pc' = [pc EXCEPT ![c] = "idle"] /\ pc[c] = "notify"
        /\ UNCHANGED <<timed, pool, used, err, owed, conn, calls, failed>>
    BY <1>13 DEF Notify
  <2>3. "idle" \in Phases /\ "idle" \notin Using /\ "notify" \notin Using
    BY DEF Phases, Using
  <2> QED
    BY <1>1, <2>1, <2>2, <2>3, MoveKeeps DEF TypeOK
<1>14. CASE UNCHANGED vars
  BY <1>14 DEF vars, IInv, TypeOK, InOnePlace, Holds, HoldsWhileUsing, NothingOwed, OwnReply
<1> QED
  BY <1>2, <1>3, <1>4, <1>5, <1>8, <1>9, <1>10, <1>11, <1>12, <1>13, <1>14, ReleaseKeeps
     DEF Next, Running, Woken, Spurious

LEMMA InvAlways == Spec => []IInv
<1>1. IInv /\ [Next]_vars => IInv'
  BY InvStep
<1> QED
  BY <1>1, InvInit, PTL DEF Spec

-----------------------------------------------------------------------------
(* Every variable keeps its type, and the pool never holds more than       *)
(* max_conns connections.                                                  *)
THEOREM TypeCorrect == Spec => []TypeOK
<1>1. IInv => TypeOK
  BY DEF IInv
<1> QED
  BY <1>1, InvAlways, PTL

(* No connection is ever in two hands, whatever fetch, release, time-outs  *)
(* and failures of any number of threads do to the pool.                   *)
THEOREM NeverShared == Spec => []InOnePlace
<1>1. IInv => InOnePlace
  BY DEF IInv
<1> QED
  BY <1>1, InvAlways, PTL

(* A thread that reads a reply in Kunai::execute reads that of its own     *)
(* request, also on a connection that served others before.                *)
THEOREM ReadsOwnReply == Spec => []OwnReply
<1>1. IInv => OwnReply
  BY DEF IInv
<1> QED
  BY <1>1, InvAlways, PTL

-----------------------------------------------------------------------------
(* Wake-ups.                                                               *)
WInv ==
  /\ \A c \in notified : Waiting(c)
  /\ NoWakeupLost

Wakeups == Cardinality(notified) + Cardinality(Notifying)

LEMMA WakeupsType ==
  ASSUME TypeOK
  PROVE  /\ IsFiniteSet(notified) /\ IsFiniteSet(Notifying)
         /\ Cardinality(notified) \in Nat /\ Cardinality(Notifying) \in Nat
         /\ Len(pool) \in Nat
<1>1. notified \subseteq Clients /\ Notifying \subseteq Clients
  BY DEF TypeOK, Notifying
<1>2. IsFiniteSet(notified) /\ IsFiniteSet(Notifying)
  BY <1>1, ClientsAssumption, FS_Subset
<1> QED
  BY <1>2, FS_CardinalityType DEF TypeOK

(* A thread that takes the oldest idle connection, having been woken or not.*)
LEMMA TakeKeepsWakeups ==
  ASSUME TypeOK, WInv, NEW c \in Clients, Take(c), pc[c] # "notify",
         timed' = timed, notified' = notified \ {c}, c \in notified => Waiting(c)
  PROVE  WInv'
<1>1. /\ Len(pool') = Len(pool) - 1 /\ Len(pool) \in Nat
      /\ \A d \in Clients : pc'[d] = IF d = c THEN "check" ELSE pc[d]
  BY DEF TypeOK, Take, TakeFront
<1>2. Notifying' = Notifying
  BY <1>1 DEF Notifying
<1>3. Cardinality(notified') >= Cardinality(notified) - 1 /\ Cardinality(notified') \in Nat
  <2>1. CASE c \in notified
    <3>1. Cardinality(notified \ {c}) = Cardinality(notified) - 1
      BY <2>1, WakeupsType, FS_RemoveElement
    <3>2. Cardinality(notified \ {c}) \in Nat
      BY WakeupsType, FS_Subset, FS_CardinalityType
    <3>3. Cardinality(notified') = Cardinality(notified \ {c})
      OBVIOUS
    <3> QED
      BY <3>1, <3>2, <3>3, WakeupsType
  <2>2. CASE c \notin notified
    <3>1. notified \ {c} = notified
      BY <2>2
    <3>2. Cardinality(notified') = Cardinality(notified)
      BY <3>1
    <3> QED
      BY <3>2, WakeupsType
  <2> QED
    BY <2>1, <2>2
<1>4. \A d \in Clients : Asleep(d)' => Asleep(d)
  BY <1>1 DEF Asleep, Waiting
<1>5. NoWakeupLost'
  BY <1>1, <1>2, <1>3, <1>4, WakeupsType DEF WInv, NoWakeupLost
<1>6. \A d \in notified' : Waiting(d)'
  BY <1>1 DEF WInv, Waiting, TypeOK
<1> QED
  BY <1>5, <1>6 DEF WInv

(* A step that leaves the pool and the wake-ups alone.                     *)
LEMMA MoveKeepsWakeups ==
  ASSUME TypeOK, WInv, NEW c \in Clients, NEW p \in {"idle", "fetch", "check", "send", "recv", "release"},
         pc[c] \notin {"wait", "notify"}, pc' = [pc EXCEPT ![c] = p],
         UNCHANGED <<timed, pool, notified>>
  PROVE  WInv'
<1>1. \A d \in Clients : pc'[d] = IF d = c THEN p ELSE pc[d]
  BY DEF TypeOK
<1>2. Notifying' = Notifying
  BY <1>1 DEF Notifying
<1>3. \A d \in Clients : Waiting(d)' <=> Waiting(d)
  BY <1>1 DEF Waiting
<1>4. \A d \in Clients : Asleep(d)' <=> Asleep(d)
  BY <1>3 DEF Asleep
<1>5. \A d \in notified' : Waiting(d)'
  BY <1>3 DEF WInv, TypeOK
<1> QED
  BY <1>2, <1>4, <1>5 DEF WInv, NoWakeupLost

LEMMA ReleaseKeepsWakeups ==
  ASSUME TypeOK, WInv, NEW c \in Clients, Release(c)
  PROVE  WInv'
<1>1. /\ Len(pool') = Len(pool) + 1
      /\ \A d \in Clients : pc'[d] = IF d = c THEN "notify" ELSE pc[d]
  <2>1. ASSUME NEW x PROVE Len(Append(pool, x)) = Len(pool) + 1
    BY DEF TypeOK
  <2> QED
    BY <2>1 DEF TypeOK, Release
<1>2. pc[c] = "release" /\ UNCHANGED <<timed, notified>>
  BY DEF Release
<1>3. Notifying' = Notifying \cup {c} /\ c \notin Notifying
  BY <1>1, <1>2 DEF Notifying
<1>4. Cardinality(Notifying') = Cardinality(Notifying) + 1
  BY <1>3, WakeupsType, FS_AddElement
<1>5. \A d \in Clients : Waiting(d)' <=> Waiting(d)
  BY <1>1, <1>2 DEF Waiting
<1>6. \A d \in Clients : Asleep(d)' <=> Asleep(d)
  BY <1>2, <1>5 DEF Asleep
<1>7. \A d \in notified' : Waiting(d)'
  BY <1>2, <1>5 DEF WInv, TypeOK
<1>8. NoWakeupLost'
  BY <1>1, <1>2, <1>4, <1>6, WakeupsType DEF WInv, NoWakeupLost
<1> QED
  BY <1>7, <1>8 DEF WInv

LEMMA NotifyKeepsWakeups ==
  ASSUME TypeOK, WInv, NEW c \in Clients, Notify(c)
  PROVE  WInv'
<1>1. /\ \A d \in Clients : pc'[d] = IF d = c THEN "idle" ELSE pc[d]
      /\ pc[c] = "notify" /\ UNCHANGED <<timed, pool>>
  BY DEF Notify, TypeOK
<1>2. \A d \in Clients : Waiting(d)' <=> Waiting(d)
  BY <1>1 DEF Waiting
<1>3. Notifying' = Notifying \ {c} /\ c \in Notifying
  BY <1>1 DEF Notifying
<1>4. Cardinality(Notifying') = Cardinality(Notifying) - 1
  BY <1>3, WakeupsType, FS_RemoveElement
<1> DEFINE asleep == {d \in Clients : Waiting(d)} \ notified
<1>5. CASE asleep = {} /\ UNCHANGED notified
  <2>1. \A d \in Clients : ~Asleep(d)'
    BY <1>2, <1>5 DEF Asleep
  <2>2. \A d \in notified' : Waiting(d)'
    BY <1>2, <1>5 DEF WInv, TypeOK
  <2> QED
    BY <2>1, <2>2 DEF WInv, NoWakeupLost
<1>6. CASE \E d \in asleep : notified' = notified \cup {d}
  <2>1. PICK d \in asleep : notified' = notified \cup {d}
    BY <1>6
  <2>2. Cardinality(notified') = Cardinality(notified) + 1
    BY <2>1, WakeupsType, FS_AddElement
  <2>3. \E e \in Clients : Asleep(e)
    BY <2>1 DEF Asleep
  <2>4. \A e \in notified' : Waiting(e)'
    BY <1>2, <2>1 DEF WInv, TypeOK
  <2>5. NoWakeupLost'
    BY <1>1, <1>4, <2>2, <2>3, WakeupsType DEF WInv, NoWakeupLost
  <2> QED
    BY <2>4, <2>5 DEF WInv
<1> QED
  BY <1>5, <1>6 DEF Notify, NotifyOne

(* With a time-out the property says nothing, and an empty pool is no      *)
(* connection that lies idle.                                              *)
LEMMA NothingIdleKeepsWakeups ==
  ASSUME TypeOK, WInv, TypeOK', timed \/ Len(pool') = 0, timed' = timed,
         \A d \in notified' : Waiting(d)'
  PROVE  WInv'
<1>1. Cardinality(notified)' \in Nat /\ Cardinality(Notifying)' \in Nat
  <2>1. notified' \subseteq Clients /\ Notifying' \subseteq Clients
    BY DEF TypeOK, Notifying
  <2> QED
    BY <2>1, ClientsAssumption, FS_Subset, FS_CardinalityType
<1> QED
  BY <1>1 DEF WInv, NoWakeupLost

LEMMA WInvStep ==
  ASSUME TypeOK, TypeOK', WInv, [Next]_vars
  PROVE  WInv'
<1>1. ASSUME NEW c \in Clients, Call(c) PROVE WInv'
  BY <1>1, MoveKeepsWakeups DEF Call
<1>2. ASSUME NEW c \in Clients, FetchIdle(c) PROVE WInv'
  <2>1. c \notin notified /\ notified' = notified \ {c} /\ pc[c] # "notify" /\ timed' = timed /\ Take(c)
    BY <1>2 DEF FetchIdle, WInv, Waiting
  <2> QED
    BY <2>1, TakeKeepsWakeups
<1>3. ASSUME NEW c \in Clients, Create(c) PROVE WInv'
  BY <1>3, MoveKeepsWakeups DEF Create, Throw
<1>4. ASSUME NEW c \in Clients, WaitForConnect(c) PROVE WInv'
  <2>1. /\ Len(pool') = 0 /\ UNCHANGED <<timed, notified>>
        /\ \A d \in Clients : pc'[d] = IF d = c THEN "wait" ELSE pc[d]
    BY <1>4 DEF WaitForConnect, TypeOK
  <2>2. \A d \in notified' : Waiting(d)'
    BY <2>1 DEF WInv, Waiting, TypeOK
  <2> QED
    BY <2>1, <2>2, NothingIdleKeepsWakeups
<1>5. ASSUME NEW c \in Clients, Waiting(c), Resume(c) PROVE WInv'
  <2>1. notified' = notified \ {c} /\ timed' = timed /\ pc[c] # "notify"
    BY <1>5 DEF Resume, Waiting
  <2>2. CASE pool = <<>> /\ UNCHANGED <<pool, conn, pc>>
    <3>1. Len(pool') = 0 /\ \A d \in notified' : Waiting(d)'
      BY <2>1, <2>2 DEF WInv, Waiting
    <3> QED
      BY <2>1, <3>1, NothingIdleKeepsWakeups
  <2>3. CASE timed /\ Throw(c)
    <3>1. \A d \in notified' : Waiting(d)'
      BY <2>1, <2>3 DEF WInv, Waiting, Throw, TypeOK
    <3> QED
      BY <2>1, <2>3, <3>1, NothingIdleKeepsWakeups
  <2>4. CASE Take(c)
    BY <1>5, <2>1, <2>4, TakeKeepsWakeups
  <2> QED
    BY <1>5, <2>2, <2>3, <2>4 DEF Resume
<1>6. ASSUME NEW c \in Clients, TimeOut(c) PROVE WInv'
  <2>1. \A d \in notified' : Waiting(d)'
    BY <1>6 DEF TimeOut, WInv, Waiting, Throw, TypeOK
  <2>2. timed /\ timed' = timed
    BY <1>6 DEF TimeOut
  <2> QED
    BY <2>1, <2>2, NothingIdleKeepsWakeups
<1>7. ASSUME NEW c \in Clients, Check(c) PROVE WInv'
  BY <1>7, MoveKeepsWakeups DEF Check, Drop, Throw
<1>8. ASSUME NEW c \in Clients, Send(c) PROVE WInv'
  BY <1>8, MoveKeepsWakeups DEF Send, Drop, Throw
<1>9. ASSUME NEW c \in Clients, Recv(c) PROVE WInv'
  BY <1>9, MoveKeepsWakeups DEF Recv, Drop, Throw
<1>10. CASE UNCHANGED vars
  BY <1>10 DEF vars, WInv, Waiting, NoWakeupLost, Asleep, Notifying
<1> QED
  BY <1>1, <1>2, <1>3, <1>4, <1>5, <1>6, <1>7, <1>8, <1>9, <1>10,
     ReleaseKeepsWakeups, NotifyKeepsWakeups DEF Next, Running, Woken, Spurious

(* For every idle connection a thread has been woken, or is about to be,   *)
(* as long as one sleeps: notify_one after the mutex is given up loses no  *)
(* wake-up, for any number of threads and connections.                     *)
THEOREM WakeupsKept == Spec => []NoWakeupLost
<1>1. Init => WInv
  <2> SUFFICES ASSUME Init PROVE WInv
    OBVIOUS
  <2>1. notified = {} /\ \A c \in Clients : ~Asleep(c)
    BY DEF Init, Asleep, Waiting
  <2> QED
    BY <2>1 DEF WInv, NoWakeupLost
<1>2. IInv => TypeOK
  BY DEF IInv
<1>3. TypeOK /\ TypeOK' /\ WInv /\ [Next]_vars => WInv'
  BY WInvStep
<1>4. WInv => NoWakeupLost
  BY DEF WInv
<1> QED
  BY <1>1, <1>2, <1>3, <1>4, InvAlways, PTL DEF Spec

=============================================================================
