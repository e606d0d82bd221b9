------------------------------ MODULE Connect ------------------------------
(***************************************************************************)
(* Connect objects and the descriptors of the process: connecting,         *)
(* closing, reconnecting and destroying (connection/connection.cpp), for   *)
(* the connections of a pool (connection_pool.cpp) and for the links of a  *)
(* replica to its master (client_link.cpp, replica_link.cpp).              *)
(*                                                                         *)
(* The sockets are blocking and have no time-out before they are           *)
(* connected, so that ::connect never gives EINPROGRESS.  The destructor   *)
(* of a Connect does not close its descriptor.                             *)
(***************************************************************************)
EXTENDS Integers, FiniteSets

CONSTANTS Connects,  \* the Connect objects
          Fds        \* the descriptors

ASSUME FdsAssumption == IsFiniteSet(Fds)

NoDescriptor == "FD_INVALID"
ASSUME DescriptorAssumption == NoDescriptor \notin Fds

VARIABLES
  conns,    \* the objects: of which use they are, fd_, status_, err_, addr_
  socks,    \* the descriptors: free, open, or connected
  left      \* history: descriptors left open without an object

nvars == <<conns, socks, left>>

(* Connect::Connect(opts); addr tells whether there is memory at addr_.    *)
NewConnect(use) ==
  [use |-> use, fd |-> NoDescriptor, status |-> "NEW", err |-> FALSE, addr |-> FALSE]

Gone == NewConnect("none")

NInit ==
  /\ conns = [c \in Connects |-> Gone]
  /\ socks = [d \in Fds |-> "free"]
  /\ left = {}

Is(c, use) == conns[c].use = use
Owners(d) == {c \in Connects : conns[c].fd = d}

-----------------------------------------------------------------------------
(* Mutant of CloseFd: the descriptor is closed but fd_ keeps its number.   *)
CloseFd_KeepsNumber(c, ss) ==
  [c |-> [c EXCEPT !.status = "CLOSE"],
   socks |-> [d \in Fds |-> IF d = c.fd THEN "free" ELSE ss[d]]]

(* Connect::close.                                                         *)
CloseFd(c, ss) ==
  [c |-> [c EXCEPT !.fd = NoDescriptor, !.status = "CLOSE"],
   socks |-> [d \in Fds |-> IF d = c.fd THEN "free" ELSE ss[d]]]

Closed(c) == CloseFd(c, socks).c

(* _set_blocking(true) on socket d: it works, or closes d.                 *)
SetBlocking(c, d) ==
  {[c EXCEPT !.fd = d], [Closed(c) EXCEPT !.err = TRUE]}

(* _set_connect_timeout: an error leaves the object connected.             *)
SetTimeouts(c) == {c, [c EXCEPT !.err = TRUE]}

(* Mutant of Connected: the status is not set.                             *)
Connected_NoStatus(c) == [c EXCEPT !.addr = TRUE]

Connected(c) == [c EXCEPT !.status = "CONNECTED", !.addr = TRUE]

(* ::connect fails.  In each case what is closed is fd_, which is not yet  *)
(* the socket: without an error if the host cannot be reached, with one    *)
(* after CONNECT_RETRIES times EADDRNOTAVAIL; else there is only an error. *)
Refused(c) ==
  {Closed(c), [Closed(c) EXCEPT !.err = TRUE], [c EXCEPT !.err = TRUE]}

(* What connect() can make of c, which has no descriptor: the object, the  *)
(* descriptors, and those it leaves behind.                                *)
Connecting(c, ss) ==
  LET failed == [c |-> [c EXCEPT !.err = TRUE], socks |-> ss, left |-> {}, ok |-> FALSE]
      with(d, s) == [ss EXCEPT ![d] = s]
  IN  {failed} \cup UNION {
        {[c |-> x, socks |-> with(d, "open"), left |-> {d}, ok |-> FALSE] : x \in Refused(c)}
          \cup UNION {
            IF x.fd = NoDescriptor
            THEN {[failed EXCEPT !.c = x]}
            ELSE {[c |-> y, socks |-> with(d, "connected"), left |-> {}, ok |-> ~y.err] :
                    y \in SetTimeouts(Connected(x))}
            : x \in SetBlocking(c, d)}
        : d \in {e \in Fds : ss[e] = "free"}}

Broken(c) == c.err \/ c.status # "CONNECTED"

(* The object is destroyed, and its descriptor left behind if it has one.  *)
Destroyed(c) == IF c.fd = NoDescriptor THEN {} ELSE {c.fd}

-----------------------------------------------------------------------------
(* A pool.                                                                 *)

(* _create: a connection that failed is destroyed by the exception.        *)
PoolCreate(c) ==
  /\ Is(c, "none")
  /\ \E r \in Connecting(NewConnect("pool"), socks) :
       /\ conns' = [conns EXCEPT ![c] = IF r.ok THEN r.c ELSE Gone]
       /\ socks' = r.socks
       /\ left' = left \cup r.left \cup (IF r.ok THEN {} ELSE Destroyed(r.c))

(* The swap after conn.reset(): everything but addr_ changes               *)
(* places; what addr_ points to is overwritten.                            *)
Swapped(c, new) == [new EXCEPT !.err = FALSE, !.addr = c.addr]

(* reconnect: a new object connects, or throws and is destroyed; then the  *)
(* connection that was fetched is dropped as well.                         *)
Reconnect(o, c, ss) ==
  \E r \in Connecting(NewConnect("pool"), ss) :
    /\ conns' = [conns EXCEPT ![o] = IF r.ok THEN Swapped(c, r.c) ELSE Gone]
    /\ socks' = r.socks
    /\ left' = left \cup r.left \cup (IF r.ok THEN {} ELSE Destroyed(r.c) \cup Destroyed(c))

(* _need_reconnect: broken, or not used for connection_lifetime.           *)
NeedReconnect(c, old) == Broken(c) \/ old

(* fetch: the connection is closed and reconnected if need be.             *)
Refetch(c) ==
  /\ Is(c, "pool") /\ \E old \in BOOLEAN : NeedReconnect(conns[c], old)
  /\ LET closed == CloseFd(conns[c], socks) IN Reconnect(c, closed.c, closed.socks)

(* A send or recv fails, or another process closes its end: the exception  *)
(* ends Kunai::execute, and the connection is destroyed.                   *)
Dropped(c) ==
  /\ Is(c, "pool")
  /\ left' = left \cup Destroyed(conns[c])
  /\ conns' = [conns EXCEPT ![c] = Gone]
  /\ UNCHANGED socks

(* ~ConnectionPool: the idle connections are destroyed with the pool, and  *)
(* nothing closes them.  One that a thread is using lives until it is      *)
(* dropped.                                                                *)
PoolDestroyed ==
  \E idle \in SUBSET {c \in Connects : Is(c, "pool")} :
    /\ left' = left \cup UNION {Destroyed(conns[c]) : c \in idle}
    /\ conns' = [c \in Connects |-> IF c \in idle THEN Gone ELSE conns[c]]
    /\ UNCHANGED socks

-----------------------------------------------------------------------------
(* The link of a replica.                                                  *)

(* The constructor of a clientLink connects, and leaves what becomes of it *)
(* in place.  A link that is there is destroyed (_connect_master).         *)
LinkTo(c) ==
  /\ Is(c, "none") \/ Is(c, "link")
  /\ \E r \in Connecting(NewConnect("link"), socks) :
       /\ conns' = [conns EXCEPT ![c] = r.c]
       /\ socks' = r.socks
       /\ left' = left \cup r.left \cup Destroyed(conns[c])

(* An error on the link, or a time-out: clientLink::close.                 *)
LinkClosed(c) ==
  /\ Is(c, "link")
  /\ \E err \in BOOLEAN :
       LET r == CloseFd([conns[c] EXCEPT !.err = @ \/ err], socks)
       IN  conns' = [conns EXCEPT ![c] = r.c] /\ socks' = r.socks
  /\ UNCHANGED left

NNext ==
  \/ \E c \in Connects :
       \/ PoolCreate(c) \/ Refetch(c) \/ Dropped(c)
       \/ LinkTo(c) \/ LinkClosed(c)
  \/ PoolDestroyed

NSpec == NInit /\ [][NNext]_nvars

-----------------------------------------------------------------------------
(* Every variable has its type.                                            *)
ConnectTypeOK ==
  /\ \A c \in Connects :
       /\ conns[c].fd \in Fds \cup {NoDescriptor}
       /\ conns[c].status \in {"NEW", "CONNECTED", "CLOSE"}
       /\ conns[c].use \in {"none", "pool", "link"}
  /\ socks \in [Fds -> {"free", "open", "connected"}]
  /\ left \subseteq Fds

(* A descriptor that an object has is open and no other object's, whatever *)
(* was closed, left behind and opened again in between: so an object never *)
(* writes to, reads from or closes the socket of another one               *)
(* (Connect::connect, close, reconnect and swap).                          *)
OneOwner ==
  \A d \in Fds :
    /\ Cardinality(Owners(d)) <= 1
    /\ Owners(d) # {} => socks[d] # "free" /\ d \notin left

(* A connection that is not broken() has a connected socket, and one that  *)
(* the pool keeps has the addr_ that reconnect copies to, and is not       *)
(* broken before it is used (connection.cpp connect and swap,              *)
(* connection_pool.cpp _create).                                           *)
UsableIfNotBroken ==
  \A c \in Connects :
    /\ ~Broken(conns[c]) => conns[c].fd # NoDescriptor /\ socks[conns[c].fd] = "connected"
    /\ Is(c, "pool") => conns[c].addr /\ ~Broken(conns[c])
=============================================================================
