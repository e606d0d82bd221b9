--------------------------- MODULE ConnectionPool ---------------------------
(***************************************************************************)
(* The connection pool of the C++ client (connection/connection_pool.cpp)  *)
(* and Kunai::execute, which fetches a connection, sends a request on it,  *)
(* reads the reply and gives the connection back.  The clients are threads *)
(* that share one pool.                                                    *)
(*                                                                         *)
(* What a thread does under the mutex of the pool is one step; connecting, *)
(* sending and receiving happen outside of it, except for the connect of a *)
(* new connection.  The condition variable is the set of waiting threads,  *)
(* with those that a notify_one has chosen kept apart.                     *)
(***************************************************************************)
EXTENDS Integers, Sequences, FiniteSets, Functions

CONSTANTS Clients,    \* the threads that call the client
          MaxConns,   \* pool_opts_.max_conns
          MaxCalls    \* bound: calls per thread

ASSUME ClientsAssumption == IsFiniteSet(Clients)
ASSUME PoolAssumption == MaxConns \in Nat \ {0}   \* the constructor throws at 0
ASSUME CallsAssumption == MaxCalls \in Nat

Conns == 1..MaxConns
None == 0

VARIABLES timed,     \* wait_timeout > 0
          pool,      \* pool_, the idle connections
          used,      \* used_connections_
          err,       \* the connections whose err_ is set
          owed,      \* per connection: whose replies are still to be read
          pc,        \* where a thread is in execute
          conn,      \* the connection a thread holds
          notified,  \* the waiting threads that notify_one has woken
          calls,     \* bound: calls a thread has made
          failed     \* an assertion has failed, the process is gone

vars == <<timed, pool, used, err, owed, pc, conn, notified, calls, failed>>

Waiting(c) == pc[c] = "wait"

Init ==
  /\ timed \in BOOLEAN
  /\ pool = <<>>
  /\ used = 0
  /\ err = {}
  /\ owed = [k \in Conns |-> <<>>]
  /\ pc = [c \in Clients |-> "idle"]
  /\ conn = [c \in Clients |-> None]
  /\ notified = {}
  /\ calls = [c \in Clients |-> 0]
  /\ failed = FALSE
-----------------------------------------------------------------------------
(* Fetching a connection.                                                  *)

(* hget, hset, hincr and slaveof all build a request and call execute.     *)
Call(c) ==
  /\ pc[c] = "idle" /\ calls[c] < MaxCalls /\ ~failed
  /\ calls' = [calls EXCEPT ![c] = @ + 1]
  /\ pc' = [pc EXCEPT ![c] = "fetch"]
  /\ UNCHANGED <<timed, pool, used, err, owed, conn, notified, failed>>

(* An exception leaves execute and reaches the caller.                     *)
Throw(c) == pc' = [pc EXCEPT ![c] = "idle"]

(* _fetch: the oldest idle connection.                                     *)
TakeFront_Kept == pool
TakeFront == Tail(pool)

Take(c) ==
  /\ pool # <<>>
  /\ conn' = [conn EXCEPT ![c] = Head(pool)]
  /\ pool' = TakeFront
  /\ pc' = [pc EXCEPT ![c] = "check"]

FetchIdle(c) ==
  /\ pc[c] = "fetch" /\ ~failed
  /\ Take(c)
  /\ UNCHANGED <<timed, used, err, owed, notified, calls, failed>>

(* As many connections as allowed are in use or idle.                      *)
AtLimit_OffByOne == used > MaxConns
AtLimit == used >= MaxConns

(* A new connection, or the exception of a connect that failed.            *)
Create(c) ==
  /\ pc[c] = "fetch" /\ pool = <<>> /\ ~AtLimit /\ ~failed
  /\ \/ /\ used' = used + 1
        /\ conn' = [conn EXCEPT ![c] = used + 1]
        /\ pc' = [pc EXCEPT ![c] = "send"]
     \/ Throw(c) /\ UNCHANGED <<used, conn>>
  /\ UNCHANGED <<timed, pool, err, owed, notified, calls, failed>>

WaitForConnect(c) ==
  /\ pc[c] = "fetch" /\ pool = <<>> /\ AtLimit /\ ~failed
  /\ pc' = [pc EXCEPT ![c] = "wait"]
  /\ UNCHANGED <<timed, pool, used, err, owed, conn, notified, calls, failed>>

(* A waiting thread runs and looks at its predicate: the pool is not empty.*)
(* With a time-out, wait_for then returns true, which the code takes for   *)
(* the time-out.                                                           *)
Resume(c) ==
  /\ notified' = notified \ {c}
  /\ \/ pool = <<>> /\ UNCHANGED <<pool, conn, pc>>
     \/ pool # <<>> /\ timed /\ Throw(c) /\ UNCHANGED <<pool, conn>>
     \/ ~timed /\ Take(c)
  /\ UNCHANGED <<timed, used, err, owed, calls, failed>>

Woken(c) == Waiting(c) /\ c \in notified /\ ~failed /\ Resume(c)
Spurious(c) == Waiting(c) /\ c \notin notified /\ ~failed /\ Resume(c)

(* The time is over.  wait_for returns the predicate; with an empty pool   *)
(* the thread goes on to _fetch and its assertion.                         *)
TimeOut(c) ==
  /\ Waiting(c) /\ timed /\ ~failed
  /\ notified' = notified \ {c}
  /\ \/ pool # <<>> /\ Throw(c) /\ UNCHANGED failed
     \/ pool = <<>> /\ failed' = TRUE /\ UNCHANGED pc
  /\ UNCHANGED <<timed, pool, used, err, owed, conn, calls>>

(* A thread lets go of a connection that failed: the exception passes      *)
(* through execute, which does not give the connection back.               *)
Drop_Reused(c) ==
  /\ pool' = Append(pool, conn[c])
  /\ conn' = [conn EXCEPT ![c] = None]
  /\ Throw(c)
  /\ UNCHANGED err
Drop(c) ==
  /\ err' = err \cup {conn[c]}
  /\ conn' = [conn EXCEPT ![c] = None]
  /\ Throw(c)
  /\ UNCHANGED pool

(* _need_reconnect: broken, or idle for longer than connection_lifetime.   *)
(* reconnect swaps in a new socket, or throws.                             *)
Check(c) ==
  /\ pc[c] = "check" /\ ~failed
  /\ \/ /\ conn[c] \notin err
        /\ pc' = [pc EXCEPT ![c] = "send"]
        /\ UNCHANGED <<pool, err, owed, conn>>
     \/ /\ owed' = [owed EXCEPT ![conn[c]] = <<>>]
        /\ err' = err \ {conn[c]}
        /\ pc' = [pc EXCEPT ![c] = "send"]
        /\ UNCHANGED <<pool, conn>>
     \/ Drop(c) /\ UNCHANGED owed
  /\ UNCHANGED <<timed, used, notified, calls, failed>>
-----------------------------------------------------------------------------
(* Using it.                                                               *)

(* The request reaches the server, or the connection fails.                *)
Send(c) ==
  /\ pc[c] = "send" /\ ~failed
  /\ \/ /\ owed' = [owed EXCEPT ![conn[c]] = Append(@, c)]
        /\ pc' = [pc EXCEPT ![c] = "recv"]
        /\ UNCHANGED <<pool, err, conn>>
     \/ Drop(c) /\ UNCHANGED owed
  /\ UNCHANGED <<timed, used, notified, calls, failed>>

(* The reply is read, or the read times out or fails; then the reply may   *)
(* still come.                                                             *)
Recv(c) ==
  /\ pc[c] = "recv" /\ ~failed
  /\ \/ /\ owed' = [owed EXCEPT ![conn[c]] = Tail(@)]
        /\ pc' = [pc EXCEPT ![c] = "release"]
        /\ UNCHANGED <<pool, err, conn>>
     \/ Drop(c) /\ UNCHANGED owed
  /\ UNCHANGED <<timed, used, notified, calls, failed>>

Release(c) ==
  /\ pc[c] = "release" /\ ~failed
  /\ pool' = Append(pool, conn[c])
  /\ conn' = [conn EXCEPT ![c] = None]
  /\ pc' = [pc EXCEPT ![c] = "notify"]
  /\ UNCHANGED <<timed, used, err, owed, notified, calls, failed>>

(* cv_.notify_one, after the mutex has been given up.                      *)
NotifyOne_Never == UNCHANGED notified
NotifyOne ==
  LET asleep == {d \in Clients : Waiting(d)} \ notified
  IN  \/ asleep = {} /\ UNCHANGED notified
      \/ \E d \in asleep : notified' = notified \cup {d}

Notify(c) ==
  /\ pc[c] = "notify" /\ ~failed
  /\ NotifyOne
  /\ pc' = [pc EXCEPT ![c] = "idle"]
  /\ UNCHANGED <<timed, pool, used, err, owed, conn, calls, failed>>
-----------------------------------------------------------------------------
Running(c) ==
  \/ FetchIdle(c) \/ Create(c) \/ WaitForConnect(c) \/ Woken(c)
  \/ Check(c) \/ Send(c) \/ Recv(c) \/ Release(c) \/ Notify(c)

Next == \E c \in Clients : Call(c) \/ Running(c) \/ Spurious(c) \/ TimeOut(c)

Spec == Init /\ [][Next]_vars
-----------------------------------------------------------------------------
Phases == {"idle", "fetch", "wait", "check", "send", "recv", "release", "notify"}

(* Every variable has its type; the pool never holds more than max_conns.  *)
TypeOK ==
  /\ timed \in BOOLEAN /\ failed \in BOOLEAN
  /\ pool \in Seq(Conns) /\ Len(pool) <= MaxConns
  /\ used \in 0..MaxConns
  /\ err \subseteq Conns
  /\ owed \in [Conns -> Seq(Clients)]
  /\ pc \in [Clients -> Phases]
  /\ conn \in [Clients -> Conns \cup {None}]
  /\ notified \subseteq Clients
  /\ calls \in [Clients -> 0..MaxCalls]

Holds(c) == conn[c] # None

(* A connection is never in two hands: the idle ones are different, no     *)
(* thread holds an idle one, and no two threads hold the same one; and     *)
(* used_connections_ has counted each of them (ConnectionPool::fetch and   *)
(* release by threads in any order).                                       *)
InOnePlace ==
  /\ IsInjective(pool)
  /\ \A c \in Clients : Holds(c) => conn[c] \notin Range(pool)
  /\ \A c, d \in Clients : c # d /\ Holds(c) => conn[c] # conn[d]
  /\ Range(pool) \cup {conn[c] : c \in Clients} \subseteq 0..used

(* A thread reads the reply to its own request: what is still to be read   *)
(* from a connection it has sent on is that reply and nothing else, also   *)
(* after another thread's read on this connection timed out                *)
(* (Kunai::execute).                                                       *)
OwnReply ==
  \A c \in Clients : pc[c] = "recv" => owed[conn[c]] = <<c>>

Asleep(c) == Waiting(c) /\ c \notin notified
Notifying == {c \in Clients : pc[c] = "notify"}

(* No wake-up is lost: while a thread sleeps for want of a connection,     *)
(* there is for every idle one a thread that has been woken and has not    *)
(* yet looked, or one that is about to notify.  So no connection lies idle *)
(* with everybody asleep, whoever fetches or begins to wait between the    *)
(* push and the notify_one (_wait_for_connect, release).  Which thread     *)
(* then gets it is left open: one that calls fetch may be first, again and *)
(* again.  With a time-out, the woken thread throws and leaves it in place.*)
NoWakeupLost ==
  ~timed /\ (\E c \in Clients : Asleep(c)) =>
    Len(pool) <= Cardinality(notified) + Cardinality(Notifying)
=============================================================================
