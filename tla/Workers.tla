------------------------------ MODULE Workers ------------------------------
(***************************************************************************)
(* The threads of the server: the main thread starts the workers, accepts  *)
(* connections and hands them out, and stops the workers on a signal       *)
(* (naruto.cpp); a worker takes connections off its queue, serves them and *)
(* leaves its loop when told to (connect_worker.cpp).                      *)
(*                                                                         *)
(* libev, as the code uses it: an iteration of a loop collects the events  *)
(* that have happened, then calls their handlers in some order, and looks  *)
(* at break_loop after the last one.  async.send only sets a flag, which   *)
(* the receiving loop clears when it collects the event.                   *)
(***************************************************************************)
EXTENDS Integers, Sequences, FiniteSets, SequencesExt

CONSTANTS WorkerNum,   \* worker_num
          Signals,     \* the signals for which onSignal is installed
          MaxLinks,    \* bound: connections accepted from clients
          MaxReplicas  \* bound: connections accepted from replicas

ASSUME NumAssumption == WorkerNum \in Nat \ {0}
ASSUME SignalsAssumption == IsFiniteSet(Signals)
ASSUME BoundAssumption == MaxLinks \in Nat /\ MaxReplicas \in Nat

Threads == 0..(WorkerNum - 1)
Links == 1..MaxLinks

VARIABLES
  main,      \* where the main thread is
  started,   \* init_success_workers
  exited,    \* exit_success_workers
  sig,       \* per signal: how far its delivery has come
  again,     \* history: onSignal was called a second time
  accepted,  \* connections accepted from clients
  replicas,  \* connections accepted from replicas
  pc,        \* where a worker is
  conns,     \* its queue of new connections
  sent,      \* per worker: the asyncs that have been sent
  todo,      \* per worker: the handlers still to be called in this iteration
  breaking,  \* per worker: break_loop has been called
  served,    \* per worker: the connections whose reads it watches
  torn       \* history: the workers whose queue was accessed by two threads

mainVars == <<main, sig, again, accepted, replicas>>
workerVars == <<pc, todo, breaking, served, torn>>
vars == <<mainVars, workerVars, started, exited, conns, sent>>

Init ==
  /\ main = "start"
  /\ started = 0 /\ exited = 0
  /\ sig = [s \in Signals |-> "quiet"] /\ again = FALSE
  /\ accepted = 0 /\ replicas = 0
  /\ pc = [w \in Threads |-> "none"]
  /\ conns = [w \in Threads |-> <<>>]
  /\ sent = [w \in Threads |-> {}]
  /\ todo = [w \in Threads |-> {}]
  /\ breaking = [w \in Threads |-> FALSE]
  /\ served = [w \in Threads |-> {}]
  /\ torn = {}
-----------------------------------------------------------------------------
(* Starting.                                                               *)

(* cond.notify_one; the main thread is the only one that ever waits.       *)
Wake_Nobody == UNCHANGED main
Wake ==
  main' = CASE main = "initwait" -> "init"
            [] main = "exitwait" -> "exit"
            [] OTHER -> main

(* _init_workers starts the threads.  Were cluster_enable_ ever set,       *)
(* _init_cluster would count as a worker that has started.                 *)
InitWorkers ==
  /\ main = "start"
  /\ pc' = [w \in Threads |-> "run"]
  /\ main' = "init"
  /\ UNCHANGED <<sig, again, accepted, replicas, started, exited,
                 conns, sent, todo, breaking, served, torn>>

(* ConnectWorker::run up to its loop.                                      *)
Run(w) ==
  /\ pc[w] = "run"
  /\ started' = started + 1
  /\ Wake
  /\ pc' = [pc EXCEPT ![w] = "poll"]
  /\ UNCHANGED <<sig, again, accepted, replicas, exited, conns,
                 sent, todo, breaking, served, torn>>

(* The wait for the workers.                                               *)
AllStarted == started >= WorkerNum

InitWait ==
  /\ main = "init"
  /\ main' = IF AllStarted THEN "listen" ELSE "initwait"
  /\ UNCHANGED <<sig, again, accepted, replicas, workerVars,
                 started, exited, conns, sent>>

(* Net::listen: a socket that listens, or none because it cannot be made,  *)
(* set up or bound.  Then start returns and main deletes the server with   *)
(* its workers, which run.                                                 *)
NetListen(next) == main' \in {next, "unbound"}

(* _listen: the port of the clients, then that of the replicas.            *)
Listen ==
  /\ \/ main = "listen" /\ NetListen("listenrc")
     \/ main = "listenrc" /\ NetListen("poll")
  /\ UNCHANGED <<sig, again, accepted, replicas, workerVars,
                 started, exited, conns, sent>>
-----------------------------------------------------------------------------
(* Accepting.                                                              *)

(* connect_nums_ counts the replicas' connections as well.                 *)
ConnectNums == accepted + replicas
Index == ConnectNums % WorkerNum

(* onAccept: push_back, then async.send, then the counter.  The queue has  *)
(* no lock, so that the push takes time.                                   *)
Accept ==
  /\ main = "poll" /\ accepted < MaxLinks
  /\ main' = "push"
  /\ UNCHANGED <<sig, again, accepted, replicas, workerVars,
                 started, exited, conns, sent>>

Push ==
  /\ main = "push"
  /\ conns' = [conns EXCEPT ![Index] = Append(@, accepted + 1)]
  /\ main' = "send"
  /\ UNCHANGED <<sig, again, accepted, replicas, workerVars,
                 started, exited, sent>>

Send ==
  /\ main = "send"
  /\ sent' = [sent EXCEPT ![Index] = @ \cup {"async"}]
  /\ accepted' = accepted + 1
  /\ main' = "poll"
  /\ UNCHANGED <<sig, again, replicas, workerVars, started,
                 exited, conns>>

(* onAcceptRc: a replica is served by the main loop.                       *)
AcceptRc ==
  /\ main = "poll" /\ replicas < MaxReplicas
  /\ replicas' = replicas + 1
  /\ UNCHANGED <<main, sig, again, accepted, workerVars, started,
                 exited, conns, sent>>
-----------------------------------------------------------------------------
(* A worker's loop.                                                        *)

(* An iteration begins; connections may have something to read.            *)
Poll(w) ==
  /\ pc[w] = "poll"
  /\ \E reads \in {{}, {"read"}} :
       /\ reads # {} => served[w] # {}
       /\ sent[w] \cup reads # {}
       /\ todo' = [todo EXCEPT ![w] = sent[w] \cup reads]
  /\ sent' = [sent EXCEPT ![w] = {}]
  /\ pc' = [pc EXCEPT ![w] = "invoke"]
  /\ UNCHANGED <<mainVars, started, exited, conns, breaking, served, torn>>

(* onAsync empties the queue, one connection at a time.                    *)
OnAsync(w) ==
  /\ pc[w] = "invoke" /\ "async" \in todo[w]
  /\ todo' = [todo EXCEPT ![w] = @ \ {"async"}]
  /\ pc' = [pc EXCEPT ![w] = "drain"]
  /\ UNCHANGED <<mainVars, started, exited, conns, sent, breaking, served, torn>>

Racing(w) == main = "push" /\ Index = w

Handed(w) == pc[w] = "drain" /\ conns[w] # <<>> /\ ~Racing(w)

Popped(w) ==
  /\ conns' = [conns EXCEPT ![w] = Tail(@)]
  /\ served' = [served EXCEPT ![w] = @ \cup {Head(conns[w])}]

Pop_OneOnly(w) ==
  /\ Handed(w)
  /\ Popped(w)
  /\ pc' = [pc EXCEPT ![w] = "invoke"]
  /\ UNCHANGED <<mainVars, started, exited, sent, todo, breaking, torn>>
Pop(w) ==
  /\ Handed(w)
  /\ Popped(w)
  /\ UNCHANGED <<mainVars, started, exited, sent, pc, todo, breaking, torn>>

Drained(w) ==
  /\ pc[w] = "drain" /\ conns[w] = <<>> /\ ~Racing(w)
  /\ pc' = [pc EXCEPT ![w] = "invoke"]
  /\ UNCHANGED <<mainVars, started, exited, conns, sent, todo, breaking, served, torn>>

(* The worker looks at its queue while the main thread is appending to it: *)
(* undefined behaviour.  Nothing is said of this worker from then on.      *)
Race(w) ==
  /\ pc[w] = "drain" /\ Racing(w)
  /\ torn' = torn \cup {w}
  /\ pc' = [pc EXCEPT ![w] = "undefined"]
  /\ UNCHANGED <<mainVars, started, exited, conns, sent, todo, breaking, served>>

(* onRead of a connection blocks until the client has sent a whole pack or *)
(* has closed the connection, which is then closed here too.               *)
Read(w) ==
  /\ pc[w] = "invoke" /\ "read" \in todo[w]
  /\ todo' = [todo EXCEPT ![w] = @ \ {"read"}]
  /\ pc' = [pc EXCEPT ![w] = "read"]
  /\ UNCHANGED <<mainVars, started, exited, conns, sent, breaking, served, torn>>

ReadDone(w) ==
  /\ pc[w] = "read"
  /\ pc' = [pc EXCEPT ![w] = "invoke"]
  /\ \E gone \in {{}} \cup {{k} : k \in served[w]} :
       served' = [served EXCEPT ![w] = @ \ gone]
  /\ UNCHANGED <<mainVars, started, exited, conns, sent, todo, breaking, torn>>

(* onStopAsync.                                                            *)
OnStopAsync(w) ==
  /\ pc[w] = "invoke" /\ "stop" \in todo[w]
  /\ todo' = [todo EXCEPT ![w] = @ \ {"stop"}]
  /\ breaking' = [breaking EXCEPT ![w] = TRUE]
  /\ UNCHANGED <<mainVars, started, exited, conns, sent, pc, served, torn>>

(* The last handler of the iteration is done.                              *)
Invoked(w) ==
  /\ pc[w] = "invoke" /\ todo[w] = {}
  /\ pc' = [pc EXCEPT ![w] = IF breaking[w] THEN "left" ELSE "poll"]
  /\ UNCHANGED <<mainVars, started, exited, conns, sent, todo, breaking, served, torn>>

(* The end of ConnectWorker::run.                                          *)
Exit(w) ==
  /\ pc[w] = "left"
  /\ exited' = exited + 1
  /\ Wake
  /\ pc' = [pc EXCEPT ![w] = "exited"]
  /\ UNCHANGED <<sig, again, accepted, replicas, started, conns,
                 sent, todo, breaking, served, torn>>
-----------------------------------------------------------------------------
(* Stopping.                                                               *)

(* A signal arrives.  Its watcher is started before the server listens,    *)
(* and onSignal stops it; outside of that the signal would end the process.*)
Raise(s) ==
  /\ main \notin {"start", "init", "initwait", "unbound", "deleted"}
  /\ sig[s] = "quiet"
  /\ sig' = [sig EXCEPT ![s] = "raised"]
  /\ UNCHANGED <<main, again, accepted, replicas, workerVars, started, exited,
                 conns, sent>>

(* The main loop collects all signals that have arrived.                   *)
CollectSignals ==
  /\ main = "poll" /\ \E s \in Signals : sig[s] = "raised"
  /\ sig' = [s \in Signals |-> IF sig[s] = "raised" THEN "pending" ELSE sig[s]]
  /\ main' = "signal"
  /\ UNCHANGED <<again, accepted, replicas, workerVars, started, exited, conns, sent>>

(* onSignal up to its wait: the sockets are closed and every worker is     *)
(* told to stop.                                                           *)
OnSignal(s) ==
  /\ main = "signal" /\ sig[s] = "pending"
  /\ exited' = 0
  /\ sent' = [w \in Threads |-> sent[w] \cup {"stop"}]
  /\ again' = \E r \in Signals : sig[r] = "handled"
  /\ sig' = [sig EXCEPT ![s] = "handled"]
  /\ main' = "exit"
  /\ UNCHANGED <<accepted, replicas, workerVars, started, conns>>

AllExited_ButOne == exited >= WorkerNum - 1
AllExited == exited >= WorkerNum

(* The rest of onSignal.  break_loop takes effect when the other handlers  *)
(* of this iteration have been called.                                     *)
ExitWait ==
  /\ main = "exit"
  /\ main' = IF ~AllExited THEN "exitwait"
             ELSE IF \E s \in Signals : sig[s] = "pending" THEN "signal" ELSE "broken"
  /\ UNCHANGED <<sig, again, accepted, replicas, workerVars, started, exited,
                 conns, sent>>

(* ~ConnectWorker closes the connections nobody took off the queue.        *)
Destroy == conns' = [w \in Threads |-> <<>>]

(* main deletes the server and with it the workers.                        *)
Delete ==
  /\ main = "broken"
  /\ main' = "deleted"
  /\ Destroy
  /\ UNCHANGED <<sig, again, accepted, replicas, workerVars, started, exited, sent>>
-----------------------------------------------------------------------------
MainStep ==
  \/ InitWorkers \/ InitWait \/ Listen \/ Push \/ Send
  \/ CollectSignals \/ (\E s \in Signals : OnSignal(s)) \/ ExitWait \/ Delete

WorkerStep(w) ==
  /\ main # "unbound"
  /\ \/ Run(w) \/ Poll(w) \/ OnAsync(w) \/ Pop(w) \/ Drained(w) \/ Race(w)
     \/ Read(w) \/ ReadDone(w) \/ OnStopAsync(w) \/ Invoked(w) \/ Exit(w)

Next ==
  \/ MainStep \/ Accept \/ AcceptRc
  \/ \E s \in Signals : Raise(s)
  \/ \E w \in Threads : WorkerStep(w)

Spec == Init /\ [][Next]_vars

(* Threads run.  The wait in recv ends, because a client finishes the pack *)
(* it has begun or closes the connection: accepted sockets have no         *)
(* time-out, so this is an assumption about the clients.                   *)
FairSpec ==
  /\ Spec
  /\ WF_vars(MainStep)
  /\ \A w \in Threads : WF_vars(WorkerStep(w))
-----------------------------------------------------------------------------
(* Every variable has its type; the counts stay within the workers.        *)
TypeOK ==
  /\ main \in {"start", "init", "initwait", "listen", "listenrc", "unbound", "poll",
               "push", "send", "signal", "exit", "exitwait", "broken", "deleted"}
  /\ started \in 0..WorkerNum /\ exited \in 0..WorkerNum
  /\ sig \in [Signals -> {"quiet", "raised", "pending", "handled"}]
  /\ again \in BOOLEAN
  /\ accepted \in 0..MaxLinks /\ replicas \in 0..MaxReplicas
  /\ pc \in [Threads -> {"none", "run", "poll", "invoke", "drain", "read",
                         "left", "exited", "undefined"}]
  /\ conns \in [Threads -> Seq(Links)]
  /\ sent \in [Threads -> SUBSET {"async", "stop"}]
  /\ todo \in [Threads -> SUBSET {"async", "stop", "read"}]
  /\ breaking \in [Threads -> BOOLEAN]
  /\ served \in [Threads -> SUBSET Links]
  /\ torn \subseteq Threads

(* The main thread uses the workers only while they are there for it: it   *)
(* listens, and so pushes to their queues, when every worker has reached   *)
(* its loop, and when it deletes them after a signal every one has left    *)
(* (_init_workers, onSignal, main, ~Naruto).                               *)
ThereWhenUsed ==
  /\ main \notin {"start", "init", "initwait"} =>
       \A w \in Threads : pc[w] \notin {"none", "run"}
  /\ main = "deleted" => \A w \in Threads : pc[w] = "exited"

Queued(k) == \E w \in Threads : k \in ToSet(conns[w])
Stopping == \E s \in Signals : sig[s] = "handled"

(* A connection that was handed to a worker is taken up by it, also when   *)
(* it is pushed while the worker empties its queue, or when several pushes *)
(* are collected as one event (onAccept, onAsync), unless the server is    *)
(* stopped or two threads touched the queue at the same moment.            *)
EveryLinkServed ==
  \A k \in Links : Queued(k) ~> (~Queued(k) \/ Stopping \/ torn # {})

(* A signal ends the server: the workers leave their loops whatever they   *)
(* are doing, and the main thread is woken when the last one has           *)
(* (onSignal, ConnectWorker::run).  Excepted are two signals in the same   *)
(* iteration: the second onSignal sets the count of exits back to 0 when   *)
(* no worker is left to raise it.                                          *)
ShutdownEnds ==
  \A s \in Signals : sig[s] = "pending" ~> (main = "deleted" \/ again \/ torn # {})
=============================================================================
