--------------------------- MODULE WorkersProofs ---------------------------
(***************************************************************************)
(* Proofs about Workers, for any number of workers, signals and            *)
(* connections.                                                            *)
(*                                                                         *)
(* The main thread never looks at a worker: it knows that all of them have *)
(* started or left from two counters under a mutex.  The invariant ties    *)
(* the counters to the workers they count.                                 *)
(***************************************************************************)
EXTENDS Workers, TLAPS, FiniteSetTheorems

InLoop == {w \in Threads : pc[w] \notin {"none", "run"}}
Exited == {w \in Threads : pc[w] = "exited"}

(* The threads are started together.                                       *)
Begun ==
  /\ main = "start" => \A w \in Threads : pc[w] = "none"
  /\ main # "start" => \A w \in Threads : pc[w] # "none"

(* init_success_workers is the number of workers that have reached their   *)
(* loop.  exit_success_workers may be smaller than that of those that have *)
(* left it, because a second onSignal sets it back.                        *)
StartCount == started = Cardinality(InLoop)
ExitCount == exited <= Cardinality(Exited)

(* A connection is pushed only if it was accepted.                         *)
Pushing == main \in {"push", "send"} => accepted < MaxLinks

AllLeft == main \in {"broken", "deleted"} => Exited = Threads

IInv == TypeOK /\ Begun /\ StartCount /\ ExitCount /\ Pushing /\ AllLeft /\ ThereWhenUsed

-----------------------------------------------------------------------------
(* Counting workers.                                                       *)
LEMMA ThreadsFinite == IsFiniteSet(Threads) /\ Cardinality(Threads) = WorkerNum
<1>1. 0 \in Int /\ WorkerNum - 1 \in Int /\ WorkerNum \in Nat /\ WorkerNum > 0
  BY NumAssumption
<1>2. /\ IsFiniteSet(0..(WorkerNum - 1))
      /\ Cardinality(0..(WorkerNum - 1)) = IF 0 > WorkerNum - 1 THEN 0 ELSE WorkerNum - 1 - 0 + 1
  BY <1>1, FS_Interval
<1> QED
  BY <1>1, <1>2 DEF Threads

LEMMA Counted ==
  ASSUME NEW S \in SUBSET Threads
  PROVE  /\ IsFiniteSet(S) /\ Cardinality(S) \in 0..WorkerNum
         /\ Cardinality(S) >= WorkerNum => S = Threads
         /\ \A w \in Threads \ S : Cardinality(S \cup {w}) = Cardinality(S) + 1
<1>1. IsFiniteSet(S) /\ Cardinality(S) <= Cardinality(Threads)
      /\ (Cardinality(S) = Cardinality(Threads) => S = Threads)
  BY ThreadsFinite, FS_Subset
<1>2. Cardinality(S) \in Nat
  BY <1>1, FS_CardinalityType
<1>3. \A w \in Threads \ S : Cardinality(S \cup {w}) = Cardinality(S) + 1
  BY <1>1, FS_AddElement
<1> QED
  BY <1>1, <1>2, <1>3, ThreadsFinite, NumAssumption

LEMMA InvInit == Init => IInv
<1> SUFFICES ASSUME Init PROVE IInv
  OBVIOUS
<1>1. TypeOK
  <2>1. /\ conns \in [Threads -> Seq(Links)] /\ served \in [Threads -> SUBSET Links]
        /\ sent \in [Threads -> SUBSET {"async", "stop"}]
        /\ todo \in [Threads -> SUBSET {"async", "stop", "read"}]
        /\ breaking \in [Threads -> BOOLEAN]
    BY DEF Init
  <2>2. /\ started \in 0..WorkerNum /\ exited \in 0..WorkerNum
        /\ accepted \in 0..MaxLinks /\ replicas \in 0..MaxReplicas
    BY NumAssumption, BoundAssumption DEF Init
  <2>3. /\ sig \in [Signals -> {"quiet", "raised", "pending", "handled"}]
        /\ pc \in [Threads -> {"none", "run", "poll", "invoke", "drain", "read",
                               "left", "exited", "undefined"}]
    BY DEF Init
  <2> QED
    BY <2>1, <2>2, <2>3 DEF Init, TypeOK
<1>2. Begun /\ Pushing /\ AllLeft /\ ThereWhenUsed
  BY DEF Init, Begun, Pushing, AllLeft, ThereWhenUsed
<1>3. InLoop = {} /\ Exited = {}
  BY DEF Init, InLoop, Exited
<1>4. StartCount /\ ExitCount
  BY <1>3, FS_EmptySet DEF Init, StartCount, ExitCount
<1> QED
  BY <1>1, <1>2, <1>4 DEF IInv

-----------------------------------------------------------------------------
LEMMA IndexIs == TypeOK => Index \in Threads
<1> SUFFICES ASSUME TypeOK PROVE Index \in Threads
  OBVIOUS
<1>1. ConnectNums \in Nat /\ WorkerNum \in Nat /\ WorkerNum > 0
  BY NumAssumption, BoundAssumption DEF TypeOK, ConnectNums
<1>2. \A a, b \in Nat : b > 0 => a % b \in 0..(b - 1)
  OBVIOUS
<1> QED
  BY <1>1, <1>2 DEF Index, Threads

(* The main thread, while the workers stay where they are.                 *)
LEMMA MainKeeps ==
  ASSUME IInv, TypeOK', UNCHANGED <<pc, started>>, exited' \in {0, exited},
         main \notin {"start"}, main' \notin {"start"},
         main \in {"init", "initwait"} =>
           main' \in {"init", "initwait"} \/ (AllStarted /\ main' = "listen"),
         main' \in {"broken", "deleted"} => AllExited \/ main = "broken",
         main' \in {"push", "send"} => accepted' < MaxLinks
  PROVE  IInv'
<1>1. /\ InLoop \in SUBSET Threads /\ InLoop' = InLoop
      /\ Exited \in SUBSET Threads /\ Exited' = Exited
  BY DEF InLoop, Exited
<1>2. Begun' /\ Pushing'
  BY DEF IInv, Begun, Pushing
<1>3. StartCount' /\ ExitCount'
  <2>1. 0 <= Cardinality(Exited)
    BY <1>1, Counted, NumAssumption
  <2> QED
    BY <1>1, <2>1 DEF IInv, StartCount, ExitCount
<1>4. AllStarted => InLoop = Threads
  BY <1>1, Counted DEF IInv, StartCount, AllStarted
<1>5. AllExited => Exited = Threads
  <2>1. AllExited => Cardinality(Exited) >= WorkerNum
    <3>1. Cardinality(Exited) \in Nat /\ exited \in Nat /\ WorkerNum \in Nat
      BY <1>1, Counted, NumAssumption DEF IInv, TypeOK
    <3> QED
      BY <3>1 DEF IInv, ExitCount, AllExited
  <2> QED
    BY <1>1, <2>1, Counted
<1>6. AllLeft'
  BY <1>1, <1>5 DEF IInv, AllLeft
<1>7. ThereWhenUsed'
  <2>1. main' \notin {"start", "init", "initwait"} => InLoop = Threads
    BY <1>4 DEF IInv, ThereWhenUsed, InLoop
  <2>2. main' = "deleted" => Exited = Threads
    BY <1>1, <1>6 DEF AllLeft
  <2> QED
    BY <2>1, <2>2 DEF ThereWhenUsed, InLoop, Exited
<1> QED
  BY <1>2, <1>3, <1>6, <1>7 DEF IInv

(* A worker inside its loop.                                               *)
Looping == {"poll", "invoke", "drain", "read", "left", "undefined"}

LEMMA LoopKeeps ==
  ASSUME IInv, TypeOK', NEW w \in Threads, pc[w] \in Looping, NEW q \in Looping,
         pc' = [pc EXCEPT ![w] = q],
         UNCHANGED <<main, accepted, started, exited>>
  PROVE  IInv'
<1>1. \A v \in Threads : pc'[v] = IF v = w THEN q ELSE pc[v]
  BY DEF IInv, TypeOK
<1>2. InLoop' = InLoop /\ Exited' = Exited
  BY <1>1 DEF InLoop, Exited, Looping
<1>3. Begun' /\ Pushing'
  BY <1>1 DEF IInv, Begun, Pushing, Looping
<1>4. StartCount' /\ ExitCount' /\ AllLeft'
  BY <1>2 DEF IInv, StartCount, ExitCount, AllLeft
<1>5. ThereWhenUsed'
  BY <1>1 DEF IInv, ThereWhenUsed, Looping
<1> QED
  BY <1>3, <1>4, <1>5 DEF IInv

LEMMA InitWorkersKeeps ==
  ASSUME IInv, InitWorkers
  PROVE  IInv'
<1>1. TypeOK'
  <2>1. pc' \in [Threads -> {"none", "run", "poll", "invoke", "drain", "read",
                             "left", "exited", "undefined"}]
    BY DEF InitWorkers
  <2> QED
    BY <2>1 DEF IInv, TypeOK, InitWorkers
<1>2. /\ main = "start" /\ main' = "init" /\ \A w \in Threads : pc'[w] = "run"
      /\ UNCHANGED <<started, exited, accepted>>
  BY DEF InitWorkers
<1>3. InLoop = {} /\ InLoop' = {} /\ Exited = {} /\ Exited' = {}
  BY <1>2 DEF IInv, Begun, InLoop, Exited
<1>4. StartCount' /\ ExitCount'
  BY <1>2, <1>3 DEF IInv, StartCount, ExitCount
<1>5. Begun' /\ Pushing' /\ AllLeft' /\ ThereWhenUsed'
  BY <1>2 DEF Begun, Pushing, AllLeft, ThereWhenUsed
<1> QED
  BY <1>1, <1>4, <1>5 DEF IInv

LEMMA RunKeeps ==
  ASSUME IInv, NEW w \in Threads, Run(w)
  PROVE  IInv'
<1>1. /\ \A v \in Threads : pc'[v] = IF v = w THEN "poll" ELSE pc[v]
      /\ pc[w] = "run" /\ started' = started + 1
      /\ UNCHANGED <<accepted, exited>>
  BY DEF IInv, TypeOK, Run
<1>2. main \in {"init", "initwait"} /\ main' \in {"init", "initwait"}
  BY <1>1 DEF IInv, TypeOK, Begun, ThereWhenUsed, Run, Wake
<1>3. /\ InLoop \in SUBSET Threads /\ InLoop' \in SUBSET Threads
      /\ InLoop' = InLoop \cup {w} /\ w \notin InLoop
      /\ Exited' = Exited
  BY <1>1 DEF InLoop, Exited
<1>4. StartCount' /\ started' \in 0..WorkerNum
  <2>1. Cardinality(InLoop') = started + 1
    BY <1>3, Counted DEF IInv, StartCount
  <2>2. Cardinality(InLoop') \in 0..WorkerNum
    BY <1>3, Counted
  <2> QED
    BY <1>1, <2>1, <2>2 DEF StartCount
<1>5. TypeOK'
  <2>1. pc' \in [Threads -> {"none", "run", "poll", "invoke", "drain", "read",
                             "left", "exited", "undefined"}]
    BY DEF Run, IInv, TypeOK
  <2> QED
    BY <1>2, <1>4, <2>1 DEF Run, IInv, TypeOK
<1>6. ExitCount' /\ Begun' /\ Pushing' /\ AllLeft' /\ ThereWhenUsed'
  BY <1>1, <1>2, <1>3 DEF IInv, ExitCount, Begun, Pushing, AllLeft, ThereWhenUsed
<1> QED
  BY <1>4, <1>5, <1>6 DEF IInv

LEMMA ExitKeeps ==
  ASSUME IInv, NEW w \in Threads, Exit(w)
  PROVE  IInv'
<1>1. /\ \A v \in Threads : pc'[v] = IF v = w THEN "exited" ELSE pc[v]
      /\ pc[w] = "left" /\ exited' = exited + 1
      /\ UNCHANGED <<accepted, started>>
  BY DEF IInv, TypeOK, Exit
<1>2. main' = main \/ (main = "initwait" /\ main' = "init") \/ (main = "exitwait" /\ main' = "exit")
  BY DEF Exit, Wake
<1>3. /\ Exited \in SUBSET Threads /\ Exited' \in SUBSET Threads
      /\ Exited' = Exited \cup {w} /\ w \notin Exited
      /\ InLoop' = InLoop
  BY <1>1 DEF InLoop, Exited
<1>4. ExitCount' /\ exited' \in 0..WorkerNum
  <2>1. Cardinality(Exited') = Cardinality(Exited) + 1
    BY <1>3, Counted
  <2>2. Cardinality(Exited') \in 0..WorkerNum /\ Cardinality(Exited) \in Nat
    BY <1>3, Counted, NumAssumption
  <2>3. exited \in Nat
    BY NumAssumption DEF IInv, TypeOK
  <2> QED
    BY <1>1, <2>1, <2>2, <2>3, NumAssumption DEF IInv, ExitCount
<1>5. TypeOK'
  <2>1. pc' \in [Threads -> {"none", "run", "poll", "invoke", "drain", "read",
                             "left", "exited", "undefined"}]
    BY DEF Exit, IInv, TypeOK
  <2> QED
    BY <1>2, <1>4, <2>1 DEF Exit, IInv, TypeOK
<1>6. main # "broken" /\ main # "deleted"
  BY <1>1, <1>3 DEF IInv, AllLeft
<1>7. StartCount' /\ Begun' /\ Pushing' /\ AllLeft' /\ ThereWhenUsed'
  BY <1>1, <1>2, <1>3, <1>6 DEF IInv, StartCount, Begun, Pushing, AllLeft, ThereWhenUsed
<1> QED
  BY <1>4, <1>5, <1>7 DEF IInv

LEMMA MainStepKeeps ==
  ASSUME IInv, MainStep \/ Accept \/ AcceptRc \/ \E s \in Signals : Raise(s)
  PROVE  IInv'
<1> USE DEF workerVars
<1>1. TypeOK
  BY DEF IInv
<1>2. CASE InitWorkers
  BY <1>2, InitWorkersKeeps
<1>3. CASE InitWait
  <2>1. TypeOK'
    BY <1>1, <1>3 DEF TypeOK, InitWait
  <2> QED
    BY <1>3, <2>1, MainKeeps DEF InitWait
<1>4. CASE Listen
  <2>1. TypeOK' /\ main \in {"listen", "listenrc"} /\ main' \in {"listenrc", "poll", "unbound"}
    BY <1>1, <1>4 DEF TypeOK, Listen, NetListen
  <2> QED
    BY <1>4, <2>1, MainKeeps DEF Listen
<1>5. CASE Accept
  <2>1. TypeOK'
    BY <1>1, <1>5 DEF TypeOK, Accept
  <2> QED
    BY <1>5, <2>1, MainKeeps DEF Accept
<1>6. CASE Push
  <2>1. accepted < MaxLinks /\ accepted + 1 \in Links
    BY <1>1, <1>6, BoundAssumption DEF IInv, Pushing, Push, TypeOK, Links
  <2>2. conns' \in [Threads -> Seq(Links)]
    <3>1. conns[Index] \in Seq(Links) /\ Append(conns[Index], accepted + 1) \in Seq(Links)
      BY <1>1, <2>1, IndexIs DEF TypeOK
    <3> QED
      BY <1>1, <1>6, <3>1 DEF Push, TypeOK
  <2>3. TypeOK'
    BY <1>1, <1>6, <2>2 DEF TypeOK, Push
  <2> QED
    BY <1>6, <2>1, <2>3, MainKeeps DEF Push
<1>7. CASE Send
  <2>1. sent' \in [Threads -> SUBSET {"async", "stop"}]
    BY <1>1, <1>7 DEF Send, TypeOK
  <2>2. accepted' \in 0..MaxLinks
    BY <1>1, <1>7, BoundAssumption DEF IInv, Pushing, Send, TypeOK
  <2>3. TypeOK'
    BY <1>1, <1>7, <2>1, <2>2 DEF TypeOK, Send
  <2> QED
    BY <1>7, <2>3, MainKeeps DEF Send
<1>8. CASE AcceptRc
  <2>1. TypeOK'
    BY <1>1, <1>8, BoundAssumption DEF TypeOK, AcceptRc
  <2> QED
    BY <1>8, <2>1, MainKeeps DEF AcceptRc
<1>9. ASSUME NEW s \in Signals, Raise(s) PROVE IInv'
  <2>1. sig' \in [Signals -> {"quiet", "raised", "pending", "handled"}]
    BY <1>1, <1>9 DEF Raise, TypeOK
  <2>2. TypeOK'
    BY <1>1, <1>9, <2>1 DEF TypeOK, Raise
  <2>3. main' = main /\ main \notin {"start", "init", "initwait", "deleted"}
    BY <1>9 DEF Raise
  <2> QED
    BY <1>9, <2>2, <2>3 DEF IInv, Raise, Begun, StartCount, InLoop, ExitCount, Exited,
                            Pushing, AllLeft, ThereWhenUsed
<1>10. CASE CollectSignals
  <2>1. sig' \in [Signals -> {"quiet", "raised", "pending", "handled"}]
    BY <1>1, <1>10 DEF CollectSignals, TypeOK
  <2>2. TypeOK'
    BY <1>1, <1>10, <2>1 DEF TypeOK, CollectSignals
  <2> QED
    BY <1>10, <2>2, MainKeeps DEF CollectSignals
<1>11. ASSUME NEW s \in Signals, OnSignal(s) PROVE IInv'
  <2>1. /\ sig' \in [Signals -> {"quiet", "raised", "pending", "handled"}]
        /\ sent' \in [Threads -> SUBSET {"async", "stop"}]
    BY <1>1, <1>11 DEF OnSignal, TypeOK
  <2>2. exited' \in 0..WorkerNum /\ again' \in BOOLEAN
    BY <1>11, NumAssumption DEF OnSignal
  <2>3. TypeOK'
    BY <1>1, <1>11, <2>1, <2>2 DEF TypeOK, OnSignal
  <2> QED
    BY <1>11, <2>3, MainKeeps DEF OnSignal
<1>12. CASE ExitWait
  <2>1. TypeOK'
    BY <1>1, <1>12 DEF TypeOK, ExitWait
  <2> QED
    BY <1>12, <2>1, MainKeeps DEF ExitWait
<1>13. CASE Delete
  <2>1. conns' \in [Threads -> Seq(Links)]
    BY <1>13 DEF Delete, Destroy
  <2>2. TypeOK'
    BY <1>1, <1>13, <2>1 DEF TypeOK, Delete
  <2> QED
    BY <1>13, <2>2, MainKeeps DEF Delete
<1> QED
  BY <1>2, <1>3, <1>4, <1>5, <1>6, <1>7, <1>8, <1>9, <1>10, <1>11, <1>12, <1>13 DEF MainStep

LEMMA WorkerStepKeeps ==
  ASSUME IInv, NEW w \in Threads, WorkerStep(w)
  PROVE  IInv'
<1> USE DEF mainVars
<1> DEFINE PCs == {"none", "run", "poll", "invoke", "drain", "read",
                   "left", "exited", "undefined"}
<1>1. TypeOK
  BY DEF IInv
<1>2. ASSUME NEW q \in Looping PROVE [pc EXCEPT ![w] = q] \in [Threads -> PCs]
  BY <1>1 DEF TypeOK, Looping
<1>3. pc = [pc EXCEPT ![w] = pc[w]]
  BY <1>1 DEF TypeOK
<1>4. CASE Poll(w)
  <2>1. todo' \in [Threads -> SUBSET {"async", "stop", "read"}]
    BY <1>1, <1>4 DEF Poll, TypeOK
  <2>2. sent' \in [Threads -> SUBSET {"async", "stop"}]
    BY <1>1, <1>4 DEF Poll, TypeOK
  <2>3. pc[w] \in Looping /\ "invoke" \in Looping /\ pc' = [pc EXCEPT ![w] = "invoke"]
    BY <1>4 DEF Poll, Looping
  <2>4. TypeOK'
    BY <1>1, <1>2, <1>4, <2>1, <2>2, <2>3 DEF Poll, TypeOK
  <2> QED
    BY <1>4, <2>3, <2>4, LoopKeeps DEF Poll
<1>5. CASE OnAsync(w)
  <2>1. todo' \in [Threads -> SUBSET {"async", "stop", "read"}]
    BY <1>1, <1>5 DEF OnAsync, TypeOK
  <2>2. pc[w] \in Looping /\ "drain" \in Looping /\ pc' = [pc EXCEPT ![w] = "drain"]
    BY <1>5 DEF OnAsync, Looping
  <2>3. TypeOK'
    BY <1>1, <1>2, <1>5, <2>1, <2>2 DEF OnAsync, TypeOK
  <2> QED
    BY <1>5, <2>2, <2>3, LoopKeeps DEF OnAsync
<1>6. CASE Pop(w)
  <2>1. conns[w] \in Seq(Links) /\ conns[w] # <<>> /\ pc[w] \in Looping /\ pc' = pc
    BY <1>1, <1>6 DEF Pop, Handed, TypeOK, Looping
  <2>2. Tail(conns[w]) \in Seq(Links) /\ Head(conns[w]) \in Links
    BY <2>1
  <2>3. conns' \in [Threads -> Seq(Links)] /\ served' \in [Threads -> SUBSET Links]
    BY <1>1, <1>6, <2>2 DEF Pop, Popped, TypeOK
  <2>4. TypeOK'
    BY <1>1, <1>6, <2>3 DEF Pop, TypeOK
  <2> QED
    BY <1>3, <1>6, <2>1, <2>4, LoopKeeps DEF Pop
<1>7. CASE Drained(w)
  <2>1. pc[w] \in Looping /\ "invoke" \in Looping /\ pc' = [pc EXCEPT ![w] = "invoke"]
    BY <1>7 DEF Drained, Looping
  <2>2. TypeOK'
    BY <1>1, <1>2, <1>7, <2>1 DEF Drained, TypeOK
  <2> QED
    BY <1>7, <2>1, <2>2, LoopKeeps DEF Drained
<1>8. CASE Race(w)
  <2>1. pc[w] \in Looping /\ "undefined" \in Looping /\ pc' = [pc EXCEPT ![w] = "undefined"]
    BY <1>8 DEF Race, Looping
  <2>2. TypeOK'
    BY <1>1, <1>2, <1>8, <2>1 DEF Race, TypeOK
  <2> QED
    BY <1>8, <2>1, <2>2, LoopKeeps DEF Race
<1>9. CASE Read(w)
  <2>1. todo' \in [Threads -> SUBSET {"async", "stop", "read"}]
    BY <1>1, <1>9 DEF Read, TypeOK
  <2>2. pc[w] \in Looping /\ "read" \in Looping /\ pc' = [pc EXCEPT ![w] = "read"]
    BY <1>9 DEF Read, Looping
  <2>3. TypeOK'
    BY <1>1, <1>2, <1>9, <2>1, <2>2 DEF Read, TypeOK
  <2> QED
    BY <1>9, <2>2, <2>3, LoopKeeps DEF Read
<1>10. CASE ReadDone(w)
  <2>1. served' \in [Threads -> SUBSET Links]
    BY <1>1, <1>10 DEF ReadDone, TypeOK
  <2>2. pc[w] \in Looping /\ "invoke" \in Looping /\ pc' = [pc EXCEPT ![w] = "invoke"]
    BY <1>10 DEF ReadDone, Looping
  <2>3. TypeOK'
    BY <1>1, <1>2, <1>10, <2>1, <2>2 DEF ReadDone, TypeOK
  <2> QED
    BY <1>10, <2>2, <2>3, LoopKeeps DEF ReadDone
<1>11. CASE OnStopAsync(w)
  <2>1. /\ todo' \in [Threads -> SUBSET {"async", "stop", "read"}]
        /\ breaking' \in [Threads -> BOOLEAN]
    BY <1>1, <1>11 DEF OnStopAsync, TypeOK
  <2>2. pc[w] \in Looping /\ pc' = pc
    BY <1>11 DEF OnStopAsync, Looping
  <2>3. TypeOK'
    BY <1>1, <1>11, <2>1 DEF OnStopAsync, TypeOK
  <2> QED
    BY <1>3, <1>11, <2>2, <2>3, LoopKeeps DEF OnStopAsync
<1>12. CASE Invoked(w)
  <2>1. PICK q \in Looping : pc[w] \in Looping /\ pc' = [pc EXCEPT ![w] = q]
    BY <1>12 DEF Invoked, Looping
  <2>2. TypeOK'
    BY <1>1, <1>2, <1>12, <2>1 DEF Invoked, TypeOK
  <2> QED
    BY <1>12, <2>1, <2>2, LoopKeeps DEF Invoked
<1> QED
  BY <1>4, <1>5, <1>6, <1>7, <1>8, <1>9, <1>10, <1>11, <1>12, RunKeeps, ExitKeeps DEF WorkerStep

LEMMA InvAlways == Spec => []IInv
<1>1. IInv /\ [Next]_vars => IInv'
  <2> SUFFICES ASSUME IInv, [Next]_vars PROVE IInv'
    OBVIOUS
  <2>1. CASE UNCHANGED vars
    BY <2>1 DEF vars, mainVars, workerVars, IInv, TypeOK, Begun, StartCount, ExitCount, InLoop,
                Exited, Pushing, AllLeft, ThereWhenUsed
  <2> QED
    BY <2>1, MainStepKeeps, WorkerStepKeeps DEF Next
<1> QED
  BY <1>1, InvInit, PTL DEF Spec

-----------------------------------------------------------------------------
(* Every variable keeps its type; the two counters never exceed the number *)
(* of workers, and the worker a connection is handed to exists.            *)
THEOREM TypeCorrect == Spec => []TypeOK
<1>1. IInv => TypeOK
  BY DEF IInv
<1> QED
  BY <1>1, InvAlways, PTL

(* The main thread listens only when every worker has reached its loop,    *)
(* and deletes the workers only when every one has left it, however        *)
(* signals, connections and the workers' steps interleave, and also when a *)
(* second onSignal has set the count of exits back to 0.                   *)
THEOREM WorkersThere == Spec => []ThereWhenUsed
<1>1. IInv => ThereWhenUsed
  BY DEF IInv
<1> QED
  BY <1>1, InvAlways, PTL
=============================================================================
