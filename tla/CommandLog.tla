---------------------------- MODULE CommandLog ----------------------------
(***************************************************************************)
(* What the backlog promises, without buffers, ids or merging: threads     *)
(* issue commands, and a log grows by batches of issued commands.  Some    *)
(* commands are late.  A batch may leave commands out for good, but the    *)
(* log never repeats a command, never shows two commands of one thread in  *)
(* another order than they were issued unless the one shown second is      *)
(* late, and never takes back what it has shown.                           *)
(***************************************************************************)
EXTENDS Naturals, Sequences

CONSTANT Threads

VARIABLES issued,  \* how many commands thread t has issued
          log,     \* the commands logged: records with fields tid and seq
          late     \* the late commands: pairs <<tid, seq>>

vars == <<issued, log, late>>

Init ==
  /\ issued = [t \in Threads |-> 0]
  /\ log = <<>>
  /\ late = {}

Issue(t) ==
  /\ issued' = [issued EXCEPT ![t] = @ + 1]
  /\ UNCHANGED <<log, late>>

(* A command that is late has not been issued yet when it is found so.     *)
Delay ==
  /\ late \subseteq late'
  /\ \A c \in late' \ late : c = <<c[1], issued[c[1]] + 1>>
  /\ UNCHANGED <<issued, log>>

InThreadOrder(s) ==
  \A i, j \in 1..Len(s) :
    i < j /\ s[i].tid = s[j].tid =>
      \/ s[i].seq < s[j].seq
      \/ s[i].seq # s[j].seq /\ <<s[i].tid, s[j].seq>> \in late

AppendBatch ==
  /\ Len(log') >= Len(log)
  /\ \A i \in 1..Len(log) : log'[i] = log[i]
  /\ InThreadOrder(log')
  /\ \A i \in 1..Len(log') : log'[i].seq \in 1..issued[log'[i].tid]
  /\ UNCHANGED <<issued, late>>

Next == AppendBatch \/ Delay \/ (\E t \in Threads : Issue(t))

Spec == Init /\ [][Next]_vars
=============================================================================
