------------------------- MODULE PersistenceProofs -------------------------
(***************************************************************************)
(* Proofs about Persistence, for every number of workers, keys, commands   *)
(* and crashes and for every rotation size.                                *)
(*                                                                         *)
(* That recovery finds what was logged is not inductive: dump and place    *)
(* may come from different saves.  The invariant says of the dump on disk, *)
(* and of the one a child is writing, that they hold what lies before      *)
(* every place that may yet be joined to them.                             *)
(***************************************************************************)
EXTENDS Persistence, SequenceLemmas, FiniteSetTheorems

(* Every key is written through one worker: the order of its commands in   *)
(* the log is then the order of their execution.  Two workers that write   *)
(* one key may feed their commands in the other order (see Backlog).       *)
OwnKeys == \A v, w \in Workers : KeysOf[v] \cap KeysOf[w] # {} => v = w

-----------------------------------------------------------------------------
(* The inductive invariant, part by part.                                  *)

(* In the files the commands of a key lie in the order of execution, ...   *)
OrderedFiles(files) ==
  \A f, g \in 1..Len(files) : \A i \in 1..Len(files[f]), j \in 1..Len(files[g]) :
    files[f][i].key = files[g][j].key /\ (f < g \/ (f = g /\ i < j)) =>
      files[f][i].n <= files[g][j].n

LogOrdered == OrderedFiles(aof)

(* ... so do those still in the backlog, and they come after the files, ...*)
BacklogOrdered ==
  \A i, j \in 1..Len(backlog) :
    backlog[i].key = backlog[j].key /\ i < j => backlog[i].n <= backlog[j].n

BacklogAfterLog ==
  \A f \in 1..Len(aof) : \A i \in 1..Len(aof[f]), j \in 1..Len(backlog) :
    aof[f][i].key = backlog[j].key => aof[f][i].n <= backlog[j].n

(* ... and the command a worker has not fed yet comes last.                *)
ExecutedLast ==
  \A w \in Workers : executed[w] # NoCmd =>
    /\ executed[w].key \in KeysOf[w]
    /\ executed[w].n <= mem[executed[w].key]
    /\ \A f \in 1..Len(aof) : \A i \in 1..Len(aof[f]) :
         aof[f][i].key = executed[w].key => aof[f][i].n <= executed[w].n
    /\ \A j \in 1..Len(backlog) :
         backlog[j].key = executed[w].key => backlog[j].n <= executed[w].n

(* The memory of a running server is as new as everything logged.          *)
MemNewest ==
  up => /\ \A f \in 1..Len(aof) : \A i \in 1..Len(aof[f]) : aof[f][i].n <= mem[aof[f][i].key]
        /\ \A j \in 1..Len(backlog) : backlog[j].n <= mem[backlog[j].key]

(* No number is larger than that of the last command.                      *)
Numbered ==
  /\ \A k \in Keys : mem[k] <= cmds /\ db[k] <= cmds
  /\ \A f \in 1..Len(aof) : \A i \in 1..Len(aof[f]) : aof[f][i].n <= cmds

(* What a crash leaves of the memory of the process.                       *)
NothingSurvives ==
  ~up => /\ executed = [w \in Workers |-> NoCmd]
         /\ backlog = <<>>
         /\ child = NoChild
         /\ conf = Start

(* A place lies inside the files, and a dump that belongs to it contains   *)
(* what lies before it.                                                    *)
IsPlace(files, c) == c.name > 0 => c.off <= Len(files[c.name])

Before(f, i, c) == f < c.name \/ (f = c.name /\ i <= c.off)

HoldsBefore(files, d, c) ==
  \A f \in 1..Len(files) : \A i \in 1..Len(files[f]) :
    Before(f, i, c) => files[f][i].n <= d[files[f][i].key]

PlacesInside == IsPlace(aof, conf) /\ IsPlace(aof, conf_file) /\ IsPlace(aof, child.at)

DumpCovers ==
  /\ HoldsBefore(aof, db, conf) /\ HoldsBefore(aof, db, conf_file)
  /\ child.running => /\ HoldsBefore(aof, child.dump, conf)
                      /\ HoldsBefore(aof, child.dump, conf_file)
                      /\ HoldsBefore(aof, child.dump, child.at)

(* A dump may be newer than the memory recovered from it: it holds a write *)
(* that was never logged, and the replay goes back behind it.  Then the    *)
(* replay from either place finds a command for the key.                   *)
ReplayedFrom(files, k, c) ==
  \E f \in 1..Len(files) : \E i \in 1..Len(files[f]) :
    ~Before(f, i, c) /\ files[f][i].key = k

DumpNotAhead ==
  up => /\ \A k \in Keys :
             \/ db[k] <= mem[k]
             \/ ReplayedFrom(aof, k, conf) /\ ReplayedFrom(aof, k, conf_file)
        /\ child.running => \A k \in Keys : child.dump[k] <= mem[k]

IInv ==
  /\ TypeOK
  /\ LogOrdered /\ BacklogOrdered /\ BacklogAfterLog /\ ExecutedLast
  /\ MemNewest /\ Numbered /\ NothingSurvives
  /\ PlacesInside /\ DumpCovers /\ DumpNotAhead
-----------------------------------------------------------------------------
(* A non-empty set of naturals that is bounded has a greatest element.     *)
LEMMA MaxOf ==
  ASSUME NEW B \in Nat, NEW S \in SUBSET (0..B), S # {}
  PROVE  /\ Max(S) \in S
         /\ \A y \in S : y <= Max(S)
<1> DEFINE T == {B - x : x \in S}
<1>1. T \in SUBSET Nat
  OBVIOUS
<1>2. T # {}
  <2>1. PICK x : x \in S
    OBVIOUS
  <2>2. B - x \in T
    BY <2>1
  <2> QED
    BY <2>2
<1>3. PICK m \in T : \A y \in T : m <= y
  BY <1>1, <1>2, LeastNat
<1>4. PICK x \in S : m = B - x
  OBVIOUS
<1>5. \A y \in S : x >= y
  <2> TAKE y \in S
  <2>1. B - y \in T
    OBVIOUS
  <2> QED
    BY <1>3, <1>4, <2>1
<1> QED
  BY <1>5 DEF Max
-----------------------------------------------------------------------------
(* Type correctness.                                                       *)
LEMMA WriteType ==
  ASSUME NEW files \in Seq(Seq(Cmd)), files # <<>>, NEW b \in Seq(Cmd)
  PROVE  /\ Write(files, b) \in Seq(Seq(Cmd))
         /\ Len(Write(files, b)) >= Len(files)
<1>1. files[Len(files)] \in Seq(Cmd)
  OBVIOUS
<1>2. files[Len(files)] \o b \in Seq(Cmd)
  BY <1>1
<1> QED
  BY <1>2 DEF Write

LEMMA TypeInit == Init => TypeOK
<1> SUFFICES ASSUME Init PROVE TypeOK
  OBVIOUS
<1>1. Empty \in Data
  BY BoundAssumption DEF Empty, Data
<1>2. aof \in Seq(Seq(Cmd)) /\ aof # <<>>
  BY DEF Init
<1>3. Start \in Place
  BY <1>2 DEF Start, Place
<1> QED
  BY <1>1, <1>2, <1>3, BoundAssumption DEF Init, TypeOK, NoChild

-----------------------------------------------------------------------------
(* The recovery finds the dumped value of a key of which nothing is        *)
(* replayed, and the last command of every other key.                      *)
LEMMA ReplayedIs ==
  ASSUME TypeOK, NEW k
  PROVE  /\ \A x \in Replayed(k) :
              \E f \in 1..Len(aof) : \E i \in 1..Len(aof[f]) :
                x = <<f, i>> /\ ~Before(f, i, conf_file) /\ aof[f][i].key = k
         /\ \A f \in 1..Len(aof) : \A i \in 1..Len(aof[f]) :
              ~Before(f, i, conf_file) /\ aof[f][i].key = k => <<f, i>> \in Replayed(k)
<1>1. conf_file.off \in Nat /\ conf_file.name \in Nat
  BY DEF TypeOK, Place
<1>2. \A f \in 1..Len(aof) : Len(aof[f]) \in Nat
  BY DEF TypeOK
<1>3. ASSUME NEW x \in Replayed(k)
      PROVE  \E f \in 1..Len(aof) : \E i \in 1..Len(aof[f]) :
               x = <<f, i>> /\ ~Before(f, i, conf_file) /\ aof[f][i].key = k
  <2>1. PICK f \in 1..Len(aof) : \E i \in (From(f) + 1)..Len(aof[f]) :
          f >= conf_file.name /\ aof[f][i].key = k /\ x = <<f, i>>
    BY <1>3 DEF Replayed
  <2>2. PICK i \in (From(f) + 1)..Len(aof[f]) :
          f >= conf_file.name /\ aof[f][i].key = k /\ x = <<f, i>>
    BY <2>1
  <2>3. i \in 1..Len(aof[f]) /\ ~Before(f, i, conf_file)
    BY <1>1, <1>2, <2>2 DEF From, Before
  <2> QED
    BY <2>2, <2>3
<1>4. ASSUME NEW f \in 1..Len(aof), NEW i \in 1..Len(aof[f]),
             ~Before(f, i, conf_file), aof[f][i].key = k
      PROVE  <<f, i>> \in Replayed(k)
  <2>1. f >= conf_file.name /\ i \in (From(f) + 1)..Len(aof[f])
    BY <1>1, <1>2, <1>4 DEF From, Before
  <2> QED
    BY <1>4, <2>1 DEF Replayed
<1> QED
  BY <1>3, <1>4

LEMMA LastReplayed ==
  ASSUME TypeOK, NEW k, Replayed(k) # {}
  PROVE  \E x \in Replayed(k) : \A y \in Replayed(k) \ {x} : Later(x, y)
<1>1. Len(aof) \in Nat /\ \A f \in 1..Len(aof) : Len(aof[f]) \in Nat
  BY DEF TypeOK
<1>2. \A y \in Replayed(k) : \E f \in 1..Len(aof) : \E i \in 1..Len(aof[f]) : y = <<f, i>>
  BY ReplayedIs
<1> DEFINE F == {f \in 1..Len(aof) : \E i \in 1..Len(aof[f]) : <<f, i>> \in Replayed(k)}
<1>3. F # {}
  BY <1>2
<1>4. PICK f \in F : \A g \in F : g <= f
  <2>1. F \in SUBSET (0..Len(aof))
    BY <1>1
  <2> HIDE DEF F
  <2> QED
    BY <1>1, <1>3, <2>1, MaxOf
<1> DEFINE I == {i \in 1..Len(aof[f]) : <<f, i>> \in Replayed(k)}
<1>5. I # {}
  BY <1>4
<1>6. PICK i \in I : \A j \in I : j <= i
  <2>1. I \in SUBSET (0..Len(aof[f])) /\ Len(aof[f]) \in Nat
    BY <1>1, <1>4
  <2> HIDE DEF I
  <2> QED
    BY <1>5, <2>1, MaxOf
<1>7. ASSUME NEW y \in Replayed(k) \ {<<f, i>>} PROVE Later(<<f, i>>, y)
  <2>1. PICK g, j : g \in 1..Len(aof) /\ j \in 1..Len(aof[g]) /\ y = <<g, j>>
    BY <1>2
  <2>2. g \in F
    BY <2>1
  <2>3. g = f => j \in I /\ j # i
    BY <2>1
  <2>4. g <= f /\ (g = f => j < i)
    BY <1>1, <1>4, <1>6, <2>2, <2>3
  <2> QED
    BY <1>1, <2>1, <2>4 DEF Later
<1> QED
  BY <1>6, <1>7

LEMMA RecoveredIs ==
  ASSUME TypeOK, NEW k \in Keys
  PROVE  \/ ~ReplayedFrom(aof, k, conf_file) /\ Recovered[k] = db[k]
         \/ \E f \in 1..Len(aof) : \E i \in 1..Len(aof[f]) :
              /\ ~Before(f, i, conf_file) /\ aof[f][i].key = k
              /\ Recovered[k] = aof[f][i].n
              /\ \A g \in 1..Len(aof) : \A j \in 1..Len(aof[g]) :
                   ~Before(g, j, conf_file) /\ aof[g][j].key = k => g < f \/ (g = f /\ j <= i)
<1>1. CASE Replayed(k) = {}
  <2>1. Recovered[k] = db[k]
    BY <1>1 DEF Recovered
  <2>2. ~ReplayedFrom(aof, k, conf_file)
    BY <1>1, ReplayedIs DEF ReplayedFrom
  <2> QED
    BY <2>1, <2>2
<1>2. CASE Replayed(k) # {}
  <2> DEFINE x == CHOOSE x \in Replayed(k) : \A y \in Replayed(k) \ {x} : Later(x, y)
  <2>1. x \in Replayed(k) /\ \A y \in Replayed(k) \ {x} : Later(x, y)
    BY <1>2, LastReplayed
  <2>2. Recovered[k] = aof[x[1]][x[2]].n
    BY <1>2 DEF Recovered
  <2> HIDE DEF x
  <2>3. PICK f, i : /\ f \in 1..Len(aof) /\ i \in 1..Len(aof[f])
                    /\ x = <<f, i>> /\ ~Before(f, i, conf_file) /\ aof[f][i].key = k
    BY <2>1, ReplayedIs
  <2>4. ASSUME NEW g \in 1..Len(aof), NEW j \in 1..Len(aof[g]),
               ~Before(g, j, conf_file), aof[g][j].key = k
        PROVE  g < f \/ (g = f /\ j <= i)
    <3>1. <<g, j>> \in Replayed(k)
      BY <2>4, ReplayedIs
    <3>2. <<g, j>> = <<f, i>> \/ Later(<<f, i>>, <<g, j>>)
      BY <2>1, <2>3, <3>1
    <3> QED
      BY <2>3, <3>2 DEF TypeOK, Later
  <2> QED
    BY <2>2, <2>3, <2>4
<1> QED
  BY <1>1, <1>2

(* The commands in the files and in the backlog.                           *)
LEMMA CmdTypes ==
  ASSUME TypeOK
  PROVE  /\ Len(aof) \in Nat \ {0}
         /\ \A f \in 1..Len(aof) : aof[f] \in Seq(Cmd) /\ Len(aof[f]) \in Nat
         /\ \A f \in 1..Len(aof) : \A i \in 1..Len(aof[f]) :
              aof[f][i].n \in 0..MaxCmds /\ aof[f][i].n \in Nat /\ aof[f][i].key \in Keys
         /\ Len(backlog) \in Nat
         /\ \A i \in 1..Len(backlog) :
              backlog[i] \in Cmd /\ backlog[i].n \in Nat /\ backlog[i].key \in Keys
<1>1. \A c \in Cmd : c.n \in 0..MaxCmds /\ c.n \in Nat /\ c.key \in Keys
  BY BoundAssumption DEF Cmd
<1>2. \A f \in 1..Len(aof) : aof[f] \in Seq(Cmd) /\ Len(aof[f]) \in Nat
  BY DEF TypeOK
<1>3. \A f \in 1..Len(aof) : \A i \in 1..Len(aof[f]) : aof[f][i] \in Cmd
  BY <1>2
<1>4. \A i \in 1..Len(backlog) : backlog[i] \in Cmd
  BY DEF TypeOK
<1>5. Len(aof) \in Nat \ {0} /\ Len(backlog) \in Nat
  BY DEF TypeOK
<1> QED
  BY <1>1, <1>2, <1>3, <1>4, <1>5

LEMMA RecoveredType == TypeOK => Recovered \in Data
<1> SUFFICES ASSUME TypeOK PROVE Recovered \in Data
  OBVIOUS
<1>1. ASSUME NEW k \in Keys PROVE Recovered[k] \in 0..MaxCmds
  <2>1. \A f \in 1..Len(aof) : \A i \in 1..Len(aof[f]) : aof[f][i].n \in 0..MaxCmds
    BY CmdTypes
  <2>2. db[k] \in 0..MaxCmds
    BY DEF TypeOK, Data
  <2> QED
    BY <2>1, <2>2, RecoveredIs
<1>2. Recovered = [k \in Keys |-> Recovered[k]]
  BY DEF Recovered
<1> QED
  BY <1>1, <1>2 DEF Data

-----------------------------------------------------------------------------
LEMMA TypeStep ==
  ASSUME TypeOK, [Next]_vars
  PROVE  TypeOK'
<1> USE DEF disk
<1>1. /\ Empty \in Data
      /\ [w \in Workers |-> NoCmd] \in [Workers -> Cmd \cup {NoCmd}]
      /\ <<>> \in Seq(Cmd)
  BY BoundAssumption DEF Empty, Data
<1>2. Start \in Place /\ CurRollFile \in Place
  BY DEF TypeOK, Start, Place, CurRollFile
<1>3. ASSUME NEW w \in Workers, NEW k \in KeysOf[w], Exec(w, k) PROVE TypeOK'
  <2>1. k \in Keys
    BY KeysOfAssumption
  <2>2. cmds + 1 \in 1..MaxCmds
    BY <1>3, BoundAssumption DEF Exec, TypeOK
  <2>3. [key |-> k, n |-> cmds + 1] \in Cmd
    BY <2>1, <2>2 DEF Cmd
  <2>4. executed' \in [Workers -> Cmd \cup {NoCmd}]
    BY <1>3, <2>3 DEF Exec, TypeOK
  <2>5. mem' \in Data /\ cmds' \in 0..MaxCmds
    BY <1>3, <2>1, <2>2, BoundAssumption DEF Exec, TypeOK, Data
  <2> QED
    BY <1>3, <2>4, <2>5 DEF Exec, TypeOK, Place
<1>4. ASSUME NEW w \in Workers, Feed(w) PROVE TypeOK'
  <2>1. executed[w] \in Cmd
    BY <1>4 DEF Feed, TypeOK
  <2>2. backlog' \in Seq(Cmd)
    BY <1>4, <2>1 DEF Feed, TypeOK
  <2>3. executed' \in [Workers -> Cmd \cup {NoCmd}]
    BY <1>4 DEF Feed, TypeOK
  <2> QED
    BY <1>4, <2>2, <2>3 DEF Feed, TypeOK, Place
<1>5. ASSUME Flush PROVE TypeOK'
  <2>1. aof' \in Seq(Seq(Cmd)) /\ Len(aof') >= Len(aof) /\ aof' # <<>>
    BY <1>5, WriteType DEF Flush, TypeOK
  <2>2. Place \subseteq Place'
    BY <2>1 DEF TypeOK, Place
  <2>3. backlog' \in Seq(Cmd)
    BY <1>5 DEF Flush
  <2>4. conf' \in Place' /\ conf_file' \in Place'
    BY <1>5, <2>2 DEF Flush, TypeOK
  <2>5. child' \in [dump : Data, at : Place', running : BOOLEAN]
    BY <1>5, <2>2 DEF Flush, TypeOK
  <2> QED
    BY <1>5, <2>1, <2>3, <2>4, <2>5 DEF Flush, TypeOK
<1>6. ASSUME ConfFlush PROVE TypeOK'
  BY <1>6 DEF ConfFlush, TypeOK, Place
<1>7. ASSUME Bgsave PROVE TypeOK'
  <2>1. child' \in [dump : Data, at : Place, running : BOOLEAN]
    BY <1>2, <1>7 DEF Bgsave, TypeOK
  <2> QED
    BY <1>7, <2>1 DEF Bgsave, TypeOK, Place
<1>8. ASSUME BgsaveFinish PROVE TypeOK'
  <2>1. Dumped \subseteq Data
    <3>1. Parts(child.dump) \subseteq Data
      <4>1. child.dump \in Data /\ 0 \in 0..MaxCmds
        BY BoundAssumption DEF TypeOK
      <4> QED
        BY <4>1 DEF Parts, Data
    <3> QED
      BY <3>1 DEF TypeOK, Dumped
  <2>2. db' \in Data /\ conf' \in Place
    BY <1>8, <2>1 DEF BgsaveFinish, TypeOK, DumpPlace
  <2>3. child' \in [dump : Data, at : Place, running : BOOLEAN]
    BY <1>1, <1>2, <1>8 DEF BgsaveFinish, NoChild
  <2> QED
    BY <1>8, <2>2, <2>3 DEF BgsaveFinish, TypeOK, Place
<1>9. ASSUME Die, aof' \in Seq(Seq(Cmd)), Len(aof') >= Len(aof) PROVE TypeOK'
  <2>1. Place \subseteq Place' /\ aof' # <<>>
    <3>1. Len(aof) \in Nat \ {0} /\ Len(aof') \in Nat
      BY <1>9, CmdTypes
    <3>2. 0..Len(aof) \subseteq 0..Len(aof') /\ Len(aof') # 0
      BY <1>9, <3>1
    <3> QED
      BY <3>2 DEF Place
  <2>2. child' \in [dump : Data, at : Place', running : BOOLEAN]
    BY <1>1, <1>2, <1>9, <2>1 DEF Die, NoChild
  <2>3. conf' \in Place' /\ conf_file' \in Place'
    BY <1>2, <1>9, <2>1 DEF Die, TypeOK
  <2>4. crashes' \in 0..MaxCrashes
    BY <1>9, BoundAssumption DEF Die, TypeOK
  <2> QED
    BY <1>1, <1>9, <2>1, <2>2, <2>3, <2>4 DEF Die, TypeOK
<1>10. ASSUME Crash PROVE TypeOK'
  BY <1>9, <1>10 DEF Crash, TypeOK
<1>11. ASSUME CrashInFlush PROVE TypeOK'
  <2>1. PICK i \in 1..Len(backlog) : aof' = Write(aof, SubSeq(backlog, 1, i))
    BY <1>11 DEF CrashInFlush
  <2>2. SubSeq(backlog, 1, i) \in Seq(Cmd)
    BY DEF TypeOK
  <2> QED
    BY <1>9, <1>11, <2>1, <2>2, WriteType DEF CrashInFlush, TypeOK
<1>12. ASSUME Restart PROVE TypeOK'
  <2>1. aof' \in Seq(Seq(Cmd)) /\ Len(aof') >= Len(aof) /\ aof' # <<>>
    BY <1>1, <1>12 DEF Restart, TypeOK
  <2>2. Place \subseteq Place'
    BY <2>1 DEF TypeOK, Place
  <2>3. conf' \in Place' /\ conf_file' \in Place'
    BY <1>12, <2>2 DEF Restart, TypeOK
  <2>4. child' \in [dump : Data, at : Place', running : BOOLEAN]
    BY <1>12, <2>2 DEF Restart, TypeOK
  <2> QED
    BY <1>12, <2>1, <2>3, <2>4, RecoveredType DEF Restart, TypeOK
<1>13. ASSUME UNCHANGED vars PROVE TypeOK'
  BY <1>13 DEF vars, TypeOK, Place
<1> QED
  BY <1>3, <1>4, <1>5, <1>6, <1>7, <1>8, <1>10, <1>11, <1>12, <1>13 DEF Next, Stop

-----------------------------------------------------------------------------
(* The files new are the files with batch b written behind them: what was  *)
(* there stays where it was, and the rest is the batch, in order, at the   *)
(* end of the last file.                                                   *)
Grows(new, b, o) ==
  /\ new \in Seq(Seq(Cmd)) /\ Len(new) >= Len(aof)
  /\ \A f \in 1..Len(aof) : \A i \in 1..Len(aof[f]) :
       i \in 1..Len(new[f]) /\ new[f][i] = aof[f][i]
  /\ \A f \in 1..Len(new) : \A i \in 1..Len(new[f]) :
       \/ f \in 1..Len(aof) /\ i \in 1..Len(aof[f])
       \/ f = Len(new) /\ i - o \in 1..Len(b) /\ new[f][i] = b[i - o]

LEMMA WriteGrows ==
  ASSUME TypeOK, NEW b \in Seq(Cmd)
  PROVE  \E o \in Nat : Grows(Write(aof, b), b, o)
<1> DEFINE last == Len(aof)
           new == Write(aof, b)
<1>1. last \in Nat \ {0} /\ aof \in Seq(Seq(Cmd)) /\ aof[last] \in Seq(Cmd)
  BY DEF TypeOK
<1>2. new \in Seq(Seq(Cmd)) /\ Len(new) >= last
  BY WriteType DEF TypeOK
<1>3. CASE Len(aof[last]) >= RotateSize
  <2>1. new = Append(aof, b)
    BY <1>3 DEF Write
  <2>2. /\ Len(new) = last + 1
        /\ new[last + 1] = b
        /\ \A f \in 1..last : new[f] = aof[f]
    BY <1>1, <2>1
  <2> HIDE DEF new
  <2>3. Grows(new, b, 0)
    <3>1. ASSUME NEW f \in 1..Len(new), NEW i \in 1..Len(new[f])
          PROVE  \/ f \in 1..Len(aof) /\ i \in 1..Len(aof[f])
                 \/ f = Len(new) /\ i - 0 \in 1..Len(b) /\ new[f][i] = b[i - 0]
      BY <1>1, <2>2
    <3> QED
      BY <1>1, <1>2, <2>2, <3>1 DEF Grows
  <2> QED
    BY <2>3 DEF new
<1>4. CASE ~(Len(aof[last]) >= RotateSize)
  <2>1. new = [aof EXCEPT ![last] = @ \o b]
    BY <1>4 DEF Write
  <2> DEFINE o == Len(aof[last])
             a == aof[last]
  <2>2. /\ o \in Nat
        /\ Len(a \o b) = o + Len(b)
        /\ \A i \in 1..(o + Len(b)) : (a \o b)[i] = IF i <= o THEN a[i] ELSE b[i - o]
    BY <1>1
  <2>3. /\ Len(new) = last
        /\ new[last] = a \o b
        /\ \A f \in 1..last : f # last => new[f] = aof[f]
    BY <1>1, <2>1
  <2> HIDE DEF new
  <2>4. Grows(new, b, o)
    <3>1. ASSUME NEW f \in 1..Len(new), NEW i \in 1..Len(new[f])
          PROVE  \/ f \in 1..Len(aof) /\ i \in 1..Len(aof[f])
                 \/ f = Len(new) /\ i - o \in 1..Len(b) /\ new[f][i] = b[i - o]
      <4>1. CASE f = last
        <5>1. i \in 1..(o + Len(b)) /\ Len(b) \in Nat
          BY <2>2, <2>3, <4>1
        <5> QED
          BY <2>2, <2>3, <4>1, <5>1
      <4> QED
        BY <1>1, <2>3, <4>1
    <3>2. ASSUME NEW f \in 1..Len(aof), NEW i \in 1..Len(aof[f])
          PROVE  i \in 1..Len(new[f]) /\ new[f][i] = aof[f][i]
      <4>1. CASE f = last
        <5>1. i \in 1..o /\ i \in 1..(o + Len(b)) /\ Len(b) \in Nat
          BY <2>2, <4>1
        <5> QED
          BY <2>2, <2>3, <4>1, <5>1
      <4> QED
        BY <1>1, <2>3, <4>1
    <3> QED
      BY <1>2, <2>2, <3>1, <3>2 DEF Grows
  <2> QED
    BY <2>2, <2>4 DEF new
<1> QED
  BY <1>3, <1>4

LEMMA NewFileGrows ==
  ASSUME TypeOK
  PROVE  Grows(Append(aof, <<>>), <<>>, 0)
<1>1. Len(aof) \in Nat \ {0} /\ aof \in Seq(Seq(Cmd)) /\ <<>> \in Seq(Cmd)
  BY DEF TypeOK
<1> DEFINE new == Append(aof, <<>>)
<1>2. /\ new \in Seq(Seq(Cmd)) /\ Len(new) = Len(aof) + 1
      /\ new[Len(aof) + 1] = <<>>
      /\ \A f \in 1..Len(aof) : new[f] = aof[f]
  BY <1>1
<1> HIDE DEF new
<1>3. Grows(new, <<>>, 0)
  <2>1. ASSUME NEW f \in 1..Len(aof), NEW i \in 1..Len(aof[f])
        PROVE  i \in 1..Len(new[f]) /\ new[f][i] = aof[f][i]
    BY <1>2
  <2>2. ASSUME NEW f \in 1..Len(new), NEW i \in 1..Len(new[f])
        PROVE  f \in 1..Len(aof) /\ i \in 1..Len(aof[f])
    <3>1. f # Len(aof) + 1
      BY <1>2
    <3>2. f \in 1..Len(aof)
      BY <1>1, <1>2, <3>1
    <3> QED
      BY <1>2, <3>2
  <2> QED
    BY <1>1, <1>2, <2>1, <2>2 DEF Grows
<1> QED
  BY <1>3 DEF new

LEMMA GrowsTypes ==
  ASSUME TypeOK, NEW new, NEW b \in Seq(Cmd), NEW o \in Nat, Grows(new, b, o)
  PROVE  /\ Len(aof) \in Nat /\ Len(new) \in Nat /\ Len(aof) <= Len(new)
         /\ \A f \in 1..Len(aof) : Len(aof[f]) \in Nat
         /\ \A f \in 1..Len(new) : Len(new[f]) \in Nat
         /\ \A f \in 1..Len(aof) : Len(aof[f]) <= Len(new[f])
<1>1. new \in Seq(Seq(Cmd)) /\ Len(new) >= Len(aof)
  BY DEF Grows
<1>2. Len(aof) \in Nat /\ \A f \in 1..Len(aof) : Len(aof[f]) \in Nat
  BY CmdTypes
<1>3. Len(new) \in Nat /\ \A f \in 1..Len(new) : Len(new[f]) \in Nat
  BY <1>1
<1>4. ASSUME NEW f \in 1..Len(aof) PROVE Len(aof[f]) <= Len(new[f])
  <2>1. f \in 1..Len(new)
    BY <1>1, <1>2, <1>3
  <2>2. CASE Len(aof[f]) > 0
    <3>1. Len(aof[f]) \in 1..Len(aof[f])
      BY <1>2, <2>2
    <3>2. Len(aof[f]) \in 1..Len(new[f])
      BY <3>1 DEF Grows
    <3> QED
      BY <3>2
  <2> QED
    BY <1>2, <1>3, <2>1, <2>2
<1> QED
  BY <1>1, <1>2, <1>3, <1>4

(* What was said of the files stays true when they grow.                   *)
LEMMA GrowsKeeps ==
  ASSUME TypeOK, NEW new, NEW b \in Seq(Cmd), NEW o \in Nat, Grows(new, b, o),
         NEW c \in Place, IsPlace(aof, c)
  PROVE  /\ IsPlace(new, c)
         /\ \A d : HoldsBefore(aof, d, c) => HoldsBefore(new, d, c)
         /\ \A k : ReplayedFrom(aof, k, c) => ReplayedFrom(new, k, c)
         /\ b = <<>> => \A k : ReplayedFrom(new, k, c) => ReplayedFrom(aof, k, c)
<1>1. /\ Len(aof) \in Nat /\ Len(new) \in Nat
      /\ c.name \in 0..Len(aof) /\ c.off \in Nat
  <2>1. new \in Seq(Seq(Cmd))
    BY DEF Grows
  <2>2. aof \in Seq(Seq(Cmd))
    BY DEF TypeOK
  <2>3. c.name \in 0..Len(aof) /\ c.off \in Nat
    BY DEF Place
  <2> QED
    BY <2>1, <2>2, <2>3
<1>2. \A f \in 1..Len(aof) : Len(aof[f]) \in Nat /\ f \in 1..Len(new) /\ Len(new[f]) \in Nat
  BY GrowsTypes
<1>3. IsPlace(new, c)
  <2>1. CASE c.name > 0 /\ c.off > 0
    <3>1. c.name \in 1..Len(aof) /\ c.off \in 1..Len(aof[c.name])
      BY <1>1, <1>2, <2>1 DEF IsPlace
    <3> QED
      BY <1>1, <1>2, <3>1 DEF IsPlace, Grows
  <2>2. CASE ~(c.name > 0 /\ c.off > 0)
    <3>1. c.name > 0 => c.off = 0 /\ c.name \in 1..Len(aof)
      BY <1>1, <2>2
    <3> QED
      BY <1>1, <1>2, <3>1 DEF IsPlace
  <2> QED
    BY <2>1, <2>2
<1>4. ASSUME NEW f \in 1..Len(new), NEW i \in 1..Len(new[f]), Before(f, i, c)
      PROVE  f \in 1..Len(aof) /\ i \in 1..Len(aof[f]) /\ new[f][i] = aof[f][i]
  <2>1. f \in 1..Len(aof)
    BY <1>1, <1>4 DEF Before
  <2>2. CASE f < c.name
    <3>1. f # Len(new)
      BY <1>1, <2>2 DEF Grows
    <3> QED
      BY <3>1, <2>1 DEF Grows
  <2>3. CASE f = c.name /\ i <= c.off
    <3>1. i \in 1..Len(aof[f])
      BY <1>1, <1>2, <2>1, <2>3 DEF IsPlace
    <3> QED
      BY <2>1, <3>1 DEF Grows
  <2> QED
    BY <1>4, <2>2, <2>3 DEF Before
<1>5. \A d : HoldsBefore(aof, d, c) => HoldsBefore(new, d, c)
  BY <1>4 DEF HoldsBefore
<1>6. \A k : ReplayedFrom(aof, k, c) => ReplayedFrom(new, k, c)
  <2>1. \A f \in 1..Len(aof) : \A i \in 1..Len(aof[f]) :
          f \in 1..Len(new) /\ i \in 1..Len(new[f]) /\ new[f][i] = aof[f][i]
    BY <1>2 DEF Grows
  <2> QED
    BY <2>1 DEF ReplayedFrom
<1>7. b = <<>> => \A k : ReplayedFrom(new, k, c) => ReplayedFrom(aof, k, c)
  <2>1. ASSUME b = <<>>, NEW f \in 1..Len(new), NEW i \in 1..Len(new[f])
        PROVE  f \in 1..Len(aof) /\ i \in 1..Len(aof[f]) /\ new[f][i] = aof[f][i]
    BY <2>1 DEF Grows
  <2> QED
    BY <2>1 DEF ReplayedFrom
<1> QED
  BY <1>3, <1>5, <1>6, <1>7

-----------------------------------------------------------------------------
(* The invariant holds initially, and every action preserves it.           *)
LEMMA InvInit == Init => IInv
<1> SUFFICES ASSUME Init PROVE IInv
  OBVIOUS
<1>1. TypeOK
  BY TypeInit
<1>2. Len(aof) = 1 /\ Len(aof[1]) = 0 /\ Len(backlog) = 0
  BY DEF Init
<1>3. LogOrdered /\ BacklogOrdered /\ BacklogAfterLog /\ MemNewest
  BY <1>2 DEF LogOrdered, OrderedFiles, BacklogOrdered, BacklogAfterLog, MemNewest
<1>4. ExecutedLast
  BY DEF Init, ExecutedLast
<1>5. Numbered
  BY <1>2 DEF Init, Numbered, Empty
<1>6. NothingSurvives
  BY DEF Init, NothingSurvives
<1>7. PlacesInside
  BY DEF Init, PlacesInside, IsPlace, Start, NoChild
<1>8. DumpCovers
  BY <1>2 DEF DumpCovers, HoldsBefore
<1>9. DumpNotAhead
  BY DEF Init, DumpNotAhead, Empty, NoChild
<1> QED
  BY <1>1, <1>3, <1>4, <1>5, <1>6, <1>7, <1>8, <1>9 DEF IInv

LEMMA ExecKeeps ==
  ASSUME IInv, NEW w \in Workers, NEW k \in KeysOf[w], Exec(w, k)
  PROVE  IInv'
<1> USE DEF disk
<1>1. TypeOK /\ TypeOK' /\ k \in Keys
  BY TypeStep, KeysOfAssumption DEF IInv, Next
<1>2. UNCHANGED <<up, backlog, child, conf, aof, db, conf_file>> /\ up
  BY DEF Exec
<1>3. /\ mem' \in [Keys -> Nat] /\ cmds' = cmds + 1 /\ mem'[k] = cmds + 1
      /\ \A q \in Keys : q # k => mem'[q] = mem[q]
      /\ cmds \in Nat
      /\ \A q \in Keys : mem[q] \in Nat /\ db[q] \in Nat
  <2>1. mem \in [Keys -> Nat] /\ db \in [Keys -> Nat] /\ cmds \in Nat
    <3>1. 0..MaxCmds \subseteq Nat
      BY BoundAssumption
    <3>2. mem \in [Keys -> 0..MaxCmds] /\ db \in [Keys -> 0..MaxCmds] /\ cmds \in 0..MaxCmds
      BY <1>1 DEF TypeOK, Data
    <3> QED
      BY <3>1, <3>2
  <2> QED
    BY <1>1, <2>1 DEF Exec
<1>4. \A q \in Keys : mem[q] <= mem'[q] /\ mem'[q] <= cmds + 1
  BY <1>3 DEF IInv, Numbered
<1>5. LogOrdered' /\ BacklogOrdered' /\ BacklogAfterLog'
  BY <1>2 DEF IInv, LogOrdered, BacklogOrdered, BacklogAfterLog
<1>6.  /\ \A f \in 1..Len(aof) : \A i \in 1..Len(aof[f]) : aof[f][i].n <= mem[aof[f][i].key]
       /\ \A j \in 1..Len(backlog) : backlog[j].n <= mem[backlog[j].key]
  BY <1>2 DEF IInv, MemNewest
<1>7.  /\ \A f \in 1..Len(aof) : \A i \in 1..Len(aof[f]) :
            aof[f][i].n \in Nat /\ aof[f][i].key \in Keys
       /\ \A j \in 1..Len(backlog) : backlog[j].n \in Nat /\ backlog[j].key \in Keys
  BY <1>1, CmdTypes
<1>8. MemNewest'
  <2>1. ASSUME NEW f \in 1..Len(aof), NEW i \in 1..Len(aof[f])
        PROVE  aof[f][i].n <= mem'[aof[f][i].key]
    <3>1. aof[f][i].n \in Nat /\ aof[f][i].key \in Keys /\ aof[f][i].n <= mem[aof[f][i].key]
      BY <1>6, <1>7
    <3>2. \A q \in Keys : mem[q] \in Nat /\ mem'[q] \in Nat /\ mem[q] <= mem'[q]
      BY <1>3, <1>4
    <3> QED
      BY <3>1, <3>2
  <2>2. ASSUME NEW j \in 1..Len(backlog) PROVE backlog[j].n <= mem'[backlog[j].key]
    BY <1>3, <1>4, <1>6, <1>7
  <2> QED
    BY <1>2, <2>1, <2>2 DEF MemNewest
<1>9. ExecutedLast'
  <2> SUFFICES ASSUME NEW v \in Workers, executed'[v] # NoCmd
               PROVE  /\ executed'[v].key \in KeysOf[v]
                      /\ executed'[v].n <= mem'[executed'[v].key]
                      /\ \A f \in 1..Len(aof) : \A i \in 1..Len(aof[f]) :
                           aof[f][i].key = executed'[v].key => aof[f][i].n <= executed'[v].n
                      /\ \A j \in 1..Len(backlog) :
                           backlog[j].key = executed'[v].key => backlog[j].n <= executed'[v].n
    BY <1>2 DEF ExecutedLast
  <2>1. CASE v = w
    <3>1. executed'[v] = [key |-> k, n |-> cmds + 1]
      BY <1>1, <2>1 DEF Exec, TypeOK
    <3>2. \A f \in 1..Len(aof) : \A i \in 1..Len(aof[f]) : aof[f][i].n <= cmds + 1
      BY <1>1, <1>3, CmdTypes DEF IInv, Numbered
    <3>3. \A j \in 1..Len(backlog) : backlog[j].n <= cmds + 1
      BY <1>3, <1>4, <1>6, <1>7
    <3> QED
      BY <1>3, <2>1, <3>1, <3>2, <3>3
  <2>2. CASE v # w
    <3>1. executed'[v] = executed[v]
      BY <1>1, <2>2 DEF Exec, TypeOK
    <3>2. executed[v].key \in Keys /\ executed[v].n \in Nat
      BY <1>1, <3>1, BoundAssumption DEF TypeOK, Cmd
    <3> QED
      BY <1>3, <1>4, <3>1, <3>2 DEF IInv, ExecutedLast
  <2> QED
    BY <2>1, <2>2
<1>10. Numbered'
  BY <1>1, <1>2, <1>3, <1>4, CmdTypes DEF IInv, Numbered
<1>11. NothingSurvives' /\ PlacesInside' /\ DumpCovers'
  BY <1>2 DEF IInv, NothingSurvives, PlacesInside, DumpCovers
<1>12. DumpNotAhead'
  <2>1. child.running => \A q \in Keys : child.dump[q] <= mem'[q]
    <3>1. \A q \in Keys : child.dump[q] \in Nat
      BY <1>1, BoundAssumption DEF TypeOK, Data
    <3> QED
      BY <1>2, <1>3, <1>4, <3>1 DEF IInv, DumpNotAhead
  <2>2. ASSUME NEW q \in Keys
        PROVE  \/ db[q] <= mem'[q]
               \/ ReplayedFrom(aof, q, conf) /\ ReplayedFrom(aof, q, conf_file)
    BY <1>2, <1>3, <1>4 DEF IInv, DumpNotAhead
  <2> QED
    BY <1>2, <2>1, <2>2 DEF DumpNotAhead
<1> QED
  BY <1>1, <1>5, <1>8, <1>9, <1>10, <1>11, <1>12 DEF IInv

LEMMA FeedKeeps ==
  ASSUME IInv, OwnKeys, NEW w \in Workers, Feed(w)
  PROVE  IInv'
<1> USE DEF disk
<1>1. TypeOK /\ TypeOK'
  BY TypeStep DEF IInv, Next
<1>2. UNCHANGED <<up, mem, child, conf, aof, db, conf_file, cmds>> /\ up
  BY DEF Feed
<1> DEFINE c == executed[w]
<1>3. c \in Cmd /\ c.key \in Keys /\ c.n \in Nat /\ c # NoCmd
  BY <1>1, BoundAssumption DEF Feed, TypeOK, Cmd
<1>4. /\ c.key \in KeysOf[w]
      /\ c.n <= mem[c.key]
      /\ \A f \in 1..Len(aof) : \A i \in 1..Len(aof[f]) :
           aof[f][i].key = c.key => aof[f][i].n <= c.n
      /\ \A j \in 1..Len(backlog) : backlog[j].key = c.key => backlog[j].n <= c.n
  BY <1>3 DEF IInv, ExecutedLast
<1>5. /\ Len(backlog') = Len(backlog) + 1 /\ Len(backlog) \in Nat
      /\ backlog'[Len(backlog) + 1] = c
      /\ \A j \in 1..Len(backlog) : backlog'[j] = backlog[j]
  BY <1>1, <1>3 DEF Feed, TypeOK
<1>6. \A v \in Workers : executed'[v] = IF v = w THEN NoCmd ELSE executed[v]
  BY <1>1 DEF Feed, TypeOK
<1> HIDE DEF c
<1>7. LogOrdered'
  BY <1>2 DEF IInv, LogOrdered
<1>8. BacklogOrdered'
  <2> SUFFICES ASSUME NEW i \in 1..Len(backlog'), NEW j \in 1..Len(backlog'),
                      backlog'[i].key = backlog'[j].key, i < j
               PROVE  backlog'[i].n <= backlog'[j].n
    BY DEF BacklogOrdered
  <2>1. i \in 1..Len(backlog)
    BY <1>5
  <2>2. CASE j = Len(backlog) + 1
    BY <1>4, <1>5, <2>1, <2>2
  <2>3. CASE j \in 1..Len(backlog)
    BY <1>5, <2>1, <2>3 DEF IInv, BacklogOrdered
  <2> QED
    BY <1>5, <2>2, <2>3
<1>9. BacklogAfterLog'
  <2> SUFFICES ASSUME NEW f \in 1..Len(aof), NEW i \in 1..Len(aof[f]),
                      NEW j \in 1..Len(backlog'), aof[f][i].key = backlog'[j].key
               PROVE  aof[f][i].n <= backlog'[j].n
    BY <1>2 DEF BacklogAfterLog
  <2>1. CASE j = Len(backlog) + 1
    BY <1>4, <1>5, <2>1
  <2>2. CASE j \in 1..Len(backlog)
    BY <1>5, <2>2 DEF IInv, BacklogAfterLog
  <2> QED
    BY <1>5, <2>1, <2>2
<1>10. MemNewest'
  <2>1. ASSUME NEW j \in 1..Len(backlog') PROVE backlog'[j].n <= mem[backlog'[j].key]
    <3>1. CASE j = Len(backlog) + 1
      BY <1>4, <1>5, <3>1
    <3>2. CASE j \in 1..Len(backlog)
      BY <1>2, <1>5, <3>2 DEF IInv, MemNewest
    <3> QED
      BY <1>5, <3>1, <3>2
  <2> QED
    BY <1>2, <2>1 DEF IInv, MemNewest
<1>11. ExecutedLast'
  <2> SUFFICES ASSUME NEW v \in Workers, executed'[v] # NoCmd
               PROVE  /\ executed'[v].key \in KeysOf[v]
                      /\ executed'[v].n <= mem[executed'[v].key]
                      /\ \A f \in 1..Len(aof) : \A i \in 1..Len(aof[f]) :
                           aof[f][i].key = executed'[v].key => aof[f][i].n <= executed'[v].n
                      /\ \A j \in 1..Len(backlog') :
                           backlog'[j].key = executed'[v].key => backlog'[j].n <= executed'[v].n
    BY <1>2 DEF ExecutedLast
  <2>1. v # w /\ executed'[v] = executed[v]
    BY <1>6
  <2>2. executed[v].key \in KeysOf[v]
    BY <2>1 DEF IInv, ExecutedLast
  <2>3. c.key # executed[v].key
    BY <1>4, <2>1, <2>2 DEF OwnKeys
  <2>4. ASSUME NEW j \in 1..Len(backlog'), backlog'[j].key = executed[v].key
        PROVE  backlog'[j].n <= executed[v].n
    <3>1. j \in 1..Len(backlog)
      BY <1>5, <2>3, <2>4
    <3> QED
      BY <1>5, <2>1, <2>4, <3>1 DEF IInv, ExecutedLast
  <2> QED
    BY <2>1, <2>2, <2>4 DEF IInv, ExecutedLast
<1>12. Numbered' /\ NothingSurvives' /\ PlacesInside' /\ DumpCovers' /\ DumpNotAhead'
  BY <1>2 DEF IInv, Numbered, NothingSurvives, PlacesInside, DumpCovers, DumpNotAhead
<1> QED
  BY <1>1, <1>7, <1>8, <1>9, <1>10, <1>11, <1>12 DEF IInv

(* A batch that is in order and comes after the files keeps them in order. *)
LEMMA GrowsOrdered ==
  ASSUME TypeOK, LogOrdered, NEW new, NEW b \in Seq(Cmd), NEW o \in Nat, Grows(new, b, o),
         \A i, j \in 1..Len(b) : b[i].key = b[j].key /\ i < j => b[i].n <= b[j].n,
         \A f \in 1..Len(aof) : \A i \in 1..Len(aof[f]), j \in 1..Len(b) :
           aof[f][i].key = b[j].key => aof[f][i].n <= b[j].n
  PROVE  OrderedFiles(new)
<1> SUFFICES ASSUME NEW f \in 1..Len(new), NEW g \in 1..Len(new),
                    NEW i \in 1..Len(new[f]), NEW j \in 1..Len(new[g]),
                    new[f][i].key = new[g][j].key, f < g \/ (f = g /\ i < j)
             PROVE  new[f][i].n <= new[g][j].n
  BY DEF OrderedFiles
<1> DEFINE Old(h, l) == h \in 1..Len(aof) /\ l \in 1..Len(aof[h]) /\ new[h][l] = aof[h][l]
           Fresh(h, l) == h = Len(new) /\ l - o \in 1..Len(b) /\ new[h][l] = b[l - o]
<1>1. (Old(f, i) \/ Fresh(f, i)) /\ (Old(g, j) \/ Fresh(g, j))
  BY DEF Grows
<1>2. /\ Len(new) \in Nat /\ Len(aof) \in Nat /\ Len(new) >= Len(aof)
      /\ Len(new[f]) \in Nat /\ Len(new[g]) \in Nat
  BY GrowsTypes
<1>3. CASE Old(f, i) /\ Old(g, j)
  BY <1>3 DEF LogOrdered, OrderedFiles
<1>4. CASE Old(f, i) /\ Fresh(g, j)
  BY <1>4
<1>5. CASE Fresh(f, i) /\ Fresh(g, j)
  <2>1. i - o < j - o
    BY <1>2, <1>5
  <2> QED
    BY <1>5, <2>1
<1>6. CASE ~Old(f, i) /\ Old(g, j)
  <2>1. f = Len(new) /\ f = g /\ f \in 1..Len(aof)
    BY <1>1, <1>2, <1>6
  <2>2. i \in 1..Len(aof[f])
    <3>1. Len(aof[f]) \in Nat
      BY <2>1 DEF TypeOK
    <3> QED
      BY <1>2, <1>6, <2>1, <3>1
  <2>3. new[f][i] = aof[f][i]
    BY <2>1, <2>2 DEF Grows
  <2> QED
    BY <1>6, <2>1, <2>2, <2>3
<1> QED
  BY <1>1, <1>3, <1>4, <1>5, <1>6

(* What is in the files after a write was there before or is of the batch. *)
FromEither(new, b) ==
  \A f \in 1..Len(new) : \A i \in 1..Len(new[f]) :
    \/ \E g \in 1..Len(aof) : \E j \in 1..Len(aof[g]) : new[f][i] = aof[g][j]
    \/ \E j \in 1..Len(b) : new[f][i] = b[j]

LEMMA GrowsElements ==
  ASSUME NEW new, NEW b, NEW o, Grows(new, b, o)
  PROVE  FromEither(new, b)
  BY DEF Grows, FromEither

LEMMA FlushKeeps ==
  ASSUME IInv, Flush
  PROVE  IInv'
<1>1. TypeOK /\ TypeOK' /\ backlog \in Seq(Cmd)
  BY TypeStep DEF IInv, Next, TypeOK
<1>2. UNCHANGED <<up, mem, executed, child, conf, db, cmds>> /\ up /\ conf_file' = conf
  BY DEF Flush
<1>3. PICK o \in Nat : Grows(aof', backlog, o)
  BY <1>1, WriteGrows DEF Flush
<1>4. backlog' = <<>> /\ Len(backlog') = 0
  BY DEF Flush
<1>5. FromEither(aof', backlog)
  BY <1>3, GrowsElements
<1>6. LogOrdered'
  <2>1. OrderedFiles(aof')
    BY <1>1, <1>3, GrowsOrdered DEF IInv, BacklogOrdered, BacklogAfterLog
  <2> QED
    BY <2>1 DEF LogOrdered
<1>7. BacklogOrdered' /\ BacklogAfterLog'
  BY <1>4 DEF BacklogOrdered, BacklogAfterLog
<1>8. ExecutedLast'
  <2> SUFFICES ASSUME NEW w \in Workers, executed[w] # NoCmd,
                      NEW f \in 1..Len(aof'), NEW i \in 1..Len(aof'[f]),
                      aof'[f][i].key = executed[w].key
               PROVE  aof'[f][i].n <= executed[w].n
    BY <1>2, <1>4 DEF IInv, ExecutedLast
  <2>1. \/ \E g \in 1..Len(aof) : \E j \in 1..Len(aof[g]) : aof'[f][i] = aof[g][j]
        \/ \E j \in 1..Len(backlog) : aof'[f][i] = backlog[j]
    BY <1>5 DEF FromEither
  <2> QED
    BY <2>1 DEF IInv, ExecutedLast
<1>9. MemNewest'
  <2>1. ASSUME NEW f \in 1..Len(aof'), NEW i \in 1..Len(aof'[f])
        PROVE  aof'[f][i].n <= mem[aof'[f][i].key]
    <3>1. \/ \E g \in 1..Len(aof) : \E j \in 1..Len(aof[g]) : aof'[f][i] = aof[g][j]
          \/ \E j \in 1..Len(backlog) : aof'[f][i] = backlog[j]
      BY <1>5 DEF FromEither
    <3> QED
      BY <1>2, <3>1 DEF IInv, MemNewest
  <2> QED
    BY <1>2, <1>4, <2>1 DEF MemNewest
<1>10. Numbered'
  <2>1. ASSUME NEW f \in 1..Len(aof'), NEW i \in 1..Len(aof'[f])
        PROVE  aof'[f][i].n <= cmds
    <3>1. aof'[f][i].n <= mem[aof'[f][i].key]
      BY <1>2, <1>9 DEF MemNewest
    <3>2. aof'[f][i].n \in Nat /\ aof'[f][i].key \in Keys
      <4>1. \A c \in Cmd : c.n \in Nat /\ c.key \in Keys
        BY DEF Cmd
      <4>2. aof'[f] \in Seq(Cmd)
        BY <1>1 DEF TypeOK
      <4> QED
        BY <4>1, <4>2
    <3>3. \A k \in Keys : mem[k] <= cmds /\ mem[k] \in Nat
      BY <1>1, BoundAssumption DEF IInv, Numbered, TypeOK, Data
    <3>4. cmds \in Nat
      BY <1>1, BoundAssumption DEF TypeOK
    <3> QED
      BY <3>1, <3>2, <3>3, <3>4
  <2> QED
    BY <1>2, <2>1 DEF IInv, Numbered
<1>11. NothingSurvives'
  BY <1>2 DEF NothingSurvives
<1>12. conf \in Place /\ child.at \in Place /\ IsPlace(aof, conf) /\ IsPlace(aof, child.at)
  BY <1>1 DEF TypeOK, IInv, PlacesInside
<1>13. PlacesInside'
  BY <1>1, <1>2, <1>3, <1>12, GrowsKeeps DEF PlacesInside
<1>14. DumpCovers'
  <2>1. HoldsBefore(aof', db, conf)
    BY <1>1, <1>3, <1>12, GrowsKeeps DEF IInv, DumpCovers
  <2>2. child.running => /\ HoldsBefore(aof', child.dump, conf)
                         /\ HoldsBefore(aof', child.dump, child.at)
    BY <1>1, <1>3, <1>12, GrowsKeeps DEF IInv, DumpCovers
  <2> QED
    BY <1>2, <2>1, <2>2 DEF DumpCovers
<1>15. DumpNotAhead'
  <2>1. \A k : ReplayedFrom(aof, k, conf) => ReplayedFrom(aof', k, conf)
    BY <1>1, <1>3, <1>12, GrowsKeeps
  <2> QED
    BY <1>2, <2>1 DEF IInv, DumpNotAhead
<1> QED
  BY <1>1, <1>6, <1>7, <1>8, <1>9, <1>10, <1>11, <1>13, <1>14, <1>15 DEF IInv

LEMMA ConfFlushKeeps ==
  ASSUME IInv, ConfFlush
  PROVE  IInv'
<1>1. TypeOK'
  BY TypeStep DEF IInv, Next
<1>2. UNCHANGED <<up, mem, executed, backlog, child, conf, aof, db, cmds>> /\ conf_file' = conf
  BY DEF ConfFlush
<1>3. LogOrdered' /\ BacklogOrdered' /\ BacklogAfterLog' /\ ExecutedLast'
  BY <1>2 DEF IInv, LogOrdered, BacklogOrdered, BacklogAfterLog, ExecutedLast
<1>4. MemNewest' /\ Numbered' /\ NothingSurvives'
  BY <1>2 DEF IInv, MemNewest, Numbered, NothingSurvives
<1>5. PlacesInside' /\ DumpCovers' /\ DumpNotAhead'
  BY <1>2 DEF IInv, PlacesInside, DumpCovers, DumpNotAhead
<1> QED
  BY <1>1, <1>3, <1>4, <1>5 DEF IInv

LEMMA BgsaveKeeps ==
  ASSUME IInv, Bgsave
  PROVE  IInv'
<1>1. TypeOK /\ TypeOK'
  BY TypeStep DEF IInv, Next
<1>2. UNCHANGED <<up, mem, executed, backlog, conf, aof, db, conf_file, cmds>> /\ up
  BY DEF Bgsave, disk
<1>3. child'.dump = mem /\ child'.at = CurRollFile
  BY DEF Bgsave
<1>4. LogOrdered' /\ BacklogOrdered' /\ BacklogAfterLog' /\ ExecutedLast'
  BY <1>2 DEF IInv, LogOrdered, BacklogOrdered, BacklogAfterLog, ExecutedLast
<1>5. MemNewest' /\ Numbered' /\ NothingSurvives'
  BY <1>2 DEF IInv, MemNewest, Numbered, NothingSurvives
<1>6. PlacesInside'
  <2>1. IsPlace(aof, CurRollFile)
    BY <1>1, CmdTypes DEF IsPlace, CurRollFile
  <2> QED
    BY <1>2, <1>3, <2>1 DEF IInv, PlacesInside
<1>7. DumpCovers'
  <2>1. \A c : HoldsBefore(aof, mem, c)
    BY <1>2 DEF IInv, MemNewest, HoldsBefore
  <2> QED
    BY <1>2, <1>3, <2>1 DEF IInv, DumpCovers
<1>8. DumpNotAhead'
  <2>1. \A k \in Keys : mem[k] <= mem[k]
    BY <1>1, BoundAssumption DEF TypeOK, Data
  <2> QED
    BY <1>2, <1>3, <2>1 DEF IInv, DumpNotAhead
<1> QED
  BY <1>1, <1>4, <1>5, <1>6, <1>7, <1>8 DEF IInv

LEMMA BgsaveFinishKeeps ==
  ASSUME IInv, ~ChildMayDie, BgsaveFinish
  PROVE  IInv'
<1>1. TypeOK /\ TypeOK'
  BY TypeStep DEF IInv, Next
<1>2. UNCHANGED <<up, mem, executed, backlog, aof, conf_file, cmds>> /\ up /\ child.running
  BY DEF BgsaveFinish
<1>3. child'.running = FALSE /\ child'.at = Start
  BY DEF BgsaveFinish, NoChild
<1>4. (db' = child.dump /\ conf' = child.at) \/ UNCHANGED <<db, conf>>
  BY DEF BgsaveFinish, Dumped, DumpPlace
<1>5. LogOrdered' /\ BacklogOrdered' /\ BacklogAfterLog' /\ ExecutedLast'
  BY <1>2 DEF IInv, LogOrdered, BacklogOrdered, BacklogAfterLog, ExecutedLast
<1>6. MemNewest' /\ NothingSurvives'
  BY <1>2 DEF IInv, MemNewest, NothingSurvives
<1>7. child.running => \A k \in Keys : child.dump[k] <= mem[k]
  BY <1>2 DEF IInv, DumpNotAhead
<1>8. Numbered'
  <2>1. \A k \in Keys : child.dump[k] <= cmds
    <3>1. \A k \in Keys : child.dump[k] \in Nat /\ mem[k] \in Nat
      BY <1>1, BoundAssumption DEF TypeOK, Data
    <3>2. cmds \in Nat
      BY <1>1, BoundAssumption DEF TypeOK
    <3> QED
      BY <1>2, <1>7, <3>1, <3>2 DEF IInv, Numbered
  <2> QED
    BY <1>2, <1>4, <2>1 DEF IInv, Numbered
<1>9. PlacesInside'
  <2>1. IsPlace(aof, Start)
    BY DEF IsPlace, Start
  <2> QED
    BY <1>2, <1>3, <1>4, <2>1 DEF IInv, PlacesInside
<1>10. DumpCovers'
  BY <1>2, <1>3, <1>4 DEF IInv, DumpCovers
<1>11. DumpNotAhead'
  BY <1>2, <1>3, <1>4, <1>7 DEF IInv, DumpNotAhead
<1> QED
  BY <1>1, <1>5, <1>6, <1>8, <1>9, <1>10, <1>11 DEF IInv

(* A crash leaves the files as they are or with a part of the backlog      *)
(* written to them.                                                        *)
LEMMA CrashKeeps ==
  ASSUME IInv, Crash \/ CrashInFlush
  PROVE  /\ IInv'
         /\ \A f \in 1..Len(aof') : \A i \in 1..Len(aof'[f]) :
              aof'[f][i].n <= mem[aof'[f][i].key]
<1>1. TypeOK /\ TypeOK' /\ backlog \in Seq(Cmd)
  <2>1. [Next]_vars
    BY DEF Next
  <2> QED
    BY <2>1, TypeStep DEF IInv, TypeOK
<1>2. Die /\ UNCHANGED <<db, conf_file, cmds>> /\ up
  BY DEF Crash, CrashInFlush, Die
<1>3. /\ ~up' /\ executed' = [w \in Workers |-> NoCmd] /\ backlog' = <<>>
      /\ child' = NoChild /\ conf' = Start /\ mem' = Empty
  BY <1>2 DEF Die
<1>4. PICK b \in Seq(Cmd), o \in Nat :
        /\ Grows(aof', b, o)
        /\ Len(b) <= Len(backlog)
        /\ \A j \in 1..Len(b) : j \in 1..Len(backlog) /\ b[j] = backlog[j]
  <2>1. CASE UNCHANGED aof
    <3>1. Grows(aof', <<>>, 0)
      BY <1>1, <2>1, CmdTypes DEF Grows, TypeOK
    <3>2. Len(<<>>) = 0 /\ 0 <= Len(backlog)
      BY <1>1
    <3> WITNESS <<>> \in Seq(Cmd), 0 \in Nat
    <3> QED
      BY <3>1, <3>2
  <2>2. CASE CrashInFlush
    <3>1. PICK i \in 1..Len(backlog) : aof' = Write(aof, SubSeq(backlog, 1, i))
      BY <2>2 DEF CrashInFlush
    <3> DEFINE b == SubSeq(backlog, 1, i)
    <3>2. /\ b \in Seq(Cmd) /\ Len(b) = i
          /\ \A j \in 1..i : b[j] = backlog[j]
      BY <1>1
    <3> HIDE DEF b
    <3>3. \E o \in Nat : Grows(aof', b, o)
      BY <1>1, <3>1, <3>2, WriteGrows DEF b
    <3>4. i <= Len(backlog) /\ \A j \in 1..i : j \in 1..Len(backlog)
      BY <1>1
    <3> QED
      BY <3>2, <3>3, <3>4
  <2> QED
    BY <2>1, <2>2 DEF Crash
<1>5. LogOrdered'
  <2>1. \A i, j \in 1..Len(b) : b[i].key = b[j].key /\ i < j => b[i].n <= b[j].n
    BY <1>4 DEF IInv, BacklogOrdered
  <2>2. \A f \in 1..Len(aof) : \A i \in 1..Len(aof[f]), j \in 1..Len(b) :
          aof[f][i].key = b[j].key => aof[f][i].n <= b[j].n
    BY <1>4 DEF IInv, BacklogAfterLog
  <2>3. OrderedFiles(aof')
    BY <1>1, <1>4, <2>1, <2>2, GrowsOrdered DEF IInv
  <2> QED
    BY <2>3 DEF LogOrdered
<1>6. \A f \in 1..Len(aof') : \A i \in 1..Len(aof'[f]) : aof'[f][i].n <= mem[aof'[f][i].key]
  <2>1. FromEither(aof', b)
    BY <1>4, GrowsElements
  <2>2. \A j \in 1..Len(b) : j \in 1..Len(backlog) /\ b[j] = backlog[j]
    BY <1>4
  <2> SUFFICES ASSUME NEW f \in 1..Len(aof'), NEW i \in 1..Len(aof'[f])
               PROVE  aof'[f][i].n <= mem[aof'[f][i].key]
    OBVIOUS
  <2>3. \/ \E g \in 1..Len(aof) : \E j \in 1..Len(aof[g]) : aof'[f][i] = aof[g][j]
        \/ \E j \in 1..Len(b) : aof'[f][i] = b[j]
    BY <2>1 DEF FromEither
  <2>4. CASE \E g \in 1..Len(aof) : \E j \in 1..Len(aof[g]) : aof'[f][i] = aof[g][j]
    BY <1>2, <2>4 DEF IInv, MemNewest
  <2>5. CASE \E j \in 1..Len(b) : aof'[f][i] = b[j]
    <3>1. PICK j \in 1..Len(b) : aof'[f][i] = b[j]
      BY <2>5
    <3>2. j \in 1..Len(backlog) /\ aof'[f][i] = backlog[j]
      BY <2>2, <3>1
    <3> QED
      BY <1>2, <3>2 DEF IInv, MemNewest
  <2> QED
    BY <2>3, <2>4, <2>5
<1>7. Numbered'
  <2>1. ASSUME NEW f \in 1..Len(aof'), NEW i \in 1..Len(aof'[f])
        PROVE  aof'[f][i].n <= cmds
    <3>1. aof'[f][i].n <= mem[aof'[f][i].key]
      BY <1>6
    <3>2. aof'[f][i].n \in Nat /\ aof'[f][i].key \in Keys
      <4>1. \A c \in Cmd : c.n \in Nat /\ c.key \in Keys
        BY DEF Cmd
      <4>2. aof'[f] \in Seq(Cmd)
        BY <1>1 DEF TypeOK
      <4> QED
        BY <4>1, <4>2
    <3>3. \A k \in Keys : mem[k] <= cmds /\ mem[k] \in Nat
      BY <1>1, BoundAssumption DEF IInv, Numbered, TypeOK, Data
    <3>4. cmds \in Nat
      BY <1>1, BoundAssumption DEF TypeOK
    <3> QED
      BY <3>1, <3>2, <3>3, <3>4
  <2>2. \A k \in Keys : mem'[k] <= cmds
    BY <1>1, <1>3, BoundAssumption DEF Empty, TypeOK
  <2> QED
    BY <1>2, <2>1, <2>2 DEF IInv, Numbered
<1>8. BacklogOrdered' /\ BacklogAfterLog' /\ ExecutedLast'
  <2>1. Len(backlog') = 0
    BY <1>3
  <2> QED
    BY <1>3, <2>1 DEF BacklogOrdered, BacklogAfterLog, ExecutedLast
<1>9. MemNewest' /\ NothingSurvives' /\ DumpNotAhead'
  BY <1>3 DEF MemNewest, NothingSurvives, DumpNotAhead
<1>10. conf_file \in Place /\ IsPlace(aof, conf_file)
  BY <1>1 DEF TypeOK, IInv, PlacesInside
<1>11. PlacesInside'
  <2>1. IsPlace(aof', Start) /\ child'.at = Start
    BY <1>3 DEF IsPlace, Start, NoChild
  <2>2. IsPlace(aof', conf_file)
    BY <1>1, <1>4, <1>10, GrowsKeeps
  <2> QED
    BY <1>2, <1>3, <2>1, <2>2 DEF PlacesInside
<1>12. DumpCovers'
  <2>1. HoldsBefore(aof', db, Start)
    BY DEF HoldsBefore, Before, Start
  <2>2. HoldsBefore(aof', db, conf_file)
    BY <1>1, <1>4, <1>10, GrowsKeeps DEF IInv, DumpCovers
  <2>3. ~child'.running
    BY <1>3 DEF NoChild
  <2> QED
    BY <1>2, <1>3, <2>1, <2>2, <2>3 DEF DumpCovers
<1> QED
  BY <1>1, <1>5, <1>6, <1>7, <1>8, <1>9, <1>11, <1>12 DEF IInv

-----------------------------------------------------------------------------
(* The value recovered for a key is as new as every logged command of the  *)
(* key: one before the place of the dump is in the dump, and one behind it *)
(* is not later than the last that is replayed.                            *)
LEMMA RecoveredNewest ==
  ASSUME IInv, NEW f \in 1..Len(aof), NEW i \in 1..Len(aof[f])
  PROVE  aof[f][i].n <= Recovered[aof[f][i].key]
<1> DEFINE k == aof[f][i].key
<1>1. TypeOK /\ k \in Keys /\ aof[f][i].n \in Nat
  BY CmdTypes DEF IInv
<1>2. Before(f, i, conf_file) => aof[f][i].n <= db[k]
  BY DEF IInv, DumpCovers, HoldsBefore
<1> HIDE DEF k
<1>3. CASE ~ReplayedFrom(aof, k, conf_file) /\ Recovered[k] = db[k]
  <2>1. Before(f, i, conf_file)
    BY <1>3 DEF ReplayedFrom, k
  <2> QED
    BY <1>2, <1>3, <2>1 DEF k
<1>4. ASSUME NEW g \in 1..Len(aof), NEW j \in 1..Len(aof[g]),
             ~Before(g, j, conf_file), aof[g][j].key = k, Recovered[k] = aof[g][j].n,
             ~Before(f, i, conf_file) => f < g \/ (f = g /\ i <= j)
      PROVE  aof[f][i].n <= Recovered[k]
  <2>1. /\ Len(aof) \in Nat /\ Len(aof[f]) \in Nat /\ Len(aof[g]) \in Nat
        /\ conf_file.name \in Nat /\ conf_file.off \in Nat
    <3>1. conf_file.name \in 0..Len(aof) /\ conf_file.off \in Nat
      BY <1>1 DEF TypeOK, Place
    <3> QED
      BY <1>1, <3>1, CmdTypes
  <2>2. f < g \/ (f = g /\ i < j) \/ (f = g /\ i = j)
    <3>1. CASE Before(f, i, conf_file)
      BY <1>4, <2>1, <3>1 DEF Before
    <3> QED
      BY <1>4, <2>1, <3>1
  <2>3. CASE f = g /\ i = j
    BY <1>1, <1>4, <2>3
  <2>4. CASE f < g \/ (f = g /\ i < j)
    BY <1>4, <2>4 DEF IInv, LogOrdered, OrderedFiles, k
  <2> QED
    BY <2>2, <2>3, <2>4
<1> QED
  BY <1>1, <1>3, <1>4, RecoveredIs DEF k

LEMMA RecoveredBounded ==
  ASSUME IInv, NEW k \in Keys
  PROVE  Recovered[k] <= cmds
  BY RecoveredIs DEF IInv, Numbered

LEMMA RestartKeeps ==
  ASSUME IInv, Restart
  PROVE  IInv'
<1>1. TypeOK /\ TypeOK'
  BY TypeStep DEF IInv, Next
<1>2. /\ UNCHANGED <<executed, backlog, child, db, conf_file, cmds>>
      /\ conf' = conf_file /\ mem' = Recovered
  BY DEF Restart
<1>3. /\ executed = [w \in Workers |-> NoCmd] /\ backlog = <<>>
      /\ child = NoChild /\ ~child.running
  BY DEF Restart, IInv, NothingSurvives, NoChild
<1>4. Grows(aof', <<>>, 0)
  BY <1>1, NewFileGrows DEF Restart
<1>5. /\ <<>> \in Seq(Cmd) /\ Len(<<>>) = 0
      /\ \A f \in 1..Len(aof') : \A i \in 1..Len(aof'[f]) :
           \E g \in 1..Len(aof) : \E j \in 1..Len(aof[g]) : aof'[f][i] = aof[g][j]
  <2>1. FromEither(aof', <<>>)
    BY <1>4, GrowsElements
  <2> QED
    BY <2>1 DEF FromEither
<1>6. LogOrdered'
  <2> DEFINE b == <<>>
  <2>1. Len(b) = 0 /\ b \in Seq(Cmd) /\ Grows(aof', b, 0)
    BY <1>4, <1>5
  <2> HIDE DEF b
  <2>2. /\ \A i, j \in 1..Len(b) : b[i].key = b[j].key /\ i < j => b[i].n <= b[j].n
        /\ \A f \in 1..Len(aof) : \A i \in 1..Len(aof[f]), j \in 1..Len(b) :
             aof[f][i].key = b[j].key => aof[f][i].n <= b[j].n
    BY <2>1
  <2>3. PICK o \in Nat : Grows(aof', b, o)
    BY <2>1
  <2>4. LogOrdered /\ TypeOK
    BY DEF IInv
  <2>5. b \in Seq(Cmd)
    BY <2>1
  <2>6. OrderedFiles(aof')
    BY <2>2, <2>3, <2>4, <2>5, GrowsOrdered
  <2> QED
    BY <2>6 DEF LogOrdered
<1>7. BacklogOrdered' /\ BacklogAfterLog' /\ ExecutedLast'
  BY <1>2, <1>3, <1>5 DEF BacklogOrdered, BacklogAfterLog, ExecutedLast
<1>8. MemNewest'
  <2>1. ASSUME NEW f \in 1..Len(aof'), NEW i \in 1..Len(aof'[f])
        PROVE  aof'[f][i].n <= mem'[aof'[f][i].key]
    <3>1. PICK g \in 1..Len(aof) : \E j \in 1..Len(aof[g]) : aof'[f][i] = aof[g][j]
      BY <1>5
    <3>2. PICK j \in 1..Len(aof[g]) : aof'[f][i] = aof[g][j]
      BY <3>1
    <3> QED
      BY <1>2, <3>2, RecoveredNewest
  <2> QED
    BY <1>2, <1>3, <1>5, <2>1 DEF MemNewest
<1>9. Numbered'
  <2>1. \A k \in Keys : mem'[k] <= cmds
    BY <1>2, RecoveredBounded
  <2>2. \A f \in 1..Len(aof') : \A i \in 1..Len(aof'[f]) : aof'[f][i].n <= cmds
    BY <1>5 DEF IInv, Numbered
  <2> QED
    BY <1>2, <2>1, <2>2 DEF IInv, Numbered
<1>10. NothingSurvives'
  BY DEF Restart, NothingSurvives
<1>11. /\ conf_file \in Place /\ IsPlace(aof, conf_file)
       /\ child.at \in Place /\ IsPlace(aof, child.at)
  BY <1>1 DEF TypeOK, IInv, PlacesInside
<1>12. PlacesInside'
  BY <1>1, <1>2, <1>4, <1>5, <1>11, GrowsKeeps DEF PlacesInside
<1>13. DumpCovers'
  <2>1. HoldsBefore(aof', db, conf_file)
    BY <1>1, <1>4, <1>5, <1>11, GrowsKeeps DEF IInv, DumpCovers
  <2> QED
    BY <1>2, <1>3, <2>1 DEF DumpCovers
<1>14. DumpNotAhead'
  <2>1. ASSUME NEW k \in Keys
        PROVE  db[k] <= Recovered[k] \/ ReplayedFrom(aof', k, conf_file)
    <3>1. CASE Recovered[k] = db[k]
      BY <1>1, <3>1, BoundAssumption DEF TypeOK, Data
    <3>2. CASE ReplayedFrom(aof, k, conf_file)
      BY <1>1, <1>4, <1>5, <1>11, <3>2, GrowsKeeps
    <3> QED
      BY <1>1, <3>1, <3>2, RecoveredIs DEF ReplayedFrom
  <2> QED
    BY <1>2, <1>3, <2>1 DEF DumpNotAhead
<1> QED
  BY <1>1, <1>6, <1>7, <1>8, <1>9, <1>10, <1>12, <1>13, <1>14 DEF IInv

LEMMA InvStep ==
  ASSUME OwnKeys, ~ChildMayDie, IInv, [Next]_vars
  PROVE  IInv'
<1>1. CASE UNCHANGED vars
  BY <1>1 DEF IInv, vars, disk, TypeOK, Place, LogOrdered, BacklogOrdered, BacklogAfterLog,
              ExecutedLast, MemNewest, Numbered, NothingSurvives, PlacesInside, DumpCovers,
              DumpNotAhead
<1>2. ASSUME NEW w \in Workers, Feed(w) PROVE IInv'
  BY <1>2, FeedKeeps
<1>3. ASSUME NEW w \in Workers, NEW k \in KeysOf[w], Exec(w, k) PROVE IInv'
  BY <1>3, ExecKeeps
<1>4. CASE Next
  BY <1>2, <1>3, <1>4, FlushKeeps, ConfFlushKeeps, BgsaveKeeps, BgsaveFinishKeeps,
     CrashKeeps, RestartKeeps DEF Next, Stop
<1> QED
  BY <1>1, <1>4

-----------------------------------------------------------------------------
(* Every variable keeps its type, whatever the clients and the child do.   *)
THEOREM TypeCorrect == Spec => []TypeOK
<1>1. Init => TypeOK
  BY TypeInit
<1>2. TypeOK /\ [Next]_vars => TypeOK'
  BY TypeStep
<1> QED
  BY <1>1, <1>2, PTL DEF Spec

LEMMA InvAlways ==
  ASSUME OwnKeys, ~ChildMayDie
  PROVE  Spec => []IInv
<1>1. Init => IInv
  BY InvInit
<1>2. IInv /\ [Next]_vars => IInv'
  BY InvStep
<1> QED
  BY <1>1, <1>2, PTL DEF Spec

LEMMA InvCovers == IInv => DumpCoversPlace
<1> SUFFICES ASSUME IInv, NEW k \in Keys,
                    NEW n \in LoggedBefore(k, conf_file) \cup LoggedBefore(k, conf)
             PROVE  db[k] >= n
  BY DEF DumpCoversPlace
<1>1. ASSUME NEW c, n \in LoggedBefore(k, c), HoldsBefore(aof, db, c) PROVE db[k] >= n
  <2>1. PICK f \in 1..Len(aof) : \E i \in 1..Len(aof[f]) :
          Before(f, i, c) /\ aof[f][i].key = k /\ n = aof[f][i].n
    BY <1>1 DEF LoggedBefore, Before
  <2>2. PICK i \in 1..Len(aof[f]) : Before(f, i, c) /\ aof[f][i].key = k /\ n = aof[f][i].n
    BY <2>1
  <2>3. n <= db[k] /\ n \in Nat
    BY <1>1, <2>2, CmdTypes DEF IInv, HoldsBefore
  <2>4. db[k] \in Nat
    BY BoundAssumption DEF IInv, TypeOK, Data
  <2> QED
    BY <2>3, <2>4
<1> QED
  BY <1>1 DEF IInv, DumpCovers

(* The commands of a key in the files.                                     *)
LEMMA LoggedIs ==
  \A k : /\ \A n \in Logged(k) : \E f \in 1..Len(aof) : \E i \in 1..Len(aof[f]) :
              aof[f][i].key = k /\ n = aof[f][i].n
         /\ \A f \in 1..Len(aof) : \A i \in 1..Len(aof[f]) :
              aof[f][i].key = k => aof[f][i].n \in Logged(k)
  BY DEF Logged

LEMMA InvRecovers == IInv => RecoversLog
<1> SUFFICES ASSUME IInv, NEW k \in Keys, NEW n \in Logged(k)
             PROVE  Recovered[k] >= n
  BY DEF RecoversLog
<1>1. PICK f \in 1..Len(aof) : \E i \in 1..Len(aof[f]) : aof[f][i].key = k /\ n = aof[f][i].n
  BY LoggedIs
<1>2. PICK i \in 1..Len(aof[f]) : aof[f][i].key = k /\ n = aof[f][i].n
  BY <1>1
<1>3. n <= Recovered[k] /\ n \in Nat
  BY <1>2, RecoveredNewest, CmdTypes DEF IInv
<1>4. Recovered[k] \in Nat
  BY RecoveredType, BoundAssumption DEF IInv, Data
<1> QED
  BY <1>3, <1>4

(* Whenever the server dies, the dump on disk contains every command that  *)
(* lies before the places that the memory and the configuration file give  *)
(* for it: replConfFlush may write the place long after onBgsaveFinish has *)
(* renamed the dump, and never before.                                     *)
THEOREM DumpCovered ==
  ASSUME OwnKeys, ~ChildMayDie
  PROVE  Spec => []DumpCoversPlace
  BY InvAlways, InvCovers, PTL

(* Whenever the server dies, the recovery in Replication::_init finds for  *)
(* every key a value as new as the last one that was written to the        *)
(* append-only files.  Files are loaded whole here, as loadFile does up to *)
(* its buffer of 4096 bytes; see DumpFile for longer ones.                 *)
THEOREM NothingLoggedLost ==
  ASSUME OwnKeys, ~ChildMayDie
  PROVE  Spec => []RecoversLog
  BY InvAlways, InvRecovers, PTL

-----------------------------------------------------------------------------
(* The refinement of DurableStore.  What is durable is the newest logged   *)
(* command of a key, and what a crash leaves lies between it and the       *)
(* memory.                                                                 *)
DurableNewest ==
  \A k \in Keys : /\ Durable[k] \in Nat
                  /\ Durable[k] \in Logged(k) \cup {0}
                  /\ \A n \in Logged(k) : n <= Durable[k]

LEMMA DurableIs == TypeOK => DurableNewest
<1> SUFFICES ASSUME TypeOK, NEW k \in Keys
             PROVE  /\ Durable[k] \in Nat
                    /\ Durable[k] \in Logged(k) \cup {0}
                    /\ \A n \in Logged(k) : n <= Durable[k]
  BY DEF DurableNewest
<1>1. Logged(k) \subseteq 0..MaxCmds
  BY LoggedIs, CmdTypes
<1>2. Durable[k] = Max(Logged(k) \cup {0})
  BY DEF Durable
<1>3. Logged(k) \cup {0} \in SUBSET (0..MaxCmds) /\ Logged(k) \cup {0} # {} /\ MaxCmds \in Nat
  BY <1>1, BoundAssumption
<1>4. /\ Durable[k] \in Logged(k) \cup {0}
      /\ \A n \in Logged(k) \cup {0} : n <= Durable[k]
  BY <1>2, <1>3, MaxOf
<1> QED
  BY <1>1, <1>3, <1>4

RecoveredFrom ==
  \A k \in Keys :
    /\ Recovered[k] \in Nat
    /\ \/ Recovered[k] = db[k] /\ ~ReplayedFrom(aof, k, conf_file)
       \/ \E f \in 1..Len(aof) : \E i \in 1..Len(aof[f]) :
            aof[f][i].key = k /\ Recovered[k] = aof[f][i].n

LEMMA RecoveredKinds == TypeOK => RecoveredFrom
<1> SUFFICES ASSUME TypeOK, NEW k \in Keys
             PROVE  /\ Recovered[k] \in Nat
                    /\ \/ Recovered[k] = db[k] /\ ~ReplayedFrom(aof, k, conf_file)
                       \/ \E f \in 1..Len(aof) : \E i \in 1..Len(aof[f]) :
                            aof[f][i].key = k /\ Recovered[k] = aof[f][i].n
  BY DEF RecoveredFrom
<1>1. Recovered[k] \in Nat
  BY RecoveredType, BoundAssumption DEF Data
<1> QED
  BY <1>1, RecoveredIs

(* Growing files lose no command, and an empty batch adds none.            *)
LEMMA LoggedGrows ==
  ASSUME TypeOK, NEW b, NEW o, Grows(aof', b, o), NEW k
  PROVE  /\ Logged(k) \subseteq Logged(k)'
         /\ Len(b) = 0 => Logged(k)' = Logged(k)
<1>1. /\ \A n \in Logged(k)' : \E f \in 1..Len(aof') : \E i \in 1..Len(aof'[f]) :
           aof'[f][i].key = k /\ n = aof'[f][i].n
      /\ \A f \in 1..Len(aof') : \A i \in 1..Len(aof'[f]) :
           aof'[f][i].key = k => aof'[f][i].n \in Logged(k)'
  BY DEF Logged
<1>2. ASSUME NEW n \in Logged(k) PROVE n \in Logged(k)'
  <2>1. PICK f \in 1..Len(aof) : \E i \in 1..Len(aof[f]) : aof[f][i].key = k /\ n = aof[f][i].n
    BY LoggedIs
  <2>2. PICK i \in 1..Len(aof[f]) : aof[f][i].key = k /\ n = aof[f][i].n
    BY <2>1
  <2>3. aof' \in Seq(Seq(Cmd)) /\ Len(aof) <= Len(aof')
    BY DEF Grows
  <2>4. f \in 1..Len(aof')
    BY <2>3 DEF TypeOK
  <2>5. i \in 1..Len(aof'[f]) /\ aof'[f][i] = aof[f][i]
    BY DEF Grows
  <2> QED
    BY <1>1, <2>2, <2>4, <2>5
<1>3. ASSUME NEW n \in Logged(k)', Len(b) = 0 PROVE n \in Logged(k)
  <2>1. PICK f \in 1..Len(aof') : \E i \in 1..Len(aof'[f]) :
          aof'[f][i].key = k /\ n = aof'[f][i].n
    BY <1>1
  <2>2. PICK i \in 1..Len(aof'[f]) : aof'[f][i].key = k /\ n = aof'[f][i].n
    BY <2>1
  <2>3. f \in 1..Len(aof) /\ i \in 1..Len(aof[f])
    BY <1>3 DEF Grows
  <2>4. aof'[f][i] = aof[f][i]
    BY <2>3 DEF Grows
  <2> QED
    BY <2>2, <2>3, <2>4, LoggedIs
<1> QED
  BY <1>2, <1>3

(* What is durable stays so while the files grow.                          *)
LEMMA DurableGrows ==
  ASSUME TypeOK, TypeOK', NEW b, NEW o, Grows(aof', b, o), NEW k \in Keys
  PROVE  Durable[k] <= Durable'[k]
<1>1. /\ Durable'[k] \in Nat
      /\ \A n \in Logged(k)' : n <= Durable'[k]
  <2>1. TypeOK' => DurableNewest'
    BY DurableIs, PTL
  <2> QED
    BY <2>1 DEF DurableNewest
<1>2. Durable[k] \in Logged(k) \cup {0} /\ Durable[k] \in Nat
  BY DurableIs DEF DurableNewest
<1>3. Logged(k) \subseteq Logged(k)'
  BY LoggedGrows
<1> QED
  BY <1>1, <1>2, <1>3

(* The server implements a store that loses at a crash only what was not   *)
(* yet written to the append-only files.                                   *)
LEMMA ExecRefines ==
  ASSUME TypeOK, NEW w \in Workers, NEW k \in KeysOf[w], Exec(w, k)
  PROVE  DS!Write(k) /\ k \in Keys
<1>1. Visible = mem /\ Visible' = mem'
  BY DEF Exec, Visible
<1>2. Durable' = Durable
  BY DEF Exec, disk, Durable, Logged
<1>3. k \in Keys
  BY KeysOfAssumption
<1> QED
  BY <1>1, <1>2, <1>3 DEF Exec, DS!Write

LEMMA FlushRefines ==
  ASSUME IInv, IInv', Flush
  PROVE  DS!Harden
<1>1. TypeOK /\ TypeOK' /\ backlog \in Seq(Cmd)
  BY DEF IInv, TypeOK
<1>2. PICK o \in Nat : Grows(aof', backlog, o)
  BY <1>1, WriteGrows DEF Flush
<1>3. Visible = mem /\ Visible' = mem /\ mem' = mem /\ cmds' = cmds /\ up'
  BY DEF Flush, Visible
<1>4. ASSUME NEW k \in Keys PROVE Durable'[k] <= mem[k]
  <2>1. TypeOK' => DurableNewest'
    BY DurableIs, PTL
  <2>2. Durable'[k] \in Logged(k)' \cup {0}
    BY <1>1, <2>1 DEF DurableNewest
  <2>3. mem[k] \in Nat
    BY <1>1, BoundAssumption DEF TypeOK, Data
  <2>4. ASSUME NEW n \in Logged(k)' PROVE n <= mem[k]
    <3>1. \A f \in 1..Len(aof') : \A i \in 1..Len(aof'[f]) : aof'[f][i].n <= mem'[aof'[f][i].key]
      BY <1>3 DEF IInv, MemNewest
    <3>2. \E f \in 1..Len(aof') : \E i \in 1..Len(aof'[f]) : aof'[f][i].key = k /\ n = aof'[f][i].n
      BY <2>4 DEF Logged
    <3> QED
      BY <1>3, <3>1, <3>2
  <2> QED
    BY <2>2, <2>3, <2>4
<1>5. \A k \in Keys : Durable[k] <= Durable'[k]
  BY <1>1, <1>2, DurableGrows
<1> QED
  BY <1>3, <1>4, <1>5 DEF DS!Harden

LEMMA CrashRefines ==
  ASSUME IInv, IInv', Crash \/ CrashInFlush
  PROVE  DS!Lose
<1>1. TypeOK /\ TypeOK' /\ backlog \in Seq(Cmd)
  BY DEF IInv, TypeOK
<1>2. up /\ ~up' /\ UNCHANGED <<db, conf_file, cmds>>
  BY DEF Crash, CrashInFlush, Die
<1>3. Visible = mem /\ Visible' = Recovered'
  BY <1>2 DEF Visible
<1>4. \E b \in Seq(Cmd), o \in Nat : Grows(aof', b, o)
  <2>1. CASE UNCHANGED aof
    <3>1. Grows(aof', <<>>, 0)
      BY <1>1, <2>1, CmdTypes DEF Grows, TypeOK
    <3> WITNESS <<>> \in Seq(Cmd), 0 \in Nat
    <3> QED
      BY <3>1
  <2>2. CASE CrashInFlush
    <3>1. PICK i \in 1..Len(backlog) : aof' = Write(aof, SubSeq(backlog, 1, i))
      BY <2>2 DEF CrashInFlush
    <3>2. SubSeq(backlog, 1, i) \in Seq(Cmd)
      BY <1>1
    <3> QED
      BY <1>1, <3>1, <3>2, WriteGrows
  <2> QED
    BY <2>1, <2>2 DEF Crash
<1>5. PICK b \in Seq(Cmd), o \in Nat : Grows(aof', b, o)
  BY <1>4
<1>6. /\ TypeOK' => DurableNewest'
      /\ TypeOK' => RecoveredFrom'
      /\ IInv' => RecoversLog'
  BY DurableIs, RecoveredKinds, InvRecovers, PTL
<1>7. ASSUME NEW k \in Keys PROVE Durable[k] <= Durable'[k]
  BY <1>1, <1>5, DurableGrows
<1>8. ASSUME NEW k \in Keys PROVE Durable'[k] <= Recovered'[k]
  <2>1. Durable'[k] \in Logged(k)' \cup {0} /\ Durable'[k] \in Nat
    BY <1>1, <1>6 DEF DurableNewest
  <2>2. Recovered'[k] \in Nat
    BY <1>1, <1>6 DEF RecoveredFrom
  <2>3. \A n \in Logged(k)' : Recovered'[k] >= n
    BY <1>6 DEF RecoversLog
  <2> QED
    BY <2>1, <2>2, <2>3
<1>9. ASSUME NEW k \in Keys PROVE Recovered'[k] <= mem[k]
  <2>1. CASE Recovered'[k] = db'[k] /\ ~ReplayedFrom(aof', k, conf_file')
    <3>1. conf_file \in Place /\ IsPlace(aof, conf_file)
      BY <1>1 DEF TypeOK, IInv, PlacesInside
    <3>2. ReplayedFrom(aof, k, conf_file) => ReplayedFrom(aof', k, conf_file)
      BY <1>1, <1>5, <3>1, GrowsKeeps
    <3> QED
      BY <1>2, <2>1, <3>2 DEF IInv, DumpNotAhead
  <2>2. CASE \E f \in 1..Len(aof') : \E i \in 1..Len(aof'[f]) :
               aof'[f][i].key = k /\ Recovered'[k] = aof'[f][i].n
    BY <2>2, CrashKeeps
  <2> QED
    BY <1>1, <1>6, <2>1, <2>2 DEF RecoveredFrom
<1> QED
  BY <1>2, <1>3, <1>7, <1>8, <1>9 DEF DS!Lose

LEMMA RestartRefines ==
  ASSUME IInv, Restart
  PROVE  UNCHANGED <<Visible, Durable, cmds>>
<1>1. Visible = Recovered /\ Visible' = Recovered
  BY DEF Restart, Visible
<1>2. TypeOK
  BY DEF IInv
<1>3. Grows(aof', <<>>, 0) /\ Len(<<>>) = 0
  BY <1>2, NewFileGrows DEF Restart
<1>4. \A k \in Keys : Logged(k)' = Logged(k)
  BY <1>2, <1>3, LoggedGrows
<1>5. Durable' = Durable
  BY <1>4 DEF Durable
<1> QED
  BY <1>1, <1>5 DEF Restart

THEOREM Refinement ==
  ASSUME OwnKeys, ~ChildMayDie
  PROVE  Spec => ImplementsDurableStore
<1>1. Init => DS!Init
  <2> SUFFICES ASSUME Init PROVE DS!Init
    OBVIOUS
  <2>1. Visible = [k \in Keys |-> 0]
    BY DEF Init, Visible, Empty
  <2>2. ASSUME NEW k \in Keys PROVE Durable[k] = 0
    <3>1. Len(aof) = 1 /\ Len(aof[1]) = 0
      BY DEF Init
    <3>2. Logged(k) = {}
      BY <3>1, LoggedIs
    <3> QED
      BY <3>2, TypeInit, DurableIs DEF DurableNewest
  <2>3. Durable = [k \in Keys |-> 0]
    BY <2>2 DEF Durable
  <2> QED
    BY <2>1, <2>3 DEF Init, DS!Init
<1>2. IInv /\ IInv' /\ [Next]_vars => [DS!Next]_(DS!vars)
  <2> SUFFICES ASSUME IInv, IInv', [Next]_vars PROVE [DS!Next]_(DS!vars)
    OBVIOUS
  <2>1. ASSUME NEW w \in Workers, NEW k \in KeysOf[w], Exec(w, k) PROVE DS!Next
    BY <2>1, ExecRefines DEF IInv, DS!Next
  <2>2. CASE Flush
    BY <2>2, FlushRefines DEF DS!Next
  <2>3. CASE Crash \/ CrashInFlush \/ Stop
    BY <2>3, CrashRefines DEF DS!Next, Stop
  <2>4. CASE Restart
    BY <2>4, RestartRefines DEF DS!vars
  <2>5. CASE up /\ UNCHANGED <<up, mem, aof, cmds>>
    <3>1. Durable' = Durable
      BY <2>5 DEF Durable, Logged
    <3> QED
      BY <2>5, <3>1 DEF DS!vars, Visible
  <2>6. CASE UNCHANGED vars
    <3>1. Durable' = Durable
      BY <2>6 DEF vars, disk, Durable, Logged
    <3>2. Recovered' = Recovered
      BY <2>6 DEF vars, disk, Recovered, Replayed, From
    <3> QED
      BY <2>6, <3>1, <3>2 DEF DS!vars, Visible, vars
  <2>7. CASE (\E w \in Workers : Feed(w)) \/ ConfFlush \/ Bgsave \/ BgsaveFinish
    BY <2>5, <2>7 DEF Feed, ConfFlush, Bgsave, BgsaveFinish, disk
  <2> QED
    BY <2>1, <2>2, <2>3, <2>4, <2>6, <2>7 DEF Next
<1>3. Spec => []IInv
  BY InvAlways
<1> QED
  BY <1>1, <1>2, <1>3, PTL DEF Spec, ImplementsDurableStore, DS!Spec
=============================================================================
