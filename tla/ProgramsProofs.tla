-------------------------- MODULE ProgramsProofs --------------------------
(***************************************************************************)
(* Proofs about the small programs, as they run in Programs, for every     *)
(* input: the slices of the array and what the threads return and print,   *)
(* the counters, the two tests of seri, the families of processes, the     *)
(* copies, and the records that one program writes and another reads.      *)
(***************************************************************************)
EXTENDS Programs, SequenceTheorems, TLAPS

(* Only the program that runs takes steps, and its command stays.          *)
LEMMA OneProgram ==
  ASSUME [ProgramsNext]_allVars
  PROVE  /\ command' = command
         /\ command.name \in ThreadPrograms =>
                ThreadsNext \/ UNCHANGED <<main, threadVars>>
         /\ command.name \in ProcessPrograms =>
                ProcessesNext \/ UNCHANGED <<main, procVars>>
         /\ command.name \in CopyPrograms =>
                CopiesNext \/ UNCHANGED <<main, copyVars>>
         /\ command.name \in RecordPrograms =>
                RecordsNext \/ UNCHANGED <<main, recordVars>>
         /\ command.name \in TestPrograms =>
                TestsNext \/ UNCHANGED <<main, testVars>>
         /\ command.name \notin TestPrograms => UNCHANGED testVars
<1>1. ThreadsNext => command.name \in ThreadPrograms
  BY DEF ThreadsNext, threadsMain, threadFunction, ThreadsBegin, Create,
     Created, Join, ThreadsPrint, Compute, ReturnArgument, Initialize,
     LoopEnds, Lock, Load, Store, Unlock, ThreadAt, Runs, ThreadPrograms
<1>2. ProcessesNext => command.name \in ProcessPrograms
  BY DEF ProcessesNext, ProcessBegin, process, Fork, Wait, Exec, OpenFile,
     WriteFile, Exit, At, Runs
<1>3. CopiesNext => command.name \in CopyPrograms
  BY DEF CopiesNext, CopyOpen, MergeOpen, Read, Write, CopyClose, NextPart,
     Sample, Runs, CopyPrograms
<1>4. RecordsNext => command.name \in RecordPrograms
  BY DEF RecordsNext, WriteRecord, ReadLetter, ReadGrades, ReadEnd, Runs
<1>5. TestsNext => command.name \in TestPrograms
  BY DEF TestsNext, TestsMain, OtherUser, IoctlTestSet, IoctlTestGet,
     NusersTest, MainAt, TestPrograms
<1>6. \/ Threads(ThreadsNext) \/ Procs(ProcessesNext) \/ Copies(CopiesNext)
      \/ Records(RecordsNext) \/ Tests(TestsNext)
      \/ UNCHANGED allVars
  BY DEF ProgramsNext, Terminating
<1> QED
  BY <1>1, <1>2, <1>3, <1>4, <1>5, <1>6
     DEF Threads, Procs, Copies, Records, Tests, allVars, ThreadPrograms,
         ProcessPrograms, CopyPrograms, RecordPrograms, TestPrograms

-----------------------------------------------------------------------------
(* main and its threads, in all the thread programs.                       *)

LEMMA Commands ==
  ASSUME ProgramsInit, command.name \in ThreadPrograms
  PROVE  command \in ThreadCommands
BY DEF ProgramsInit, ProcessCommands, CopyCommands, RecordCommands,
   TestCommands, ThreadPrograms

LEMMA CommandFields ==
  ASSUME command \in ThreadCommands
  PROVE  /\ command.name = "arith" => command.a \in Ints /\ command.b \in Ints
         /\ command.name = "fill" => /\ command.size \in 0 .. MaxSize
                                     /\ command.nthreads \in 0 .. MaxThreads
         /\ command.name \in {"count", "tfun"} => command.n \in Nat
         /\ command.name = "each" => command.n \in 1 .. MaxThreads
         /\ NThreads \in 0 .. MaxThreads
<1>1. \A c \in ThreadCommands :
         /\ c.name = "arith" => c.a \in Ints /\ c.b \in Ints
         /\ c.name = "fill" => /\ c.size \in 0 .. MaxSize
                               /\ c.nthreads \in 0 .. MaxThreads
         /\ c.name \in {"count", "tfun"} => c.n \in Nat
         /\ c.name = "each" => c.n \in 1 .. MaxThreads
  BY ThreadsAssumption DEF ThreadCommands
<1> QED
  BY <1>1, ThreadsAssumption DEF NThreads

(* Threads are created from 0 on, each with its argument, and joined in    *)
(* that order; there is none behind the last.                              *)
StagesInv ==
    command.name \in ThreadPrograms =>
        /\ command \in ThreadCommands
        /\ DOMAIN thread = Tids /\ DOMAIN arg = Tids
        /\ main \in {"start", "create", "join", "end", "killed"}
        /\ main = "start" => k = 0 /\ \A t \in Tids : thread[t] = "none"
        /\ main \in {"create", "join"} => k \in 0 .. NThreads
        /\ main = "create" => \A t \in Tids : t >= k => thread[t] = "none"
        /\ main = "join" => \A t \in 0 .. k - 1 : thread[t] = "done"
        /\ main = "end" => \A t \in 0 .. NThreads - 1 : thread[t] = "done"
        /\ \A t \in Tids : thread[t] # "none" =>
              /\ t < NThreads
              /\ command.name # "fill" => arg[t] = Argument(t)

LEMMA StagesStep ==
  ASSUME StagesInv, ThreadsNext
  PROVE  StagesInv'
<1>1. /\ command.name \in ThreadPrograms /\ command' = command
      /\ command \in ThreadCommands
      /\ DOMAIN thread = Tids /\ DOMAIN arg = Tids
  BY DEF StagesInv, ThreadsNext, threadsMain, threadFunction, ThreadsBegin,
     Create, Created, Join, ThreadsPrint, Compute, ReturnArgument, Initialize,
     LoopEnds, Lock, Load, Store, Unlock, ThreadAt, Runs, ThreadPrograms
<1>2. NThreads \in 0 .. MaxThreads /\ MaxThreads \in Nat
  BY <1>1, CommandFields, ThreadsAssumption
<1>3. /\ NThreads' = NThreads
      /\ command.name # "fill" => \A t : Argument(t)' = Argument(t)
  BY <1>1 DEF NThreads, Argument
<1>4. CASE Create
  <2>1. /\ main = "create" /\ main' = main /\ k' = k + 1
        /\ k \in 0 .. NThreads - 1 /\ k \in Tids
        /\ thread' = [thread EXCEPT ![k] = "run"]
        /\ arg' = [arg EXCEPT ![k] = Argument(k)]
    BY <1>1, <1>2, <1>4 DEF Create, StagesInv, Tids
  <2> QED
    BY <1>1, <1>2, <1>3, <2>1 DEF StagesInv, Tids
<1>5. CASE ThreadsBegin \/ Created \/ Join \/ ThreadsPrint
  <2>1. UNCHANGED <<thread, arg>>
    BY <1>5 DEF ThreadsBegin, Created, Join, ThreadsPrint, threadVars
  <2> QED
    BY <1>1, <1>2, <1>3, <1>5, <2>1
       DEF StagesInv, Tids, ThreadsBegin, Created, Join, ThreadsPrint, threadVars
<1>6. ASSUME NEW t \in Tids, threadFunction(t)
      PROVE  StagesInv'
  <2>1. /\ UNCHANGED <<k, arg>> /\ thread[t] \notin {"none", "done"}
        /\ main' = main \/ main' = "killed"
        /\ DOMAIN thread' = Tids /\ thread'[t] # "none"
        /\ \A u \in Tids \ {t} : thread'[u] = thread[u]
    BY <1>1, <1>6 DEF threadFunction, Compute, ReturnArgument, Initialize,
       LoopEnds, Lock, Load, Store, Unlock, ThreadAt
  <2> QED
    BY <1>1, <1>2, <1>3, <2>1 DEF StagesInv, Tids
<1> QED
  BY <1>4, <1>5, <1>6 DEF ThreadsNext, threadsMain

LEMMA Stages == ProgramsSpec => []StagesInv
<1>1. ProgramsInit => StagesInv
  BY Commands DEF ProgramsInit, ThreadsInit, StagesInv
<1>2. StagesInv /\ [ProgramsNext]_allVars => StagesInv'
  <2> SUFFICES ASSUME StagesInv, [ProgramsNext]_allVars PROVE StagesInv'
    OBVIOUS
  <2>1. CASE command' = command /\ UNCHANGED <<main, threadVars>>
    BY <2>1 DEF StagesInv, threadVars, NThreads, Argument, Inits
  <2>2. CASE command' = command /\ command.name \notin ThreadPrograms
    BY <2>2 DEF StagesInv
  <2> QED
    BY <2>1, <2>2, StagesStep, OneProgram
<1> QED
  BY <1>1, <1>2, PTL DEF ProgramsSpec

-----------------------------------------------------------------------------
(* The slices of ex4.c.                                                    *)

(* Where the slice of thread t starts: after t shares and the first extras.*)
Start(t) ==
    LET q == command.size \div command.nthreads
        e == command.size - q * command.nthreads
    IN  t * q + (IF t < e THEN t ELSE e)

(* The shares follow one another and end with the array.                   *)
LEMMA Shares ==
  ASSUME command.size \in Nat, command.nthreads \in Nat, command.nthreads > 0
  PROVE  /\ Start(0) = 0
         /\ Start(command.nthreads) = command.size
         /\ \A t \in Nat : Start(t) \in Nat /\ Inits(t) \in Nat
         /\ \A t \in Nat : Start(t + 1) = Start(t) + Inits(t)
         /\ \A t, u \in Nat : t <= u => Start(t) <= Start(u)
<1> DEFINE n == command.nthreads
           q == command.size \div n
           e == command.size - q * n
<1>1. q \in Nat /\ e \in 0 .. n - 1
  OBVIOUS
<1>2. \A t \in Nat : /\ Start(t) = t * q + (IF t < e THEN t ELSE e)
                     /\ Inits(t) = IF t < e THEN q + 1 ELSE q
  BY DEF Start, Inits
<1>3. n \in Nat /\ q * n + e = command.size
  BY <1>1
<1> HIDE DEF n, q, e
<1>4. Start(0) = 0
  BY <1>1, <1>2, <1>3
<1>5. Start(n) = command.size
  BY <1>1, <1>2, <1>3
<1>6. \A t \in Nat : t * q \in Nat /\ (t + 1) * q = t * q + q
  BY <1>1
<1>7. \A t \in Nat : Start(t) \in Nat /\ Inits(t) \in Nat
  BY <1>1, <1>2, <1>6
<1>8. ASSUME NEW t \in Nat
      PROVE  Start(t + 1) = Start(t) + Inits(t)
  <2>1. /\ t + 1 \in Nat /\ t * q \in Nat /\ (t + 1) * q = t * q + q
        /\ q \in Nat /\ e \in Int
    BY <1>1, <1>6
  <2>2. /\ Start(t + 1) = t * q + q + (IF t + 1 < e THEN t + 1 ELSE e)
        /\ Start(t) = t * q + (IF t < e THEN t ELSE e)
        /\ Inits(t) = IF t < e THEN q + 1 ELSE q
    BY <1>2, <2>1
  <2> QED
    BY <2>1, <2>2
<1>9. ASSUME NEW t \in Nat, NEW u \in Nat, t <= u
      PROVE  Start(t) <= Start(u)
  <2>1. u - t \in Nat /\ (u - t) * q \in Nat /\ u * q = t * q + (u - t) * q
    BY <1>1, <1>9
  <2>2. t * q <= u * q /\ t * q \in Nat /\ u * q \in Nat /\ e \in Int
    BY <1>1, <1>6, <2>1
  <2>3. /\ Start(t) = t * q + (IF t < e THEN t ELSE e)
        /\ Start(u) = u * q + (IF u < e THEN u ELSE e)
    BY <1>2
  <2> QED
    BY <1>9, <2>2, <2>3
<1> QED
  BY <1>4, <1>5, <1>7, <1>8, <1>9 DEF n

(* The threads created so far are those below k, and currentPos is where   *)
(* the next one starts.                                                    *)
FillInv ==
    command.name = "fill" =>
        /\ command.size \in Nat /\ command.nthreads \in 0 .. MaxThreads
        /\ DOMAIN thread = Tids /\ DOMAIN arg = Tids
        /\ main = "start" =>
               k = 0 /\ pos = 0 /\ \A t \in Tids : thread[t] = "none"
        /\ main = "create" =>
               /\ command.nthreads > 0
               /\ k \in 0 .. command.nthreads /\ pos = Start(k)
        /\ \A t \in Tids :
               \/ thread[t] = "none" /\ arg[t] = [x |-> 0, y |-> 0]
               \/ /\ t < command.nthreads
                  /\ arg[t] = [x |-> Start(t), y |-> Inits(t)]

(* A step of main or of a thread that creates none.                        *)
LEMMA FillAside ==
  ASSUME FillInv, UNCHANGED <<command, arg>>,
         main' # "start", main' = "create" => UNCHANGED <<main, k, pos>>,
         \/ UNCHANGED thread
         \/ \E t \in Tids : /\ thread[t] # "none"
                            /\ \E to : thread' = [thread EXCEPT ![t] = to]
  PROVE  FillInv'
BY DEF FillInv, Start, Inits

(* The step that creates thread k.                                         *)
LEMMA FillCreate ==
  ASSUME FillInv, Create, command.name = "fill", UNCHANGED command
  PROVE  FillInv'
<1>1. /\ main = "create" /\ main' = main
      /\ k \in 0 .. command.nthreads - 1 /\ k' = k + 1
      /\ command.size \in Nat /\ command.nthreads \in Nat /\ k \in Nat
      /\ command.nthreads > 0 /\ pos = Start(k) /\ k \in Tids
  BY ThreadsAssumption DEF FillInv, Create, NThreads, Tids
<1>2. /\ pos' = pos + Inits(k)
      /\ arg' = [arg EXCEPT ![k] = [x |-> pos, y |-> Inits(k)]]
      /\ thread' = [thread EXCEPT ![k] = "run"]
  BY DEF Create, Argument
<1>3. pos' = Start(k')
  BY <1>1, <1>2, Shares
<1>4. \A t : Start(t)' = Start(t') /\ Inits(t)' = Inits(t')
  BY DEF Start, Inits
<1> QED
  BY <1>1, <1>2, <1>3, <1>4 DEF FillInv

LEMMA Filling == ProgramsSpec => []FillInv
<1>1. ProgramsInit => FillInv
  BY Commands, CommandFields, ThreadsAssumption DEF ThreadPrograms, ProgramsInit, FillInv, ThreadsInit
<1>2. FillInv /\ [ProgramsNext]_allVars => FillInv'
  <2> SUFFICES ASSUME FillInv, [ProgramsNext]_allVars PROVE FillInv'
    OBVIOUS
  <2>1. command' = command
    BY OneProgram
  <2>2. CASE command.name # "fill"
    BY <2>1, <2>2 DEF FillInv
  <2>3. CASE command.name = "fill" /\ UNCHANGED <<main, threadVars>>
    BY <2>1, <2>3 DEF FillInv, threadVars, Start, Inits
  <2>4. CASE command.name = "fill" /\ ThreadsBegin
    BY <2>1, <2>4, Shares DEF FillInv, ThreadsBegin, threadVars, Start, Inits
  <2>5. CASE command.name = "fill" /\ Create
    BY <2>1, <2>5, FillCreate
  <2>6. CASE Created \/ Join \/ ThreadsPrint
    BY <2>1, <2>6, FillAside DEF Created, Join, ThreadsPrint, threadVars
  <2>7. ASSUME NEW t \in Tids, threadFunction(t), command.name = "fill"
        PROVE  FillInv'
    <3>1. /\ thread[t] # "none" /\ UNCHANGED <<k, pos, arg>>
          /\ main' = main \/ main' = "killed"
          /\ thread' = thread \/ \E to : thread' = [thread EXCEPT ![t] = to]
      BY <2>7 DEF threadFunction, Compute, ReturnArgument, Initialize,
         LoopEnds, Lock, Load, Store, Unlock, ThreadAt
    <3>2. main # "start"
      BY <2>7, <3>1 DEF FillInv
    <3> QED
      BY <2>1, <3>1, <3>2, FillAside
  <2> QED
    BY <2>2, <2>3, <2>4, <2>5, <2>6, <2>7, OneProgram
       DEF ThreadPrograms, ThreadsNext, threadsMain
<1> QED
  BY <1>1, <1>2, PTL DEF ProgramsSpec

(* The slice of a thread, within the array.                                *)
LEMMA SliceWithin ==
  ASSUME FillInv, command.name = "fill", NEW t \in Tids, thread[t] # "none"
  PROVE  /\ t \in Nat /\ t < command.nthreads /\ command.size \in Nat
         /\ command.nthreads \in Nat /\ command.nthreads > 0
         /\ arg[t].x = Start(t) /\ arg[t].y = Inits(t)
         /\ Start(t) \in Nat /\ Inits(t) \in Nat
         /\ Start(t) + Inits(t) = Start(t + 1)
         /\ Start(t + 1) <= command.size
<1>1. /\ t \in Nat /\ t < command.nthreads /\ command.size \in Nat
      /\ command.nthreads \in Nat /\ command.nthreads > 0
      /\ arg[t].x = Start(t) /\ arg[t].y = Inits(t)
  BY ThreadsAssumption DEF FillInv, Tids
<1>2. t + 1 \in Nat /\ t + 1 <= command.nthreads
  BY <1>1
<1>3. Start(t + 1) <= Start(command.nthreads)
  BY <1>1, <1>2, Shares
<1>4. Start(command.nthreads) = command.size
  BY <1>1, Shares
<1>5. Start(t) \in Nat /\ Inits(t) \in Nat /\ Start(t + 1) = Start(t) + Inits(t)
  BY <1>1, Shares
<1> QED
  BY <1>1, <1>3, <1>4, <1>5

(* The slices of the threads of ex4.c lie within the array and apart from  *)
(* each other, for any size, any number of threads, and any interleaving.  *)
THEOREM SlicesDisjoint == ProgramsSpec => []SlicesApart
<1>1. FillInv => SlicesApart
  <2> SUFFICES ASSUME FillInv, command.name = "fill",
                      NEW t \in Tids, thread[t] # "none"
               PROVE  /\ arg[t].x >= 0 /\ arg[t].x + arg[t].y <= command.size
                      /\ \A u \in Tids : u < t =>
                            arg[u].x + arg[u].y <= arg[t].x
    BY DEF SlicesApart
  <2>1. ASSUME NEW u \in Tids, u < t
        PROVE  arg[u].x + arg[u].y <= arg[t].x
    <3>1. u \in Nat /\ Start(u) + Inits(u) = Start(u + 1) /\ Start(u + 1) <= Start(t)
      BY <2>1, SliceWithin, Shares DEF Tids
    <3>2. \/ arg[u].x = 0 /\ arg[u].y = 0
          \/ arg[u].x = Start(u) /\ arg[u].y = Inits(u)
      BY DEF FillInv
    <3> QED
      BY <3>1, <3>2, SliceWithin
  <2> QED
    BY <2>1, SliceWithin
<1> QED
  BY <1>1, Filling, PTL

(* Each thread has written the beginning of its slice, and those that main *)
(* has joined all of theirs.                                               *)
Written(a, from, to) ==
    \A e \in from .. to - 1 : e \in DOMAIN a /\ a[e] = e

FilledInv ==
    command.name = "fill" =>
        /\ DOMAIN array = 0 .. MaxSize - 1 /\ i \in [Tids -> Nat]
        /\ \A t \in Tids : IF thread[t] = "none" THEN i[t] = 0
                           ELSE Written(array, Start(t), Start(t) + i[t])
        /\ \A t \in Tids : thread[t] = "done" => i[t] >= Inits(t)
        /\ main \in {"create", "join"} => command.nthreads > 0
        /\ main = "join" => Written(array, 0, Start(k))
        /\ main = "end" => Written(array, 0, command.size)

LEMMA FilledStep ==
  ASSUME StagesInv, FillInv, FilledInv, command.name = "fill", ThreadsNext
  PROVE  FilledInv'
<1>1. /\ command' = command /\ NThreads = command.nthreads
      /\ command.size \in 0 .. MaxSize /\ command.nthreads \in 0 .. MaxThreads
      /\ MaxThreads \in Nat /\ Tids \subseteq Nat
      /\ DOMAIN array = 0 .. MaxSize - 1 /\ i \in [Tids -> Nat]
      /\ DOMAIN thread = Tids
  BY CommandFields, ThreadsAssumption
     DEF ThreadsNext, StagesInv, FilledInv, ThreadPrograms, NThreads, Tids
<1>2. \A t : Start(t)' = Start(t') /\ Inits(t)' = Inits(t')
  BY <1>1 DEF Start, Inits
<1>3. CASE ThreadsBegin
  BY <1>1, <1>2, <1>3 DEF ThreadsBegin, threadVars, FilledInv, Written
<1>4. CASE Create
  <2>1. /\ main = "create" /\ main' = main /\ k \in Tids /\ i[k] = 0
        /\ thread' = [thread EXCEPT ![k] = "run"]
        /\ UNCHANGED <<i, array>>
    BY <1>1, <1>4 DEF Create, StagesInv, FilledInv, Tids, ThreadPrograms
  <2>2. Start(k) \in Nat
    BY <1>1, <2>1, Shares DEF FilledInv
  <2> QED
    BY <1>1, <1>2, <2>1, <2>2 DEF FilledInv, Written
<1>5. CASE Created
  <2>1. /\ main = "create" /\ main' = "join" /\ k' = 0
        /\ UNCHANGED <<thread, i, array>>
    BY <1>5 DEF Created
  <2>2. Start(0) = 0
    BY <1>1, <2>1, Shares DEF FilledInv
  <2> QED
    BY <1>1, <1>2, <2>1, <2>2 DEF FilledInv, Written
<1>6. CASE Join
  <2>1. /\ main = "join" /\ main' = "join" /\ k' = k + 1
        /\ k \in Tids /\ k \in Nat /\ thread[k] = "done"
        /\ UNCHANGED <<thread, i, array>>
    BY <1>1, <1>6 DEF Join, StagesInv, Tids, ThreadPrograms
  <2>2. /\ Start(k) \in Nat /\ Inits(k) \in Nat
        /\ Start(k + 1) = Start(k) + Inits(k)
    BY <1>1, <2>1, Shares DEF FilledInv
  <2>3. Written(array, 0, Start(k)) /\ Written(array, Start(k), Start(k) + i[k])
        /\ i[k] >= Inits(k) /\ i[k] \in Nat
    BY <1>1, <2>1 DEF FilledInv
  <2>4. Written(array, 0, Start(k + 1))
    BY <2>2, <2>3 DEF Written
  <2> QED
    BY <1>1, <1>2, <2>1, <2>4 DEF FilledInv, Written
<1>7. CASE ThreadsPrint
  <2>1. /\ main = "join" /\ main' = "end" /\ k = command.nthreads
        /\ UNCHANGED <<thread, i, array>>
    BY <1>1, <1>7 DEF ThreadsPrint, threadVars
  <2>2. Start(k) = command.size
    BY <1>1, <2>1, Shares DEF FilledInv
  <2> QED
    BY <1>1, <1>2, <2>1, <2>2 DEF FilledInv, Written
<1>8. ASSUME NEW t \in Tids, threadFunction(t)
      PROVE  FilledInv'
  <2>1. thread[t] = "run" /\ Initialize(t)
    BY <1>8 DEF threadFunction, Compute, ReturnArgument, Initialize, LoopEnds,
       Lock, Load, Store, Unlock, ThreadAt, Runs
  <2>2. /\ UNCHANGED <<main, k>> /\ arg[t].x = Start(t) /\ arg[t].y = Inits(t)
        /\ Start(t) \in Nat /\ Inits(t) \in Nat /\ i[t] \in Nat
        /\ Start(t) + Inits(t) <= command.size
    BY <1>1, <2>1, SliceWithin DEF Initialize
  <2>3. CASE i[t] < arg[t].y
    <3>1. /\ array' = [array EXCEPT ![i[t] + Start(t)] = i[t] + Start(t)]
          /\ i' = [i EXCEPT ![t] = @ + 1] /\ thread' = thread
      BY <2>1, <2>2, <2>3 DEF Initialize
    <3>2. i[t] + Start(t) \in DOMAIN array
      BY <1>1, <2>2, <2>3, ThreadsAssumption
    <3>3. /\ DOMAIN array' = DOMAIN array
          /\ \A e : array[e] = e /\ e \in DOMAIN array => array'[e] = e
          /\ array'[i[t] + Start(t)] = i[t] + Start(t)
      BY <3>1, <3>2
    <3>4. \A from, to : Written(array, from, to) => Written(array', from, to)
      BY <3>3 DEF Written
    <3>5. ASSUME NEW u \in Tids
          PROVE  /\ IF thread'[u] = "none" THEN i'[u] = 0
                    ELSE Written(array', Start(u), Start(u) + i'[u])
                 /\ thread'[u] = "done" => i'[u] >= Inits(u)
      <4>1. CASE u = t
        <5>1. i'[t] = i[t] + 1 /\ thread'[t] = "run"
          BY <1>1, <2>1, <3>1
        <5>2. Written(array', Start(t), Start(t) + i[t])
          BY <2>1, <3>4 DEF FilledInv
        <5>3. Written(array', Start(t), Start(t) + i[t] + 1)
          BY <2>2, <3>2, <3>3, <5>2 DEF Written
        <5> QED
          BY <1>2, <2>2, <4>1, <5>1, <5>3 DEF Written
      <4>2. CASE u # t
        BY <1>1, <3>1, <3>4, <4>2 DEF FilledInv
      <4> QED
        BY <4>1, <4>2
    <3>6. DOMAIN array' = 0 .. MaxSize - 1 /\ i' \in [Tids -> Nat]
      BY <1>1, <2>2, <3>1, <3>3
    <3>7. /\ main = "join" => Written(array', 0, Start(k))
          /\ main = "end" => Written(array', 0, command.size)
      BY <3>4 DEF FilledInv
    <3>8. main \in {"create", "join"} => command.nthreads > 0
      BY DEF FilledInv
    <3> HIDE DEF Written
    <3> QED
      BY <1>1, <1>2, <2>2, <3>5, <3>6, <3>7, <3>8 DEF FilledInv
  <2>4. CASE ~ (i[t] < arg[t].y)
    <3>1. thread' = [thread EXCEPT ![t] = "done"] /\ UNCHANGED <<array, i>>
      BY <2>1, <2>4 DEF Initialize
    <3> QED
      BY <1>1, <1>2, <2>1, <2>2, <2>4, <3>1 DEF FilledInv, Written
  <2> QED
    BY <2>3, <2>4
<1> QED
  BY <1>3, <1>4, <1>5, <1>6, <1>7, <1>8 DEF ThreadsNext, threadsMain

LEMMA ArrayFilled == ProgramsSpec => []FilledInv
<1>1. ProgramsInit => FilledInv
  BY DEF ProgramsInit, ThreadsInit, FilledInv, ThreadPrograms
<1>2. StagesInv /\ FillInv /\ FilledInv /\ [ProgramsNext]_allVars => FilledInv'
  <2> SUFFICES ASSUME StagesInv, FillInv, FilledInv, [ProgramsNext]_allVars
               PROVE  FilledInv'
    OBVIOUS
  <2>1. CASE command' = command /\ UNCHANGED <<main, threadVars>>
    BY <2>1 DEF FilledInv, threadVars, Start, Inits, Written
  <2>2. CASE command' = command /\ command.name # "fill"
    BY <2>2 DEF FilledInv
  <2> QED
    BY <2>1, <2>2, FilledStep, OneProgram DEF ThreadPrograms
<1> QED
  BY <1>1, <1>2, Stages, Filling, PTL DEF ProgramsSpec

-----------------------------------------------------------------------------
(* The counter of ex0.c, sfun and tfun.                                    *)

Counts   == command.name \in {"count", "tfun"}
Counting == {"load", "store", "unlock"}   \* under the mutex, but in tfun

(* The increments that thread t has made: it counts a turn of its loop     *)
(* when it unlocks, after the store.                                       *)
Made(t) == IF thread[t] = "unlock" THEN i[t] + 1 ELSE i[t]
AllMade == Made(0) + Made(1) + Made(2)

(* Each thread makes its command.n turns.                                  *)
Turns ==
    /\ command.n \in Nat
    /\ thread \in [Tids -> {"none", "run", "done"} \cup Counting]
    /\ i \in [Tids -> Nat] /\ aux \in [Tids -> Nat] /\ counter \in Nat
    /\ \A t \in Tids : /\ thread[t] = "none" => i[t] = 0
                       /\ i[t] <= command.n
                       /\ thread[t] \in Counting => i[t] < command.n
                       /\ thread[t] = "done" => i[t] = command.n

(* The mutex protects the counter from its load to the end of its store.   *)
Excluded ==
    /\ counter = AllMade
    /\ \A t \in Tids : thread[t] \in Counting =>
          /\ ~ mutex
          /\ \A u \in Tids : thread[u] \in Counting => u = t
          /\ thread[t] = "store" => aux[t] = counter

(* Without it a store may take the counter back, but never to 0, and not   *)
(* below 2 if it is its thread's second or later.                          *)
Racy ==
    /\ counter <= AllMade
    /\ \A t \in 0 .. 2 : Made(t) > 0 => counter > 0
    /\ \A t \in 0 .. 2 : thread[t] = "store" =>
          aux[t] <= AllMade /\ (i[t] > 0 => aux[t] > 0)
    /\ (\A t \in 0 .. 2 : Made(t) = command.n) =>
          counter >= (IF command.n < 2 THEN command.n ELSE 2)

CounterInv ==
    Counts => /\ Turns
              /\ command.name = "count" => Excluded
              /\ command.name = "tfun" => Racy

(* A step that leaves the counter, and how often it was incremented.       *)
LEMMA CounterAside ==
  ASSUME CounterInv, Counts, command' = command, Turns', counter' = counter,
         \A u \in 0 .. 2 : Made(u)' = Made(u),
         \A u \in Tids : thread'[u] \in Counting =>
            /\ command.name = "count" =>
                  /\ ~ mutex' /\ \A v \in Tids : thread'[v] \in Counting => v = u
            /\ thread'[u] = "store" =>
                  \/ thread[u] = "store" /\ aux'[u] = aux[u] /\ i'[u] = i[u]
                  \/ aux'[u] = counter /\ Made(u) >= i'[u]
  PROVE  CounterInv'
<1>1. {0, 1, 2} \subseteq Tids /\ AllMade' = AllMade
  BY ThreadsAssumption DEF Tids, AllMade
<1>2. command.name = "count" => Excluded'
  BY <1>1 DEF CounterInv, Excluded, Counting
<1>3. command.name = "tfun" => Racy'
  <2>1. \A u \in 0 .. 2 : Made(u) \in Nat /\ i'[u] \in Nat
    BY <1>1 DEF CounterInv, Turns, Made
  <2> QED
    BY <1>1, <2>1 DEF CounterInv, Racy, Counting
<1> QED
  BY <1>2, <1>3 DEF CounterInv, Counts

(* The steps of main.                                                      *)
LEMMA CounterMain ==
  ASSUME StagesInv, CounterInv, Counts, command' = command, threadsMain
  PROVE  CounterInv'
<1>1. {0, 1, 2} \subseteq Tids /\ Tids \subseteq Nat
  BY ThreadsAssumption DEF Tids
<1>2. /\ UNCHANGED <<i, aux, counter, mutex>>
      /\ \/ thread' = thread
         \/ \E u \in Tids : thread[u] = "none" /\ thread' = [thread EXCEPT ![u] = "run"]
  <2>1. CASE Create
    <3>1. NThreads \in 0 .. MaxThreads /\ MaxThreads \in Nat
      BY CommandFields, ThreadsAssumption DEF StagesInv, Counts, ThreadPrograms
    <3>2. k \in Tids /\ thread[k] = "none"
      BY <2>1, <3>1 DEF Create, StagesInv, Counts, ThreadPrograms, Tids
    <3> QED
      BY <2>1, <3>2 DEF Create
  <2>2. CASE ThreadsBegin \/ Created \/ Join \/ ThreadsPrint
    BY <2>2 DEF ThreadsBegin, Created, Join, ThreadsPrint, threadVars
  <2> QED
    BY <2>1, <2>2 DEF threadsMain
<1>3. Turns'
  BY <1>2 DEF CounterInv, Turns, Counting
<1>4. \A u \in 0 .. 2 : Made(u)' = Made(u)
  BY <1>1, <1>2 DEF CounterInv, Turns, Made
<1>5. \A u \in Tids : thread'[u] \in Counting => thread[u] = thread'[u]
  BY <1>2 DEF CounterInv, Turns, Counting
<1> QED
  BY <1>2, <1>3, <1>4, <1>5, CounterAside DEF CounterInv, Excluded

(* The steps of a thread.                                                  *)
LEMMA CounterThread ==
  ASSUME StagesInv, CounterInv, Counts, command' = command,
         NEW t \in Tids, threadFunction(t)
  PROVE  CounterInv'
<1>1. {0, 1, 2} \subseteq Tids /\ Tids \subseteq Nat
  BY ThreadsAssumption DEF Tids
<1>2. t \in 0 .. 2 /\ arg[t].x = command.n
  <2>1. thread[t] # "none"
    BY DEF threadFunction, Compute, ReturnArgument, Initialize, LoopEnds,
       Lock, Load, Store, Unlock, ThreadAt
  <2>2. NThreads = 3 /\ Argument(t).x = command.n
    BY DEF NThreads, Argument, Counts
  <2> QED
    BY <1>1, <2>1, <2>2 DEF StagesInv, Counts, ThreadPrograms
<1>3. Turns /\ i[t] \in Nat /\ aux[t] \in Nat
  BY DEF CounterInv, Turns
<1>4. CASE LoopEnds(t)
  <2>1. /\ thread[t] = "run" /\ i[t] >= command.n
        /\ thread' = [thread EXCEPT ![t] = "done"]
        /\ UNCHANGED <<i, aux, counter, mutex>>
    BY <1>2, <1>4 DEF LoopEnds, ThreadAt
  <2>2. Turns'
    BY <1>3, <2>1 DEF Turns, Counting
  <2>3. \A u \in 0 .. 2 : Made(u)' = Made(u)
    BY <1>1, <1>3, <2>1 DEF Turns, Made
  <2>4. \A u \in Tids : thread'[u] \in Counting => thread[u] = thread'[u]
    BY <1>3, <2>1 DEF Turns, Counting
  <2> QED
    BY <2>1, <2>2, <2>3, <2>4, CounterAside DEF CounterInv, Excluded
<1>5. CASE Lock(t)
  <2>1. /\ thread[t] = "run" /\ i[t] < command.n
        /\ command.name = "count" => mutex /\ ~ mutex'
        /\ thread' = [thread EXCEPT ![t] = "load"]
        /\ UNCHANGED <<i, aux, counter>>
    BY <1>2, <1>5 DEF Lock, ThreadAt
  <2>2. Turns'
    BY <1>3, <2>1 DEF Turns, Counting
  <2>3. \A u \in 0 .. 2 : Made(u)' = Made(u)
    BY <1>1, <1>3, <2>1 DEF Turns, Made
  <2>4. \A u \in Tids : thread'[u] \in Counting => u = t \/ thread[u] = thread'[u]
    BY <1>3, <2>1 DEF Turns, Counting
  <2>5. thread'[t] = "load"
    BY <1>3, <2>1 DEF Turns
  <2> QED
    BY <2>1, <2>2, <2>3, <2>4, <2>5, CounterAside DEF CounterInv, Excluded
<1>6. CASE Load(t)
  <2>1. /\ thread[t] = "load" /\ aux' = [aux EXCEPT ![t] = counter]
        /\ thread' = [thread EXCEPT ![t] = "store"]
        /\ UNCHANGED <<i, counter, mutex>>
    BY <1>6 DEF Load, ThreadAt
  <2>2. Turns'
    BY <1>3, <2>1 DEF Turns, Counting
  <2>3. \A u \in 0 .. 2 : Made(u)' = Made(u)
    BY <1>1, <1>3, <2>1 DEF Turns, Made
  <2>4. \A u \in Tids \ {t} : thread'[u] = thread[u] /\ aux'[u] = aux[u]
    BY <1>3, <2>1 DEF Turns
  <2>5. /\ thread'[t] = "store" /\ aux'[t] = counter
        /\ Made(t) >= i'[t] /\ thread[t] \in Counting
    BY <1>3, <2>1 DEF Turns, Made, Counting
  <2> QED
    BY <2>1, <2>2, <2>3, <2>4, <2>5, CounterAside DEF CounterInv, Excluded
<1>7. CASE Store(t)
  <2>1. /\ thread[t] = "store" /\ counter' = aux[t] + 1
        /\ thread' = [thread EXCEPT ![t] = "unlock"]
        /\ UNCHANGED <<i, aux, mutex>>
    BY <1>7 DEF Store, ThreadAt
  <2>2. Turns'
    BY <1>3, <2>1 DEF Turns, Counting
  <2>3. /\ \A u \in 0 .. 2 : Made(u)' = IF u = t THEN Made(u) + 1 ELSE Made(u)
        /\ \A u \in 0 .. 2 : Made(u) \in Nat
        /\ Made(t) = i[t]
    BY <1>1, <1>3, <2>1 DEF Turns, Made
  <2>4. AllMade' = AllMade + 1 /\ AllMade \in Nat
    BY <1>2, <2>3 DEF AllMade
  <2>5. \A u \in Tids : /\ thread'[u] = "store" => thread[u] = "store" /\ u # t
                        /\ thread'[u] \in Counting => thread[u] \in Counting
    BY <1>3, <2>1 DEF Turns, Counting
  <2>6. command.name = "count" => Excluded'
    BY <2>1, <2>4, <2>5 DEF CounterInv, Excluded, Counting
  <2>7. command.name = "tfun" => Racy'
    <3> SUFFICES ASSUME command.name = "tfun" PROVE Racy'
      OBVIOUS
    <3>1. Racy
      BY DEF CounterInv
    <3>2. aux[t] <= AllMade /\ (i[t] > 0 => aux[t] > 0)
      BY <1>2, <2>1, <3>1 DEF Racy
    <3>3. counter' <= AllMade' /\ counter' > 0
      BY <1>3, <2>1, <2>4, <3>2
    <3>4. \A u \in 0 .. 2 : thread'[u] = "store" =>
             aux'[u] <= AllMade' /\ (i'[u] > 0 => aux'[u] > 0)
      <4>1. \A u \in 0 .. 2 : aux[u] \in Nat
        BY <1>1, <1>3 DEF Turns
      <4> QED
        BY <1>1, <2>1, <2>4, <2>5, <3>1, <4>1 DEF Racy
    <3>5. (\A u \in 0 .. 2 : Made(u)' = command.n) =>
             counter' >= (IF command.n < 2 THEN command.n ELSE 2)
      BY <1>2, <1>3, <2>1, <2>3, <3>2 DEF Turns
    <3> QED
      BY <3>3, <3>4, <3>5 DEF Racy
  <2> QED
    BY <2>2, <2>6, <2>7 DEF CounterInv
<1>8. CASE Unlock(t)
  <2>1. /\ thread[t] = "unlock"
        /\ thread' = [thread EXCEPT ![t] = "run"]
        /\ i' = [i EXCEPT ![t] = @ + 1]
        /\ UNCHANGED <<aux, counter>>
    BY <1>8 DEF Unlock, ThreadAt
  <2>2. Turns'
    BY <1>3, <2>1 DEF Turns, Counting
  <2>3. \A u \in 0 .. 2 : Made(u)' = Made(u)
    BY <1>1, <1>3, <2>1 DEF Turns, Made
  <2>4. /\ thread'[t] = "run" /\ thread[t] \in Counting
        /\ \A u \in Tids \ {t} : /\ thread'[u] = thread[u] /\ aux'[u] = aux[u]
                                 /\ i'[u] = i[u]
    BY <1>3, <2>1 DEF Turns, Counting
  <2>5. command.name = "count" => \A u \in Tids : thread'[u] \notin Counting
    BY <2>4 DEF CounterInv, Excluded, Counting
  <2> QED
    BY <2>1, <2>2, <2>3, <2>4, <2>5, CounterAside
<1> QED
  BY <1>4, <1>5, <1>6, <1>7, <1>8 DEF threadFunction, Compute,
     ReturnArgument, Initialize, ThreadAt, Runs, Counts

LEMMA Counted == ProgramsSpec => []CounterInv
<1>1. ProgramsInit => CounterInv
  <2> SUFFICES ASSUME ProgramsInit, Counts PROVE CounterInv
    BY DEF CounterInv
  <2>1. {0, 1, 2} \subseteq Tids /\ command.n \in Nat
    BY Commands, CommandFields, ThreadsAssumption DEF Tids, Counts, ThreadPrograms
  <2>2. /\ \A t \in Tids : thread[t] = "none" /\ i[t] = 0 /\ aux[t] = 0
        /\ counter = 0 /\ thread \in [Tids -> {"none"}] 
        /\ i \in [Tids -> Nat] /\ aux \in [Tids -> Nat]
    BY DEF ProgramsInit, ThreadsInit
  <2>3. Made(0) = 0 /\ Made(1) = 0 /\ Made(2) = 0
    BY <2>1, <2>2 DEF Made
  <2>4. Turns
    BY <2>1, <2>2 DEF Turns, Counting
  <2> QED
    BY <2>1, <2>2, <2>3, <2>4 DEF CounterInv, Excluded, Racy, Counting, AllMade
<1>2. StagesInv /\ CounterInv /\ [ProgramsNext]_allVars => CounterInv'
  <2> SUFFICES ASSUME StagesInv, CounterInv, [ProgramsNext]_allVars
               PROVE  CounterInv'
    OBVIOUS
  <2>1. CASE command' = command /\ UNCHANGED <<main, threadVars>>
    BY <2>1 DEF CounterInv, Counts, Turns, Excluded, Racy, Made, AllMade, threadVars
  <2>2. CASE command' = command /\ ~ Counts
    BY <2>2 DEF CounterInv, Counts
  <2> QED
    BY <2>1, <2>2, CounterMain, CounterThread, OneProgram
       DEF ThreadsNext, ThreadPrograms, Counts
<1> QED
  BY <1>1, <1>2, Stages, PTL DEF ProgramsSpec

-----------------------------------------------------------------------------
(* What the threads return, and what main prints.                          *)

LEMMA IntUnwrapped == \A x \in Ints : AsInt(x) = x
<1> SUFFICES ASSUME NEW x \in Ints PROVE AsInt(x) = x
  OBVIOUS
<1>1. IntMax \in Nat
  BY ThreadsAssumption
<1> DEFINE m == 2 * (IntMax + 1)
           y == x - IntMin
<1>2. m \in Nat /\ y \in 0 .. m - 1 /\ x \in Int /\ IntMin \in Int
  BY <1>1 DEF Ints, IntMin
<1> HIDE DEF m, y
<1>3. y % m = y
  BY <1>2
<1> QED
  BY <1>2, <1>3 DEF AsInt, m, y

(* / leaves the remainder that is smaller than b and has the sign of a.    *)
LEMMA QuotientRight ==
  ASSUME NEW a \in Int, NEW c \in Int, c # 0
  PROVE  LET r == a - c * Quotient(a, c) IN r * r < c * c /\ r * a >= 0
<1> DEFINE A == IF a < 0 THEN - a ELSE a
           B == IF c < 0 THEN - c ELSE c
           q == A \div B
           m == A - B * q
           r == a - c * Quotient(a, c)
<1>1. Quotient(a, c) = IF (a < 0) = (c < 0) THEN q ELSE - q
  BY DEF Quotient
<1>2. A \in Nat /\ B \in Nat /\ B > 0
  OBVIOUS
<1>3. q \in Int /\ m \in 0 .. B - 1
  <2> HIDE DEF A, B
  <2> QED
    BY <1>2
<1>4. r = IF a < 0 THEN - m ELSE m
  <2> HIDE DEF q
  <2> QED
    BY <1>1, <1>3
<1>5. c * c = B * B
  OBVIOUS
<1> HIDE DEF A, B, q, m, r
<1>6. m * m < B * B
  <2>1. m \in Nat /\ m <= B - 1 /\ B \in Nat
    BY <1>2, <1>3
  <2>2. m * m <= m * B /\ m * B < B * B
    BY <1>2, <2>1
  <2> QED
    BY <2>1, <2>2
<1>7. r * r = m * m
  BY <1>3, <1>4
<1>8. r * a >= 0
  <2>1. m * A >= 0
    BY <1>2, <1>3
  <2>2. r * a = m * A
    BY <1>3, <1>4 DEF A
  <2> QED
    BY <2>1, <2>2
<1> QED
  BY <1>5, <1>6, <1>7, <1>8 DEF r

(* A thread that is done has returned what its program computes from its   *)
(* argument, and the division did not trap; only that one kills arith.     *)
Answer(t) == IF command.name = "arith" THEN Result(t, command.a, command.b)
             ELSE Argument(t).x

Traps == \/ command.name = "arith" /\ DivisionTraps(command.a, command.b)
         \/ command.name = "fill" /\ command.nthreads = 0

ReturnsInv ==
    /\ main = "killed" => Traps
    /\ command.name \in {"arith", "three", "each"} =>
          /\ DOMAIN ret = Tids
          /\ \A t \in Tids : thread[t] = "done" =>
                ret[t] = Answer(t) /\ (t = 3 => ~ Traps)

LEMMA ReturnsStep ==
  ASSUME StagesInv, ReturnsInv, ThreadsNext
  PROVE  ReturnsInv'
<1>1. /\ command.name \in ThreadPrograms /\ command' = command
      /\ DOMAIN thread = Tids
  BY DEF StagesInv, ThreadsNext, threadsMain, threadFunction, ThreadsBegin,
     Create, Created, Join, ThreadsPrint, Compute, ReturnArgument, Initialize,
     LoopEnds, Lock, Load, Store, Unlock, ThreadAt, Runs, ThreadPrograms
<1>2. /\ Traps' = Traps
      /\ command.name # "fill" => \A t : Answer(t)' = Answer(t)
  BY <1>1 DEF Traps, Answer, Argument
<1>3. CASE threadsMain
  <2>1. ret' = ret /\ (main' = "killed" => main = "killed" \/ Traps)
    BY <1>3 DEF threadsMain, ThreadsBegin, Create, Created, Join,
       ThreadsPrint, threadVars, Traps
  <2>2. thread' = thread \/ thread' = [thread EXCEPT ![k] = "run"]
    BY <1>3 DEF threadsMain, ThreadsBegin, Create, Created, Join,
       ThreadsPrint, threadVars
  <2>3. \A t \in Tids : thread'[t] = "done" => thread[t] = "done"
    BY <1>1, <2>2
  <2> QED
    BY <1>1, <1>2, <2>1, <2>3 DEF ReturnsInv
<1>4. ASSUME NEW t \in Tids, threadFunction(t)
      PROVE  ReturnsInv'
  <2>1. CASE Compute(t)
    <3>1. command.name = "arith" /\ thread[t] = "run"
      BY <2>1 DEF Compute, ThreadAt, Runs
    <3>2. arg[t] = Argument(t)
      BY <1>1, <3>1 DEF StagesInv
    <3>3. Argument(t) = [x |-> command.a, y |-> command.b]
      BY <3>1 DEF Argument
    <3>4. arg[t].x = command.a /\ arg[t].y = command.b
      BY <3>2, <3>3
    <3>5. CASE t = 3 /\ DivisionTraps(command.a, command.b)
      <4>1. Traps /\ UNCHANGED <<thread, ret>>
        BY <2>1, <3>1, <3>4, <3>5 DEF Compute, Traps
      <4> QED
        BY <1>1, <1>2, <3>1, <4>1 DEF ReturnsInv
    <3>6. CASE ~ (t = 3 /\ DivisionTraps(command.a, command.b))
      <4>1. /\ ret' = [ret EXCEPT ![t] = Answer(t)]
            /\ thread' = [thread EXCEPT ![t] = "done"] /\ main' = main
        BY <2>1, <3>1, <3>4, <3>6 DEF Compute, Answer
      <4>2. t = 3 => ~ Traps
        BY <3>1, <3>6 DEF Traps
      <4> QED
        BY <1>1, <1>2, <3>1, <4>1, <4>2 DEF ReturnsInv
    <3> QED
      BY <3>5, <3>6
  <2>2. CASE ReturnArgument(t)
    <3>1. /\ command.name \in {"three", "each"} /\ arg[t].x = Answer(t)
          /\ ret' = [ret EXCEPT ![t] = arg[t].x]
          /\ thread' = [thread EXCEPT ![t] = "done"] /\ main' = main
      BY <1>1, <2>2
         DEF ReturnArgument, ThreadAt, StagesInv, Answer, Runs
    <3> QED
      BY <1>1, <1>2, <3>1 DEF ReturnsInv, Traps
  <2>3. CASE command.name \in {"fill", "count", "tfun"}
    <3>1. main' = main
      BY <1>4, <2>3 DEF threadFunction, Compute, ReturnArgument, Initialize,
         LoopEnds, Lock, Load, Store, Unlock, ThreadAt, Runs
    <3> QED
      BY <1>1, <1>2, <2>3, <3>1 DEF ReturnsInv
  <2> QED
    BY <1>4, <2>1, <2>2, <2>3 DEF threadFunction, Initialize, LoopEnds, Lock,
       Load, Store, Unlock, ThreadAt, Runs
<1> QED
  BY <1>3, <1>4 DEF ThreadsNext

LEMMA Returned == ProgramsSpec => []ReturnsInv
<1>1. ProgramsInit => ReturnsInv
  BY DEF ProgramsInit, ThreadsInit, ReturnsInv
<1>2. StagesInv /\ ReturnsInv /\ [ProgramsNext]_allVars => ReturnsInv'
  <2> SUFFICES ASSUME StagesInv, ReturnsInv, [ProgramsNext]_allVars
               PROVE  ReturnsInv'
    OBVIOUS
  <2>1. CASE command' = command /\ UNCHANGED <<main, threadVars>>
    BY <2>1 DEF ReturnsInv, Traps, Answer, Argument, Inits, threadVars
  <2>2. CASE command.name \notin ThreadPrograms
    <3>1. ~ ThreadsNext
      BY <2>2, StagesStep
         DEF ThreadsNext, threadsMain, threadFunction, ThreadsBegin, Create,
         Created, Join, ThreadsPrint, Compute, ReturnArgument, Initialize,
         LoopEnds, Lock, Load, Store, Unlock, ThreadAt, Runs, ThreadPrograms
    <3>2. main' = main \/ main' # "killed"
      BY <3>1 DEF ProgramsNext, Threads, Procs, Copies, Records, Tests,
         Terminating, allVars, ProcessesNext, ProcessBegin, process, Fork,
         Wait, Exec, Exit, End, OpenFile, WriteFile, CopiesNext, CopyOpen,
         MergeOpen, Read, Write, CopyClose, NextPart, Sample, RecordsNext,
         WriteRecord, ReadLetter, ReadGrades, ReadEnd, TestsNext, TestsMain,
         IoctlTestSet, IoctlTestGet, NusersTest, Open, Close, OtherUser
    <3>3. command' = command
      BY OneProgram
    <3> QED
      BY <2>2, <3>2, <3>3 DEF ReturnsInv, ThreadPrograms, Traps
  <2> QED
    BY <2>1, <2>2, ReturnsStep, OneProgram
<1> QED
  BY <1>1, <1>2, Stages, PTL DEF ProgramsSpec

(* What main prints at its end is what its threads were to compute, for    *)
(* every argument, number of threads and interleaving: sums, quotients and *)
(* the other results of ex1, the arguments in their places in ex2 and ex3, *)
(* the whole array of ex4, all increments under the mutex of ex0 and sfun, *)
(* and two at least of tfun's; only a division that traps kills a program. *)
THEOREM ThreadsAnswer == ProgramsSpec => []ThreadAnswers
<1> SUFFICES ASSUME StagesInv, FilledInv, CounterInv, ReturnsInv
             PROVE  ThreadAnswers
  BY Stages, ArrayFilled, Counted, Returned, PTL
<1>1. Tids \subseteq Nat /\ 0 .. 3 \subseteq Tids
  BY ThreadsAssumption DEF Tids
<1>2. ASSUME command.name \in {"arith", "three", "each"}, main = "end"
      PROVE  \A t \in Tids : t < NThreads =>
                ret[t] = Answer(t) /\ (t = 3 => ~ Traps)
  BY <1>1, <1>2, CommandFields, ThreadsAssumption DEF StagesInv, ReturnsInv, ThreadPrograms
<1>3. MainAt("arith", "end") => ArithRight(command.a, command.b)
  <2> SUFFICES ASSUME MainAt("arith", "end") PROVE ArithRight(command.a, command.b)
    OBVIOUS
  <2> DEFINE a == command.a
             c == command.b
  <2>1. /\ ret[0] = AsInt(a + c) /\ ret[1] = AsInt(a - c)
        /\ ret[2] = AsInt(a * c) /\ ret[3] = Quotient(a, c)
        /\ ~ DivisionTraps(a, c)
    BY <1>1, <1>2 DEF MainAt, NThreads, Answer, Result, Traps
  <2>2. a \in Int /\ c \in Int /\ c # 0
    BY <2>1, CommandFields
       DEF MainAt, StagesInv, ThreadPrograms, Ints, IntMin, DivisionTraps
  <2> HIDE DEF a, c
  <2>3. ArithRight(a, c)
    BY <2>1, <2>2, IntUnwrapped, QuotientRight DEF ArithRight
  <2> QED
    BY <2>3 DEF a, c
<1>4. MainAt("three", "end") => ret[0] = 1 /\ ret[1] = 3 /\ ret[2] = 2
  <2> SUFFICES ASSUME MainAt("three", "end")
               PROVE  ret[0] = 1 /\ ret[1] = 3 /\ ret[2] = 2
    OBVIOUS
  <2>1. NThreads = 3 /\ \A t : Answer(t) = <<1, 3, 2>>[t + 1]
    BY DEF MainAt, NThreads, Answer, Argument
  <2>2. \A t \in 0 .. 2 : ret[t] = <<1, 3, 2>>[t + 1]
    BY <1>1, <1>2, <2>1 DEF MainAt
  <2> QED
    BY <2>2
<1>5. MainAt("each", "end") => \A t \in 0 .. command.n - 1 : ret[t] = t + 1
  BY <1>1, <1>2, CommandFields, ThreadsAssumption
     DEF MainAt, NThreads, Answer, Argument, StagesInv, ThreadPrograms, Tids
<1>6. MainAt("fill", "end") => \A e \in 0 .. command.size - 1 : array[e] = e
  BY DEF MainAt, FilledInv, Written
<1>7. /\ MainAt("count", "end") => counter = 3 * command.n
      /\ MainAt("tfun", "end") =>
            /\ counter >= (IF command.n < 2 THEN command.n ELSE 2)
            /\ counter <= 3 * command.n
  <2> SUFFICES ASSUME Counts, main = "end"
               PROVE  /\ command.name = "count" => counter = 3 * command.n
                      /\ command.name = "tfun" =>
                            /\ counter >= (IF command.n < 2 THEN command.n ELSE 2)
                            /\ counter <= 3 * command.n
    BY DEF MainAt, Counts
  <2>1. \A t \in 0 .. 2 : Made(t) = command.n
    BY <1>1 DEF StagesInv, ThreadPrograms, NThreads, CounterInv, Counts,
       Turns, Made
  <2>2. command.n \in Nat /\ AllMade = 3 * command.n
    BY <2>1 DEF CounterInv, Turns, AllMade
  <2> QED
    BY <2>1, <2>2 DEF CounterInv, Excluded, Racy
<1>8. main = "killed" =>
         \/ command.name = "arith" /\ DivisionTraps(command.a, command.b)
         \/ command.name = "fill" /\ command.nthreads = 0
  BY DEF ReturnsInv, Traps
<1> QED
  BY <1>3, <1>4, <1>5, <1>6, <1>7, <1>8 DEF ThreadAnswers

(* In particular, no increment of ex0.c or sfun is lost, however many each *)
(* of the three threads makes.                                             *)
THEOREM NoIncrementLost ==
  ProgramsSpec => [](MainAt("count", "end") => counter = 3 * command.n)
<1>1. ThreadAnswers => (MainAt("count", "end") => counter = 3 * command.n)
  BY DEF ThreadAnswers
<1> QED
  BY <1>1, ThreadsAnswer, PTL

-----------------------------------------------------------------------------
(* The programs that try seri.c.                                           *)

Settings ==
    [name : {"settings"}, bitrate : {1200, 9600}, char_width : 5 .. 8,
     stop_bits : {1, 2}, parity : Parities]

(* The three layouts of the 24 bits agree: what SET_SERI leaves in the chip*)
(* for a setting is displayed as that setting.                             *)
Config(c) ==
    create_config(c.bitrate, c.char_width, ParityBits(c.parity), c.stop_bits)

LEMMA Layouts ==
  ASSUME NEW c \in Settings, SetSeri(Config(c))
  PROVE  LET seen == display_config(GetSeri)'
         IN  \A f \in DOMAIN seen : seen[f] = c[f]
<1> DEFINE div == IF c.bitrate = 9600 THEN 12 ELSE 96
           w == c.char_width - 5
           s == c.stop_bits - 1
           p == ParityBits(c.parity)
           bits == w + 4 * s + 8 * p
<1>1. /\ w \in 0 .. 3 /\ s \in 0 .. 1 /\ p \in {0, 1, 3, 5, 7}
      /\ c.char_width = w + 5 /\ c.stop_bits = s + 1
      /\ c.parity = IF p = 0 THEN "None"
                    ELSE <<"Odd", "Even", "1", "0">>[((p - 1) \div 2) + 1]
  <2>1. /\ c.char_width \in 5 .. 8 /\ c.stop_bits \in {1, 2}
        /\ c.parity \in Parities
    BY DEF Settings
  <2>2. /\ p \in {0, 1, 3, 5, 7}
        /\ c.parity = IF p = 0 THEN "None"
                      ELSE <<"Odd", "Even", "1", "0">>[((p - 1) \div 2) + 1]
    BY <2>1 DEF ParityBits, Parities
  <2> QED
    BY <2>1, <2>2
<1>2. /\ div \in {12, 96} /\ 115200 \div div = c.bitrate
  BY DEF Settings
<1>3. Config(c) = 256 * div + bits
  BY <1>2 DEF Config, create_config, Bits
<1> HIDE DEF div, w, s, p
<1>4. bits \in 0 .. 63
  BY <1>1
<1>5. lcr' = bits /\ divisor' = div
  BY <1>1, <1>2, <1>3, <1>4 DEF SetSeri, Bits
<1>6. GetSeri' = 256 * div + bits
  BY <1>2, <1>4, <1>5 DEF GetSeri
<1>7. /\ Bits(256 * div + bits, 65536, 256) = 0
      /\ Bits(256 * div + bits, 256, 256) = div
      /\ Bits(256 * div + bits, 1, 4) = w
      /\ Bits(256 * div + bits, 4, 2) = s
      /\ Bits(256 * div + bits, 8, 2) = p % 2
      /\ Bits(256 * div + bits, 16, 4) = p \div 2
  BY <1>1, <1>2 DEF Bits
<1>8. /\ p % 2 = 0 <=> p = 0
      /\ p # 0 => p \div 2 = (p - 1) \div 2
  BY <1>1
<1> QED
  BY <1>1, <1>2, <1>6, <1>7, <1>8 DEF display_config

Shows(seen) == \A s \in DOMAIN seen : seen[s] = command[s]

(* After the SET, GET_SERI gives the command's settings; and whatever fd0  *)
(* means when nusersTest closes it, the users of the device are the other  *)
(* process and the one descriptor that there may be, 3.                    *)
SettingsInv ==
    command.name = "settings" =>
        /\ command \in Settings /\ fds = {}
        /\ main \in {"start", "get", "end"}
        /\ main = "get" => Shows(display_config(GetSeri))
        /\ main = "end" => Shows(display)

UsersOf(s, o) == (IF 3 \in s THEN 1 ELSE 0) + (IF o THEN 1 ELSE 0)

(* An open is refused by the other process only, the second one by fd0.    *)
Refusals ==
    /\ main = "start" => met = {}
    /\ main # "start" => (fd[0] = -1 <=> 0 \in met)
    /\ main \in {"opened0", "close", "open2"} => 2 \notin met
    /\ main \in {"close", "open2", "close0", "close1", "close2", "end"}
       /\ fd[0] # -1 => fd[1] = -1
    /\ main \in {"close0", "close1", "close2", "end"} /\ fd[0] # -1 =>
          (fd[2] = -1 <=> 2 \in met)

NusersInv ==
    command.name = "nusers" =>
        /\ fds \in {{}, {3}} /\ other \in BOOLEAN
        /\ n_users = UsersOf(fds, other) /\ n_users <= 1
        /\ main \in {"start", "opened0", "close", "open2", "close0",
                     "close1", "close2", "end"}
        /\ main \in {"start", "open2", "close1", "close2", "end"} => fds = {}
        /\ fd \in [0 .. 2 -> {-1, 3}]
        /\ main = "opened0" => fds = IF fd[0] = -1 THEN {} ELSE {3}
        /\ main \in {"close", "open2", "close0"} => fd[0] = 3
        /\ Refusals

TestsInv ==
    /\ SettingsInv /\ NusersInv
    /\ command.name \notin TestPrograms => fds = {}

LEMMA TestsStep ==
  ASSUME TestsInv, TestsNext
  PROVE  TestsInv'
<1>1. command' = command
  BY DEF TestsNext
<1>2. CASE IoctlTestSet
  <2>1. /\ command \in Settings /\ main' = "get" /\ fds' = {}
        /\ SetSeri(Config(command)) /\ command.name = "settings"
    BY <1>2 DEF TestsInv, SettingsInv, IoctlTestSet, MainAt, Config
  <2>2. Shows(display_config(GetSeri))'
    BY <1>1, <2>1, Layouts DEF Shows
  <2> QED
    BY <1>1, <2>1, <2>2 DEF TestsInv, SettingsInv, NusersInv, TestPrograms
<1>3. CASE IoctlTestGet
  <2>1. /\ display' = display_config(GetSeri) /\ main = "get" /\ main' = "end"
        /\ fds' = fds /\ command.name = "settings"
    BY <1>3 DEF IoctlTestGet, MainAt
  <2> QED
    BY <1>1, <2>1
       DEF TestsInv, SettingsInv, NusersInv, TestPrograms, Shows
<1> SUFFICES ASSUME command.name = "nusers" PROVE NusersInv'
  BY <1>1, <1>2, <1>3 DEF TestsInv, SettingsInv, TestPrograms, TestsNext,
     TestsMain, NusersTest, OtherUser, MainAt
<1> USE DEF UsersOf, Refusals
<1>4. /\ fds \in {{}, {3}} /\ other \in BOOLEAN
      /\ n_users = UsersOf(fds, other) /\ n_users <= 1
      /\ fd \in [0 .. 2 -> {-1, 3}]
  BY DEF TestsInv, NusersInv
<1>5. ASSUME NEW f \in 0 .. 2, NEW to, Open(f, to)
      PROVE  /\ main' = to /\ other' = other
             /\ met' = IF other THEN met \cup {f} ELSE met
             /\ \/ n_users = 0 /\ fds' = {3} /\ n_users' = 1
                   /\ fd' = [fd EXCEPT ![f] = 3]
                \/ n_users = 1 /\ fds' = fds /\ n_users' = 1
                   /\ fd' = [fd EXCEPT ![f] = -1]
  <2>1. Lowest((3 .. 5) \ {}) = 3
    BY DEF Lowest
  <2> QED
    BY <1>4, <1>5, <2>1 DEF Open
<1>6. ASSUME NEW to, Close(0, to), fd[0] = 3
      PROVE  /\ main' = to /\ fds' = {} /\ fd' = fd /\ other' = other
             /\ met' = met
             /\ n_users' = UsersOf({}, other)
  BY <1>4, <1>6 DEF Close
<1>7. ASSUME NEW f \in 0 .. 2, NEW to, Close(f, to), fds = {}
      PROVE  main' = to /\ UNCHANGED <<fds, fd, other, n_users, met>>
  BY <1>4, <1>7 DEF Close
<1>8. CASE NusersTest
  <2>1. CASE main = "start" /\ Open(0, "opened0")
    BY <1>1, <1>4, <1>5, <2>1 DEF TestsInv, NusersInv
  <2>2. CASE main = "opened0" /\ fd[0] = -1 /\ main' = "end" /\ UNCHANGED testVars
    BY <1>1, <1>4, <2>2 DEF TestsInv, NusersInv, testVars
  <2>3. CASE main = "opened0" /\ fd[0] # -1 /\ Open(1, "close")
    BY <1>1, <1>4, <1>5, <2>3 DEF TestsInv, NusersInv
  <2>4. CASE main = "close" /\ Close(0, "open2")
    BY <1>1, <1>4, <1>6, <2>4 DEF TestsInv, NusersInv
  <2>5. CASE main = "open2" /\ Open(2, "close0")
    BY <1>1, <1>4, <1>5, <2>5 DEF TestsInv, NusersInv
  <2>6. CASE main = "close0" /\ Close(0, "close1")
    BY <1>1, <1>4, <1>6, <2>6 DEF TestsInv, NusersInv
  <2>7. CASE main = "close1" /\ Close(1, "close2")
    BY <1>1, <1>4, <1>7, <2>7 DEF TestsInv, NusersInv
  <2>8. CASE main = "close2" /\ Close(2, "end")
    BY <1>1, <1>4, <1>7, <2>8 DEF TestsInv, NusersInv
  <2> QED
    BY <1>8, <2>1, <2>2, <2>3, <2>4, <2>5, <2>6, <2>7, <2>8
       DEF NusersTest, MainAt
<1>9. CASE OtherUser
  <2>1. /\ n_users' = UsersOf(fds, ~ other) /\ n_users' <= 1
        /\ other' = ~ other /\ UNCHANGED <<main, fds, fd, met>>
    BY <1>4, <1>9 DEF OtherUser
  <2> QED
    BY <1>1, <1>4, <2>1 DEF TestsInv, NusersInv
<1> QED
  BY <1>2, <1>3, <1>8, <1>9 DEF TestsNext, TestsMain, IoctlTestSet,
     IoctlTestGet, MainAt

(* ioctlTest GET displays every setting that ioctlTest SET can make; and   *)
(* nusersTest is refused its opens while the other process, or itself, has *)
(* the device, and only then, and leaves no user and no second descriptor, *)
(* whenever the other process opens and closes the device.                 *)
THEOREM TestersReport == ProgramsSpec => []TestsReport
<1>1. ProgramsInit => TestsInv
  <2> SUFFICES ASSUME ProgramsInit PROVE TestsInv
    OBVIOUS
  <2>1. command.name = "settings" => command \in Settings
    BY DEF ProgramsInit, ThreadCommands, ProcessCommands, CopyCommands,
       RecordCommands, TestCommands, Settings
  <2>2. main = "start" /\ fds = {} /\ n_users = 0 /\ other = FALSE
        /\ met = {}
        /\ fd \in [0 .. 2 -> {-1, 3}]
    BY DEF ProgramsInit, TestsInit
  <2>3. SettingsInv /\ fds = {}
    BY <2>1, <2>2 DEF SettingsInv
  <2>4. other \in BOOLEAN /\ ~ other
    BY <2>2, Zenon
  <2>5. NusersInv
    BY <2>2, <2>4 DEF NusersInv, Refusals, UsersOf
  <2> QED
    BY <2>3, <2>5 DEF TestsInv
<1>2. TestsInv /\ [ProgramsNext]_allVars => TestsInv'
  <2> SUFFICES ASSUME TestsInv, [ProgramsNext]_allVars PROVE TestsInv'
    OBVIOUS
  <2>1. /\ command' = command
        /\ command.name \notin TestPrograms => UNCHANGED testVars
    BY OneProgram
  <2>2. CASE UNCHANGED <<main, testVars>>
    BY <2>1, <2>2 DEF TestsInv, SettingsInv, NusersInv, Refusals, testVars, Shows,
       GetSeri, display_config, Bits
  <2>3. CASE command.name \notin TestPrograms
    BY <2>1, <2>3
       DEF TestsInv, SettingsInv, NusersInv, TestPrograms, testVars
  <2> QED
    BY <2>2, <2>3, TestsStep, OneProgram
<1>3. TestsInv => TestsReport
  BY DEF TestsInv, SettingsInv, NusersInv, Refusals, UsersOf, TestsReport, Shows,
     MainAt, TestPrograms
<1> QED
  BY <1>1, <1>2, <1>3, PTL DEF ProgramsSpec

-----------------------------------------------------------------------------
(* The processes of Problem_Set_3.                                         *)

ProcessPcs == {"none", "fork", "wait", "exec", "open", "write", "exit",
               "zombie", "gone"}

(* Whoever waits has its child, or had none, until it goes on to its exit; *)
(* then the child is gone, or never was, and so it stays.                  *)
WaitInv ==
    command.name \in {"tree", "exec", "replace"} =>
        /\ proc \in [Family -> ProcessPcs]
        /\ DOMAIN stat = Family /\ DOMAIN status = Family
        /\ main = "start" => \A p \in Family : proc[p] = "none"
        /\ \A p \in Family : proc[p] \notin {"open", "write"}
        /\ \A p \in {"P", "C"} :
              LET c == ChildOf[p]
              IN  /\ proc[p] \in {"none", "fork", "exec"} =>
                        proc[c] = "none" /\ stat[p] = Unset
                  /\ proc[p] = "wait" => proc[c] # "gone" /\ stat[p] = Unset
                  /\ proc[p] \in {"exit", "zombie", "gone"} =>
                        /\ proc[c] \in {"none", "gone"}
                        /\ stat[p] = IF proc[c] = "gone" THEN status[c] ELSE Unset
        /\ main = "end" => proc["P"] = "gone"
        /\ proc["P"] # "zombie"
        /\ command.name = "tree" =>
              /\ \A p \in Family : proc[p] # "exec"
              /\ \A p \in {"C", "GC"} : proc[p] \in {"zombie", "gone"} =>
                    status[p] = IF p = "C" THEN 2 ELSE 3

(* A family's file is as it was found until its process has written it,    *)
(* once.                                                                   *)
Fresh(p)  == [path |-> 0, old |-> command.old[p]]
Filled(p) == [path |-> PathLength,
              old |-> IF command.old[p] > PathLength
                      THEN command.old[p] - PathLength ELSE 0]

FileInv ==
    command.name = "family" =>
        /\ DOMAIN proc = Family /\ DOMAIN file = Family
        /\ main = "start" => \A p \in Family : proc[p] = "none"
        /\ proc["P"] \in {"none", "fork"} => proc["C"] = "none"
        /\ proc["C"] # "fork"
        /\ main # "start" => \A p \in {"P", "C"} :
              /\ proc[p] \in {"none", "fork", "open", "write"} => file[p] = Fresh(p)
              /\ file[p] \in {Fresh(p), Filled(p)}

LEMMA FileStep ==
  ASSUME FileInv, ProcessesNext
  PROVE  FileInv'
<1> SUFFICES ASSUME command.name = "family" PROVE FileInv'
  BY DEF FileInv, ProcessesNext
<1>1. command' = command /\ DOMAIN proc = Family /\ DOMAIN file = Family
  BY DEF FileInv, ProcessesNext
<1>2. CASE ProcessBegin
  <2>1. /\ main' = "run" /\ DOMAIN proc' = Family /\ DOMAIN file' = Family
        /\ \A p \in {"P", "C"} : file'[p] = Fresh(p)
        /\ proc'["P"] = "fork" /\ proc'["C"] = "none"
    <3>1. main = "start" /\ proc["C"] = "none" /\ First("P") = "fork"
      BY <1>2 DEF ProcessBegin, FileInv, First, Family
    <3>2. main' = "run" /\ proc' = [proc EXCEPT !["P"] = "fork"]
      BY <1>2, <3>1 DEF ProcessBegin
    <3>3. file' = [p \in Family |->
                     [path |-> 0,
                      old |-> IF p = "GC" THEN 0 ELSE command.old[p]]]
      BY <1>2 DEF ProcessBegin
    <3>4. proc'["P"] = "fork" /\ proc'["C"] = "none" /\ DOMAIN proc' = Family
      BY <1>1, <3>1, <3>2 DEF Family
    <3>5. DOMAIN file' = Family /\ \A p \in {"P", "C"} : file'[p] = Fresh(p)
      BY <3>3 DEF Family, Fresh
    <3> QED
      BY <3>2, <3>4, <3>5
  <2> QED
    BY <1>1, <2>1 DEF FileInv, Fresh, Filled
<1>3. ASSUME NEW p \in Family, process(p)
      PROVE  FileInv'
  <2>1. main # "start" /\ main' # "start"
    BY <1>3 DEF process, Fork, Wait, Exec, OpenFile, WriteFile, Exit, End,
       At, FileInv
  <2>2. /\ proc'["P"] \in {"none", "fork"} => proc'["C"] = "none"
        /\ proc'["C"] # "fork" /\ DOMAIN proc' = Family
        /\ \A q \in {"P", "C"} :
              proc'[q] \in {"none", "fork", "open", "write"} =>
                  proc[q] \in {"none", "fork", "open", "write"}
    <3>1. CASE p \in DOMAIN ChildOf /\ Fork(p)
      <4>1. p = "P" /\ proc["P"] = "fork" /\ proc["C"] = "none"
        BY <3>1 DEF Fork, At, FileInv, ChildOf
      <4>2. First("C") = "open" /\ ChildOf["P"] = "C"
        BY DEF First, ChildOf
      <4>3. \/ proc' = [proc EXCEPT !["P"] = "open"]
            \/ proc' = [proc EXCEPT !["P"] = "open", !["C"] = "open"]
        BY <3>1, <4>1, <4>2 DEF Fork
      <4> QED
        BY <1>1, <4>1, <4>3 DEF Family
    <3>2. CASE p \in DOMAIN ChildOf /\ Wait(p)
      BY <1>1, <3>2 DEF Wait, At, FileInv, ChildOf, Family
    <3>3. CASE Exec(p) \/ Exit(p)
      BY <1>1, <3>3 DEF Exec, Exit, End, At, FileInv, ChildOf, Family
    <3>4. CASE OpenFile(p) \/ WriteFile(p)
      BY <1>1, <3>4 DEF OpenFile, WriteFile, At, FileInv, Family
    <3> QED
      BY <1>3, <3>1, <3>2, <3>3, <3>4 DEF process
  <2>3. CASE ~ WriteFile(p)
    <3>1. file' = file
      BY <1>3, <2>3 DEF process, Fork, Wait, Exec, OpenFile, Exit, End
    <3> QED
      BY <1>1, <2>1, <2>2, <3>1 DEF FileInv, Fresh, Filled
  <2>4. CASE WriteFile(p)
    <3>1. /\ proc[p] = "write" /\ proc'[p] = "exit"
          /\ \/ file' = file
             \/ file' = [file EXCEPT ![p] =
                   [path |-> PathLength,
                    old |-> IF file[p].old > PathLength
                            THEN file[p].old - PathLength ELSE 0]]
      BY <1>1, <2>4 DEF WriteFile, At
    <3>2. p \in {"P", "C"} => file[p] = Fresh(p)
      BY <2>1, <3>1 DEF FileInv
    <3>3. p \in {"P", "C"} => file'[p] \in {Fresh(p), Filled(p)}
      BY <1>1, <3>1, <3>2 DEF Fresh, Filled
    <3>4. DOMAIN file' = Family /\ \A q \in Family \ {p} : file'[q] = file[q]
      BY <1>1, <3>1
    <3>5. ASSUME NEW q \in {"P", "C"}
          PROVE  /\ proc'[q] \in {"none", "fork", "open", "write"} =>
                        file'[q] = Fresh(q)
                 /\ file'[q] \in {Fresh(q), Filled(q)}
      BY <2>1, <2>2, <3>1, <3>3, <3>4 DEF FileInv, Family
    <3>6. \A q : Fresh(q)' = Fresh(q) /\ Filled(q)' = Filled(q)
      BY <1>1 DEF Fresh, Filled
    <3> QED
      BY <1>1, <2>1, <2>2, <3>4, <3>5, <3>6 DEF FileInv
  <2> QED
    BY <2>3, <2>4
<1> QED
  BY <1>2, <1>3 DEF ProcessesNext

LEMMA WaitStep ==
  ASSUME WaitInv, ProcessesNext
  PROVE  WaitInv'
<1> SUFFICES ASSUME command.name \in {"tree", "exec", "replace"} PROVE WaitInv'
  BY DEF WaitInv, ProcessesNext
<1>1. /\ command' = command
      /\ proc \in [Family -> ProcessPcs]
      /\ DOMAIN stat = Family /\ DOMAIN status = Family
  BY DEF WaitInv, ProcessesNext
<1>2. /\ First("C") \in {"fork", "exec"} /\ First("GC") \in {"exec", "exit"}
      /\ command.name = "tree" => "exec" \notin {First("C"), First("GC")}
  BY DEF First
<1>3. CASE ProcessBegin
  <2>1. /\ main' = "run" /\ UNCHANGED <<stat, status>>
        /\ proc' = [proc EXCEPT !["P"] = First("P")]
        /\ \A p \in Family : proc[p] = "none"
        /\ First("P") \in {"fork", "exec"}
        /\ command.name = "tree" => First("P") # "exec"
    BY <1>3 DEF ProcessBegin, WaitInv, First
  <2> QED
    BY <1>1, <2>1 DEF WaitInv, Family, ProcessPcs, ChildOf
<1>4. ASSUME NEW p \in {"P", "C"}, Fork(p)
      PROVE  WaitInv'
  <2>1. /\ proc[p] = "fork" /\ proc[ChildOf[p]] = "none"
        /\ UNCHANGED <<main, stat, status>>
        /\ \/ proc' = [proc EXCEPT ![p] = "wait"]
           \/ proc' = [proc EXCEPT ![p] = "wait", ![ChildOf[p]] = First(ChildOf[p])]
    BY <1>4 DEF Fork, At, WaitInv
  <2> QED
    BY <1>1, <1>2, <2>1 DEF WaitInv, Family, ProcessPcs, ChildOf
<1>5. ASSUME NEW p \in {"P", "C"}, Wait(p)
      PROVE  WaitInv'
  <2> DEFINE c == ChildOf[p]
  <2>1. /\ proc[p] = "wait" /\ c \in Family /\ c # p /\ UNCHANGED <<main, status>>
        /\ \/ /\ proc[c] = "zombie"
              /\ proc' = [proc EXCEPT ![p] = "exit", ![c] = "gone"]
              /\ stat' = [stat EXCEPT ![p] = status[c]]
           \/ /\ proc[c] = "none" /\ stat' = stat
              /\ proc' = [proc EXCEPT ![p] = "exit"]
    BY <1>5 DEF Wait, At, ChildOf, Family
  <2> QED
    BY <1>1, <2>1 DEF WaitInv, Family, ProcessPcs, ChildOf
<1>6. ASSUME NEW p \in Family, NEW code, End(p, code), proc[p] \in {"exec", "exit"},
             command.name = "tree" /\ p # "P" => code = IF p = "C" THEN 2 ELSE 3
      PROVE  WaitInv'
  <2>1. p # "P" => \E r \in {"P", "C"} : ChildOf[r] = p /\ proc[r] = "wait"
    BY <1>1, <1>6 DEF WaitInv, ChildOf, Family, ProcessPcs
  <2>2. p # "GC" => proc[ChildOf[p]] \in {"none", "gone"}
    BY <1>1, <1>6 DEF WaitInv, ChildOf, Family, ProcessPcs
  <2>3. /\ DOMAIN proc' = Family
        /\ proc'[p] = IF p = "P" THEN "gone" ELSE "zombie"
        /\ \A q \in Family \ {p} : proc'[q] = proc[q]
    BY <1>1, <1>6, <2>1, <2>2 DEF End, ChildOf, Family
  <2>4. /\ status' = [status EXCEPT ![p] = code] /\ stat' = stat
        /\ main' = IF p = "P" THEN "end" ELSE main
    BY <1>6 DEF End
  <2>5. proc' \in [Family -> ProcessPcs]
    <3>1. \A q \in Family : proc'[q] \in ProcessPcs
      BY <1>1, <2>3 DEF ProcessPcs
    <3>2. proc' = [q \in Family |-> proc'[q]]
      BY <1>6 DEF End
    <3> QED
      BY <3>1, <3>2
  <2> QED
    BY <1>1, <1>6, <2>2, <2>3, <2>4, <2>5
       DEF WaitInv, Family, ProcessPcs, ChildOf
<1>7. ASSUME NEW p \in Family, Exec(p)
      PROVE  WaitInv'
  BY <1>6, <1>7 DEF Exec, At, WaitInv
<1>8. ASSUME NEW p \in Family, Exit(p)
      PROVE  WaitInv'
  BY <1>6, <1>8 DEF Exit, At, Code, WaitInv, Family
<1>9. ASSUME NEW p \in Family
      PROVE  ~ OpenFile(p) /\ ~ WriteFile(p)
  BY DEF OpenFile, WriteFile, At, WaitInv
<1> QED
  BY <1>3, <1>4, <1>5, <1>7, <1>8, <1>9 DEF ProcessesNext, process, ChildOf

(* Whoever waits in ex3.c and ex4.c has the code of the child it had, main *)
(* ends with no zombie or orphan, and the two files of ex2.c stay equal if *)
(* they were, for every PATH, every earlier file and every code of gcc.    *)
THEOREM FamiliesEndWell == ProgramsSpec => []FamilyResults
<1> DEFINE Inv == WaitInv /\ FileInv
<1>1. ProgramsInit => Inv
  <2> SUFFICES ASSUME ProgramsInit PROVE Inv
    OBVIOUS
  <2>1. /\ main = "start" /\ DOMAIN file = Family /\ DOMAIN status = Family
        /\ proc = [p \in Family |-> "none"]
        /\ stat = [p \in Family |-> Unset]
    BY DEF ProgramsInit, ProcessesInit
  <2> QED
    BY <2>1 DEF WaitInv, FileInv, Family, ProcessPcs, ChildOf
<1>2. Inv /\ [ProgramsNext]_allVars => Inv'
  <2> SUFFICES ASSUME Inv, [ProgramsNext]_allVars PROVE Inv'
    OBVIOUS
  <2>1. command' = command
    BY OneProgram
  <2>2. CASE UNCHANGED <<main, procVars>>
    BY <2>1, <2>2 DEF WaitInv, FileInv, procVars, Fresh, Filled
  <2>3. CASE command.name \notin ProcessPrograms
    BY <2>1, <2>3 DEF WaitInv, FileInv, ProcessPrograms
  <2> QED
    BY <2>2, <2>3, WaitStep, FileStep, OneProgram
<1>3. Inv => FamilyResults
  <2> SUFFICES ASSUME Inv PROVE FamilyResults
    OBVIOUS
  <2>1. ASSUME command.name \in {"tree", "exec"}
        PROVE  /\ \A p \in DOMAIN ChildOf : proc[p] = "exit" =>
                     stat[p] = IF proc[ChildOf[p]] = "gone"
                               THEN status[ChildOf[p]] ELSE Unset
               /\ MainAt("tree", "end") =>
                     stat["P"] \in {2, Unset} /\ stat["C"] \in {3, Unset}
               /\ main = "end" => \A p \in Family : proc[p] \in {"none", "gone"}
    BY <2>1 DEF WaitInv, ChildOf, MainAt, Family, ProcessPcs
  <2>2. ASSUME command.name = "family", command.old["P"] = command.old["C"],
               \A p \in {"P", "C"} : proc[p] = "gone" /\ file[p].path > 0
        PROVE  file["P"] = file["C"]
    BY <2>2, ProcessesAssumption DEF FileInv, Family, Fresh, Filled
  <2> QED
    BY <2>1, <2>2 DEF FamilyResults
<1> QED
  BY <1>1, <1>2, <1>3, PTL DEF ProgramsSpec

-----------------------------------------------------------------------------
(* The copies of Problem_Set_2.                                            *)

(* One sequence behind another, the lengths known: s of length c, then t,  *)
(* e places in all.                                                        *)
Joined(S, s, c, t, e) ==
    /\ s \o t \in Seq(S)
    /\ Len(s \o t) = e
    /\ \A j \in 1 .. e : (s \o t)[j] = IF j <= c THEN s[j] ELSE t[j - c]

LEMMA ConcatAt ==
  ASSUME NEW S, NEW s \in Seq(S), NEW t \in Seq(S),
         NEW c \in Nat, NEW r \in Nat, NEW e \in Nat,
         Len(s) = c, Len(t) = r, e = c + r
  PROVE  Joined(S, s, c, t, e)
<1> DEFINE u == s \o t
<1>1. /\ u \in Seq(S) /\ Len(u) = Len(s) + Len(t)
      /\ \A j \in 1 .. Len(s) + Len(t) :
            u[j] = IF j <= Len(s) THEN s[j] ELSE t[j - Len(s)]
  BY ConcatProperties
<1> HIDE DEF u
<1>2. /\ u \in Seq(S) /\ Len(u) = e
      /\ \A j \in 1 .. e : u[j] = IF j <= c THEN s[j] ELSE t[j - c]
  BY <1>1
<1> QED
  BY <1>2 DEF u, Joined

(* What is copied in pieces is what is copied at once.                     *)
LEMMA BytesConcat ==
  ASSUME NEW f, NEW l \in Nat, NEW m \in Nat, NEW n \in Nat, l <= m, m <= n
  PROVE  Bytes(f, l, m) \o Bytes(f, m, n) = Bytes(f, l, n)
<1> DEFINE s == Bytes(f, l, m)
           t == Bytes(f, m, n)
           S == {f} \X Nat
<1>1. /\ s \in Seq(S) /\ Len(s) = m - l /\ \A j \in 1 .. m - l : s[j] = <<f, l + j>>
      /\ t \in Seq(S) /\ Len(t) = n - m /\ \A j \in 1 .. n - m : t[j] = <<f, m + j>>
  BY DEF Bytes
<1> HIDE DEF s, t, S
<1>2. /\ s \o t \in Seq(S) /\ Len(s \o t) = n - l
      /\ \A j \in 1 .. n - l : (s \o t)[j] = IF j <= m - l THEN s[j] ELSE t[j - (m - l)]
  <2>1. m - l \in Nat /\ n - m \in Nat /\ n - l \in Nat /\ n - l = (m - l) + (n - m)
    OBVIOUS
  <2>2. PICK c \in Nat : c = m - l
    BY <2>1
  <2>3. PICK r \in Nat : r = n - m
    BY <2>1
  <2>4. PICK e \in Nat : e = n - l
    BY <2>1
  <2>5. e = c + r
    BY <2>2, <2>3, <2>4
  <2>6. s \in Seq(S) /\ t \in Seq(S) /\ Len(s) = c /\ Len(t) = r
    BY <1>1, <2>2, <2>3
  <2>7. Joined(S, s, c, t, e)
    BY <2>5, <2>6, ConcatAt, Zenon
  <2> QED
    BY <2>2, <2>4, <2>7 DEF Joined
<1>3. \A j \in 1 .. n - l : (s \o t)[j] = <<f, l + j>>
  <2> SUFFICES ASSUME NEW j \in 1 .. n - l
               PROVE  (s \o t)[j] = <<f, l + j>>
    OBVIOUS
  <2>1. CASE j <= m - l
    BY <1>1, <1>2, <2>1
  <2>2. CASE ~ (j <= m - l)
    <3>1. j - (m - l) \in 1 .. n - m /\ m + (j - (m - l)) = l + j
      BY <2>2
    <3> QED
      BY <1>1, <1>2, <2>2, <3>1
  <2> QED
    BY <2>1, <2>2
<1>4. s \o t = [j \in 1 .. n - l |-> <<f, l + j>>]
  BY <1>2, <1>3, LenProperties
<1> QED
  BY <1>4 DEF Bytes, s, t

(* A read takes what it returns out of the file, and the loop ends where   *)
(* the file does; a write that is not short writes all that was read.      *)
LEMMA ReadPiece ==
  ASSUME Read, Readable, InSize \in Nat, rpos \in 0 .. InSize
  PROVE  /\ main = "read" /\ UNCHANGED <<part, out, short>>
         /\ rpos' \in 0 .. InSize /\ rpos' - b' = rpos /\ b' \in Nat
         /\ main' \in {"close", "write"}
         /\ main' = "close" => rpos' = InSize /\ rpos' = rpos
         /\ main' = "write" => b' \in 1 .. rpos'
<1> DEFINE left == Smaller(BUFFERSIZE, InSize - rpos)
<1>1. /\ b' \in IF left = 0 THEN {0} ELSE 1 .. left
      /\ rpos' = rpos + b'
      /\ main' = IF b' = 0 THEN "close" ELSE "write"
  BY DEF Read
<1>2. /\ left \in Nat /\ left <= InSize - rpos
      /\ left = 0 => rpos = InSize
  BY CopiesAssumption DEF Smaller
<1> HIDE DEF left
<1>3. main = "read" /\ UNCHANGED <<part, out, short>>
  BY DEF Read
<1>4. \A m, n, l \in Nat : n <= l - m =>
         m + n \in 0 .. l /\ (m + n) - n = m /\ (n # 0 => n \in 1 .. m + n)
  OBVIOUS
<1>5. rpos \in Nat /\ b' \in Nat /\ b' <= InSize - rpos
      /\ (b' = 0 => rpos = InSize)
  BY <1>1, <1>2
<1>6. /\ rpos' \in 0 .. InSize /\ rpos' - b' = rpos
      /\ (b' # 0 => b' \in 1 .. rpos')
  BY <1>1, <1>4, <1>5
<1>7. main' = "close" => rpos' = InSize /\ rpos' = rpos
  <2> SUFFICES ASSUME main' = "close" PROVE rpos' = InSize /\ rpos' = rpos
    OBVIOUS
  <2>1. b' = 0
    BY <1>1
  <2> QED
    BY <1>1, <1>5, <2>1
<1>8. main' \in {"close", "write"} /\ (main' = "write" => b' # 0)
  BY <1>1
<1> QED
  BY <1>3, <1>5, <1>6, <1>7, <1>8

LEMMA WritePiece ==
  ASSUME Write, rpos \in Nat, b \in 1 .. rpos
  PROVE  /\ main = "write" /\ main' = "read" /\ UNCHANGED <<part, rpos, b>>
         /\ rpos - b \in Nat /\ rpos - b <= rpos
         /\ \E w \in 0 .. b :
               /\ out' = out \o Bytes(part, rpos - b, rpos - b + w)
               /\ ~ short' => ~ short /\ w = b /\ rpos - b + w = rpos
<1>1. PICK w \in 0 .. (IF b > 0 THEN b ELSE 0) :
         /\ out' = out \o Bytes(part, rpos - b, rpos - b + w)
         /\ short' = (short \/ w < b)
  BY DEF Write
<1>2. w \in 0 .. b /\ b \in Int
  OBVIOUS
<1>3. ~ short' => ~ short /\ ~ (w < b)
  BY <1>1
<1>4. w = b => rpos - b + w = rpos
  BY <1>2
<1>5. rpos - b \in Nat /\ rpos - b <= rpos
  OBVIOUS
<1>6. w \in 0 .. b /\ (w < b \/ w = b)
  BY <1>2
<1>7. \E v \in 0 .. b :
         /\ out' = out \o Bytes(part, rpos - b, rpos - b + v)
         /\ ~ short' => ~ short /\ v = b /\ rpos - b + v = rpos
  BY <1>1, <1>3, <1>4, <1>6
<1> QED
  BY <1>5, <1>7 DEF Write

LEMMA CopyCommandFields ==
  ASSUME ProgramsInit
  PROVE  /\ command.name \in {"copy", "redirect"} =>
               command.size \in Nat /\ command.kind \in {"file", "missing", "directory"}
         /\ command.name = "merge" => command.parts \in [Parts -> Nat \cup {Missing}]
         /\ command.name = "sample" => command.length \in Nat /\ command.offset \in Int
<1>1. command.name \in CopyPrograms => command \in CopyCommands
  BY DEF ProgramsInit, ThreadCommands, ProcessCommands, RecordCommands,
     TestCommands, CopyPrograms
<1>2. \A c \in CopyCommands :
         /\ c.name \in {"copy", "redirect"} =>
               c.size \in Nat /\ c.kind \in {"file", "missing", "directory"}
         /\ c.name = "merge" => c.parts \in [Parts -> Nat \cup {Missing}]
         /\ c.name = "sample" => c.length \in Nat /\ c.offset \in Int
  BY CopiesAssumption DEF CopyCommands
<1> QED
  BY <1>1, <1>2 DEF CopyPrograms

(* So far the input has been copied up to what is still in the buffer; of  *)
(* what cannot be read, nothing.                                           *)
Held == IF main = "write" THEN b ELSE 0

CopyInv ==
    command.name \in {"copy", "redirect"} =>
        /\ command.size \in Nat
        /\ command.kind \in {"file", "missing", "directory"}
        /\ part = Input /\ rpos \in 0 .. command.size
        /\ main \in {"start", "read", "write", "close", "end"}
        /\ main = "start" => rpos = 0
        /\ main = "close" => command.kind = "file" /\ rpos = command.size
        /\ main = "write" => b \in IF command.kind = "file" THEN 1 .. rpos ELSE {-1}
        /\ ~ short =>
              /\ main \in {"start", "read", "write", "close"} =>
                    out = IF command.kind = "file"
                          THEN Bytes(Input, 0, rpos - Held) ELSE <<>>
              /\ main = "end" =>
                    \/ out = <<>> /\ (command.exists \/ command.kind = "missing")
                    \/ /\ command.kind = "file"
                       /\ out \in {Bytes(Input, 0, command.size),
                                   Append(Bytes(Input, 0, command.size), Report)}

LEMMA CopyStep ==
  ASSUME CopyInv, CopiesNext, command.name \in {"copy", "redirect"}
  PROVE  CopyInv'
<1>1. /\ command' = command /\ command.size \in Nat /\ part = Input
      /\ command.kind \in {"file", "missing", "directory"}
      /\ rpos \in 0 .. command.size
  BY DEF CopiesNext, CopyInv
<1>2. \A f : Bytes(f, 0, 0) = <<>>
  BY DEF Bytes
<1>3. CASE CopyOpen
  <2>1. /\ main = "start" /\ main' \in {"end", "read"} /\ UNCHANGED copyVars
        /\ main' = "end" => command.exists \/ command.kind = "missing"
    BY <1>3 DEF CopyOpen
  <2>2. rpos = 0 /\ (~ short => out = <<>>)
    BY <1>2, <2>1 DEF CopyInv, Held
  <2> QED
    BY <1>1, <1>2, <2>1, <2>2 DEF CopyInv, Held, copyVars
<1>4. CASE Read
  <2>1. /\ main = "read" /\ UNCHANGED <<part, out, short>>
        /\ (Readable <=> command.kind = "file") /\ InSize = command.size
    BY <1>4 DEF Read, Readable, InSize
  <2>2. CASE command.kind = "file"
    <3>1. /\ rpos' \in 0 .. command.size /\ rpos' - b' = rpos /\ b' \in Nat
          /\ main' \in {"close", "write"}
          /\ main' = "close" => rpos' = command.size /\ rpos' = rpos
          /\ main' = "write" => b' \in 1 .. rpos'
      BY <1>1, <1>4, <2>1, <2>2, ReadPiece
    <3>2. rpos - 0 = rpos
      BY <1>1
    <3>3. ~ short => out = Bytes(Input, 0, rpos)
      BY <2>1, <2>2, <3>2 DEF CopyInv, Held
    <3>4. ~ short' => out' = Bytes(Input, 0, rpos' - Held')
      BY <2>1, <3>1, <3>2, <3>3 DEF Held
    <3> QED
      BY <1>1, <2>1, <2>2, <3>1, <3>4 DEF CopyInv
  <2>3. CASE command.kind # "file"
    <3>1. b' = -1 /\ rpos' = rpos /\ main' = "write"
      BY <1>4, <2>1, <2>3 DEF Read
    <3> QED
      BY <1>1, <2>1, <2>3, <3>1 DEF CopyInv
  <2> QED
    BY <2>2, <2>3
<1>5. CASE Write
  <2>1. main = "write" /\ main' = "read" /\ UNCHANGED <<part, rpos, b>>
    BY <1>5 DEF Write
  <2>2. CASE command.kind = "file"
    <3>1. rpos \in Nat /\ b \in 1 .. rpos
      BY <1>1, <2>1, <2>2 DEF CopyInv
    <3>2. /\ rpos - b \in Nat /\ rpos - b <= rpos
          /\ ~ short' =>
                ~ short /\ out' = out \o Bytes(Input, rpos - b, rpos)
      BY <1>1, <1>5, <3>1, WritePiece
    <3>3. ~ short => out = Bytes(Input, 0, rpos - b)
      BY <1>1, <2>1, <2>2 DEF CopyInv, Held
    <3>4. Bytes(Input, 0, rpos - b) \o Bytes(Input, rpos - b, rpos)
          = Bytes(Input, 0, rpos)
      <4>1. 0 \in Nat /\ 0 <= rpos - b
        BY <3>2
      <4> QED
        BY <3>1, <3>2, <4>1, BytesConcat
    <3>5. rpos - 0 = rpos
      BY <1>1
    <3> QED
      BY <1>1, <2>1, <2>2, <3>2, <3>3, <3>4, <3>5 DEF CopyInv, Held
  <2>3. CASE command.kind # "file"
    <3>1. b = -1
      BY <2>1, <2>3 DEF CopyInv
    <3>2. /\ out' = out \o Bytes(part, rpos - b, rpos - b + 0)
          /\ ~ short' => ~ short
      <4>1. PICK w \in 0 .. (IF b > 0 THEN b ELSE 0) :
               /\ out' = out \o Bytes(part, rpos - b, rpos - b + w)
               /\ short' = (short \/ w < b)
        BY <1>5 DEF Write
      <4>2. w = 0
        BY <3>1
      <4> QED
        BY <4>1, <4>2
    <3>3. ~ short' => ~ short /\ out = <<>>
      BY <2>1, <2>3, <3>2 DEF CopyInv
    <3>4. Bytes(part, rpos - b, rpos - b + 0) = <<>>
      BY <1>1, <3>1 DEF Bytes
    <3>5. ~ short' => out' = <<>>
      BY <3>2, <3>3, <3>4
    <3> QED
      BY <1>1, <2>1, <2>3, <3>5 DEF CopyInv
  <2> QED
    BY <2>2, <2>3
<1>6. CASE CopyClose
  <2>1. /\ main = "close" /\ main' = "end" /\ UNCHANGED <<part, rpos, b, short>>
        /\ out' \in {out, Append(out, Report)}
    BY <1>6 DEF CopyClose
  <2>2. /\ command.kind = "file" /\ rpos - 0 = command.size /\ rpos = command.size
    BY <1>1, <2>1 DEF CopyInv
  <2>3. ~ short => out = Bytes(Input, 0, command.size)
    BY <2>1, <2>2 DEF CopyInv, Held
  <2> QED
    BY <1>1, <2>1, <2>2, <2>3 DEF CopyInv
<1> QED
  BY <1>3, <1>4, <1>5, <1>6
     DEF CopiesNext, MergeOpen, NextPart, Sample, Runs

(* The sample is taken in one step.                                        *)
SampleTaken ==
    LET n == command.length
        from == command.offset
        size == Smaller(n - from, n \div 10)
    IN  IF from \notin 0 .. n THEN out = <<>>
        ELSE /\ Len(out) = size /\ b <= size
             /\ \A m \in 1 .. size :
                   out[m] = IF m <= b THEN <<Input, from + m>> ELSE JunkByte

SampleInv ==
    command.name = "sample" =>
        /\ command.length \in Nat /\ command.offset \in Int
        /\ main \in {"start", "end"}
        /\ main = "start" => out = <<>> /\ ~ short
        /\ main = "end" /\ ~ short => SampleTaken

LEMMA SampleStep ==
  ASSUME SampleInv, CopiesNext, command.name = "sample"
  PROVE  SampleInv'
<1> DEFINE n == command.length
           from == command.offset
           s == Smaller(n - from, n \div 10)
<1>1. /\ command' = command /\ n \in Nat /\ from \in Int
      /\ Sample /\ main = "start" /\ main' = "end" /\ out = <<>>
  BY DEF CopiesNext, CopyOpen, MergeOpen, Read, Write, CopyClose, NextPart,
     Sample, Runs, SampleInv
<1>2. s \in Int /\ (s < 0 <=> n < from) /\ s <= n - from
  BY <1>1 DEF Smaller
<1> SUFFICES ASSUME ~ short'
             PROVE  IF from \notin 0 .. n THEN out' = <<>>
                    ELSE /\ Len(out') = s /\ b' <= s
                         /\ \A m \in 1 .. s :
                               out'[m] = IF m <= b' THEN <<Input, from + m>>
                                                    ELSE JunkByte
  BY <1>1 DEF SampleInv, SampleTaken
<1>3. CASE from < 0 \/ s < 0
  BY <1>1, <1>2, <1>3 DEF Sample
<1>4. CASE ~ (from < 0 \/ s < 0)
  <2>1. \E r \in Smaller(1, s) .. s, w \in 0 .. s :
           /\ b' = r
           /\ out' = SubSeq(Bytes(Input, from, from + r)
                            \o [j \in 1 .. s - r |-> JunkByte], 1, w)
           /\ short' = (w < s)
    BY <1>1, <1>4 DEF Sample
  <2> HIDE DEF n, from, s
  <2>2. PICK r \in Smaller(1, s) .. s, w \in 0 .. s :
           /\ b' = r
           /\ out' = SubSeq(Bytes(Input, from, from + r)
                            \o [j \in 1 .. s - r |-> JunkByte], 1, w)
           /\ short' = (w < s)
    BY <2>1
  <2>3. w = s /\ s \in Nat /\ from \in Nat /\ r \in 0 .. s /\ s - r \in Nat
    <3>1. ~ (w < s)
      BY <2>2
    <3>2. s \in Nat /\ from \in Nat
      BY <1>1, <1>2, <1>4
    <3> QED
      BY <3>1, <3>2 DEF Smaller
  <2> DEFINE t == Bytes(Input, from, from + r)
             u == [j \in 1 .. s - r |-> JunkByte]
             S == {Input} \X Nat
  <2>4. /\ t \in Seq(S) /\ Len(t) = r
        /\ \A j \in 1 .. r : t[j] = <<Input, from + j>>
    BY <2>3 DEF Bytes
  <2>5. u \in Seq(S) /\ Len(u) = s - r /\ \A j \in 1 .. s - r : u[j] = JunkByte
    BY <2>3 DEF JunkByte
  <2> HIDE DEF t, u, S
  <2>6. Joined(S, t, r, u, s)
    BY <2>3, <2>4, <2>5, ConcatAt
  <2>7. out' = t \o u
    BY <2>2, <2>3, <2>6, SubSeqFull DEF Joined, t, u
  <2>8. /\ Len(out') = s
        /\ \A m \in 1 .. s : out'[m] = IF m <= r THEN t[m] ELSE u[m - r]
    BY <2>6, <2>7 DEF Joined
  <2>9. ASSUME NEW m \in 1 .. s
        PROVE  out'[m] = IF m <= r THEN <<Input, from + m>> ELSE JunkByte
    <3>1. CASE m <= r
      <4>1. m \in 1 .. r
        BY <2>3, <3>1
      <4>2. out'[m] = t[m]
        BY <2>8, <3>1
      <4> QED
        BY <2>4, <3>1, <4>1, <4>2
    <3>2. CASE ~ (m <= r)
      <4>1. m - r \in 1 .. s - r
        BY <2>3, <3>2
      <4>2. out'[m] = u[m - r]
        BY <2>8, <3>2
      <4> QED
        BY <2>5, <3>2, <4>1, <4>2
    <3> QED
      BY <3>1, <3>2
  <2>10. from \in 0 .. n /\ b' = r /\ r <= s
    BY <1>1, <1>2, <1>4, <2>2, <2>3
  <2> QED
    BY <2>8, <2>9, <2>10
<1> QED
  BY <1>3, <1>4

(* The bytes before byte r of part p, the earlier parts' included.         *)
UpTo(p, r) ==
    {x \in Parts \X Nat :
         /\ x[2] > 0
         /\ \/ Before(x[1], p) /\ x[2] <= command.parts[x[1]]
            \/ x[1] = p /\ x[2] <= r}

Contents(s) == {s[n] : n \in DOMAIN s}

(* So far merge has copied, in order, the parts before the one it reads    *)
(* and of that one what is no longer in the buffer.                        *)
MergeInv ==
    command.name = "merge" =>
        /\ command.parts \in [Parts -> Nat \cup {Missing}]
        /\ main \in {"start", "read", "write", "close", "end"}
        /\ out \in Seq(Parts \X Nat)
        /\ main # "end" =>
              /\ part \in Parts
              /\ \A q \in Parts : Before(q, part) => command.parts[q] # Missing
              /\ main # "start" => /\ command.parts[part] # Missing
                                   /\ rpos \in 0 .. command.parts[part]
              /\ main = "write" => b \in 1 .. rpos
              /\ main = "close" => rpos = command.parts[part]
              /\ ~ short => /\ InOrder(out)
                            /\ Contents(out) = UpTo(part, IF main = "start" THEN 0
                                                          ELSE rpos - Held)
        /\ main = "end" /\ ~ short => Merged

(* Parts are ordered, each with the one that NextPart makes of it after it.*)
LEMMA PartsOrdered ==
  ASSUME NEW p \in Parts, NEW q \in Parts
  PROVE  /\ p[1] \in 0 .. Letters - 1 /\ p[2] \in 0 .. Letters - 1
         /\ p = q \/ Before(p, q) \/ Before(q, p)
         /\ ~ (Before(p, q) /\ Before(q, p)) /\ ~ Before(p, p)
         /\ \A r \in Parts : Before(p, q) /\ Before(q, r) => Before(p, r)
<1>1. \A r \in Parts : /\ r[1] \in 0 .. Letters - 1 /\ r[2] \in 0 .. Letters - 1
                       /\ r = <<r[1], r[2]>>
  BY DEF Parts
<1>2. Letters \in Nat
  BY CopiesAssumption
<1> QED
  BY <1>1, <1>2 DEF Before

LEMMA PartAfter ==
  ASSUME NEW p \in Parts,
         NEW q, q = IF p[2] + 1 < Letters THEN <<p[1], p[2] + 1>>
                                          ELSE <<p[1] + 1, 0>>
  PROVE  /\ q[1] < Letters => q \in Parts
         /\ q[1] < Letters => \A r \in Parts : Before(r, q) <=> Before(r, p) \/ r = p
         /\ ~ (q[1] < Letters) => \A r \in Parts : Before(r, p) \/ r = p
<1>1. \A r \in Parts : /\ r[1] \in 0 .. Letters - 1 /\ r[2] \in 0 .. Letters - 1
                       /\ r = <<r[1], r[2]>>
  BY DEF Parts
<1>2. Letters \in Nat \ {0}
  BY CopiesAssumption
<1>3. /\ q[1] = IF p[2] + 1 < Letters THEN p[1] ELSE p[1] + 1
      /\ q[2] = IF p[2] + 1 < Letters THEN p[2] + 1 ELSE 0
      /\ q = <<q[1], q[2]>>
  OBVIOUS
<1>4. q[1] < Letters => q \in Parts
  <2>1. q[1] < Letters => q[1] \in 0 .. Letters - 1 /\ q[2] \in 0 .. Letters - 1
    BY <1>1, <1>2, <1>3
  <2> QED
    BY <1>3, <2>1 DEF Parts
<1>5. ASSUME NEW r \in Parts
      PROVE  /\ q[1] < Letters => (Before(r, q) <=> Before(r, p) \/ r = p)
             /\ ~ (q[1] < Letters) => Before(r, p) \/ r = p
  <2>1. r = p <=> r[1] = p[1] /\ r[2] = p[2]
    BY <1>1
  <2> QED
    BY <1>1, <1>2, <1>3, <2>1 DEF Before
<1> QED
  BY <1>4, <1>5

LEMMA BytesInOrder ==
  ASSUME NEW p \in Parts, NEW s \in Seq(Parts \X Nat), NEW r \in Nat, NEW w \in Nat,
         InOrder(s), Contents(s) = UpTo(p, r)
  PROVE  LET u == s \o Bytes(p, r, r + w)
         IN  /\ u \in Seq(Parts \X Nat)
             /\ InOrder(u) /\ Contents(u) = UpTo(p, r + w)
<1> DEFINE S == Parts \X Nat
           t == Bytes(p, r, r + w)
           u == s \o t
<1>1. (r + w) - r = w
  OBVIOUS
<1>2. t \in Seq(S) /\ Len(t) = w /\ \A j \in 1 .. w : t[j] = <<p, r + j>>
  BY <1>1 DEF Bytes
<1>3. \A x \in S : x = <<x[1], x[2]>> /\ x[1] \in Parts /\ x[2] \in Nat
  OBVIOUS
<1> HIDE DEF S, t
<1>4. Len(s) \in Nat /\ DOMAIN s = 1 .. Len(s) /\ \A j \in 1 .. Len(s) : s[j] \in S
  BY LenProperties DEF S
<1>5. /\ u \in Seq(S) /\ Len(u) = Len(s) + w
      /\ \A j \in 1 .. Len(s) + w : u[j] = IF j <= Len(s) THEN s[j] ELSE t[j - Len(s)]
  BY <1>2, ConcatProperties DEF S
<1>6. DOMAIN u = 1 .. Len(s) + w
  BY <1>5, LenProperties
<1> HIDE DEF u
<1>7. \A j \in 1 .. Len(s) : u[j] = s[j] /\ s[j] \in UpTo(p, r)
  <2> TAKE j \in 1 .. Len(s)
  <2>1. j \in 1 .. Len(s) + w /\ j <= Len(s)
    BY <1>4
  <2>2. s[j] \in Contents(s)
    BY <1>4 DEF Contents
  <2> QED
    BY <1>5, <2>1, <2>2
<1>8. \A j \in Len(s) + 1 .. Len(s) + w :
         /\ u[j] = <<p, r + (j - Len(s))>> /\ u[j][1] = p
         /\ u[j][2] = r + (j - Len(s)) /\ j - Len(s) \in 1 .. w
  <2> TAKE j \in Len(s) + 1 .. Len(s) + w
  <2>1. j \in 1 .. Len(s) + w /\ ~ (j <= Len(s)) /\ j - Len(s) \in 1 .. w
    BY <1>4
  <2>2. u[j] = t[j - Len(s)]
    BY <1>5, <2>1
  <2> QED
    BY <1>2, <2>1, <2>2
<1>9. InOrder(u)
  <2> SUFFICES ASSUME NEW m \in DOMAIN u, NEW n \in DOMAIN u, m < n
               PROVE  \/ Before(u[m][1], u[n][1])
                      \/ u[m][1] = u[n][1] /\ u[m][2] < u[n][2]
    BY DEF InOrder
  <2>1. m \in 1 .. Len(s) + w /\ n \in 1 .. Len(s) + w
    BY <1>6
  <2>2. CASE n <= Len(s)
    <3>1. m \in 1 .. Len(s) /\ n \in 1 .. Len(s)
      BY <1>4, <2>1, <2>2
    <3>2. u[m] = s[m] /\ u[n] = s[n] /\ m \in DOMAIN s /\ n \in DOMAIN s
      BY <1>4, <1>7, <3>1
    <3> QED
      BY <3>2 DEF InOrder
  <2>3. CASE m <= Len(s) /\ ~ (n <= Len(s))
    <3>1. n \in Len(s) + 1 .. Len(s) + w /\ m \in 1 .. Len(s)
      BY <1>4, <2>1, <2>3
    <3>2. u[m] \in UpTo(p, r) /\ u[n][1] = p /\ u[n][2] = r + (n - Len(s))
          /\ n - Len(s) \in 1 .. w
      BY <1>7, <1>8, <3>1
    <3> QED
      BY <3>2 DEF UpTo
  <2>4. CASE ~ (m <= Len(s))
    <3>1. n \in Len(s) + 1 .. Len(s) + w /\ m \in Len(s) + 1 .. Len(s) + w
      BY <1>4, <2>1, <2>4
    <3> QED
      BY <1>4, <1>8, <3>1
  <2> QED
    BY <1>4, <2>1, <2>2, <2>3, <2>4
<1>10. Contents(u) \subseteq UpTo(p, r + w)
  <2> SUFFICES ASSUME NEW j \in 1 .. Len(s) + w PROVE u[j] \in UpTo(p, r + w)
    BY <1>6 DEF Contents
  <2>1. CASE j <= Len(s)
    <3>1. j \in 1 .. Len(s)
      BY <1>4, <2>1
    <3>2. u[j] \in UpTo(p, r)
      BY <1>7, <3>1
    <3> QED
      BY <3>2 DEF UpTo
  <2>2. CASE ~ (j <= Len(s))
    <3>1. j \in Len(s) + 1 .. Len(s) + w
      BY <1>4, <2>2
    <3>2. \A m \in 1 .. w : <<p, r + m>> \in UpTo(p, r + w)
      BY DEF UpTo
    <3> QED
      BY <1>8, <3>1, <3>2
  <2> QED
    BY <2>1, <2>2
<1>11. UpTo(p, r + w) \subseteq Contents(u)
  <2> SUFFICES ASSUME NEW x \in UpTo(p, r + w) PROVE x \in Contents(u)
    OBVIOUS
  <2>1. CASE x \in UpTo(p, r)
    <3>1. PICK j \in 1 .. Len(s) : s[j] = x
      BY <1>4, <2>1 DEF Contents
    <3>2. j \in DOMAIN u /\ u[j] = x
      BY <1>4, <1>6, <1>7, <3>1
    <3> QED
      BY <3>2 DEF Contents
  <2>2. CASE x \notin UpTo(p, r)
    <3>1. /\ x = <<x[1], x[2]>> /\ x[1] = p /\ x[2] \in Nat
          /\ x[2] > r /\ x[2] <= r + w
      BY <1>3, <2>2 DEF UpTo, S
    <3> DEFINE j == Len(s) + (x[2] - r)
    <3>2. j \in Len(s) + 1 .. Len(s) + w /\ r + (j - Len(s)) = x[2]
          /\ j \in 1 .. Len(s) + w
      BY <1>4, <3>1
    <3>3. u[j] = x
      BY <1>8, <3>1, <3>2
    <3> QED
      BY <1>6, <3>2, <3>3 DEF Contents
  <2> QED
    BY <2>1, <2>2
<1> QED
  BY <1>5, <1>9, <1>10, <1>11 DEF S, t, u

LEMMA MergeStep ==
  ASSUME MergeInv, CopiesNext, command.name = "merge"
  PROVE  MergeInv'
<1>1. /\ command' = command /\ command.parts \in [Parts -> Nat \cup {Missing}]
      /\ main # "end" /\ part \in Parts /\ out \in Seq(Parts \X Nat)
      /\ \A q \in Parts : Before(q, part) => command.parts[q] # Missing
      /\ InSize = command.parts[part]
  BY DEF CopiesNext, CopyOpen, MergeOpen, Read, Write, CopyClose, NextPart,
     Sample, Runs, MergeInv, InSize
<1>2. \A p, r : UpTo(p, r)' = UpTo(p, r)
  BY <1>1 DEF UpTo
<1>3. CASE MergeOpen
  <2>1. main = "start" /\ rpos' = 0 /\ UNCHANGED <<part, b, out, short>>
    BY <1>3 DEF MergeOpen
  <2>2. ~ short => InOrder(out) /\ Contents(out) = UpTo(part, 0)
    BY <2>1 DEF MergeInv
  <2>3. CASE InSize = Missing
    <3>1. Present = {q \in Parts : Before(q, part)}
      BY <1>1, <2>3, PartsOrdered DEF Present
    <3>2. UpTo(part, 0) = PresentBytes
      <4>1. \A x \in PresentBytes : x \in UpTo(part, 0)
        BY <1>1, <3>1 DEF PresentBytes, UpTo
      <4>2. ASSUME NEW x \in UpTo(part, 0)
            PROVE  x \in PresentBytes
        <5>1. /\ x[1] \in Present /\ x[2] \in 1 .. command.parts[x[1]]
              /\ x = <<x[1], x[2]>>
          BY <1>1, <3>1 DEF UpTo
        <5> QED
          BY <5>1 DEF PresentBytes
      <4> QED
        BY <4>1, <4>2
    <3>3. ~ short => Merged
      BY <2>2, <3>2 DEF Merged, Contents
    <3>4. main' = "end" /\ (Merged' <=> Merged)
      BY <1>1, <1>3, <2>1, <2>3 DEF MergeOpen, Merged, PresentBytes, Present
    <3> QED
      BY <1>1, <2>1, <3>3, <3>4 DEF MergeInv
  <2>4. CASE InSize # Missing
    <3>1. main' = "read" /\ 0 \in 0 .. command.parts[part] /\ 0 - 0 = 0
      BY <1>1, <1>3, <2>4 DEF MergeOpen
    <3> QED
      BY <1>1, <1>2, <2>1, <2>2, <2>4, <3>1 DEF MergeInv, Held
  <2> QED
    BY <2>3, <2>4
<1>4. CASE Read
  <2>1. Readable /\ InSize \in Nat /\ rpos \in 0 .. InSize
    BY <1>1, <1>4 DEF Read, Readable, MergeInv, Runs
  <2>2. /\ main = "read" /\ UNCHANGED <<part, out, short>>
        /\ rpos' \in 0 .. InSize /\ rpos' - b' = rpos
        /\ main' \in {"close", "write"}
        /\ main' = "close" => rpos' = InSize /\ rpos' = rpos
        /\ main' = "write" => b' \in 1 .. rpos'
    BY <1>4, <2>1, ReadPiece
  <2>3. rpos - 0 = rpos
    BY <1>1, <2>1
  <2>4. ~ short => InOrder(out) /\ Contents(out) = UpTo(part, rpos)
    BY <1>1, <2>2, <2>3 DEF MergeInv, Held
  <2>5. rpos' - Held' = rpos
    BY <2>2, <2>3 DEF Held
  <2>6. command.parts[part] # Missing
    BY <1>1, <2>2 DEF MergeInv
  <2> QED
    BY <1>1, <1>2, <2>2, <2>4, <2>5, <2>6 DEF MergeInv
<1>5. CASE Write
  <2>1. /\ main = "write" /\ b \in 1 .. rpos /\ rpos \in 0 .. InSize
        /\ InSize # Missing /\ InSize \in Nat
        /\ ~ short => InOrder(out) /\ Contents(out) = UpTo(part, rpos - b)
        /\ rpos \in Nat
    BY <1>1, <1>5 DEF Write, MergeInv, Held
  <2>2. /\ main' = "read" /\ UNCHANGED <<part, rpos, b>>
        /\ rpos - b \in Nat
    BY <1>5, <2>1, WritePiece
  <2>3. PICK w \in 0 .. b :
           /\ out' = out \o Bytes(part, rpos - b, rpos - b + w)
           /\ ~ short' => ~ short /\ w = b /\ rpos - b + w = rpos
    BY <1>5, <2>1, WritePiece
  <2>4. w \in Nat /\ rpos - 0 = rpos
    BY <2>1
  <2>5. out' \in Seq(Parts \X Nat)
    <3>1. Bytes(part, rpos - b, rpos - b + w) \in Seq(Parts \X Nat)
      BY <1>1, <2>2, <2>4 DEF Bytes
    <3> QED
      BY <1>1, <2>3, <3>1, ConcatProperties
  <2>6. ~ short' => InOrder(out') /\ Contents(out') = UpTo(part, rpos)
    <3> DEFINE r == rpos - b
    <3> SUFFICES ASSUME ~ short'
                 PROVE  InOrder(out') /\ Contents(out') = UpTo(part, rpos)
      OBVIOUS
    <3>1. r \in Nat /\ r + w = rpos /\ out' = out \o Bytes(part, r, r + w)
          /\ InOrder(out) /\ Contents(out) = UpTo(part, r)
      BY <2>1, <2>2, <2>3
    <3> HIDE DEF r
    <3> QED
      BY <1>1, <2>4, <3>1, BytesInOrder
  <2> QED
    BY <1>1, <1>2, <2>1, <2>2, <2>4, <2>5, <2>6 DEF MergeInv, Held
<1>6. CASE NextPart
  <2> DEFINE next == IF part[2] + 1 < Letters THEN <<part[1], part[2] + 1>>
                                              ELSE <<part[1] + 1, 0>>
  <2>1. /\ main = "close" /\ part' = next
        /\ main' = IF next[1] < Letters THEN "start" ELSE "end"
        /\ UNCHANGED <<rpos, b, out, short>>
    BY <1>6 DEF NextPart
  <2>2. /\ rpos = InSize /\ InSize \in Nat /\ InSize # Missing
        /\ ~ short => InOrder(out) /\ Contents(out) = UpTo(part, InSize)
    BY <1>1, <2>1 DEF MergeInv, Held
  <2>3. /\ next[1] < Letters => next \in Parts
        /\ next[1] < Letters =>
              \A r \in Parts : Before(r, next) <=> Before(r, part) \/ r = part
        /\ ~ (next[1] < Letters) => \A r \in Parts : Before(r, part) \/ r = part
    BY <1>1, PartAfter
  <2> HIDE DEF next
  <2>4. CASE next[1] < Letters
    <3>1. UpTo(next, 0) = UpTo(part, InSize)
      <4>1. \A x \in Parts \X Nat : x[2] > 0 =>
               (\/ Before(x[1], next) /\ x[2] <= command.parts[x[1]]
                \/ x[1] = next /\ x[2] <= 0)
               <=> (\/ Before(x[1], part) /\ x[2] <= command.parts[x[1]]
                    \/ x[1] = part /\ x[2] <= InSize)
        BY <1>1, <2>3, <2>4
      <4> QED
        BY <4>1 DEF UpTo
    <3>2. \A q \in Parts : Before(q, next) => command.parts[q] # Missing
      BY <1>1, <2>2, <2>3, <2>4
    <3>3. main' = "start" /\ next \in Parts
      BY <2>1, <2>3, <2>4
    <3> QED
      BY <1>1, <1>2, <2>1, <2>2, <3>1, <3>2, <3>3 DEF MergeInv
  <2>5. CASE ~ (next[1] < Letters)
    <3>1. Present = Parts
      BY <1>1, <2>2, <2>3, <2>5 DEF Present
    <3>2. UpTo(part, InSize) = PresentBytes
      <4>1. \A x \in PresentBytes : x \in UpTo(part, InSize)
        BY <1>1, <2>2, <2>3, <2>5, <3>1 DEF PresentBytes, UpTo
      <4>2. ASSUME NEW x \in UpTo(part, InSize)
            PROVE  x \in PresentBytes
        <5>1. /\ x[1] \in Present /\ x[2] \in 1 .. command.parts[x[1]]
              /\ x = <<x[1], x[2]>>
          BY <1>1, <2>2, <3>1 DEF UpTo
        <5> QED
          BY <5>1 DEF PresentBytes
      <4> QED
        BY <4>1, <4>2
    <3>3. main' = "end" /\ (Merged' <=> Merged)
      BY <1>1, <2>1, <2>5 DEF Merged, PresentBytes, Present
    <3>4. ~ short => Merged
      BY <2>2, <3>2 DEF Merged, Contents
    <3> QED
      BY <1>1, <2>1, <3>3, <3>4 DEF MergeInv
  <2> QED
    BY <2>4, <2>5
<1> QED
  BY <1>3, <1>4, <1>5, <1>6
     DEF CopiesNext, CopyOpen, CopyClose, Sample, Runs

(* However reads are cut, and for every size of the files and of the buffer*)
(* and every set of parts: if no write came short, the outputs of copy,    *)
(* redirect and merge are what they are for, and that of sample is where   *)
(* its read has come, and uninitialised bytes from there on.               *)
THEOREM CopiesAreWhole == ProgramsSpec => []CopiesWhole
<1> DEFINE Inv == CopyInv /\ SampleInv /\ MergeInv
<1>1. ProgramsInit => Inv
  <2> SUFFICES ASSUME ProgramsInit PROVE Inv
    OBVIOUS
  <2>1. /\ main = "start" /\ part = Input /\ rpos = 0 /\ out = <<>> /\ ~ short
    BY DEF ProgramsInit, CopiesInit
  <2>2. CopyInv
    BY <2>1, CopyCommandFields DEF CopyInv, Bytes, Held
  <2>3. SampleInv
    BY <2>1, CopyCommandFields DEF SampleInv
  <2>4. MergeInv
    <3>1. Input \in Parts /\ \A q \in Parts : ~ Before(q, Input)
      BY CopiesAssumption DEF Parts, Before, Input
    <3>2. UpTo(Input, 0) = {} /\ Contents(<<>>) = {} /\ InOrder(<<>>)
      BY <3>1 DEF UpTo, Contents, InOrder
    <3> SUFFICES ASSUME command.name = "merge" PROVE MergeInv
      BY DEF MergeInv
    <3>3. /\ command.parts \in [Parts -> Nat \cup {Missing}]
          /\ out \in Seq(Parts \X Nat)
      BY <2>1, CopyCommandFields
    <3> QED
      BY <2>1, <3>1, <3>2, <3>3 DEF MergeInv
  <2> QED
    BY <2>2, <2>3, <2>4
<1>2. Inv /\ [ProgramsNext]_allVars => Inv'
  <2> SUFFICES ASSUME Inv, [ProgramsNext]_allVars PROVE Inv'
    OBVIOUS
  <2>1. CASE command' = command /\ UNCHANGED <<main, copyVars>>
    <3>1. CopyInv'
      BY <2>1 DEF CopyInv, copyVars, Held
    <3>2. SampleInv'
      BY <2>1 DEF SampleInv, SampleTaken, copyVars
    <3>3. MergeInv'
      <4>1. /\ \A p, r : UpTo(p, r)' = UpTo(p, r)
            /\ Merged' <=> Merged
        BY <2>1 DEF UpTo, Merged, PresentBytes, Present, copyVars
      <4> QED
        BY <2>1, <4>1 DEF MergeInv, Held, copyVars
    <3> QED
      BY <3>1, <3>2, <3>3
  <2>2. CASE command' = command /\ command.name \notin CopyPrograms
    BY <2>2 DEF CopyInv, SampleInv, MergeInv, CopyPrograms
  <2>3. CASE command' = command /\ command.name \in CopyPrograms /\ CopiesNext
    <3>1. CopyInv'
      BY <2>3, CopyStep DEF CopyInv
    <3>2. SampleInv'
      BY <2>3, SampleStep DEF SampleInv
    <3>3. MergeInv'
      BY <2>3, MergeStep DEF MergeInv
    <3> QED
      BY <3>1, <3>2, <3>3
  <2> QED
    BY <2>1, <2>2, <2>3, OneProgram
<1>3. Inv => CopiesWhole
  BY DEF CopyInv, SampleInv, SampleTaken, MergeInv, CopiesWhole, MainAt
<1> QED
  BY <1>1, <1>2, <1>3, PTL DEF ProgramsSpec

-----------------------------------------------------------------------------
(* The records of ex3, as ex3b reads them.                                 *)

LEMMA HexBytes ==
  ASSUME NEW v \in 0 .. 255
  PROVE  /\ Hex(v)[1] \in 0 .. 15 /\ {Hex(v)[1], Hex(v)[2]} \subseteq 0 .. NUL
         /\ \/ Hex(v)[2] = NUL /\ v = Hex(v)[1]
            \/ Hex(v)[2] \in 0 .. 15 /\ v = 16 * Hex(v)[1] + Hex(v)[2]
<1>1. v \div 16 \in 0 .. 15 /\ v % 16 \in 0 .. 15 /\ v = 16 * (v \div 16) + (v % 16)
  OBVIOUS
<1> QED
  BY <1>1 DEF Hex, NUL

LEMMA HexOfAll ==
  ASSUME NEW x, x \in Seq(0 .. 255)
  PROVE  /\ HexAll(x) \in Seq(0 .. NUL) /\ Len(HexAll(x)) = 2 * Len(x)
         /\ \A c \in 1 .. Len(x) : /\ HexAll(x)[2 * c - 1] = Hex(x[c])[1]
                                   /\ HexAll(x)[2 * c] = Hex(x[c])[2]
<1>1. Len(x) \in Nat /\ \A c \in 1 .. Len(x) : x[c] \in 0 .. 255
  BY LenProperties
<1>2. \A l \in Nat : \A n \in 1 .. 2 * l :
         /\ (n + 1) \div 2 \in 1 .. l /\ 2 - (n % 2) \in {1, 2}
  OBVIOUS
<1>3. \A n \in 1 .. 2 * Len(x) : Hex(x[(n + 1) \div 2])[2 - (n % 2)] \in 0 .. NUL
  <2> TAKE n \in 1 .. 2 * Len(x)
  <2>1. (n + 1) \div 2 \in 1 .. Len(x) /\ 2 - (n % 2) \in {1, 2}
    BY <1>1, <1>2
  <2>2. x[(n + 1) \div 2] \in 0 .. 255
    BY <1>1, <2>1
  <2>3. \A v \in 0 .. 255 : Hex(v)[1] \in 0 .. NUL /\ Hex(v)[2] \in 0 .. NUL
    BY HexBytes
  <2> QED
    BY <2>1, <2>2, <2>3
<1>4. 2 * Len(x) \in Nat
  BY <1>1
<1>5. HexAll(x) \in Seq(0 .. NUL) /\ Len(HexAll(x)) = 2 * Len(x)
  BY <1>3, <1>4 DEF HexAll
<1>6. ASSUME NEW c \in 1 .. Len(x)
      PROVE  /\ HexAll(x)[2 * c - 1] = Hex(x[c])[1]
             /\ HexAll(x)[2 * c] = Hex(x[c])[2]
  <2>1. /\ 2 * c - 1 \in 1 .. 2 * Len(x) /\ 2 * c \in 1 .. 2 * Len(x)
        /\ ((2 * c - 1) + 1) \div 2 = c /\ 2 - ((2 * c - 1) % 2) = 1
        /\ (2 * c + 1) \div 2 = c /\ 2 - ((2 * c) % 2) = 2
    BY <1>1
  <2> QED
    BY <2>1 DEF HexAll
<1> QED
  BY <1>5, <1>6

(* Three bytes of which two are Hex(v) are read as v.                      *)
LEMMA StrtolOfHex ==
  ASSUME NEW v \in 0 .. 255, NEW buf,
         buf[1] = Hex(v)[1], buf[2] = Hex(v)[2], buf[3] \in NL .. NUL
  PROVE  Strtol(buf) = v /\ v % 256 = v
<1>1. v % 256 = v
  OBVIOUS
<1>2. buf[1] < NL /\ ~ (buf[1] >= NL) /\ buf[3] >= NL
  <2>1. buf[1] \in 0 .. 15
    BY HexBytes
  <2> QED
    BY <2>1 DEF NL, NUL
<1>3. CASE Hex(v)[2] = NUL /\ v = Hex(v)[1]
  BY <1>1, <1>2, <1>3 DEF Strtol, NL, NUL
<1>4. CASE Hex(v)[2] \in 0 .. 15 /\ v = 16 * Hex(v)[1] + Hex(v)[2]
  BY <1>1, <1>2, <1>4 DEF Strtol, NL, NUL
<1> QED
  BY <1>3, <1>4, HexBytes

(* What is read is a number, whatever the bytes.                           *)
LEMMA StrtolInNat ==
  ASSUME NEW buf \in [1 .. 3 -> 0 .. NUL]
  PROVE  Strtol(buf) \in Nat /\ Strtol(buf) % 256 \in 0 .. 255
<1>1. Strtol(buf) \in Nat
  BY DEF Strtol, NL, NUL
<1>2. \A m \in Nat : m % 256 \in 0 .. 255
  OBVIOUS
<1> QED
  BY <1>1, <1>2

(* d has the record of student s behind position from, and to is its end.  *)
IsRecord(d, from, to, s) ==
    /\ to = from + 2 * Len(s.st) + 8 /\ to <= Len(d)
    /\ \A c \in 1 .. Len(s.st) : /\ d[from + 2 * c - 1] = Hex(s.st[c])[1]
                                 /\ d[from + 2 * c] = Hex(s.st[c])[2]
    /\ d[from + 2 * Len(s.st) + 1] = NL
    /\ \A g \in 1 .. 3 :
          /\ d[from + 2 * Len(s.st) + 2 * g] = Hex(s.grades[g])[1]
          /\ d[from + 2 * Len(s.st) + 2 * g + 1] = Hex(s.grades[g])[2]
    /\ d[from + 2 * Len(s.st) + 8] = NL

LEMMA AppendRecord ==
  ASSUME NEW d \in Seq(0 .. NUL), NEW s \in Students, NEW e,
         e = d \o HexAll(s.st) \o <<NL>> \o HexAll(s.grades) \o <<NL>>
  PROVE  /\ e \in Seq(0 .. NUL)
         /\ \A j \in 1 .. Len(d) : e[j] = d[j]
         /\ Len(d) <= Len(e) /\ IsRecord(e, Len(d), Len(e), s)
<1> DEFINE S == 0 .. NUL
           t == HexAll(s.st)
           g == HexAll(s.grades)
           l == Len(s.st)
           m == Len(d)
<1>1. /\ s.st \in Seq(0 .. 255) /\ l \in Nat
      /\ s.grades \in Seq(0 .. 255) /\ Len(s.grades) = 3
  <2>1. s.st \in Seq(1 .. 127) /\ s.grades \in [1 .. 3 -> 0 .. 255]
    BY DEF Students
  <2>2. (1 .. 127) \subseteq 0 .. 255
    OBVIOUS
  <2>3. s.st \in Seq(0 .. 255) /\ l \in Nat
    BY <2>1, <2>2, LenProperties, SeqMonotonic
  <2>4. s.grades \in Seq(0 .. 255)
    <3>1. s.grades = [c \in 1 .. 3 |-> s.grades[c]]
      BY <2>1
    <3>2. \A c \in 1 .. 3 : s.grades[c] \in 0 .. 255
      BY <2>1
    <3>3. [c \in 1 .. 3 |-> s.grades[c]] \in Seq(0 .. 255)
      BY <3>2
    <3> QED
      BY <3>1, <3>3
  <2>5. Len(s.grades) = 3
    BY <2>1
  <2> QED
    BY <2>3, <2>4, <2>5
<1>2. /\ t \in Seq(S) /\ Len(t) = 2 * l
      /\ \A c \in 1 .. l : t[2 * c - 1] = Hex(s.st[c])[1] /\ t[2 * c] = Hex(s.st[c])[2]
  BY <1>1, HexOfAll
<1>3. /\ g \in Seq(S) /\ Len(g) = 6
      /\ \A c \in 1 .. 3 : /\ g[2 * c - 1] = Hex(s.grades[c])[1]
                           /\ g[2 * c] = Hex(s.grades[c])[2]
  <2>1. /\ HexAll(s.grades) \in Seq(0 .. NUL) /\ Len(HexAll(s.grades)) = 2 * 3
        /\ \A c \in 1 .. 3 : /\ HexAll(s.grades)[2 * c - 1] = Hex(s.grades[c])[1]
                             /\ HexAll(s.grades)[2 * c] = Hex(s.grades[c])[2]
    BY <1>1, HexOfAll
  <2> QED
    BY <2>1
<1>4. <<NL>> \in Seq(S) /\ Len(<<NL>>) = 1 /\ <<NL>>[1] = NL
  BY DEF NL, NUL
<1>5. m \in Nat
  OBVIOUS
<1>20. d \in Seq(S)
  OBVIOUS
<1> HIDE DEF S, t, g, l, m
<1> DEFINE e1 == d \o t
           e2 == e1 \o <<NL>>
           e3 == e2 \o g
<1>6. /\ e1 \in Seq(S) /\ Len(e1) = m + 2 * l
      /\ \A j \in 1 .. m + 2 * l : e1[j] = IF j <= m THEN d[j] ELSE t[j - m]
  <2>1. PICK c \in Nat : c = m
    BY <1>1, <1>5 DEF l
  <2>2. PICK r \in Nat : r = 2 * l
    BY <1>1, <1>5 DEF l
  <2>3. PICK q \in Nat : q = m + 2 * l
    BY <1>1, <1>5 DEF l
  <2>4. q = c + r
    BY <1>5, <1>1, <2>1, <2>2, <2>3 DEF l
  <2>5. d \in Seq(S) /\ t \in Seq(S) /\ Len(d) = c /\ Len(t) = r
    BY <1>2, <1>20, <2>1, <2>2 DEF m
  <2>6. Joined(S, d, c, t, q)
    BY <2>4, <2>5, ConcatAt, Zenon
  <2> QED
    BY <2>1, <2>3, <2>6 DEF Joined
<1> HIDE DEF e1
<1>7. /\ e2 \in Seq(S) /\ Len(e2) = m + 2 * l + 1
      /\ \A j \in 1 .. m + 2 * l + 1 :
            e2[j] = IF j <= m + 2 * l THEN e1[j] ELSE <<NL>>[j - (m + 2 * l)]
  <2>1. PICK c \in Nat : c = m + 2 * l
    BY <1>1, <1>5 DEF l
  <2>2. PICK r \in Nat : r = 1
    BY <1>1, <1>5 DEF l
  <2>3. PICK q \in Nat : q = m + 2 * l + 1
    BY <1>1, <1>5 DEF l
  <2>4. q = c + r
    BY <1>5, <1>1, <2>1, <2>2, <2>3 DEF l
  <2>5. e1 \in Seq(S) /\ <<NL>> \in Seq(S) /\ Len(e1) = c /\ Len(<<NL>>) = r
    BY <1>4, <1>6, <2>1, <2>2
  <2>6. Joined(S, e1, c, <<NL>>, q)
    BY <2>4, <2>5, ConcatAt, Zenon
  <2> QED
    BY <2>1, <2>3, <2>6 DEF Joined
<1> HIDE DEF e2
<1>8. /\ e3 \in Seq(S) /\ Len(e3) = m + 2 * l + 7
      /\ \A j \in 1 .. m + 2 * l + 7 :
            e3[j] = IF j <= m + 2 * l + 1 THEN e2[j] ELSE g[j - (m + 2 * l + 1)]
  <2>1. PICK c \in Nat : c = m + 2 * l + 1
    BY <1>1, <1>5 DEF l
  <2>2. PICK r \in Nat : r = 6
    BY <1>1, <1>5 DEF l
  <2>3. PICK q \in Nat : q = m + 2 * l + 7
    BY <1>1, <1>5 DEF l
  <2>4. q = c + r
    BY <1>5, <1>1, <2>1, <2>2, <2>3 DEF l
  <2>5. e2 \in Seq(S) /\ g \in Seq(S) /\ Len(e2) = c /\ Len(g) = r
    BY <1>3, <1>7, <2>1, <2>2
  <2>6. Joined(S, e2, c, g, q)
    BY <2>4, <2>5, ConcatAt, Zenon
  <2> QED
    BY <2>1, <2>3, <2>6 DEF Joined
<1>9. e = e3 \o <<NL>>
  BY DEF e1, e2, e3, t, g
<1> HIDE DEF e3
<1>10. /\ e \in Seq(S) /\ Len(e) = m + 2 * l + 8
       /\ \A j \in 1 .. m + 2 * l + 8 :
             e[j] = IF j <= m + 2 * l + 7 THEN e3[j] ELSE <<NL>>[j - (m + 2 * l + 7)]
  <2>1. PICK c \in Nat : c = m + 2 * l + 7
    BY <1>1, <1>5 DEF l
  <2>2. PICK r \in Nat : r = 1
    BY <1>1, <1>5 DEF l
  <2>3. PICK q \in Nat : q = m + 2 * l + 8
    BY <1>1, <1>5 DEF l
  <2>4. q = c + r
    BY <1>5, <1>1, <2>1, <2>2, <2>3 DEF l
  <2>5. e3 \in Seq(S) /\ <<NL>> \in Seq(S) /\ Len(e3) = c /\ Len(<<NL>>) = r
    BY <1>4, <1>8, <2>1, <2>2
  <2>6. Joined(S, e3, c, <<NL>>, q)
    BY <2>4, <2>5, ConcatAt, Zenon
  <2> QED
    BY <1>9, <2>1, <2>3, <2>6 DEF Joined
<1>11. l \in Nat
  BY <1>1 DEF l
<1>12. \A j \in 1 .. m : e[j] = d[j]
  <2> TAKE j \in 1 .. m
  <2>1. /\ j \in 1 .. m + 2 * l + 8 /\ j <= m + 2 * l + 7 /\ j \in 1 .. m + 2 * l + 7
        /\ j <= m + 2 * l + 1 /\ j \in 1 .. m + 2 * l + 1
        /\ j <= m + 2 * l /\ j \in 1 .. m + 2 * l /\ j <= m
    BY <1>5, <1>11
  <2> QED
    BY <1>6, <1>7, <1>8, <1>10, <2>1
<1>13. \A n \in 1 .. 2 * l : e[m + n] = t[n]
  <2> TAKE n \in 1 .. 2 * l
  <2>1. /\ m + n \in 1 .. m + 2 * l + 8 /\ m + n <= m + 2 * l + 7
        /\ m + n \in 1 .. m + 2 * l + 7 /\ m + n <= m + 2 * l + 1
        /\ m + n \in 1 .. m + 2 * l + 1 /\ m + n <= m + 2 * l
        /\ m + n \in 1 .. m + 2 * l /\ ~ (m + n <= m) /\ (m + n) - m = n
    BY <1>5, <1>11
  <2> QED
    BY <1>6, <1>7, <1>8, <1>10, <2>1
<1>14. e[m + 2 * l + 1] = NL
  <2> DEFINE n == m + 2 * l + 1
  <2>1. /\ n \in 1 .. m + 2 * l + 8 /\ n <= m + 2 * l + 7
        /\ n \in 1 .. m + 2 * l + 7 /\ n <= m + 2 * l + 1
        /\ n \in 1 .. m + 2 * l + 1 /\ ~ (n <= m + 2 * l) /\ n - (m + 2 * l) = 1
    BY <1>5, <1>11
  <2> HIDE DEF n
  <2>2. e[n] = NL
    BY <1>4, <1>7, <1>8, <1>10, <2>1
  <2> QED
    BY <2>2 DEF n
<1>15. \A n \in 1 .. 6 : e[m + 2 * l + 1 + n] = g[n]
  <2> TAKE n \in 1 .. 6
  <2> DEFINE j == m + 2 * l + 1 + n
  <2>1. /\ j \in 1 .. m + 2 * l + 8 /\ j <= m + 2 * l + 7
        /\ j \in 1 .. m + 2 * l + 7 /\ ~ (j <= m + 2 * l + 1)
        /\ j - (m + 2 * l + 1) = n
    BY <1>5, <1>11
  <2> HIDE DEF j
  <2>2. e[j] = g[n]
    BY <1>8, <1>10, <2>1
  <2> QED
    BY <2>2 DEF j
<1>16. e[m + 2 * l + 8] = NL
  <2>1. /\ m + 2 * l + 8 \in 1 .. m + 2 * l + 8 /\ ~ (m + 2 * l + 8 <= m + 2 * l + 7)
        /\ (m + 2 * l + 8) - (m + 2 * l + 7) = 1
    BY <1>5, <1>11
  <2> QED
    BY <1>4, <1>10, <2>1
<1>17. \A c \in 1 .. l : /\ e[m + 2 * c - 1] = Hex(s.st[c])[1]
                         /\ e[m + 2 * c] = Hex(s.st[c])[2]
  <2> TAKE c \in 1 .. l
  <2>1. /\ 2 * c - 1 \in 1 .. 2 * l /\ 2 * c \in 1 .. 2 * l
        /\ m + 2 * c - 1 = m + (2 * c - 1)
    BY <1>5, <1>11
  <2> QED
    BY <1>2, <1>13, <2>1
<1>18. \A c \in 1 .. 3 : /\ e[m + 2 * l + 2 * c] = Hex(s.grades[c])[1]
                         /\ e[m + 2 * l + 2 * c + 1] = Hex(s.grades[c])[2]
  <2> TAKE c \in 1 .. 3
  <2>1. /\ 2 * c - 1 \in 1 .. 6 /\ 2 * c \in 1 .. 6
        /\ m + 2 * l + 2 * c = m + 2 * l + 1 + (2 * c - 1)
        /\ m + 2 * l + 2 * c + 1 = m + 2 * l + 1 + 2 * c
    BY <1>5, <1>11
  <2> QED
    BY <1>3, <1>15, <2>1
<1>19. m <= Len(e) /\ Len(e) = m + 2 * l + 8 /\ Len(e) <= Len(e)
  BY <1>5, <1>10, <1>11
<1> QED
  BY <1>10, <1>12, <1>14, <1>16, <1>17, <1>18, <1>19 DEF IsRecord, S, l, m

(* read, when the bytes it asks for are there.                             *)
LEMMA ReadTwo ==
  ASSUME data \in Seq(0 .. NUL), NEW buf \in [1 .. 3 -> 0 .. NUL],
         NEW first \in Nat, first + 2 <= Len(data)
  PROVE  LET new == ReadInto(buf, 1, first, 2)
         IN  /\ new \in [1 .. 3 -> 0 .. NUL]
             /\ new[1] = data[first + 1] /\ new[2] = data[first + 2] /\ new[3] = buf[3]
<1> DEFINE new == ReadInto(buf, 1, first, 2)
<1>1. /\ Len(data) \in Nat /\ first + 1 \in 1 .. Len(data) /\ first + 2 \in 1 .. Len(data)
      /\ first + 1 - 1 < Len(data) /\ first + 2 - 1 < Len(data)
      /\ first + 1 + 1 - 1 = first + 1 /\ first + 1 + 2 - 1 = first + 2
  BY LenProperties
<1>2. data[first + 1] \in 0 .. NUL /\ data[first + 2] \in 0 .. NUL
  BY <1>1, ElementOfSeq
<1>3. /\ 1 \in 1 .. 1 + 2 - 1 /\ 2 \in 1 .. 1 + 2 - 1 /\ 3 \notin 1 .. 1 + 2 - 1
      /\ 1 .. 3 = {1, 2, 3}
  OBVIOUS
<1>4. new[1] = data[first + 1] /\ new[2] = data[first + 2] /\ new[3] = buf[3]
  BY <1>1, <1>3 DEF ReadInto
<1>5. new \in [1 .. 3 -> 0 .. NUL]
  <2>1. \A c \in 1 .. 3 : new[c] \in 0 .. NUL
    BY <1>2, <1>3, <1>4
  <2>2. new = [c \in 1 .. 3 |-> new[c]]
    BY DEF ReadInto
  <2> QED
    BY <2>1, <2>2
<1> QED
  BY <1>4, <1>5

LEMMA ReadOne ==
  ASSUME data \in Seq(0 .. NUL), NEW buf \in [1 .. 3 -> 0 .. NUL],
         NEW from \in 1 .. 2, NEW first \in Nat, first + 1 <= Len(data)
  PROVE  LET new == ReadInto(buf, from, first, 1)
         IN  /\ new \in [1 .. 3 -> 0 .. NUL]
             /\ \A c \in 1 .. 3 : new[c] = IF c = from THEN data[first + 1] ELSE buf[c]
<1> DEFINE new == ReadInto(buf, from, first, 1)
<1>1. /\ Len(data) \in Nat /\ first + 1 \in 1 .. Len(data)
      /\ first + from - from < Len(data) /\ first + 1 + from - from = first + 1
  BY LenProperties
<1>2. data[first + 1] \in 0 .. NUL
  BY <1>1, ElementOfSeq
<1>3. \A c \in 1 .. 3 : c \in from .. from + 1 - 1 <=> c = from
  OBVIOUS
<1>4. \A c \in 1 .. 3 : new[c] = IF c = from THEN data[first + 1] ELSE buf[c]
  BY <1>1, <1>3 DEF ReadInto
<1>5. new \in [1 .. 3 -> 0 .. NUL]
  <2>1. \A c \in 1 .. 3 : new[c] \in 0 .. NUL
    BY <1>2, <1>4
  <2>2. new = [c \in 1 .. 3 |-> new[c]]
    BY DEF ReadInto
  <2> QED
    BY <2>1, <2>2
<1> QED
  BY <1>4, <1>5

(* d has the records of the first w students of c, the n-th from f[n] on.  *)
LaidOut(f, d, c, w) ==
    /\ f \in [1 .. Len(c) + 1 -> Nat] /\ f[1] = 0 /\ Len(d) = f[w + 1]
    /\ \A n \in 1 .. w : IsRecord(d, f[n], f[n + 1], c[n])

LEMMA AnotherRecord ==
  ASSUME NEW c \in Seq(Students), NEW w \in Nat, w < Len(c),
         NEW d \in Seq(0 .. NUL), NEW f, LaidOut(f, d, c, w), NEW e,
         e = d \o HexAll(c[w + 1].st) \o <<NL>> \o HexAll(c[w + 1].grades) \o <<NL>>
  PROVE  e \in Seq(0 .. NUL) /\ \E h : LaidOut(h, e, c, w + 1)
<1>1. /\ Len(c) \in Nat /\ Len(d) \in Nat /\ w + 1 \in 1 .. Len(c)
      /\ w + 2 \in 1 .. Len(c) + 1
  BY LenProperties
<1>2. c[w + 1] \in Students
  BY <1>1, ElementOfSeq
<1>3. /\ e \in Seq(0 .. NUL) /\ \A j \in 1 .. Len(d) : e[j] = d[j]
      /\ Len(d) <= Len(e) /\ IsRecord(e, Len(d), Len(e), c[w + 1])
  BY <1>2, AppendRecord
<1>4. Len(e) \in Nat
  BY <1>3, LenProperties
<1> DEFINE h == [f EXCEPT ![w + 2] = Len(e)]
<1>5. /\ h \in [1 .. Len(c) + 1 -> Nat] /\ h[w + 2] = Len(e)
      /\ \A n \in 1 .. w + 1 : h[n] = f[n] /\ f[n] \in Nat
  <2>1. \A n \in 1 .. w + 1 : n \in 1 .. Len(c) + 1 /\ n # w + 2
    BY <1>1
  <2> QED
    BY <1>1, <1>4, <2>1 DEF LaidOut
<1> HIDE DEF h
<1>6. ASSUME NEW n \in 1 .. w + 1
      PROVE  IsRecord(e, h[n], h[n + 1], c[n])
  <2>1. CASE n = w + 1
    <3>1. h[n] = Len(d) /\ h[n + 1] = Len(e)
      BY <1>5, <2>1 DEF LaidOut
    <3> QED
      BY <1>3, <2>1, <3>1
  <2>2. CASE n # w + 1
    <3>1. n \in 1 .. w /\ n + 1 \in 1 .. w + 1 /\ n \in 1 .. Len(c)
      BY <1>1, <2>2
    <3>2. h[n] = f[n] /\ h[n + 1] = f[n + 1] /\ f[n] \in Nat
      BY <1>5, <3>1
    <3>3. c[n] \in Students
      BY <3>1, ElementOfSeq
    <3>4. Len(c[n].st) \in Nat
      BY <3>3, LenProperties DEF Students
    <3> DEFINE from == f[n]
               l == Len(c[n].st)
               to == f[n + 1]
    <3>5. IsRecord(d, from, to, c[n])
      BY <3>1 DEF LaidOut
    <3>6. from \in Nat /\ l \in Nat /\ to = from + 2 * l + 8 /\ to <= Len(d)
      BY <3>2, <3>4, <3>5 DEF IsRecord
    <3> HIDE DEF from, l, to
    <3>7. /\ to <= Len(e)
          /\ \A m \in 1 .. l : /\ from + 2 * m - 1 \in 1 .. Len(d)
                               /\ from + 2 * m \in 1 .. Len(d)
          /\ \A m \in 1 .. 8 : from + 2 * l + m \in 1 .. Len(d)
      <4>1. \A x, y, z \in Nat :
               x + 2 * y + 8 <= z =>
                  /\ \A m \in 1 .. y : /\ x + 2 * m - 1 \in 1 .. z
                                       /\ x + 2 * m \in 1 .. z
                  /\ \A m \in 1 .. 8 : x + 2 * y + m \in 1 .. z
        OBVIOUS
      <4>2. to <= Len(e)
        BY <1>1, <1>3, <1>4, <3>6
      <4> QED
        BY <1>1, <3>6, <4>1, <4>2
    <3>8. \A g \in 1 .. 3 : /\ 2 * g \in 1 .. 8 /\ 2 * g + 1 \in 1 .. 8
                            /\ from + 2 * l + 2 * g + 1 = from + 2 * l + (2 * g + 1)
      BY <3>6
    <3>9. /\ \A m \in 1 .. l : /\ e[from + 2 * m - 1] = d[from + 2 * m - 1]
                               /\ e[from + 2 * m] = d[from + 2 * m]
          /\ \A m \in 1 .. 8 : e[from + 2 * l + m] = d[from + 2 * l + m]
      BY <1>3, <3>7
    <3>10. \A g \in 1 .. 3 :
              /\ e[from + 2 * l + 2 * g] = d[from + 2 * l + 2 * g]
              /\ e[from + 2 * l + 2 * g + 1] = d[from + 2 * l + 2 * g + 1]
      BY <3>8, <3>9
    <3>11. IsRecord(e, from, to, c[n])
      <4>1. /\ \A m \in 1 .. l : /\ d[from + 2 * m - 1] = Hex(c[n].st[m])[1]
                                 /\ d[from + 2 * m] = Hex(c[n].st[m])[2]
            /\ d[from + 2 * l + 1] = NL /\ d[from + 2 * l + 8] = NL
            /\ \A g \in 1 .. 3 :
                  /\ d[from + 2 * l + 2 * g] = Hex(c[n].grades[g])[1]
                  /\ d[from + 2 * l + 2 * g + 1] = Hex(c[n].grades[g])[2]
        BY <3>5 DEF IsRecord, l
      <4>2. e[from + 2 * l + 1] = NL /\ e[from + 2 * l + 8] = NL
        <5>1. 1 \in 1 .. 8 /\ 8 \in 1 .. 8
          OBVIOUS
        <5> QED
          BY <3>9, <4>1, <5>1
      <4>3. \A m \in 1 .. l : /\ e[from + 2 * m - 1] = Hex(c[n].st[m])[1]
                             /\ e[from + 2 * m] = Hex(c[n].st[m])[2]
        BY <3>9, <4>1
      <4>4. \A g \in 1 .. 3 :
               /\ e[from + 2 * l + 2 * g] = Hex(c[n].grades[g])[1]
               /\ e[from + 2 * l + 2 * g + 1] = Hex(c[n].grades[g])[2]
        BY <3>10, <4>1
      <4> QED
        BY <3>6, <3>7, <4>2, <4>3, <4>4 DEF IsRecord, l
    <3> QED
      BY <3>2, <3>11 DEF from, to
  <2> QED
    BY <2>1, <2>2
<1>7. h[1] = 0 /\ Len(e) = h[(w + 1) + 1]
  BY <1>5 DEF LaidOut
<1> QED
  BY <1>3, <1>5, <1>6, <1>7 DEF LaidOut

ShownRecord == [st : Seq(0 .. 255), grades : [1 .. 3 -> Nat]]

(* The m-th record that is shown is right, in the sense of RecordsRead.    *)
RecordRight(m) ==
    /\ m >= 2 => shown[m] = command.students[m]
    /\ m = 1 =>
          /\ \A g \in {2, 3} : shown[1].grades[g] = command.students[1].grades[g]
          /\ command.junk >= NL =>
                /\ shown[1].grades = command.students[1].grades
                /\ \A c \in DOMAIN command.students[1].st :
                      shown[1].st[c] = command.students[1].st[c]

(* ex3b has come to a letter of the n-th student, after those it has shown.*)
Reading(f, n) ==
    /\ n = Len(shown) + 1 /\ n <= Len(command.students) + 1
    /\ main = "end" => n = Len(command.students) + 1
    /\ letters \in Seq(0 .. 255)
    /\ buffer \in [1 .. 3 -> 0 .. NUL]
    /\ buffer[3] = IF n = 1 THEN command.junk ELSE NUL
    /\ at = f[n] + 2 * Len(letters)
    /\ n = Len(command.students) + 1 => letters = <<>>
    /\ n <= Len(command.students) =>
          /\ Len(letters) <= Len(command.students[n].st)
          /\ buffer[3] >= NL =>
                \A c \in 1 .. Len(letters) :
                    letters[c] = command.students[n].st[c]

(* ex3 lays the records out one behind the other, and then ex3b reads them.*)
RecordsInv ==
    command.name \in RecordPrograms =>
        /\ command.students \in Seq(Students)
        /\ \A n \in 1 .. Len(command.students) : Len(command.students[n].st) <= 29
        /\ Len(command.students) >= 1
        /\ command.junk \in 0 .. NUL
        /\ main \in {"start", "read", "end"}
        /\ written \in Nat /\ written <= Len(command.students)
        /\ main = "start" <=> written < Len(command.students)
        /\ data \in Seq(0 .. NUL) /\ shown \in Seq(ShownRecord)
        /\ main = "start" => shown = <<>> /\ at = 0 /\ letters = <<>>
        /\ \A m \in 1 .. Len(shown) : RecordRight(m)
        /\ \E f, n : /\ LaidOut(f, data, command.students, written)
                     /\ main # "start" => Reading(f, n)

LEMMA RecordsStart == ProgramsInit => RecordsInv
<1> SUFFICES ASSUME ProgramsInit, command.name \in RecordPrograms
             PROVE  RecordsInv
  BY DEF RecordsInv
<1>1. command \in RecordCommands
  BY DEF ProgramsInit, ThreadCommands, ProcessCommands, CopyCommands,
     TestCommands, RecordPrograms
<1>2. command.students \in Classes /\ command.junk \in StackBytes
  BY <1>1 DEF RecordCommands
<1>3. /\ command.students \in Seq(Students) /\ command.students # <<>>
      /\ \A n \in 1 .. Len(command.students) : Len(command.students[n].st) <= 29
      /\ command.junk \in 0 .. NUL
  BY <1>2, RecordsAssumption
<1>4. Len(command.students) \in Nat /\ Len(command.students) >= 1
  BY <1>3, EmptySeq
<1>5. /\ main = "start" /\ written = 0 /\ data = <<>> /\ at = 0
      /\ letters = <<>> /\ shown = <<>>
  BY DEF ProgramsInit, RecordsInit
<1> DEFINE f == [n \in 1 .. Len(command.students) + 1 |-> 0]
<1>6. LaidOut(f, data, command.students, written)
  <2>1. f \in [1 .. Len(command.students) + 1 -> Nat] /\ f[1] = 0
    BY <1>4
  <2>2. Len(data) = 0 /\ 0 + 1 = 1 /\ 1 .. 0 = {}
    BY <1>5
  <2> HIDE DEF f
  <2> QED
    BY <1>5, <2>1, <2>2 DEF LaidOut
<1>7. <<>> \in Seq(0 .. NUL) /\ <<>> \in Seq(ShownRecord) /\ 1 .. Len(<<>>) = {}
  BY EmptySeq
<1> QED
  BY <1>3, <1>4, <1>5, <1>6, <1>7 DEF RecordsInv

LEMMA WriteRecordStep ==
  ASSUME RecordsInv, WriteRecord, command' = command
  PROVE  RecordsInv'
<1> SUFFICES ASSUME command.name \in RecordPrograms PROVE RecordsInv'
  BY DEF RecordsInv
<1> DEFINE c == command.students
<1>1. /\ main = "start" /\ written < Len(c) /\ written \in Nat
      /\ c \in Seq(Students) /\ data \in Seq(0 .. NUL) /\ Len(c) >= 1
      /\ command.junk \in 0 .. NUL
      /\ shown = <<>> /\ at = 0 /\ letters = <<>>
      /\ \A n \in 1 .. Len(c) : Len(c[n].st) <= 29
  BY DEF RecordsInv, WriteRecord
<1>2. /\ data' = data \o HexAll(c[written + 1].st) \o <<NL>>
                      \o HexAll(c[written + 1].grades) \o <<NL>>
      /\ written' = written + 1 /\ UNCHANGED <<at, letters, shown>>
      /\ IF written' = Len(c) THEN main' = "read" /\ buffer' = <<NUL, NUL, command.junk>>
                              ELSE UNCHANGED <<main, buffer>>
  BY DEF WriteRecord
<1>3. PICK f : LaidOut(f, data, c, written)
  BY DEF RecordsInv
<1>4. Len(c) \in Nat
  BY <1>1, LenProperties
<1> HIDE DEF c
<1>5. data' \in Seq(0 .. NUL) /\ \E h : LaidOut(h, data', c, written')
  BY <1>1, <1>2, <1>3, AnotherRecord
<1>6. PICK h : LaidOut(h, data', c, written')
  BY <1>5
<1>7. h[1] = 0
  BY <1>6 DEF LaidOut
<1>8. /\ <<>> \in Seq(0 .. 255) /\ <<>> \in Seq(ShownRecord) /\ Len(<<>>) = 0
      /\ 1 .. 0 = {} /\ 0 + 1 = 1 /\ 0 + 2 * 0 = 0
  BY EmptySeq
<1>9. /\ <<NUL, NUL, command.junk>> \in [1 .. 3 -> 0 .. NUL]
      /\ <<NUL, NUL, command.junk>>[3] = command.junk
  BY <1>1 DEF NUL
<1>10. written' \in Nat /\ written' <= Len(c) /\ (written' = Len(c) <=> ~ (written' < Len(c)))
  BY <1>1, <1>2, <1>4
<1>11. main' # "start" => Reading(h, 1)'
  <2> SUFFICES ASSUME main' # "start" PROVE Reading(h, 1)'
    OBVIOUS
  <2>1. main' = "read" /\ buffer' = <<NUL, NUL, command.junk>>
    BY <1>1, <1>2
  <2>2. Len(shown') + 1 = 1 /\ letters' = <<>> /\ at' = 0
    BY <1>1, <1>2, <1>8
  <2>3. 1 <= Len(c) + 1 /\ 1 # Len(c) + 1 /\ c' = c
    BY <1>1, <1>4 DEF c
  <2>4. 0 <= Len(c[1].st)
    <3>1. c[1] \in Students
      BY <1>1, <1>4, ElementOfSeq
    <3> QED
      BY <3>1, LenProperties DEF Students
  <2> QED
    BY <1>7, <1>8, <1>9, <2>1, <2>2, <2>3, <2>4 DEF Reading, c
<1> QED
  BY <1>1, <1>2, <1>5, <1>6, <1>8, <1>10, <1>11 DEF RecordsInv, c

(* What ex3b finds where it reads next.                                    *)
AtLetter(f, n, s, l, buf) ==
    /\ main = "read" /\ at < Len(data)
    /\ LaidOut(f, data, command.students, written) /\ Reading(f, n)
    /\ s = command.students[n] /\ l = Len(letters)
    /\ buf = ReadInto(buffer, 1, at, 2)

Found(f, n, s, l, buf) ==
    /\ n \in 1 .. Len(command.students) /\ s \in Students
    /\ l \in Nat /\ l <= Len(s.st) /\ Len(s.st) \in Nat /\ Len(s.st) <= 29
    /\ f[n] \in Nat /\ at = f[n] + 2 * l /\ IsRecord(data, f[n], f[n + 1], s)
    /\ buf \in [1 .. 3 -> 0 .. NUL] /\ buf[3] = buffer[3]
    /\ buf[1] = data[at + 1] /\ buf[2] = data[at + 2]
    /\ l < Len(s.st) => /\ s.st[l + 1] \in 1 .. 127
                        /\ buf[1] = Hex(s.st[l + 1])[1]
                        /\ buf[2] = Hex(s.st[l + 1])[2]
    /\ l = Len(s.st) => buf[1] = NL

LEMMA NextBytes ==
  ASSUME RecordsInv, command.name \in RecordPrograms,
         NEW f, NEW n, NEW s, NEW l, NEW buf, AtLetter(f, n, s, l, buf)
  PROVE  Found(f, n, s, l, buf)
<1> USE DEF AtLetter
<1>1. /\ command.students \in Seq(Students) /\ Len(command.students) \in Nat
      /\ shown \in Seq(ShownRecord) /\ Len(shown) \in Nat
      /\ data \in Seq(0 .. NUL) /\ Len(data) \in Nat
      /\ written = Len(command.students)
  <2>1. /\ command.students \in Seq(Students) /\ shown \in Seq(ShownRecord)
        /\ data \in Seq(0 .. NUL) /\ written <= Len(command.students)
        /\ ~ (written < Len(command.students)) /\ written \in Nat
    BY DEF RecordsInv
  <2>2. Len(command.students) \in Nat
    BY <2>1, LenProperties
  <2> QED
    BY <2>1, <2>2, LenProperties
<1>2. /\ n <= Len(command.students) + 1 /\ n = Len(shown) + 1
      /\ letters \in Seq(0 .. 255)
      /\ buffer \in [1 .. 3 -> 0 .. NUL] /\ at = f[n] + 2 * l
      /\ n = Len(command.students) + 1 => letters = <<>>
      /\ n <= Len(command.students) => l <= Len(command.students[n].st)
  BY DEF Reading
<1>3. n \in 1 .. Len(command.students) + 1 /\ f[n] \in Nat /\ l \in Nat
  <2>1. n \in 1 .. Len(command.students) + 1
    BY <1>1, <1>2
  <2> QED
    BY <1>2, <2>1, LenProperties DEF LaidOut
<1>4. n \in 1 .. Len(command.students)
  <2> SUFFICES ASSUME n = Len(command.students) + 1 PROVE FALSE
    BY <1>1, <1>3
  <2>1. l = 0
    BY <1>2, EmptySeq
  <2>2. at = Len(data)
    BY <1>1, <1>2, <1>3, <2>1 DEF LaidOut
  <2> QED
    BY <1>1, <2>2
<1>5. s \in Students /\ l <= Len(s.st) /\ Len(s.st) <= 29
  BY <1>1, <1>2, <1>4, ElementOfSeq DEF RecordsInv
<1>6. s.st \in Seq(1 .. 127) /\ Len(s.st) \in Nat
  BY <1>5, LenProperties DEF Students
<1>7. IsRecord(data, f[n], f[n + 1], s)
  BY <1>1, <1>4 DEF LaidOut
<1>8. at \in Nat /\ at + 2 <= Len(data)
  <2> DEFINE to == f[n + 1]
             from == f[n]
             m == Len(s.st)
  <2>1. to = from + 2 * m + 8 /\ to <= Len(data)
    BY <1>7 DEF IsRecord
  <2>2. at = from + 2 * l /\ from \in Nat /\ m \in Nat /\ l <= m
    BY <1>2, <1>3, <1>5, <1>6
  <2> HIDE DEF to, from, m
  <2> QED
    BY <1>1, <1>3, <2>1, <2>2
<1>9. /\ buf \in [1 .. 3 -> 0 .. NUL] /\ buf[3] = buffer[3]
      /\ buf[1] = data[at + 1] /\ buf[2] = data[at + 2]
  BY <1>1, <1>2, <1>8, ReadTwo
<1>10. l < Len(s.st) => /\ s.st[l + 1] \in 1 .. 127
                        /\ buf[1] = Hex(s.st[l + 1])[1]
                        /\ buf[2] = Hex(s.st[l + 1])[2]
  <2> SUFFICES ASSUME l < Len(s.st)
               PROVE  /\ s.st[l + 1] \in 1 .. 127
                      /\ buf[1] = Hex(s.st[l + 1])[1]
                      /\ buf[2] = Hex(s.st[l + 1])[2]
    OBVIOUS
  <2>1. l + 1 \in 1 .. Len(s.st)
    BY <1>3, <1>6
  <2>2. /\ f[n] + 2 * (l + 1) - 1 = at + 1 /\ f[n] + 2 * (l + 1) = at + 2
    BY <1>2, <1>3
  <2>3. data[at + 1] = Hex(s.st[l + 1])[1] /\ data[at + 2] = Hex(s.st[l + 1])[2]
    BY <1>7, <2>1, <2>2 DEF IsRecord
  <2> QED
    BY <1>6, <1>9, <2>1, <2>3, ElementOfSeq
<1>11. l = Len(s.st) => buf[1] = NL
  BY <1>2, <1>7, <1>9 DEF IsRecord
<1> QED
  BY <1>2, <1>3, <1>4, <1>5, <1>6, <1>7, <1>9, <1>10, <1>11 DEF Found

LEMMA ReadLetterStep ==
  ASSUME RecordsInv, ReadLetter, command' = command
  PROVE  RecordsInv'
<1> SUFFICES ASSUME command.name \in RecordPrograms PROVE RecordsInv'
  BY DEF RecordsInv
<1>0. main = "read"
  BY DEF ReadLetter
<1>2. PICK f, n : LaidOut(f, data, command.students, written) /\ Reading(f, n)
  BY <1>0 DEF RecordsInv
<1> PICK s, l, buf :
       /\ s = command.students[n] /\ l = Len(letters)
       /\ buf = ReadInto(buffer, 1, at, 2)
  OBVIOUS
<1>1. /\ at < Len(data) /\ buf[1] # NL /\ at' = at + 2
      /\ letters' = Append(letters, Strtol(buf) % 256) /\ buffer' = buf
      /\ UNCHANGED <<main, written, data, shown>>
  BY DEF ReadLetter
<1>3. /\ n \in 1 .. Len(command.students) /\ s \in Students
      /\ l \in Nat /\ l <= Len(s.st) /\ Len(s.st) \in Nat
      /\ f[n] \in Nat /\ at = f[n] + 2 * l
      /\ buf \in [1 .. 3 -> 0 .. NUL] /\ buf[3] = buffer[3]
      /\ l < Len(s.st) => /\ s.st[l + 1] \in 1 .. 127
                          /\ buf[1] = Hex(s.st[l + 1])[1]
                          /\ buf[2] = Hex(s.st[l + 1])[2]
      /\ l = Len(s.st) => buf[1] = NL
  <2>1. AtLetter(f, n, s, l, buf)
    BY <1>0, <1>1, <1>2 DEF AtLetter
  <2>2. Found(f, n, s, l, buf)
    BY <2>1, NextBytes
  <2> QED
    BY <2>2 DEF Found
<1>4. l < Len(s.st) /\ l + 1 <= Len(s.st)
  <2>1. l # Len(s.st)
    BY <1>1, <1>3
  <2> QED
    BY <1>3, <2>1
<1>5. letters \in Seq(0 .. 255) /\ Strtol(buf) % 256 \in 0 .. 255
  BY <1>2, <1>3, StrtolInNat DEF Reading
<1>6. /\ letters' \in Seq(0 .. 255) /\ Len(letters') = l + 1
      /\ \A c \in 1 .. l : letters'[c] = letters[c]
      /\ letters'[l + 1] = Strtol(buf) % 256
  BY <1>1, <1>5, AppendProperties
<1>7. buf[3] >= NL => letters'[l + 1] = s.st[l + 1]
  <2> SUFFICES ASSUME buf[3] >= NL PROVE letters'[l + 1] = s.st[l + 1]
    OBVIOUS
  <2>1. buf[3] \in NL .. NUL
    <3>1. buf[3] \in 0 .. NUL
      BY <1>3
    <3> QED
      BY <3>1 DEF NL, NUL
  <2>2. s.st[l + 1] \in 0 .. 255
    BY <1>3, <1>4
  <2>3. Strtol(buf) % 256 = s.st[l + 1]
    <3> PICK v : v = s.st[l + 1]
      OBVIOUS
    <3>1. v \in 0 .. 255 /\ buf[1] = Hex(v)[1] /\ buf[2] = Hex(v)[2]
      BY <1>3, <1>4, <2>2
    <3> QED
      BY <2>1, <3>1, StrtolOfHex
  <2> QED
    BY <1>6, <2>3
<1>8. buffer[3] >= NL => \A c \in 1 .. l : letters[c] = s.st[c]
  <2>1. n <= Len(command.students)
    <3>1. Len(command.students) \in Nat
      BY LenProperties DEF RecordsInv
    <3> QED
      BY <1>3, <3>1
  <2> QED
    BY <1>2, <2>1 DEF Reading
<1>9. buf[3] >= NL => \A c \in 1 .. l + 1 : letters'[c] = s.st[c]
  <2> SUFFICES ASSUME buf[3] >= NL, NEW c \in 1 .. l + 1
               PROVE  letters'[c] = s.st[c]
    OBVIOUS
  <2>1. c \in 1 .. l \/ c = l + 1
    BY <1>3
  <2> QED
    BY <1>3, <1>6, <1>7, <1>8, <2>1
<1>10. at' = f[n] + 2 * (l + 1)
  BY <1>1, <1>3
<1>11. Reading(f, n)'
  <2>1. /\ Len(shown') + 1 = n /\ main' = "read" /\ buffer' = buf
        /\ Len(letters') = l + 1 /\ letters' \in Seq(0 .. 255)
        /\ command.students'[n] = s
    BY <1>0, <1>1, <1>2, <1>6 DEF Reading
  <2>2. n <= Len(command.students) /\ n <= Len(command.students) + 1
        /\ n # Len(command.students) + 1
    <3>1. Len(command.students) \in Nat
      BY LenProperties DEF RecordsInv
    <3> QED
      BY <1>3, <3>1
  <2>3. buf[3] = IF n = 1 THEN command.junk ELSE NUL
    BY <1>2, <1>3 DEF Reading
  <2> QED
    BY <1>3, <1>4, <1>9, <1>10, <2>1, <2>2, <2>3 DEF Reading
<1>12. \A m : RecordRight(m)' <=> RecordRight(m)
  BY <1>1 DEF RecordRight
<1> QED
  BY <1>0, <1>1, <1>2, <1>11, <1>12 DEF RecordsInv

(* A whole record's newlines and grades are before its end.                *)
LEMMA Nearby ==
  \A p, z \in Nat : p + 8 <= z =>
     /\ p + 2 \in Nat /\ p + 3 \in Nat /\ p + 5 \in Nat /\ p + 7 \in Nat
     /\ p + 2 + 1 <= z /\ p + 3 + 2 <= z /\ p + 5 + 2 <= z /\ p + 7 + 1 <= z
     /\ p + 2 * 1 = p + 2 /\ p + 2 * 1 + 1 = p + 2 + 1
     /\ p + 2 * 2 = p + 3 + 1 /\ p + 2 * 2 + 1 = p + 3 + 2
     /\ p + 2 * 3 = p + 5 + 1 /\ p + 2 * 3 + 1 = p + 5 + 2
OBVIOUS

LEMMA ReadGradesStep ==
  ASSUME RecordsInv, ReadGrades, command' = command
  PROVE  RecordsInv'
<1> SUFFICES ASSUME command.name \in RecordPrograms PROVE RecordsInv'
  BY DEF RecordsInv
<1>0. main = "read"
  BY DEF ReadGrades
<1>1. PICK f, n : LaidOut(f, data, command.students, written) /\ Reading(f, n)
  BY <1>0 DEF RecordsInv
<1> PICK s, l, buf :
       /\ s = command.students[n] /\ l = Len(letters)
       /\ buf = ReadInto(buffer, 1, at, 2)
  OBVIOUS
<1> PICK first, second, third :
       /\ first = ReadInto([buf EXCEPT ![1] = buf[2]], 2, at + 2, 1)
       /\ second = ReadInto(Zeros, 1, at + 3, 2)
       /\ third = ReadInto(Zeros, 1, at + 5, 2)
  OBVIOUS
<1>2. /\ at < Len(data) /\ (buf[1] = NL \/ Len(letters) >= 30)
      /\ \E tail \in Behind : shown' = Append(shown,
            [st |-> letters \o tail,
             grades |-> <<Strtol(first), Strtol(second), Strtol(third)>>])
      /\ letters' = <<>> /\ buffer' = ReadInto(Zeros, 1, at + 7, 1)
      /\ at' = at + 8 /\ UNCHANGED <<main, written, data>>
  BY DEF ReadGrades
<1>3. /\ n \in 1 .. Len(command.students) /\ s \in Students
      /\ l \in Nat /\ l <= Len(s.st) /\ Len(s.st) \in Nat /\ Len(s.st) <= 29
      /\ f[n] \in Nat /\ at = f[n] + 2 * l /\ IsRecord(data, f[n], f[n + 1], s)
      /\ buf \in [1 .. 3 -> 0 .. NUL] /\ buf[3] = buffer[3] /\ buf[2] = data[at + 2]
      /\ l < Len(s.st) => s.st[l + 1] \in 1 .. 127 /\ buf[1] = Hex(s.st[l + 1])[1]
  <2>1. AtLetter(f, n, s, l, buf)
    BY <1>0, <1>1, <1>2 DEF AtLetter
  <2>2. Found(f, n, s, l, buf)
    BY <2>1, NextBytes
  <2> QED
    BY <2>2 DEF Found
<1>4. l = Len(s.st)
  <2>0. \A x, y \in Nat : x <= y /\ ~ (x < y) => x = y
    OBVIOUS
  <2> SUFFICES ASSUME l < Len(s.st) PROVE FALSE
    BY <1>3, <2>0
  <2>1. ~ (Len(letters) >= 30) /\ s.st[l + 1] \in 0 .. 255
    <3>1. \A x, y \in Nat : x < y /\ y <= 29 => ~ (x >= 30)
      OBVIOUS
    <3>2. ~ (l >= 30)
      BY <1>3, <3>1
    <3> QED
      BY <1>3, <3>2
  <2>2. buf[1] = NL /\ buf[1] \in 0 .. 15
    BY <1>2, <1>3, <2>1, HexBytes
  <2> QED
    BY <2>2 DEF NL
<1>5. /\ data \in Seq(0 .. NUL) /\ Len(data) \in Nat /\ shown \in Seq(ShownRecord)
      /\ written = Len(command.students) /\ Len(command.students) \in Nat
      /\ command.students \in Seq(Students)
  <2>1. /\ data \in Seq(0 .. NUL) /\ shown \in Seq(ShownRecord)
        /\ command.students \in Seq(Students)
        /\ written \in Nat /\ written <= Len(command.students)
        /\ ~ (written < Len(command.students))
    BY <1>0 DEF RecordsInv
  <2>2. Len(command.students) \in Nat
    BY <2>1, LenProperties
  <2> QED
    BY <2>1, <2>2, LenProperties
<1>6. /\ f[n + 1] = at + 8 /\ at \in Nat /\ at + 8 <= Len(data)
      /\ \A g \in 1 .. 3 : /\ data[at + 2 * g] = Hex(s.grades[g])[1]
                           /\ data[at + 2 * g + 1] = Hex(s.grades[g])[2]
      /\ data[at + 8] = NL
  <2>1. /\ f[n + 1] = at + 8 /\ at + 8 <= Len(data) /\ data[at + 8] = NL
        /\ \A g \in 1 .. 3 : /\ data[at + 2 * g] = Hex(s.grades[g])[1]
                             /\ data[at + 2 * g + 1] = Hex(s.grades[g])[2]
    BY <1>3, <1>4 DEF IsRecord
  <2>2. at \in Nat
    BY <1>3
  <2> QED
    BY <2>1, <2>2
<1>7. s.grades \in [1 .. 3 -> 0 .. 255] /\ s.st \in Seq(1 .. 127)
  BY <1>3 DEF Students
<1>8. Zeros \in [1 .. 3 -> 0 .. NUL] /\ Zeros[2] = NUL /\ Zeros[3] = NUL
  BY DEF Zeros, NUL
<1>9. /\ first \in [1 .. 3 -> 0 .. NUL] /\ first[1] = Hex(s.grades[1])[1]
      /\ first[2] = Hex(s.grades[1])[2] /\ first[3] = buffer[3]
  <2> PICK held : held = [buf EXCEPT ![1] = buf[2]]
    OBVIOUS
  <2>1. /\ held \in [1 .. 3 -> 0 .. NUL] /\ held[1] = buf[2] /\ held[3] = buf[3]
    BY <1>3
  <2>2. at + 2 \in Nat /\ at + 2 + 1 <= Len(data)
    BY <1>5, <1>6, Nearby
  <2>5. 2 \in 1 .. 2
    OBVIOUS
  <2>3. /\ first \in [1 .. 3 -> 0 .. NUL]
        /\ \A c \in 1 .. 3 : first[c] = IF c = 2 THEN data[at + 2 + 1] ELSE held[c]
    BY <1>5, <2>1, <2>2, <2>5, ReadOne
  <2>4. at + 2 * 1 = at + 2 /\ at + 2 * 1 + 1 = at + 2 + 1
    BY <1>5, <1>6, Nearby
  <2> QED
    BY <1>3, <1>6, <2>1, <2>3, <2>4
<1>10. /\ second \in [1 .. 3 -> 0 .. NUL] /\ second[1] = Hex(s.grades[2])[1]
       /\ second[2] = Hex(s.grades[2])[2] /\ second[3] = NUL
  <2>1. /\ at + 3 \in Nat /\ at + 3 + 2 <= Len(data)
        /\ at + 2 * 2 = at + 3 + 1 /\ at + 2 * 2 + 1 = at + 3 + 2
    BY <1>5, <1>6, Nearby
  <2>2. /\ second \in [1 .. 3 -> 0 .. NUL] /\ second[3] = NUL
        /\ second[1] = data[at + 3 + 1] /\ second[2] = data[at + 3 + 2]
    BY <1>5, <1>8, <2>1, ReadTwo
  <2> QED
    BY <1>6, <2>1, <2>2
<1>11. /\ third \in [1 .. 3 -> 0 .. NUL] /\ third[1] = Hex(s.grades[3])[1]
       /\ third[2] = Hex(s.grades[3])[2] /\ third[3] = NUL
  <2>1. /\ at + 5 \in Nat /\ at + 5 + 2 <= Len(data)
        /\ at + 2 * 3 = at + 5 + 1 /\ at + 2 * 3 + 1 = at + 5 + 2
    BY <1>5, <1>6, Nearby
  <2>2. /\ third \in [1 .. 3 -> 0 .. NUL] /\ third[3] = NUL
        /\ third[1] = data[at + 5 + 1] /\ third[2] = data[at + 5 + 2]
    BY <1>5, <1>8, <2>1, ReadTwo
  <2> QED
    BY <1>6, <2>1, <2>2
<1>12. /\ buffer' \in [1 .. 3 -> 0 .. NUL] /\ buffer'[3] = NUL
  <2>1. at + 7 \in Nat /\ at + 7 + 1 <= Len(data)
    BY <1>5, <1>6, Nearby
  <2>3. 1 \in 1 .. 2
    OBVIOUS
  <2> PICK after : after = ReadInto(Zeros, 1, at + 7, 1)
    OBVIOUS
  <2>2. /\ after \in [1 .. 3 -> 0 .. NUL]
        /\ \A c \in 1 .. 3 : after[c] = IF c = 1 THEN data[at + 7 + 1] ELSE Zeros[c]
    BY <1>5, <1>8, <2>1, <2>3, ReadOne
  <2> QED
    BY <1>2, <1>8, <2>2
<1>13. /\ Strtol(first) \in Nat /\ (buffer[3] >= NL => Strtol(first) = s.grades[1])
       /\ Strtol(second) = s.grades[2] /\ Strtol(third) = s.grades[3]
  <2> PICK g1, g2, g3 : g1 = s.grades[1] /\ g2 = s.grades[2] /\ g3 = s.grades[3]
    OBVIOUS
  <2>1. g1 \in 0 .. 255 /\ g2 \in 0 .. 255 /\ g3 \in 0 .. 255 /\ NUL \in NL .. NUL
    BY <1>7 DEF NL, NUL
  <2>2. Strtol(second) = g2 /\ Strtol(third) = g3
    BY <1>10, <1>11, <2>1, StrtolOfHex
  <2>3. first[3] \in 0 .. NUL
    BY <1>9
  <2>4. buffer[3] >= NL => first[3] \in NL .. NUL
    BY <1>9, <2>3 DEF NL, NUL
  <2>5. buffer[3] >= NL => Strtol(first) = g1
    BY <1>9, <2>1, <2>4, StrtolOfHex
  <2> QED
    BY <1>9, <2>2, <2>5, StrtolInNat
<1>14. /\ letters \in Seq(0 .. 255)
       /\ buffer[3] = IF n = 1 THEN command.junk ELSE NUL
       /\ buffer[3] >= NL => \A c \in 1 .. l : letters[c] = s.st[c]
       /\ n = Len(shown) + 1
  <2>1. n <= Len(command.students)
    BY <1>3, <1>5
  <2> QED
    BY <1>1, <2>1 DEF Reading
<1>15. PICK tail \in Behind : shown' = Append(shown,
          [st |-> letters \o tail,
           grades |-> <<Strtol(first), Strtol(second), Strtol(third)>>])
  BY <1>2
<1> PICK record : record = [st |-> letters \o tail,
                   grades |-> <<Strtol(first), Strtol(second), Strtol(third)>>]
  OBVIOUS
<1>16. tail \in Seq(0 .. 255)
  <2>1. <<255>> \in Seq(0 .. 255)
    OBVIOUS
  <2> QED
    BY <2>1, EmptySeq DEF Behind
<1>17. /\ letters \o tail \in Seq(0 .. 255)
       /\ \A c \in 1 .. l : (letters \o tail)[c] = letters[c]
  <2>1. \A c \in 1 .. l : c \in 1 .. l + Len(tail) /\ c <= l
    BY <1>3, <1>16, LenProperties
  <2> QED
    BY <1>14, <1>16, <2>1, ConcatProperties
<1>18. record \in ShownRecord
  <2>1. Strtol(first) \in Nat /\ Strtol(second) \in Nat /\ Strtol(third) \in Nat
    BY <1>9, <1>10, <1>11, StrtolInNat
  <2>2. <<Strtol(first), Strtol(second), Strtol(third)>> \in [1 .. 3 -> Nat]
    BY <2>1
  <2> QED
    BY <1>17, <2>2 DEF ShownRecord
<1>19. /\ shown' \in Seq(ShownRecord) /\ Len(shown') = n /\ shown'[n] = record
       /\ \A m \in 1 .. Len(shown) : shown'[m] = shown[m]
  BY <1>5, <1>14, <1>15, <1>18, AppendProperties
<1>20. /\ record.grades[2] = s.grades[2] /\ record.grades[3] = s.grades[3]
       /\ buffer[3] >= NL => record.grades = s.grades
  <2>1. record.grades = <<Strtol(first), Strtol(second), Strtol(third)>>
    OBVIOUS
  <2>2. buffer[3] >= NL => \A c \in 1 .. 3 : record.grades[c] = s.grades[c]
    BY <1>13, <2>1
  <2>3. record.grades \in [1 .. 3 -> Nat]
    BY <1>18 DEF ShownRecord
  <2> QED
    BY <1>7, <1>13, <2>1, <2>2, <2>3
<1>21. buffer[3] >= NL => \A c \in 1 .. Len(s.st) : record.st[c] = s.st[c]
  BY <1>4, <1>14, <1>17
<1>22. n >= 2 => record = s
  <2> SUFFICES ASSUME n >= 2 PROVE record = s
    OBVIOUS
  <2>1. buffer[3] >= NL
    BY <1>14 DEF NL, NUL
  <2>2. tail = <<>>
    <3>1. shown # <<>>
      BY <1>14
    <3> QED
      BY <3>1 DEF Behind
  <2>3. letters \o tail = letters
    BY <1>14, <2>2, ConcatEmptySeq
  <2>4. s.st \in Seq(0 .. 255)
    <3>1. (1 .. 127) \subseteq 0 .. 255
      OBVIOUS
    <3> QED
      BY <1>7, <3>1, SeqMonotonic
  <2>5. letters = s.st
    <3>1. Len(letters) = Len(s.st)
          /\ \A c \in 1 .. Len(letters) : letters[c] = s.st[c]
      BY <1>4, <1>14, <2>1
    <3> QED
      BY <1>14, <2>4, <3>1, SeqEqual
  <2>6. record.st = s.st /\ record.grades = s.grades
    BY <1>20, <2>1, <2>3, <2>5
  <2>7. record = [st |-> record.st, grades |-> record.grades]
    OBVIOUS
  <2>8. s = [st |-> s.st, grades |-> s.grades]
    BY <1>3 DEF Students
  <2> QED
    BY <2>6, <2>7, <2>8
<1>23. \A m \in 1 .. Len(shown') : RecordRight(m)'
  <2> SUFFICES ASSUME NEW m \in 1 .. n PROVE RecordRight(m)'
    BY <1>19
  <2>1. CASE m = n
    <3>1. ASSUME m = 1
          PROVE  /\ \A g \in {2, 3} : shown'[1].grades[g] = command.students[1].grades[g]
                 /\ command.junk >= NL =>
                       /\ shown'[1].grades = command.students[1].grades
                       /\ \A c \in DOMAIN command.students[1].st :
                             shown'[1].st[c] = command.students[1].st[c]
      <4>1. shown'[1] = record /\ command.students[1] = s /\ n = 1
        BY <1>19, <2>1, <3>1
      <4>2. DOMAIN s.st = 1 .. Len(s.st)
        BY <1>7, LenProperties
      <4>3. command.junk >= NL => buffer[3] >= NL
        BY <1>14, <4>1
      <4>4. \A g \in {2, 3} : record.grades[g] = s.grades[g]
        BY <1>20
      <4>5. command.junk >= NL => /\ record.grades = s.grades
                                 /\ \A c \in DOMAIN s.st : record.st[c] = s.st[c]
        BY <1>20, <1>21, <4>2, <4>3
      <4>6. /\ shown'[1].grades = record.grades /\ shown'[1].st = record.st
            /\ command.students[1].grades = s.grades
            /\ command.students[1].st = s.st
        BY <4>1
      <4>7. \A g \in {2, 3} : shown'[1].grades[g] = command.students[1].grades[g]
        BY <4>4, <4>6
      <4>8. command.junk >= NL =>
               /\ shown'[1].grades = command.students[1].grades
               /\ \A c \in DOMAIN command.students[1].st :
                     shown'[1].st[c] = command.students[1].st[c]
        BY <4>5, <4>6
      <4> QED
        BY <4>7, <4>8
    <3>2. m >= 2 => shown'[m] = command.students[m]
      BY <1>19, <1>22, <2>1
    <3> QED
      BY <3>1, <3>2 DEF RecordRight
  <2>2. CASE m # n
    <3>1. m \in 1 .. Len(shown)
      BY <1>5, <1>14, <2>2, LenProperties
    <3>2. RecordRight(m) /\ shown'[m] = shown[m]
      BY <1>19, <3>1 DEF RecordsInv
    <3> QED
      BY <3>2 DEF RecordRight
  <2> QED
    BY <2>1, <2>2
<1>24. Reading(f, n + 1)'
  <2>1. /\ n + 1 = Len(shown') + 1 /\ n + 1 <= Len(command.students) + 1
        /\ main' = "read" /\ n + 1 # 1
    <3>1. \A y \in Nat : \A x \in 1 .. y : x + 1 <= y + 1 /\ x + 1 # 1
      OBVIOUS
    <3>2. n + 1 <= Len(command.students) + 1 /\ n + 1 # 1
      BY <1>3, <1>5, <3>1
    <3> QED
      BY <1>0, <1>2, <1>19, <3>2
  <2>2. letters' = <<>> /\ Len(letters') = 0 /\ letters' \in Seq(0 .. 255)
    BY <1>2, EmptySeq
  <2>3. at' = f[n + 1] + 2 * Len(letters')
    BY <1>2, <1>6, <2>2
  <2>4. n + 1 <= Len(command.students) => 0 <= Len(command.students[n + 1].st)
    <3> SUFFICES ASSUME n + 1 <= Len(command.students)
                 PROVE  0 <= Len(command.students[n + 1].st)
      OBVIOUS
    <3>1. n + 1 \in 1 .. Len(command.students)
      BY <1>3, <1>5
    <3>2. command.students[n + 1] \in Students
      BY <1>5, <3>1, ElementOfSeq
    <3> QED
      BY <3>2, LenProperties DEF Students
  <2>5. \A c \in 1 .. Len(letters') : FALSE
    BY <2>2
  <2> QED
    BY <1>12, <2>1, <2>2, <2>3, <2>4, <2>5 DEF Reading
<1> QED
  BY <1>0, <1>1, <1>2, <1>19, <1>23, <1>24 DEF RecordsInv

(* For all names and grades that fit, and whatever the stack held: what    *)
(* ex3 wrote to the file, ex3b shows, but for what the first student's name*)
(* and first grade may have of the stack.                                  *)
THEOREM RecordsComeBack == ProgramsSpec => []RecordsRead
<1>1. RecordsInv /\ [ProgramsNext]_allVars => RecordsInv'
  <2> SUFFICES ASSUME RecordsInv, [ProgramsNext]_allVars PROVE RecordsInv'
    OBVIOUS
  <2>1. CASE command' = command /\ UNCHANGED <<main, recordVars>>
    <3>1. /\ \A m : RecordRight(m)' <=> RecordRight(m)
          /\ \A f, n : Reading(f, n)' <=> Reading(f, n)
      BY <2>1 DEF RecordRight, Reading, recordVars
    <3> QED
      BY <2>1, <3>1 DEF RecordsInv, recordVars
  <2>2. CASE command' = command /\ command.name \notin RecordPrograms
    BY <2>2 DEF RecordsInv
  <2>3. CASE command' = command /\ command.name \in RecordPrograms /\ ReadEnd
    <3>1. main = "read" /\ main' = "end" /\ UNCHANGED recordVars /\ at >= Len(data)
      <4>1. main \in {"start", "read", "end"}
        BY <2>3 DEF RecordsInv
      <4> QED
        BY <2>3, <4>1 DEF ReadEnd, Runs
    <3>2. \A m : RecordRight(m)' <=> RecordRight(m)
      BY <2>3, <3>1 DEF RecordRight, recordVars
    <3>3. PICK f, n : LaidOut(f, data, command.students, written) /\ Reading(f, n)
      BY <2>3, <3>1 DEF RecordsInv
    <3>4. /\ command.students \in Seq(Students) /\ Len(command.students) \in Nat
          /\ data \in Seq(0 .. NUL) /\ Len(data) \in Nat
          /\ shown \in Seq(ShownRecord) /\ Len(shown) \in Nat
          /\ written = Len(command.students)
      <4>1. /\ command.students \in Seq(Students) /\ data \in Seq(0 .. NUL)
            /\ shown \in Seq(ShownRecord) /\ written \in Nat
            /\ written <= Len(command.students) /\ ~ (written < Len(command.students))
        BY <2>3, <3>1 DEF RecordsInv
      <4>2. Len(command.students) \in Nat
        BY <4>1, LenProperties
      <4> QED
        BY <4>1, <4>2, LenProperties
    <3>5. n = Len(command.students) + 1
      <4> SUFFICES ASSUME n # Len(command.students) + 1 PROVE FALSE
        OBVIOUS
      <4>1. n = Len(shown) + 1 /\ n <= Len(command.students) + 1
        BY <3>3 DEF Reading
      <4>2. n \in 1 .. Len(command.students) /\ n <= Len(command.students)
            /\ n \in 1 .. Len(command.students) + 1
        BY <3>4, <4>1
      <4> PICK s, l, from, to : /\ s = command.students[n] /\ l = Len(letters)
                                /\ from = f[n] /\ to = f[n + 1]
        OBVIOUS
      <4>3. s \in Students
        BY <3>4, <4>2, ElementOfSeq
      <4>4. Len(s.st) \in Nat /\ l \in Nat /\ l <= Len(s.st) /\ at = from + 2 * l
            /\ from \in Nat
        BY <3>3, <4>2, <4>3, LenProperties DEF Reading, Students, LaidOut
      <4>5. to = from + 2 * Len(s.st) + 8 /\ to <= Len(data)
        BY <3>3, <3>4, <4>2 DEF LaidOut, IsRecord
      <4>6. \A x, y, z, d \in Nat :
               y <= z /\ x + 2 * z + 8 <= d => ~ (x + 2 * y >= d)
        OBVIOUS
      <4> QED
        BY <3>1, <3>4, <4>4, <4>5, <4>6
    <3>6. Reading(f, n)'
      BY <2>3, <3>1, <3>3, <3>5 DEF Reading, recordVars
    <3> QED
      BY <2>3, <3>1, <3>2, <3>3, <3>4, <3>6 DEF RecordsInv, recordVars
  <2>4. CASE command' = command /\ RecordsNext
    BY <2>2, <2>3, <2>4, WriteRecordStep, ReadLetterStep, ReadGradesStep
       DEF RecordsNext
  <2> QED
    BY <2>1, <2>2, <2>4, OneProgram
<1>2. RecordsInv => RecordsRead
  <2> SUFFICES ASSUME RecordsInv, MainAt("grades", "end") PROVE RecordsRead
    BY DEF RecordsRead
  <2>1. command.name \in RecordPrograms /\ main = "end"
    BY DEF MainAt, RecordPrograms
  <2>2. /\ command.students \in Seq(Students) /\ Len(command.students) >= 1
        /\ \A m \in 1 .. Len(shown) : RecordRight(m)
        /\ shown \in Seq(ShownRecord)
    BY <2>1 DEF RecordsInv
  <2>3. PICK f, n : Reading(f, n)
    BY <2>1 DEF RecordsInv
  <2>4. Len(shown) + 1 = Len(command.students) + 1
    BY <2>1, <2>3 DEF Reading
  <2>5. Len(shown) = Len(command.students) /\ Len(shown) \in Nat
    BY <2>2, <2>4, LenProperties
  <2>6. 1 \in 1 .. Len(shown) /\ \A m \in 2 .. Len(shown) : m \in 1 .. Len(shown) /\ m >= 2
    BY <2>2, <2>5
  <2> QED
    BY <2>2, <2>5, <2>6 DEF RecordsRead, RecordRight
<1> QED
  BY <1>1, <1>2, RecordsStart, PTL DEF ProgramsSpec
=============================================================================
