--------------------------- MODULE SmallThreads ---------------------------
(***************************************************************************)
(* The thread programs of Problem_Set_4 and the counters of Problem_Set_5: *)
(* main creates its threads, each with an argument, joins them in the same *)
(* order and prints what they left.  A thread's argument is the struct or  *)
(* the int its arg points to.                                              *)
(*   arith      Problem_Set_4/ex1.c: a + b, a - b, a * b, a / b            *)
(*   three      Problem_Set_4/ex2.c: three threads return their argument   *)
(*   each       Problem_Set_4/ex3.c: n threads return their argument       *)
(*   fill       Problem_Set_4/ex4.c: an array filled by slices             *)
(*   count      Problem_Set_5/ex0.c and ex1.c: increments under a mutex    *)
(*   tfun       Problem_Set_5/tfun.c: increments without one, by the main  *)
(*              of ex1.c, which has tfun beside sfun                       *)
(***************************************************************************)
EXTENDS CommandLine, Integers

CONSTANTS
    IntMax,       \* the largest int
    MaxThreads,   \* bound: threads of each and fill, at least the 4 of arith
    MaxSize,      \* bound: the array of fill
    MaxCount      \* bound: increments of one thread

ASSUME ThreadsAssumption ==
    /\ {IntMax, MaxSize, MaxCount} \subseteq Nat
    /\ MaxThreads \in Nat /\ MaxThreads >= 4

IntMin == - IntMax - 1
Ints   == IntMin .. IntMax
AsInt(x) == ((x - IntMin) % (2 * (IntMax + 1))) + IntMin   \* it wraps

Tids == 0 .. MaxThreads - 1
Junk == -1            \* an array element as malloc left it

ThreadCommands ==
    [name : {"arith"}, a : Ints, b : Ints]
        \cup [name : {"three"}]
        \cup [name : {"each"}, n : 1 .. MaxThreads]
        \cup [name : {"fill"}, size : 0 .. MaxSize, nthreads : 0 .. MaxThreads]
        \cup [name : {"count", "tfun"}, n : 0 .. MaxCount]

ThreadPrograms == {"arith", "three", "each", "fill", "count", "tfun"}

VARIABLES
    k,        \* main's loop counter
    pos,      \* currentPos of fill's main
    thread,   \* where each thread is
    arg,      \* what each thread's arg points to
    i,        \* its loop counter
    aux,      \* its register: the counter it has loaded
    ret,      \* what it returned
    array,    \* the array of fill
    counter,  \* the shared counter
    mutex     \* mptr is free

threadVars == <<k, pos, thread, arg, i, aux, ret, array, counter, mutex>>

ThreadsInit ==
    /\ k = 0 /\ pos = 0
    /\ thread = [t \in Tids |-> "none"]
    /\ arg = [t \in Tids |-> [x |-> 0, y |-> 0]]
    /\ i = [t \in Tids |-> 0] /\ aux = [t \in Tids |-> 0]
    /\ ret = [t \in Tids |-> 0]
    /\ array = [e \in 0 .. MaxSize - 1 |-> Junk]
    /\ counter = 0 /\ mutex = TRUE

-----------------------------------------------------------------------------
(* main                                                                    *)

NThreads == CASE command.name = "arith" -> 4
              [] command.name = "each"  -> command.n
              [] command.name = "fill"  -> command.nthreads
              [] OTHER                  -> 3

(* Mutant: one thread too many gets an extra element. *)
InitsOneMore(t) ==
    LET numberOfInits == command.size \div command.nthreads
        extraInits == command.size - numberOfInits * command.nthreads
    IN  IF t <= extraInits THEN numberOfInits + 1 ELSE numberOfInits

(* The share of thread t of fill: the first extraInits get one more.       *)
Inits(t) ==
    LET numberOfInits == command.size \div command.nthreads
        extraInits == command.size - numberOfInits * command.nthreads
    IN  IF t < extraInits THEN numberOfInits + 1 ELSE numberOfInits

Argument(t) ==
    CASE command.name = "arith" -> [x |-> command.a, y |-> command.b]
      [] command.name = "three" -> [x |-> <<1, 3, 2>>[t + 1], y |-> 0]
      [] command.name = "each"  -> [x |-> t + 1, y |-> 0]
      [] command.name = "fill"  -> [x |-> pos, y |-> Inits(t)]
      [] OTHER                  -> [x |-> command.n, y |-> 0]

(* fill divides by the number of threads before it creates any.            *)
ThreadsBegin ==
    /\ Runs(ThreadPrograms) /\ main = "start"
    /\ main' = IF command.name = "fill" /\ command.nthreads = 0
               THEN "killed" ELSE "create"
    /\ UNCHANGED threadVars

Create ==
    /\ Runs(ThreadPrograms) /\ main = "create"
    /\ k < NThreads
    /\ arg' = [arg EXCEPT ![k] = Argument(k)]
    /\ pos' = IF command.name = "fill" THEN pos + Inits(k) ELSE pos
    /\ thread' = [thread EXCEPT ![k] = "run"]
    /\ k' = k + 1
    /\ UNCHANGED <<main, i, aux, ret, array, counter, mutex>>

Created ==
    /\ Runs(ThreadPrograms) /\ main = "create"
    /\ k = NThreads
    /\ main' = "join" /\ k' = 0
    /\ UNCHANGED <<pos, thread, arg, i, aux, ret, array, counter, mutex>>

(* Mutant: the last thread is not joined. *)
JoinButLast ==
    /\ Runs(ThreadPrograms) /\ main = "join"
    /\ k < NThreads
    /\ thread[k] = "done" \/ k = NThreads - 1
    /\ k' = k + 1
    /\ UNCHANGED <<main, pos, thread, arg, i, aux, ret, array, counter, mutex>>

Join ==
    /\ Runs(ThreadPrograms) /\ main = "join"
    /\ k < NThreads
    /\ thread[k] = "done"
    /\ k' = k + 1
    /\ UNCHANGED <<main, pos, thread, arg, i, aux, ret, array, counter, mutex>>

(* main prints ret, array or counter, whichever is the program's.          *)
ThreadsPrint ==
    /\ Runs(ThreadPrograms) /\ main = "join"
    /\ k = NThreads
    /\ main' = "end"
    /\ UNCHANGED threadVars

-----------------------------------------------------------------------------
(* The threads.                                                            *)

ThreadAt(names, t, at) == Runs(names) /\ thread[t] = at

Quotient(a, b) ==   \* as / in C, towards 0
    LET Abs(x) == IF x < 0 THEN - x ELSE x
        q == Abs(a) \div Abs(b)
    IN  IF (a < 0) = (b < 0) THEN q ELSE - q

(* addition, subtraction, multiply, division.                              *)
Result(t, a, b) == CASE t = 0 -> AsInt(a + b)
                     [] t = 1 -> AsInt(a - b)
                     [] t = 2 -> AsInt(a * b)
                     [] t = 3 -> Quotient(a, b)

DivisionTraps(a, b) == b = 0 \/ (a = IntMin /\ b = -1)

Compute(t) ==
    /\ ThreadAt({"arith"}, t, "run")
    /\ IF t = 3 /\ DivisionTraps(arg[t].x, arg[t].y)
       THEN /\ main' = "killed"
            /\ UNCHANGED <<thread, ret>>
       ELSE /\ ret' = [ret EXCEPT ![t] = Result(t, arg[t].x, arg[t].y)]
            /\ thread' = [thread EXCEPT ![t] = "done"]
            /\ UNCHANGED main
    /\ UNCHANGED <<k, pos, arg, i, aux, array, counter, mutex>>

ReturnArgument(t) ==   \* function
    /\ ThreadAt({"three", "each"}, t, "run")
    /\ ret' = [ret EXCEPT ![t] = arg[t].x]
    /\ thread' = [thread EXCEPT ![t] = "done"]
    /\ UNCHANGED <<main, k, pos, arg, i, aux, array, counter, mutex>>

(* Mutant: the loop counter is not advanced. *)
InitializeNoAdvance(t) ==
    /\ ThreadAt({"fill"}, t, "run")
    /\ IF i[t] < arg[t].y
       THEN /\ array' = [array EXCEPT ![i[t] + arg[t].x] = i[t] + arg[t].x]
            /\ UNCHANGED <<thread, i>>
       ELSE /\ thread' = [thread EXCEPT ![t] = "done"]
            /\ UNCHANGED <<array, i>>
    /\ UNCHANGED <<main, k, pos, arg, aux, ret, counter, mutex>>

Initialize(t) ==   \* initialize
    /\ ThreadAt({"fill"}, t, "run")
    /\ IF i[t] < arg[t].y
       THEN /\ array' = [array EXCEPT ![i[t] + arg[t].x] = i[t] + arg[t].x]
            /\ i' = [i EXCEPT ![t] = @ + 1]
            /\ UNCHANGED thread
       ELSE /\ thread' = [thread EXCEPT ![t] = "done"]
            /\ UNCHANGED <<array, i>>
    /\ UNCHANGED <<main, k, pos, arg, aux, ret, counter, mutex>>

(* One turn of the loop of increment, sfun and tfun: test, lock, load the  *)
(* counter, store it incremented, unlock; tfun has no mutex.               *)
LoopEnds(t) ==
    /\ ThreadAt({"count", "tfun"}, t, "run")
    /\ i[t] >= arg[t].x
    /\ thread' = [thread EXCEPT ![t] = "done"]
    /\ UNCHANGED <<main, k, pos, arg, i, aux, ret, array, counter, mutex>>

Lock(t) ==
    /\ ThreadAt({"count", "tfun"}, t, "run")
    /\ i[t] < arg[t].x
    /\ command.name = "count" => mutex
    /\ mutex' = (mutex /\ command.name # "count")
    /\ thread' = [thread EXCEPT ![t] = "load"]
    /\ UNCHANGED <<main, k, pos, arg, i, aux, ret, array, counter>>

Load(t) ==
    /\ ThreadAt({"count", "tfun"}, t, "load")
    /\ aux' = [aux EXCEPT ![t] = counter]
    /\ thread' = [thread EXCEPT ![t] = "store"]
    /\ UNCHANGED <<main, k, pos, arg, i, ret, array, counter, mutex>>

Store(t) ==
    /\ ThreadAt({"count", "tfun"}, t, "store")
    /\ counter' = aux[t] + 1
    /\ thread' = [thread EXCEPT ![t] = "unlock"]
    /\ UNCHANGED <<main, k, pos, arg, i, aux, ret, array, mutex>>

Unlock(t) ==
    /\ ThreadAt({"count", "tfun"}, t, "unlock")
    /\ mutex' = TRUE
    /\ i' = [i EXCEPT ![t] = @ + 1]
    /\ thread' = [thread EXCEPT ![t] = "run"]
    /\ UNCHANGED <<main, k, pos, arg, aux, ret, array, counter>>

threadFunction(t) ==
    \/ Compute(t) \/ ReturnArgument(t) \/ Initialize(t)
    \/ LoopEnds(t) \/ Lock(t) \/ Load(t) \/ Store(t) \/ Unlock(t)

threadsMain == ThreadsBegin \/ Create \/ Created \/ Join \/ ThreadsPrint

ThreadsNext ==
    /\ threadsMain \/ \E t \in Tids : threadFunction(t)
    /\ UNCHANGED command

-----------------------------------------------------------------------------
(* Properties                                                              *)

(* Mathematics of one line of arith's output, for results that an int can  *)
(* hold: / is the quotient whose remainder has the sign of a.              *)
ArithRight(a, b) ==
    /\ a + b \in Ints => ret[0] = a + b
    /\ a - b \in Ints => ret[1] = a - b
    /\ a * b \in Ints => ret[2] = a * b
    /\ LET r == a - b * ret[3] IN r * r < b * b /\ r * a >= 0

(* What main prints, at its end, is what the threads were given to do: the *)
(* arithmetic of ex1, each argument of ex2 and ex3 in its place, the array *)
(* 0, 1, ... of ex4, all increments under the mutex of ex0 and sfun, and of*)
(* those of tfun, without it, at least two and at most all.  Only a        *)
(* division that traps kills a program.                                    *)
ThreadAnswers ==
    /\ MainAt("arith", "end") => ArithRight(command.a, command.b)
    /\ MainAt("three", "end") => ret[0] = 1 /\ ret[1] = 3 /\ ret[2] = 2
    /\ MainAt("each", "end") => \A t \in 0 .. command.n - 1 : ret[t] = t + 1
    /\ MainAt("fill", "end") => \A e \in 0 .. command.size - 1 : array[e] = e
    /\ MainAt("count", "end") => counter = 3 * command.n
    /\ MainAt("tfun", "end") =>
           /\ counter >= (IF command.n < 2 THEN command.n ELSE 2)
           /\ counter <= 3 * command.n
    /\ main = "killed" =>
           \/ command.name = "arith" /\ DivisionTraps(command.a, command.b)
           \/ command.name = "fill" /\ command.nthreads = 0

(* The slices of fill's threads lie in the array and apart from each other,*)
(* for any size and any number of threads, more threads than elements      *)
(* included: no element is written by two threads.                         *)
SlicesApart ==
    command.name = "fill" =>
        \A t \in Tids : thread[t] # "none" =>
            /\ arg[t].x >= 0 /\ arg[t].x + arg[t].y <= command.size
            /\ \A u \in Tids : u < t => arg[u].x + arg[u].y <= arg[t].x
=============================================================================
