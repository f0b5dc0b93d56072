--------------------------- MODULE PthreadStack ---------------------------
(***************************************************************************)
(* The stack of Problem_Set_6/stack.c, a monitor with a mutex and two      *)
(* condition variables, and the threads of ex1.c that use it: producers    *)
(* push PerProducer elements each, consumers pop PerConsumer.  The threads *)
(* are preempted at any point; outside the mutex they do nothing shared.   *)
(***************************************************************************)
EXTENDS Integers, Sequences, FiniteSets

CONSTANTS
    Producers, Consumers,
    PerProducer, PerConsumer,   \* args_t.i
    Size,                       \* the size given to init
    Free,                       \* no thread holds the mutex
    Null, Junk                  \* NULL; memory that no element was stored in

Threads  == Producers \cup Consumers
Elements == Producers \X (1 .. PerProducer)

ASSUME ThreadsAssumption ==
    /\ Producers \cap Consumers = {}
    /\ Free \notin Threads
    /\ Null \notin Elements /\ Junk \notin Elements
    /\ Size \in Nat \ {0}
    /\ {PerProducer, PerConsumer} \subseteq Nat

VARIABLES
    sp,       \* the array; index Size is the memory after its end
    top,      \* sp->top
    mutex,    \* the holder of sp->mutex, or Free
    full,     \* the threads waiting on sp->full
    empty,    \* the threads waiting on sp->empty
    pc,       \* where each thread is
    i,        \* the loop counter of each thread
    popped    \* what the last pop of each consumer returned

vars == <<sp, top, mutex, full, empty, pc, i, popped>>

(* malloc leaves the array uninitialised.                                  *)
Init ==
    /\ sp = [k \in 0 .. Size |-> Junk]
    /\ top = 0
    /\ mutex = Free
    /\ full = {} /\ empty = {}
    /\ pc = [t \in Threads |-> "loop"]
    /\ i = [t \in Threads |-> 0]
    /\ popped = [t \in Consumers |-> Null]

Goto(t, to) == pc' = [pc EXCEPT ![t] = to]

-----------------------------------------------------------------------------
(* The pthread library.                                                    *)

Lock(t, from, to) ==
    /\ pc[t] = from
    /\ mutex = Free
    /\ mutex' = t
    /\ Goto(t, to)

(* pthread_cond_signal wakes one waiter, if there is one.                  *)
SignalOne(waiting, left) ==
    IF waiting = {} THEN left = {}
                    ELSE \E t \in waiting : left = waiting \ {t}

(* POSIX allows a wait to return though nobody signalled.                  *)
SpuriousWakeup(t) ==
    /\ t \in full \cup empty
    /\ full' = full \ {t} /\ empty' = empty \ {t}
    /\ UNCHANGED <<sp, top, mutex, pc, i, popped>>

-----------------------------------------------------------------------------
(* push, called by input of ex1.c                                          *)

PushLock(t) ==
    /\ i[t] < PerProducer
    /\ Lock(t, "loop", "test")
    /\ UNCHANGED <<sp, top, full, empty, i, popped>>

PushWait(t) ==
    /\ pc[t] = "test" /\ mutex = t
    /\ top = Size
    /\ empty' = empty \cup {t}
    /\ mutex' = Free
    /\ Goto(t, "wait")
    /\ UNCHANGED <<sp, top, full, i, popped>>

(* Mutant: a woken thread does not test top again. *)
PushRelockNoTest(t) ==
    /\ t \notin empty
    /\ Lock(t, "wait", "store")
    /\ UNCHANGED <<sp, top, full, empty, i, popped>>

PushRelock(t) ==
    /\ t \notin empty
    /\ Lock(t, "wait", "test")
    /\ UNCHANGED <<sp, top, full, empty, i, popped>>

PushRoom(t) ==
    /\ pc[t] = "test" /\ mutex = t
    /\ top # Size
    /\ Goto(t, "store")
    /\ UNCHANGED <<sp, top, mutex, full, empty, i, popped>>

(* Mutant: the consumers are not signalled. *)
PushStoreNoSignal(t) ==
    /\ pc[t] = "store"
    /\ sp' = [sp EXCEPT ![top] = <<t, i[t] + 1>>]
    /\ top' = top + 1
    /\ i' = [i EXCEPT ![t] = @ + 1]
    /\ mutex' = Free
    /\ Goto(t, "loop")
    /\ UNCHANGED <<full, empty, popped>>

(* The rest of push, under the mutex throughout: one step.                 *)
PushStore(t) ==
    /\ pc[t] = "store"
    /\ sp' = [sp EXCEPT ![top] = <<t, i[t] + 1>>]
    /\ top' = top + 1
    /\ SignalOne(full, full')
    /\ i' = [i EXCEPT ![t] = @ + 1]
    /\ mutex' = Free
    /\ Goto(t, "loop")
    /\ UNCHANGED <<empty, popped>>

push(t) ==
    PushLock(t) \/ PushWait(t) \/ PushRelock(t) \/ PushRoom(t) \/ PushStore(t)

-----------------------------------------------------------------------------
(* pop, called by output of ex1.c                                          *)

PopLock(t) ==
    /\ i[t] < PerConsumer
    /\ Lock(t, "loop", "test")
    /\ UNCHANGED <<sp, top, full, empty, i, popped>>

PopWait(t) ==
    /\ pc[t] = "test" /\ mutex = t
    /\ top = 0
    /\ full' = full \cup {t}
    /\ mutex' = Free
    /\ Goto(t, "wait")
    /\ UNCHANGED <<sp, top, empty, i, popped>>

PopRelock(t) ==
    /\ t \notin full
    /\ Lock(t, "wait", "test")
    /\ UNCHANGED <<sp, top, full, empty, i, popped>>

PopSome(t) ==
    /\ pc[t] = "test" /\ mutex = t
    /\ top # 0
    /\ Goto(t, "take")
    /\ UNCHANGED <<sp, top, mutex, full, empty, i, popped>>

(* Mutant: the slot is not cleared. *)
PopTakeNoClear(t) ==
    /\ pc[t] = "take"
    /\ popped' = [popped EXCEPT ![t] = sp[top]]
    /\ top' = top - 1
    /\ SignalOne(empty, empty')
    /\ i' = [i EXCEPT ![t] = @ + 1]
    /\ mutex' = Free
    /\ Goto(t, "loop")
    /\ UNCHANGED <<sp, full>>

(* The slot read and cleared is the one above the last element; for a full *)
(* stack it lies after the end of the array.                               *)
PopTake(t) ==
    /\ pc[t] = "take"
    /\ popped' = [popped EXCEPT ![t] = sp[top]]
    /\ sp' = [sp EXCEPT ![top] = Null]
    /\ top' = top - 1
    /\ SignalOne(empty, empty')
    /\ i' = [i EXCEPT ![t] = @ + 1]
    /\ mutex' = Free
    /\ Goto(t, "loop")
    /\ UNCHANGED full

pop(t) ==
    PopLock(t) \/ PopWait(t) \/ PopRelock(t) \/ PopSome(t) \/ PopTake(t)

Finished ==
    /\ \A t \in Producers : pc[t] = "loop" /\ i[t] = PerProducer
    /\ \A t \in Consumers : pc[t] = "loop" /\ i[t] = PerConsumer

Terminating == Finished /\ UNCHANGED vars

Next ==
    \/ \E t \in Producers : push(t)
    \/ \E t \in Consumers : pop(t)
    \/ \E t \in Threads : SpuriousWakeup(t)
    \/ Terminating

(* A mutex that is released again and again is some day granted.           *)
Fairness ==
    /\ \A t \in Producers : SF_vars(push(t))
    /\ \A t \in Consumers : SF_vars(pop(t))

Spec == Init /\ [][Next]_vars /\ Fairness

-----------------------------------------------------------------------------
(* The types of the variables; who is inside the monitor holds its mutex.  *)
TypeOK ==
    /\ top \in 0 .. Size
    /\ sp \in [0 .. Size -> Elements \cup {Null, Junk}]
    /\ mutex \in Threads \cup {Free}
    /\ full \subseteq Consumers /\ empty \subseteq Producers
    /\ \A t \in Threads :
          /\ pc[t] \in {"loop", "test", "wait", "store", "take"}
          /\ pc[t] \in {"test", "store", "take"} <=> mutex = t
          /\ t \in full \cup empty => pc[t] = "wait"
    /\ i \in [Threads -> Nat]

contents == [k \in 1 .. top |-> sp[k - 1]]

(* What the last pop removed is still in the slot above the last element,  *)
(* until a push overwrites it or another pop hands it out and clears it.   *)
removed == IF sp[top] \in Elements THEN sp[top] ELSE Null

(* The array below top is a bounded stack: every push adds one element,    *)
(* every pop removes the last, none is ever overwritten, dropped, or       *)
(* pushed over the end, whichever threads are woken, signalled or not; and *)
(* what a pop returns is what the pop before it removed, or no element:    *)
(* no element is handed out while it is in the stack, or twice.            *)
Abstract == INSTANCE BoundedStack WITH stack <- contents
AbstractSpec == Abstract!Spec

(* With as many pops as pushes, all threads end (ex1.c joins both): no     *)
(* signal is lost, and the two condition variables do not leave producers  *)
(* and consumers waiting for each other.                                   *)
AllReturn == <>Finished
=============================================================================
