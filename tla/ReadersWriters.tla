-------------------------- MODULE ReadersWriters --------------------------
(***************************************************************************)
(* Problem_Set_6/ex2.c: writers keep two counters equal, readers look at   *)
(* both.  A reader counts itself in and out under the mutex and reads      *)
(* outside it; a writer waits, holding the mutex, until no reader is       *)
(* counted.                                                                *)
(***************************************************************************)
EXTENDS Integers, FiniteSets

CONSTANTS
    Readers, Writers,
    Free,          \* no thread holds the mutex
    Rounds         \* the iterations of each thread's loop

Threads == Readers \cup Writers

ASSUME ReadersWritersAssumption ==
    /\ Readers \cap Writers = {}
    /\ IsFiniteSet(Readers)
    /\ Free \notin Threads
    /\ Rounds \in Nat

VARIABLES
    m, n,       \* the two counters
    readers,    \* how many readers are counted in
    mutex,      \* the holder of mutex, or Free
    reading,    \* the writers that wait on the condition variable reading
    pc,         \* where each thread is
    i,          \* the loop counter of each thread
    m1, n1      \* the locals _m and _n of the readers

vars == <<m, n, readers, mutex, reading, pc, i, m1, n1>>

Init ==
    /\ m = 0 /\ n = 0 /\ readers = 0
    /\ mutex = Free
    /\ reading = {}
    /\ pc = [t \in Threads |-> "loop"]
    /\ i = [t \in Threads |-> 0]
    /\ m1 = [t \in Readers |-> 0]
    /\ n1 = [t \in Readers |-> 0]

Goto(t, to) == pc' = [pc EXCEPT ![t] = to]

Lock(t, from, to) ==
    /\ pc[t] = from
    /\ mutex = Free
    /\ mutex' = t
    /\ Goto(t, to)

Unlock(t, to) == mutex' = Free /\ Goto(t, to)

-----------------------------------------------------------------------------
(* reader                                                                  *)

ReaderLock(t) ==
    /\ i[t] < Rounds
    /\ Lock(t, "loop", "enter")
    /\ UNCHANGED <<m, n, readers, reading, i, m1, n1>>

(* Mutant: the reader does not count itself in. *)
ReaderEnterUncounted(t) ==
    /\ pc[t] = "enter"
    /\ readers' = readers
    /\ Unlock(t, "read_m")
    /\ UNCHANGED <<m, n, reading, i, m1, n1>>

ReaderEnter(t) ==
    /\ pc[t] = "enter"
    /\ readers' = readers + 1
    /\ Unlock(t, "read_m")
    /\ UNCHANGED <<m, n, reading, i, m1, n1>>

ReadM(t) ==
    /\ pc[t] = "read_m"
    /\ m1' = [m1 EXCEPT ![t] = m]
    /\ Goto(t, "read_n")
    /\ UNCHANGED <<m, n, readers, mutex, reading, i, n1>>

ReadN(t) ==
    /\ pc[t] = "read_n"
    /\ n1' = [n1 EXCEPT ![t] = n]
    /\ Goto(t, "relock")
    /\ UNCHANGED <<m, n, readers, mutex, reading, i, m1>>

ReaderRelock(t) ==
    /\ Lock(t, "relock", "leave")
    /\ UNCHANGED <<m, n, readers, reading, i, m1, n1>>

(* Mutant: the last reader does not signal. *)
ReaderLeaveSilently(t) ==
    /\ pc[t] = "leave"
    /\ readers' = readers - 1
    /\ reading' = reading
    /\ i' = [i EXCEPT ![t] = @ + 1]
    /\ Unlock(t, "loop")
    /\ UNCHANGED <<m, n, m1, n1>>

(* The last reader to leave signals one writer, if one waits.              *)
ReaderLeave(t) ==
    /\ pc[t] = "leave"
    /\ readers' = readers - 1
    /\ IF readers = 1 /\ reading # {}
       THEN \E w \in reading : reading' = reading \ {w}
       ELSE reading' = reading
    /\ i' = [i EXCEPT ![t] = @ + 1]
    /\ Unlock(t, "loop")
    /\ UNCHANGED <<m, n, m1, n1>>

reader(t) ==
    \/ ReaderLock(t) \/ ReaderEnter(t) \/ ReadM(t) \/ ReadN(t)
    \/ ReaderRelock(t) \/ ReaderLeave(t)

-----------------------------------------------------------------------------
(* writer                                                                  *)

WriterLock(t) ==
    /\ i[t] < Rounds
    /\ Lock(t, "loop", "test")
    /\ UNCHANGED <<m, n, readers, reading, i, m1, n1>>

(* Mutant: the wait does not release the mutex. *)
WriterWaitHolding(t) ==
    /\ pc[t] = "test"
    /\ readers # 0
    /\ reading' = reading \cup {t}
    /\ Goto(t, "wait")
    /\ UNCHANGED <<m, n, readers, mutex, i, m1, n1>>

WriterWait(t) ==
    /\ pc[t] = "test"
    /\ readers # 0
    /\ reading' = reading \cup {t}
    /\ Unlock(t, "wait")
    /\ UNCHANGED <<m, n, readers, i, m1, n1>>

(* Mutant: if, not while: a woken writer does not look at readers again. *)
WriterRelockNoTest(t) ==
    /\ t \notin reading
    /\ Lock(t, "wait", "inc_m")
    /\ UNCHANGED <<m, n, readers, reading, i, m1, n1>>

WriterRelock(t) ==
    /\ t \notin reading
    /\ Lock(t, "wait", "test")
    /\ UNCHANGED <<m, n, readers, reading, i, m1, n1>>

WriterAlone(t) ==
    /\ pc[t] = "test"
    /\ readers = 0
    /\ Goto(t, "inc_m")
    /\ UNCHANGED <<m, n, readers, mutex, reading, i, m1, n1>>

IncM(t) ==
    /\ pc[t] = "inc_m"
    /\ m' = m + 1
    /\ Goto(t, "inc_n")
    /\ UNCHANGED <<n, readers, mutex, reading, i, m1, n1>>

IncN(t) ==
    /\ pc[t] = "inc_n"
    /\ n' = n + 1
    /\ i' = [i EXCEPT ![t] = @ + 1]
    /\ Unlock(t, "loop")
    /\ UNCHANGED <<m, readers, reading, m1, n1>>

(* POSIX allows a wait to return though nobody signalled.                  *)
SpuriousWakeup(t) ==
    /\ t \in reading
    /\ reading' = reading \ {t}
    /\ UNCHANGED <<m, n, readers, mutex, pc, i, m1, n1>>

writer(t) ==
    \/ WriterLock(t) \/ WriterWait(t) \/ WriterRelock(t) \/ WriterAlone(t)
    \/ IncM(t) \/ IncN(t)

Ended(t) == pc[t] = "loop" /\ i[t] = Rounds

Terminating == (\A t \in Threads : Ended(t)) /\ UNCHANGED vars

Next ==
    \/ \E t \in Readers : reader(t)
    \/ \E t \in Writers : writer(t) \/ SpuriousWakeup(t)
    \/ Terminating

(* A mutex that is released again and again is some day granted.           *)
Fairness ==
    /\ \A t \in Readers : SF_vars(reader(t))
    /\ \A t \in Writers : SF_vars(writer(t))

Spec == Init /\ [][Next]_vars /\ Fairness

-----------------------------------------------------------------------------
ReaderLabels == {"loop", "enter", "read_m", "read_n", "relock", "leave"}
WriterLabels == {"loop", "test", "wait", "inc_m", "inc_n"}
HolderLabels == {"enter", "leave", "test", "inc_m", "inc_n"}

(* The types of the variables; a thread is between lock and unlock exactly *)
(* when it holds the mutex.                                                *)
TypeOK ==
    /\ m \in Nat /\ n \in Nat /\ readers \in Nat
    /\ mutex \in Threads \cup {Free}
    /\ reading \subseteq Writers
    /\ pc \in [Threads -> ReaderLabels \cup WriterLabels]
    /\ \A t \in Readers : pc[t] \in ReaderLabels
    /\ \A t \in Writers : pc[t] \in WriterLabels
    /\ \A t \in Threads : pc[t] \in HolderLabels <=> mutex = t
    /\ i \in [Threads -> Nat]
    /\ m1 \in [Readers -> Nat] /\ n1 \in [Readers -> Nat]

(* The readers that readers should count.                                  *)
Counted == {t \in Readers : pc[t] \in {"read_m", "read_n", "relock", "leave"}}

(* readers is the number of readers between their two critical sections.   *)
CountExact == readers = Cardinality(Counted)

(* A reader that has read both counters has read equal values, "diff: 0",  *)
(* though it reads them outside the mutex, one after the other, while      *)
(* writers and other readers come and go.                                  *)
ReadsAreConsistent ==
    \A t \in Readers : pc[t] \in {"relock", "leave"} => m1[t] = n1[t]

(* No writer changes the counters while a reader is counted in.            *)
WriterExcludesReaders ==
    \A w \in Writers : pc[w] \in {"inc_m", "inc_n"} => Counted = {}

(* The readers always end: writers never keep them out for good.           *)
ReadersEnd == \A t \in Readers : <>[]Ended(t)

(* main joins both writers, then prints "Final" (ex2.c:67-69).             *)
ProgramEnds == <>(\A t \in Threads : Ended(t))
=============================================================================
