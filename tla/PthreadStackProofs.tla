------------------------ MODULE PthreadStackProofs ------------------------
(***************************************************************************)
(* Proofs about the monitor of PthreadStack, for any threads, any size and *)
(* any numbers of pushes and pops: its invariant, and that it implements   *)
(* the atomic stack of BoundedStack.                                       *)
(***************************************************************************)
EXTENDS PthreadStack, SequenceTheorems, TLAPS

Labels == {"loop", "test", "wait", "store", "take"}
Slots  == Elements \cup {Null, Junk}

(* A thread past its test of top knows that there is room, or an element:  *)
(* it has held the mutex since.  A producer in push has an element left.   *)
Inside ==
    /\ \A t \in Producers :
          /\ pc[t] \in {"loop", "test", "wait", "store"}
          /\ pc[t] # "loop" => i[t] < PerProducer
          /\ pc[t] = "store" => top # Size
    /\ \A t \in Consumers :
          /\ pc[t] \in {"loop", "test", "wait", "take"}
          /\ pc[t] = "take" => top # 0

StackInv ==
    /\ TypeOK
    /\ pc \in [Threads -> Labels]
    /\ Inside

(* Nobody is inside at first.                                              *)
LEMMA StackInit == Init => StackInv
BY ThreadsAssumption DEF Init, StackInv, TypeOK, Inside, Labels, Threads, Slots

(* Taking the mutex, to test top.                                          *)
LEMMA StackLock ==
  ASSUME StackInv, NEW t \in Threads, NEW from \in {"loop", "wait"},
         Lock(t, from, "test"), t \notin full \cup empty,
         t \in Producers => i[t] < PerProducer,
         UNCHANGED <<sp, top, full, empty, i>>
  PROVE  StackInv'
<1>1. /\ mutex = Free /\ mutex' = t /\ t # Free
      /\ pc' = [pc EXCEPT ![t] = "test"]
  BY ThreadsAssumption DEF Lock, Goto
<1>2. \A u \in Threads : pc[u] \notin {"test", "store", "take"}
  BY <1>1, ThreadsAssumption DEF StackInv, TypeOK
<1>3. \A u \in Threads :
         /\ pc'[u] = IF u = t THEN "test" ELSE pc[u]
         /\ pc'[u] \in Labels
         /\ pc'[u] \in {"test", "store", "take"} <=> mutex' = u
         /\ u \in full \cup empty => pc'[u] = "wait"
  BY <1>1, <1>2 DEF StackInv, TypeOK, Labels
<1>4. TypeOK'
  BY <1>1, <1>3 DEF StackInv, TypeOK, Labels
<1>5. Inside'
  BY <1>1, ThreadsAssumption DEF StackInv, Inside, Threads
<1> QED
  BY <1>1, <1>4, <1>5 DEF StackInv, Labels

(* Waiting: the mutex is released and the thread joins its waiters.        *)
LEMMA StackWait ==
  ASSUME StackInv, NEW t \in Threads,
         \/ t \in Producers /\ PushWait(t)
         \/ t \in Consumers /\ PopWait(t)
  PROVE  StackInv'
<1>1. /\ mutex = t /\ mutex' = Free /\ t # Free
      /\ pc[t] = "test" /\ pc' = [pc EXCEPT ![t] = "wait"]
      /\ UNCHANGED <<sp, top, i>>
  BY ThreadsAssumption DEF PushWait, PopWait, Goto
<1>2. /\ full' \subseteq Consumers /\ empty' \subseteq Producers
      /\ \A u \in full' \cup empty' : u = t \/ u \in full \cup empty
  BY DEF PushWait, PopWait, StackInv, TypeOK
<1>3. \A u \in Threads :
         /\ pc'[u] = IF u = t THEN "wait" ELSE pc[u]
         /\ pc'[u] \in Labels
         /\ pc'[u] \in {"test", "store", "take"} <=> mutex' = u
         /\ u \in full' \cup empty' => pc'[u] = "wait"
  BY <1>1, <1>2, ThreadsAssumption DEF StackInv, TypeOK, Labels
<1>4. TypeOK'
  BY <1>1, <1>2, <1>3 DEF StackInv, TypeOK, Labels
<1>5. Inside'
  BY <1>1 DEF StackInv, Inside, Threads
<1> QED
  BY <1>1, <1>4, <1>5 DEF StackInv, Labels

(* The test of top finds room or an element.                               *)
LEMMA StackTested ==
  ASSUME StackInv, NEW t \in Threads,
         \/ t \in Producers /\ PushRoom(t)
         \/ t \in Consumers /\ PopSome(t)
  PROVE  StackInv'
<1>1. /\ mutex = t /\ pc[t] = "test"
      /\ \/ t \in Producers /\ top # Size /\ pc' = [pc EXCEPT ![t] = "store"]
         \/ t \in Consumers /\ top # 0 /\ pc' = [pc EXCEPT ![t] = "take"]
      /\ UNCHANGED <<sp, top, mutex, full, empty, i>>
  BY DEF PushRoom, PopSome, Goto
<1>2. TypeOK'
  BY <1>1 DEF StackInv, TypeOK, Labels
<1>3. Inside'
  BY <1>1, ThreadsAssumption DEF StackInv, Inside, Threads
<1> QED
  BY <1>1, <1>2, <1>3 DEF StackInv, Labels

(* Leaving the monitor with top changed: nobody else is inside.            *)
LEMMA StackLeave ==
  ASSUME StackInv, NEW t \in Threads,
         mutex = t, mutex' = Free, pc' = [pc EXCEPT ![t] = "loop"],
         top' \in 0 .. Size, sp' \in [0 .. Size -> Slots],
         full' \subseteq full, empty' \subseteq empty,
         i' = [i EXCEPT ![t] = @ + 1]
  PROVE  StackInv'
<1>1. /\ t # Free /\ pc[t] \in {"test", "store", "take"}
      /\ i' \in [Threads -> Nat]
      /\ \A u \in Threads \ {t} : pc[u] \notin {"test", "store", "take"}
      /\ \A u \in Threads \ {t} : pc'[u] = pc[u] /\ i'[u] = i[u]
  BY ThreadsAssumption DEF StackInv, TypeOK
<1>2. \A u \in Threads :
         /\ pc'[u] = IF u = t THEN "loop" ELSE pc[u]
         /\ pc'[u] \in Labels
         /\ pc'[u] \in {"test", "store", "take"} <=> mutex' = u
         /\ u \in full' \cup empty' => pc'[u] = "wait"
  BY <1>1, ThreadsAssumption DEF StackInv, TypeOK, Labels
<1>3. TypeOK'
  BY <1>1, <1>2 DEF StackInv, TypeOK, Labels, Slots
<1>4. Inside'
  BY <1>1 DEF StackInv, Inside, Threads
<1> QED
  BY <1>1, <1>3, <1>4 DEF StackInv, Labels

(* The store of push: the element goes to a slot of the array.             *)
LEMMA StackStore ==
  ASSUME StackInv, NEW t \in Producers, PushStore(t)
  PROVE  /\ StackInv'
         /\ top < Size /\ top' = top + 1
         /\ \E e \in Elements : sp' = [sp EXCEPT ![top] = e]
<1>1. t \in Threads /\ pc[t] = "store" /\ mutex = t /\ i[t] \in Nat
  BY DEF PushStore, StackInv, TypeOK, Threads
<1>2. top \in 0 .. Size /\ top # Size /\ i[t] < PerProducer
  BY <1>1 DEF StackInv, Inside, TypeOK
<1>3. <<t, i[t] + 1>> \in Elements
  BY <1>1, <1>2, ThreadsAssumption DEF Elements
<1>4. top < Size /\ top' = top + 1 /\ sp' = [sp EXCEPT ![top] = <<t, i[t] + 1>>]
  BY <1>2, ThreadsAssumption DEF PushStore
<1>5. full' \subseteq full /\ empty' = empty
  BY DEF PushStore, SignalOne
<1>6. /\ top' \in 0 .. Size /\ sp' \in [0 .. Size -> Slots]
      /\ mutex' = Free /\ pc' = [pc EXCEPT ![t] = "loop"]
      /\ i' = [i EXCEPT ![t] = @ + 1]
  BY <1>2, <1>3, <1>4, ThreadsAssumption
     DEF PushStore, Goto, StackInv, TypeOK, Slots
<1> QED
  BY <1>1, <1>3, <1>4, <1>5, <1>6, StackLeave

(* The take of pop.                                                        *)
LEMMA StackTake ==
  ASSUME StackInv, NEW t \in Consumers, PopTake(t)
  PROVE  /\ StackInv'
         /\ top > 0 /\ top' = top - 1
         /\ sp' = [sp EXCEPT ![top] = Null]
<1>1. t \in Threads /\ pc[t] = "take" /\ mutex = t
  BY DEF PopTake, StackInv, TypeOK, Threads
<1>2. top \in 0 .. Size /\ top # 0
  BY <1>1 DEF StackInv, Inside, TypeOK
<1>3. top > 0 /\ top' = top - 1 /\ sp' = [sp EXCEPT ![top] = Null]
  BY <1>2, ThreadsAssumption DEF PopTake
<1>4. full' = full /\ empty' \subseteq empty
  BY DEF PopTake, SignalOne
<1>5. /\ top' \in 0 .. Size /\ sp' \in [0 .. Size -> Slots]
      /\ mutex' = Free /\ pc' = [pc EXCEPT ![t] = "loop"]
      /\ i' = [i EXCEPT ![t] = @ + 1]
  BY <1>2, <1>3, ThreadsAssumption DEF PopTake, Goto, StackInv, TypeOK, Slots
<1> QED
  BY <1>1, <1>3, <1>4, <1>5, StackLeave

(* Every step, and which steps change the array.                           *)
LEMMA StackStep ==
  ASSUME StackInv, [Next]_vars
  PROVE  /\ StackInv'
         /\ \/ UNCHANGED <<sp, top, popped>>
            \/ \E t \in Producers : PushStore(t)
            \/ \E t \in Consumers : PopTake(t)
<1>1. CASE UNCHANGED vars
  BY <1>1 DEF vars, StackInv, TypeOK, Inside
<1>2. ASSUME NEW t \in Producers, push(t)
      PROVE  StackInv' /\ (UNCHANGED <<sp, top, popped>> \/ PushStore(t))
  <2>1. t \in Threads
    BY DEF Threads
  <2>2. CASE PushLock(t) \/ PushRelock(t)
    <3>1. /\ t \notin full \cup empty /\ i[t] < PerProducer
          /\ UNCHANGED <<sp, top, full, empty, i, popped>>
          /\ Lock(t, "loop", "test") \/ Lock(t, "wait", "test")
      BY <2>1, <2>2, ThreadsAssumption
         DEF PushLock, PushRelock, Lock, StackInv, TypeOK, Inside
    <3> QED
      BY <2>1, <3>1, StackLock
  <2>3. CASE PushWait(t) \/ PushRoom(t)
    BY <2>1, <2>3, StackWait, StackTested DEF PushWait, PushRoom
  <2> QED
    BY <1>2, <2>2, <2>3, StackStore DEF push
<1>3. ASSUME NEW t \in Consumers, pop(t)
      PROVE  StackInv' /\ (UNCHANGED <<sp, top, popped>> \/ PopTake(t))
  <2>1. t \in Threads /\ t \notin Producers
    BY ThreadsAssumption DEF Threads
  <2>2. CASE PopLock(t) \/ PopRelock(t)
    <3>1. /\ t \notin full \cup empty
          /\ UNCHANGED <<sp, top, full, empty, i, popped>>
          /\ Lock(t, "loop", "test") \/ Lock(t, "wait", "test")
      BY <2>1, <2>2 DEF PopLock, PopRelock, Lock, StackInv, TypeOK
    <3> QED
      BY <2>1, <3>1, StackLock
  <2>3. CASE PopWait(t) \/ PopSome(t)
    BY <2>1, <2>3, StackWait, StackTested DEF PopWait, PopSome
  <2> QED
    BY <1>3, <2>2, <2>3, StackTake DEF pop
<1>4. ASSUME NEW t \in Threads, SpuriousWakeup(t)
      PROVE  StackInv' /\ UNCHANGED <<sp, top, popped>>
  BY <1>4 DEF SpuriousWakeup, StackInv, TypeOK, Inside
<1> QED
  BY <1>1, <1>2, <1>3, <1>4 DEF Next, Terminating, vars

(* Who is inside push or pop of stack.c holds the mutex, top stays within  *)
(* the array, and every slot holds an element or none.                     *)
THEOREM StackTypes == Spec => []TypeOK
<1>1. StackInv /\ [Next]_vars => StackInv'
  BY StackStep
<1>2. StackInv => TypeOK
  BY DEF StackInv
<1> QED
  BY <1>1, <1>2, StackInit, PTL DEF Spec

-----------------------------------------------------------------------------
(* The refinement.                                                         *)

(* The first n slots of an array are a sequence.                           *)
LEMMA SlotsSeq ==
  ASSUME NEW n \in 0 .. Size, NEW array \in [0 .. Size -> Slots]
  PROVE  LET s == [k \in 1 .. n |-> array[k - 1]]
         IN  /\ s \in Seq(Slots) /\ Len(s) = n
             /\ \A k \in 1 .. n : s[k] = array[k - 1]
<1> DEFINE s == [k \in 1 .. n |-> array[k - 1]]
<1>1. n \in Nat /\ \A k \in 1 .. n : k - 1 \in 0 .. Size
  BY ThreadsAssumption
<1>2. s \in [1 .. n -> Slots]
  BY <1>1
<1> QED
  BY <1>1, <1>2

(* The array below top is a sequence of as many slots.                     *)
LEMMA ContentsSeq ==
  StackInv => /\ contents \in Seq(Slots) /\ Len(contents) = top
              /\ \A k \in 1 .. top : contents[k] = sp[k - 1]
BY SlotsSeq DEF contents, StackInv, TypeOK, Slots

(* The same after a step.                                                  *)
LEMMA ContentsSeqNext ==
  StackInv' => /\ contents' \in Seq(Slots) /\ Len(contents') = top'
               /\ \A k \in 1 .. top' : contents'[k] = sp'[k - 1]
BY SlotsSeq DEF contents, StackInv, TypeOK, Slots

(* Below top every slot holds an element, above it none does; the slot at  *)
(* top may hold the one removed last.                                      *)
SlotsInv == \A k \in 0 .. Size : /\ k < top => sp[k] \in Elements
                                 /\ k > top => sp[k] \notin Elements

LEMMA SlotsStep ==
  ASSUME StackInv, SlotsInv, [Next]_vars
  PROVE  SlotsInv'
<1>0. top \in 0 .. Size /\ Size \in Nat /\ sp \in [0 .. Size -> Slots]
      /\ Null \notin Elements
  BY ThreadsAssumption DEF StackInv, TypeOK, Slots
<1>1. CASE UNCHANGED <<sp, top, popped>>
  BY <1>1 DEF SlotsInv
<1>2. ASSUME NEW t \in Producers, PushStore(t)
      PROVE  SlotsInv'
  <2>1. PICK e \in Elements : sp' = [sp EXCEPT ![top] = e]
    BY <1>2, StackStore
  <2>2. top < Size /\ top' = top + 1
    BY <1>2, StackStore
  <2> QED
    BY <1>0, <2>1, <2>2 DEF SlotsInv
<1>3. ASSUME NEW t \in Consumers, PopTake(t)
      PROVE  SlotsInv'
  <2>1. top > 0 /\ top' = top - 1 /\ sp' = [sp EXCEPT ![top] = Null]
    BY <1>3, StackTake
  <2> QED
    BY <1>0, <2>1 DEF SlotsInv
<1> QED
  BY <1>1, <1>2, <1>3, StackStep

(* The store of push appends.                                              *)
LEMMA StorePushes ==
  ASSUME StackInv, SlotsInv, NEW t \in Producers, PushStore(t)
  PROVE  \E e \in Elements : Abstract!Push(e)
<1>1. PICK e \in Elements : sp' = [sp EXCEPT ![top] = e]
  BY StackStore
<1>2. /\ StackInv' /\ top < Size /\ top' = top + 1
      /\ top \in Nat /\ Size \in Nat /\ sp \in [0 .. Size -> Slots]
  BY StackStore, ThreadsAssumption DEF StackInv, TypeOK, Slots
<1>3. /\ contents \in Seq(Slots) /\ Len(contents) = top
      /\ \A k \in 1 .. top : contents[k] = sp[k - 1]
  BY ContentsSeq
<1>4. /\ contents' \in Seq(Slots) /\ Len(contents') = top + 1
      /\ \A k \in 1 .. top + 1 : contents'[k] = sp'[k - 1]
  BY <1>2, ContentsSeqNext
<1>5. /\ Append(contents, e) \in Seq(Slots)
      /\ Len(Append(contents, e)) = top + 1
      /\ \A k \in 1 .. top : Append(contents, e)[k] = contents[k]
      /\ Append(contents, e)[top + 1] = e
  BY <1>2, <1>3, AppendProperties DEF Slots
<1>6. \A k \in 1 .. top + 1 : contents'[k] = Append(contents, e)[k]
  BY <1>1, <1>2, <1>3, <1>4, <1>5
<1>7. contents' = Append(contents, e)
  BY <1>4, <1>5, <1>6, SeqEqual
<1>8. removed' = Null
  <2>1. sp'[top + 1] = sp[top + 1] /\ sp[top + 1] \notin Elements
    BY <1>1, <1>2 DEF SlotsInv
  <2> QED
    BY <1>2, <2>1 DEF removed
<1>9. popped' = popped
  BY DEF PushStore
<1> QED
  BY <1>2, <1>3, <1>7, <1>8, <1>9 DEF Abstract!Push

(* The take of pop removes the last, and returns the one removed before.   *)
LEMMA TakePops ==
  ASSUME StackInv, SlotsInv, NEW t \in Consumers, PopTake(t)
  PROVE  Abstract!Pop(t)
<1>1. /\ StackInv' /\ top > 0 /\ top' = top - 1
      /\ sp' = [sp EXCEPT ![top] = Null]
      /\ top \in 0 .. Size /\ Size \in Nat /\ sp \in [0 .. Size -> Slots]
  BY StackTake, ThreadsAssumption DEF StackInv, TypeOK, Slots
<1>2. /\ contents \in Seq(Slots) /\ Len(contents) = top
      /\ \A k \in 1 .. top : contents[k] = sp[k - 1]
  BY ContentsSeq
<1>3. /\ contents' \in Seq(Slots) /\ Len(contents') = top - 1
      /\ \A k \in 1 .. top - 1 : contents'[k] = sp'[k - 1]
  BY <1>1, ContentsSeqNext
<1> DEFINE rest == SubSeq(contents, 1, Len(contents) - 1)
<1>4. /\ rest \in Seq(Slots) /\ Len(rest) = top - 1
      /\ \A k \in 1 .. top - 1 : rest[k] = contents[k]
  BY <1>1, <1>2, SubSeqProperties
<1>5. \A k \in 1 .. top - 1 : contents'[k] = rest[k]
  BY <1>1, <1>2, <1>3, <1>4
<1>6. contents' = rest
  BY <1>3, <1>4, <1>5, SeqEqual
<1>7. removed' = contents[Len(contents)]
  <2>1. contents[Len(contents)] = sp[top - 1] /\ sp[top - 1] \in Elements
    BY <1>1, <1>2 DEF SlotsInv
  <2>2. sp'[top - 1] = sp[top - 1]
    BY <1>1
  <2> QED
    BY <1>1, <2>1, <2>2 DEF removed
<1>8. \E r \in IF removed = Null THEN {Null, Junk} ELSE {removed} :
         popped' = [popped EXCEPT ![t] = r]
  <2>1. popped' = [popped EXCEPT ![t] = sp[top]]
    BY DEF PopTake
  <2>2. sp[top] \in Slots /\ Null \notin Elements
    BY <1>1, ThreadsAssumption
  <2>3. CASE sp[top] \in Elements
    BY <2>1, <2>2, <2>3 DEF removed
  <2>4. CASE sp[top] \notin Elements
    BY <2>1, <2>2, <2>4 DEF removed, Slots
  <2> QED
    BY <2>3, <2>4
<1>9. contents # <<>>
  BY <1>1, <1>2
<1> QED
  BY <1>6, <1>7, <1>8, <1>9 DEF Abstract!Pop

(* push and pop of stack.c implement the atomic operations of BoundedStack,*)
(* results included: each takes effect at one instant, at the end of the   *)
(* array, whatever wakes the threads and in whatever order they take the   *)
(* mutex, and a pop returns what the pop before it removed, or no element. *)
THEOREM StackRefines == Spec => AbstractSpec
<1>1. Init => Abstract!Init /\ SlotsInv
  <2> SUFFICES ASSUME Init PROVE Abstract!Init /\ SlotsInv
    OBVIOUS
  <2>1. contents \in Seq(Slots) /\ Len(contents) = 0
    BY StackInit, ContentsSeq DEF Init
  <2>2. /\ top = 0 /\ \A k \in 0 .. Size : sp[k] = Junk
        /\ Size \in Nat /\ Junk \notin Elements
    BY ThreadsAssumption DEF Init
  <2>3. removed = Null
    BY <2>2 DEF removed
  <2>4. SlotsInv
    BY <2>2 DEF SlotsInv
  <2> QED
    BY <2>1, <2>3, <2>4 DEF Init, Abstract!Init
<1>2. StackInv /\ SlotsInv /\ [Next]_vars
        => StackInv' /\ SlotsInv' /\ [Abstract!Next]_<<contents, removed, popped>>
  <2> SUFFICES ASSUME StackInv, SlotsInv, [Next]_vars
               PROVE  [Abstract!Next]_<<contents, removed, popped>>
    BY StackStep, SlotsStep
  <2>1. CASE UNCHANGED <<sp, top, popped>>
    BY <2>1 DEF contents, removed
  <2>2. ASSUME NEW t \in Producers, PushStore(t)
        PROVE  Abstract!Next
    BY <2>2, StorePushes DEF Abstract!Next
  <2>3. ASSUME NEW t \in Consumers, PopTake(t)
        PROVE  Abstract!Next
    BY <2>3, TakePops DEF Abstract!Next
  <2> QED
    BY <2>1, <2>2, <2>3, StackStep
<1> QED
  BY <1>1, <1>2, StackInit, PTL DEF Spec, AbstractSpec, Abstract!Spec, Abstract!vars
=============================================================================
