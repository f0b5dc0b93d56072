----------------------- MODULE ReadersWritersProofs -----------------------
(***************************************************************************)
(* Proofs about ReadersWriters for any finite set of readers, any set of   *)
(* writers and any number of rounds.                                       *)
(***************************************************************************)
EXTENDS ReadersWriters, FiniteSetTheorems, TLAPS

(* The counters differ exactly while a writer is between its two           *)
(* increments ...                                                          *)
CountersEqual ==
    IF \E w \in Writers : pc[w] = "inc_n" THEN m = n + 1 ELSE m = n

(* ... and a reader half way through holds a value of m that is still m.   *)
HalfRead == \A t \in Readers : pc[t] = "read_n" => m1[t] = m

IInv ==
    /\ TypeOK
    /\ CountExact
    /\ WriterExcludesReaders
    /\ CountersEqual
    /\ HalfRead
    /\ ReadsAreConsistent

-----------------------------------------------------------------------------
(* The readers that are counted are finitely many.                         *)
LEMMA CountedFinite == IsFiniteSet(Counted)
  BY FS_Subset, ReadersWritersAssumption DEF Counted

(* readers is 0 only when no reader is counted in.                         *)
LEMMA NobodyCounted ==
  ASSUME CountExact, readers = 0
  PROVE  Counted = {}
  BY CountedFinite, FS_EmptySet DEF CountExact

(* The mutex has one holder: two threads between lock and unlock are one.  *)
LEMMA OneHolder ==
  ASSUME TypeOK, NEW t \in Threads, NEW u \in Threads,
         pc[t] \in HolderLabels, pc[u] \in HolderLabels
  PROVE  t = u
  BY DEF TypeOK

(* A step that moves t and leaves readers alone, and neither counts t in   *)
(* nor out, keeps the count exact.                                         *)
LEMMA CountKept ==
  ASSUME CountExact, Counted' = Counted, readers' = readers
  PROVE  CountExact'
  BY DEF CountExact

(* All of it holds initially.                                              *)
LEMMA InitIInv == Init => IInv
<1> SUFFICES ASSUME Init PROVE IInv
  OBVIOUS
<1> USE ReadersWritersAssumption DEF Init, Threads
<1>1. TypeOK
  BY DEF TypeOK, ReaderLabels, WriterLabels, HolderLabels
<1>2. Counted = {}
  BY DEF Counted
<1>3. CountExact
  BY <1>2, FS_EmptySet DEF CountExact
<1>4. WriterExcludesReaders /\ CountersEqual /\ HalfRead /\ ReadsAreConsistent
  BY DEF WriterExcludesReaders, CountersEqual, HalfRead, ReadsAreConsistent
<1> QED
  BY <1>1, <1>3, <1>4 DEF IInv

(* Every step of a reader preserves it.                                    *)
LEMMA ReaderIInv ==
  ASSUME IInv, NEW t \in Readers, reader(t)
  PROVE  IInv'
<1> USE ReadersWritersAssumption DEF IInv, Threads, TypeOK, Goto, Lock, Unlock,
        ReaderLabels, WriterLabels, HolderLabels
<1>1. CASE ReaderLock(t)
  <2>1. TypeOK'
    BY <1>1 DEF ReaderLock
  <2>2. Counted' = Counted
    BY <1>1 DEF ReaderLock, Counted
  <2>3. CountExact'
    BY <1>1, <2>2, CountKept DEF ReaderLock
  <2>4. WriterExcludesReaders' /\ CountersEqual'
    BY <1>1, <2>2 DEF ReaderLock, WriterExcludesReaders, CountersEqual
  <2>5. HalfRead' /\ ReadsAreConsistent'
    BY <1>1 DEF ReaderLock, HalfRead, ReadsAreConsistent
  <2> QED BY <2>1, <2>3, <2>4, <2>5
<1>2. CASE ReaderEnter(t)
  <2>1. TypeOK'
    BY <1>2 DEF ReaderEnter
  <2>2. Counted' = Counted \cup {t} /\ t \notin Counted
    BY <1>2 DEF ReaderEnter, Counted
  <2>3. CountExact'
    BY <1>2, <2>2, CountedFinite, FS_AddElement DEF ReaderEnter, CountExact
  <2>4. \A w \in Writers : pc'[w] \notin {"inc_m", "inc_n"}
    BY <1>2, OneHolder DEF ReaderEnter
  <2>5. WriterExcludesReaders' /\ CountersEqual'
    BY <1>2, <2>4 DEF ReaderEnter, WriterExcludesReaders, CountersEqual
  <2>6. HalfRead' /\ ReadsAreConsistent'
    BY <1>2 DEF ReaderEnter, HalfRead, ReadsAreConsistent
  <2> QED BY <2>1, <2>3, <2>5, <2>6
<1>3. CASE ReadM(t)
  <2>1. TypeOK'
    BY <1>3 DEF ReadM
  <2>2. Counted' = Counted
    BY <1>3 DEF ReadM, Counted
  <2>3. CountExact'
    BY <1>3, <2>2, CountKept DEF ReadM
  <2>4. WriterExcludesReaders' /\ CountersEqual'
    BY <1>3, <2>2 DEF ReadM, WriterExcludesReaders, CountersEqual
  <2>5. HalfRead' /\ ReadsAreConsistent'
    BY <1>3 DEF ReadM, HalfRead, ReadsAreConsistent
  <2> QED BY <2>1, <2>3, <2>4, <2>5
<1>4. CASE ReadN(t)
  <2>1. TypeOK'
    BY <1>4 DEF ReadN
  <2>2. Counted' = Counted
    BY <1>4 DEF ReadN, Counted
  <2>3. CountExact'
    BY <1>4, <2>2, CountKept DEF ReadN
  <2>4. WriterExcludesReaders' /\ CountersEqual'
    BY <1>4, <2>2 DEF ReadN, WriterExcludesReaders, CountersEqual
  <2>5. m = n
    <3>1. t \in Counted
      BY <1>4 DEF ReadN, Counted
    <3> QED BY <3>1 DEF WriterExcludesReaders, CountersEqual
  <2>6. HalfRead' /\ ReadsAreConsistent'
    BY <1>4, <2>5 DEF ReadN, HalfRead, ReadsAreConsistent
  <2> QED BY <2>1, <2>3, <2>4, <2>6
<1>5. CASE ReaderRelock(t)
  <2>1. TypeOK'
    BY <1>5 DEF ReaderRelock
  <2>2. Counted' = Counted
    BY <1>5 DEF ReaderRelock, Counted
  <2>3. CountExact'
    BY <1>5, <2>2, CountKept DEF ReaderRelock
  <2>4. WriterExcludesReaders' /\ CountersEqual'
    BY <1>5, <2>2 DEF ReaderRelock, WriterExcludesReaders, CountersEqual
  <2>5. HalfRead' /\ ReadsAreConsistent'
    BY <1>5 DEF ReaderRelock, HalfRead, ReadsAreConsistent
  <2> QED BY <2>1, <2>3, <2>4, <2>5
<1>6. CASE ReaderLeave(t)
  <2>1. Counted' = Counted \ {t} /\ t \in Counted
    BY <1>6 DEF ReaderLeave, Counted
  <2>2. /\ Cardinality(Counted') = Cardinality(Counted) - 1
        /\ Cardinality(Counted') \in Nat
    BY <2>1, CountedFinite, FS_RemoveElement, FS_CardinalityType
  <2>3. CountExact' /\ readers' \in Nat
    BY <1>6, <2>2 DEF ReaderLeave, CountExact
  <2>4. reading' \subseteq Writers
    BY <1>6 DEF ReaderLeave
  <2>5. TypeOK'
    BY <1>6, <2>3, <2>4 DEF ReaderLeave
  <2>6. WriterExcludesReaders' /\ CountersEqual'
    BY <1>6, <2>1 DEF ReaderLeave, WriterExcludesReaders, CountersEqual
  <2>7. HalfRead' /\ ReadsAreConsistent'
    BY <1>6 DEF ReaderLeave, HalfRead, ReadsAreConsistent
  <2> QED BY <2>3, <2>5, <2>6, <2>7
<1> QED
  BY <1>1, <1>2, <1>3, <1>4, <1>5, <1>6 DEF reader

(* Every step of a writer preserves it.                                    *)
LEMMA WriterIInv ==
  ASSUME IInv, NEW t \in Writers, writer(t) \/ SpuriousWakeup(t)
  PROVE  IInv'
<1> USE ReadersWritersAssumption DEF IInv, Threads, TypeOK, Goto, Lock, Unlock,
        ReaderLabels, WriterLabels, HolderLabels
<1>1. CASE WriterLock(t) \/ WriterWait(t) \/ WriterRelock(t) \/ SpuriousWakeup(t)
  <2> USE <1>1 DEF WriterLock, WriterWait, WriterRelock, SpuriousWakeup
  <2>1. TypeOK'
    OBVIOUS
  <2>2. Counted' = Counted
    BY DEF Counted
  <2>3. CountExact'
    BY <2>2, CountKept
  <2>4. WriterExcludesReaders' /\ CountersEqual'
    BY <2>2 DEF WriterExcludesReaders, CountersEqual
  <2>5. HalfRead' /\ ReadsAreConsistent'
    BY DEF HalfRead, ReadsAreConsistent
  <2> QED BY <2>1, <2>3, <2>4, <2>5
<1>2. CASE WriterAlone(t)
  <2>1. TypeOK'
    BY <1>2 DEF WriterAlone
  <2>2. Counted' = Counted /\ Counted = {}
    BY <1>2, NobodyCounted DEF WriterAlone, Counted
  <2>3. CountExact'
    BY <1>2, <2>2, CountKept DEF WriterAlone
  <2>4. WriterExcludesReaders' /\ CountersEqual'
    BY <1>2, <2>2 DEF WriterAlone, WriterExcludesReaders, CountersEqual
  <2>5. HalfRead' /\ ReadsAreConsistent'
    BY <1>2 DEF WriterAlone, HalfRead, ReadsAreConsistent
  <2> QED BY <2>1, <2>3, <2>4, <2>5
<1>3. CASE IncM(t)
  <2>1. TypeOK'
    BY <1>3 DEF IncM
  <2>2. Counted' = Counted /\ Counted = {}
    BY <1>3 DEF IncM, Counted, WriterExcludesReaders
  <2>3. CountExact'
    BY <1>3, <2>2, CountKept DEF IncM
  <2>4. WriterExcludesReaders'
    BY <2>2 DEF WriterExcludesReaders
  <2>5. \A w \in Writers : pc[w] # "inc_n"
    BY <1>3, OneHolder DEF IncM
  <2>6. CountersEqual'
    BY <1>3, <2>5 DEF IncM, CountersEqual
  <2>7. HalfRead' /\ ReadsAreConsistent'
    BY <1>3, <2>2 DEF IncM, HalfRead, ReadsAreConsistent, Counted
  <2> QED BY <2>1, <2>3, <2>4, <2>6, <2>7
<1>4. CASE IncN(t)
  <2>1. TypeOK'
    BY <1>4 DEF IncN
  <2>2. Counted' = Counted
    BY <1>4 DEF IncN, Counted
  <2>3. CountExact'
    BY <1>4, <2>2, CountKept DEF IncN
  <2>4. WriterExcludesReaders'
    BY <1>4, <2>2 DEF IncN, WriterExcludesReaders
  <2>5. \A w \in Writers : pc'[w] # "inc_n"
    BY <1>4, OneHolder DEF IncN
  <2>6. CountersEqual'
    BY <1>4, <2>5 DEF IncN, CountersEqual
  <2>7. HalfRead' /\ ReadsAreConsistent'
    BY <1>4 DEF IncN, HalfRead, ReadsAreConsistent
  <2> QED BY <2>1, <2>3, <2>4, <2>6, <2>7
<1> QED
  BY <1>1, <1>2, <1>3, <1>4 DEF writer

(* A step that changes nothing preserves it.                               *)
LEMMA StutterIInv == IInv /\ UNCHANGED vars => IInv'
  BY DEF IInv, vars, TypeOK, CountExact, Counted, WriterExcludesReaders,
         CountersEqual, HalfRead, ReadsAreConsistent

(* The inductive invariant of the program.                                 *)
THEOREM Invariant == Spec => []IInv
<1>1. IInv /\ [Next]_vars => IInv'
  BY ReaderIInv, WriterIInv, StutterIInv DEF Next, Terminating
<1> QED
  BY <1>1, InitIInv, PTL DEF Spec

(* The mutex of ex2.c is held between every lock and its unlock, and by    *)
(* one thread.                                                             *)
THEOREM TypeCorrect == Spec => []TypeOK
  BY Invariant, PTL DEF IInv

(* The variable readers of ex2.c is the number of its active readers.      *)
THEOREM ReadersCounted == Spec => []CountExact
  BY Invariant, PTL DEF IInv

(* No writer of ex2.c is between test and unlock while a reader is active. *)
THEOREM WritersAlone == Spec => []WriterExcludesReaders
  BY Invariant, PTL DEF IInv

(* No reader of ex2.c ever prints a difference other than 0, for any       *)
(* number of readers, writers and rounds.                                  *)
THEOREM ReadersConsistent == Spec => []ReadsAreConsistent
  BY Invariant, PTL DEF IInv
=============================================================================
