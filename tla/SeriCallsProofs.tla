-------------------------- MODULE SeriCallsProofs --------------------------
(***************************************************************************)
(* Proofs about the system calls of seri.c, for any processes, queue size, *)
(* counts and bounds, on the invariant of SeriProofs: the reads, the mutex *)
(* and reception of SeriDriver, then poll and ioctl beside them, which are *)
(* those of SeriCalls.  The proofs about reads hold for any signals: the   *)
(* CPU, not the mutex, protects what a reader does between two sleeps.     *)
(***************************************************************************)
EXTENDS SeriCalls, SeriProofs

AtWork == {"rd_check", "rd_wait", "rd_get"}   \* a reader that has the CPU

(* A reader that has left the loop finds its count bytes: only the handler *)
(* runs before its kfifo_get, and adds to them, waking all that sleep.     *)
GetReady ==
    \A p \in Readers : pc[p] = "rd_get" =>
        /\ count[p] <= Len(rxfifo)
        /\ rxwq = {} \/ count[p] = Len(rxfifo)

ReadTyped ==
    /\ Len(rxfifo) \in Nat /\ Len(rxfifo) <= FifoSize
    /\ rxfifo \in Seq(Int)
    /\ DOMAIN ret = Procs /\ DOMAIN done = Procs
    /\ \A p \in Readers : pc[p] # "user" => count[p] \in ReadSizes

ReadInv ==
    /\ ReadTyped
    /\ \A p \in Readers : pc[p] \in AtWork => cpu = p
    /\ GetReady
    /\ ReadExact
    /\ 0 \notin ReadSizes => NoLostWakeup

(* Nobody reads yet and the queue is empty.                                *)
LEMMA ReadInit == Init => ReadInv
<1> SUFFICES ASSUME Init PROVE ReadInv
  OBVIOUS
<1>1. rxfifo = <<>> /\ \A p \in Readers : pc[p] = "user" /\ ret[p] = "none"
  BY DEF Init, Procs
<1> QED
  BY <1>1, SizesAssumption
     DEF ReadInv, ReadTyped, AtWork, GetReady, ReadExact, NoLostWakeup, Init

(* A step that leaves alone what ReadInv is about.                         *)
LEMMA ReadAside ==
  ASSUME ReadInv, UNCHANGED <<rxfifo, rxwq, pc, cpu, count, done, ret>>
  PROVE  ReadInv'
BY DEF ReadInv, ReadTyped, GetReady, ReadExact, NoLostWakeup

(* The handler: what it adds to rxfifo, it adds behind what is there.      *)
LEMMA ReadInterrupt ==
  ASSUME ReadInv, TxInv, seri_interrupt
  PROVE  ReadInv'
<1>1. CASE IrqNone \/ IrqLineStatus \/ IrqTransmit
  BY <1>1, ReadAside DEF IrqNone, IrqLineStatus, IrqTransmit, rxVars, callVars
<1>2. CASE IrqReceive
  <2> DEFINE b == ByteAtRX(uart)
             room == KfifoRoom(rxfifo, <<b>>, FifoSize)
  <2>1. b \in Int
    BY DEF ByteAtRX, TxInv, ChipTyped, Uart
  <2>2. /\ rxfifo' = KfifoPut(rxfifo, <<b>>, FifoSize)
        /\ rxwq' = {}
        /\ UNCHANGED <<pc, cpu, count, done, ret>>
    BY <1>2 DEF IrqReceive, WakeReaders, callVars
  <2>3. <<b>> \in Seq(Int) /\ Len(<<b>>) = 1
    BY <2>1
  <2>4. room \in 0 .. 1 /\ Len(rxfifo) + room <= FifoSize
    BY <2>3, SizesAssumption DEF KfifoRoom, Least, ReadInv, ReadTyped
  <2>5. SubSeq(<<b>>, 1, room) \in Seq(Int) /\ Len(SubSeq(<<b>>, 1, room)) = room
    BY <2>3, <2>4, SubSeqProperties
  <2>6. /\ rxfifo' \in Seq(Int)
        /\ Len(rxfifo') = Len(rxfifo) + room
    BY <2>2, <2>5, ConcatProperties DEF KfifoPut, ReadInv, ReadTyped
  <2>7. ReadTyped'
    BY <2>2, <2>4, <2>6 DEF ReadInv, ReadTyped
  <2>8. GetReady' /\ NoLostWakeup'
    <3>1. \A p \in Readers : count[p] \in Nat
      BY DEF TxInv, CallTyped, Procs
    <3> QED
      BY <2>2, <2>4, <2>6, <3>1
         DEF ReadInv, ReadTyped, GetReady, NoLostWakeup
  <2> QED
    BY <2>2, <2>7, <2>8 DEF ReadInv, ReadExact
<1> QED
  BY <1>1, <1>2 DEF seri_interrupt

(* A step of a process that is not a reader: no reader has the CPU.        *)
LEMMA ReadNotReader ==
  ASSUME ReadInv, TxInv, NEW p \in Procs, p \notin Readers,
         cpu \in {p, Nobody},
         \E to : pc' = [pc EXCEPT ![p] = to],
         UNCHANGED <<rxfifo, rxwq>>,
         DOMAIN ret' = Procs, DOMAIN done' = Procs,
         \A q \in Readers :
            count'[q] = count[q] /\ ret'[q] = ret[q] /\ done'[q] = done[q]
  PROVE  ReadInv'
<1>1. \A q \in Readers : cpu # q /\ pc'[q] = pc[q]
  BY ProcsAssumption DEF TxInv, CallTyped, Procs
<1>2. ReadTyped'
  BY <1>1 DEF ReadInv, ReadTyped
<1>3. \A q \in Readers : pc'[q] \notin AtWork
  BY <1>1 DEF ReadInv
<1>4. GetReady' /\ \A q \in Readers : pc'[q] \in AtWork => cpu' = q
  BY <1>3 DEF GetReady, AtWork
<1>5. ReadExact' /\ (0 \notin ReadSizes => NoLostWakeup')
  BY <1>1 DEF ReadInv, ReadExact, NoLostWakeup
<1> QED
  BY <1>2, <1>4, <1>5 DEF ReadInv

(* A writer does not touch what readers see.                               *)
LEMMA ReadWriter ==
  ASSUME ReadInv, TxInv, NEW p \in Writers, WriteEnter(p) \/ seri_write(p)
  PROVE  ReadInv'
<1>0. p \in Procs /\ p \notin Readers
  BY ProcsAssumption DEF Procs
<1>1. /\ cpu \in {p, Nobody}
      /\ UNCHANGED <<rxfifo, rxwq>>
      /\ \E to : pc' = [pc EXCEPT ![p] = to]
  BY DEF WriteEnter, seri_write, WriteDown, WriteDownInterrupted, WritePut,
         WriteKick, WriteQueued, WriteGet, WriteOut, WriteBegin, Down,
         DownGranted, DownInterrupted, Goto, Sleep, Return, Runs, Awake, rxVars
<1>2. /\ count' = count \/ \E n : count' = [count EXCEPT ![p] = n]
      /\ ret' = ret \/ \E r : ret' = [ret EXCEPT ![p] = r]
      /\ done' = done \/ \E n : done' = [done EXCEPT ![p] = n]
  BY DEF WriteEnter, seri_write, WriteDown, WriteDownInterrupted, WritePut,
         WriteKick, WriteQueued, WriteGet, WriteOut, Return, callVars
<1>3. /\ DOMAIN ret' = Procs /\ DOMAIN done' = Procs
      /\ \A q \in Readers :
            count'[q] = count[q] /\ ret'[q] = ret[q] /\ done'[q] = done[q]
  BY <1>0, <1>2 DEF Procs, ReadInv, ReadTyped, TxInv, CallTyped
<1> QED
  BY <1>0, <1>1, <1>3, ReadNotReader

(* A step of a reader that leaves rxfifo alone.                            *)
LEMMA ReadMoves ==
  ASSUME ReadInv, TxInv, NEW p \in Readers,
         cpu \in {p, Nobody},
         \E to : pc' = [pc EXCEPT ![p] = to],
         UNCHANGED rxfifo,
         DOMAIN ret' = Procs, DOMAIN done' = Procs,
         pc'[p] \in AtWork => cpu' = p,
         pc'[p] # "user" => count'[p] \in ReadSizes,
         pc'[p] = "rd_get" => Len(rxfifo) = count'[p],
         pc'[p] = "user" => ret'[p] # "ok",
         pc'[p] = "rd_sleep" => Len(rxfifo) # count'[p],
         \A q \in Readers \ {p} :
            /\ count'[q] = count[q] /\ ret'[q] = ret[q] /\ done'[q] = done[q]
            /\ q \in rxwq' => q \in rxwq
  PROVE  ReadInv'
<1>1. \A q \in Readers \ {p} : cpu # q /\ pc'[q] = pc[q]
  BY ProcsAssumption DEF TxInv, CallTyped, Procs
<1>2. ReadTyped'
  BY <1>1, SizesAssumption DEF ReadInv, ReadTyped
<1>3. \A q \in Readers \ {p} : pc'[q] \notin AtWork
  BY <1>1 DEF ReadInv
<1>4. \A q \in Readers : pc'[q] \in AtWork => cpu' = q
  BY <1>3
<1>5. GetReady'
  BY <1>2, <1>3, SizesAssumption DEF GetReady, AtWork, ReadTyped
<1>6. ReadExact'
  BY <1>1 DEF ReadInv, ReadExact
<1>7. 0 \notin ReadSizes => NoLostWakeup'
  BY <1>1 DEF ReadInv, NoLostWakeup
<1> QED
  BY <1>2, <1>4, <1>5, <1>6, <1>7 DEF ReadInv

(* kfifo_get of a reader that found its count: exactly count bytes.        *)
LEMMA ReadTakes ==
  ASSUME ReadInv, TxInv, NEW p \in Readers, ReadGet(p)
  PROVE  ReadInv'
<1> DEFINE n == Least(count[p], FifoSize)
           taken == KfifoTaken(rxfifo, n)
<1>1. /\ p \in Procs /\ pc[p] = "rd_get" /\ cpu = p
      /\ count[p] \in Nat /\ pc \in [Procs -> Labels] /\ Readers \subseteq Procs
  BY DEF ReadGet, Runs, Procs, TxInv, CallTyped
<1>2. n = count[p] /\ count[p] <= Len(rxfifo)
  BY <1>1, SizesAssumption DEF ReadInv, ReadTyped, GetReady, Least
<1>3. rxfifo \in Seq(Int) /\ Len(rxfifo) \in Nat /\ Len(rxfifo) <= FifoSize
  BY DEF ReadInv, ReadTyped
<1>4. /\ Len(taken) = count[p]
      /\ KfifoGet(rxfifo, n) \in Seq(Int)
      /\ Len(KfifoGet(rxfifo, n)) <= Len(rxfifo)
  BY <1>1, <1>2, <1>3, KfifoGetLemma DEF Least
<1>5. count[p] = Len(rxfifo) => Len(KfifoGet(rxfifo, n)) = 0
  BY <1>1, <1>2, <1>3, SubSeqProperties DEF KfifoGet, Least
<1>6. /\ rxfifo' = KfifoGet(rxfifo, n)
      /\ pc' = [pc EXCEPT ![p] = "user"]
      /\ UNCHANGED <<rxwq, count>>
      /\ DOMAIN ret' = Procs /\ DOMAIN done' = Procs
      /\ \/ ret' = [ret EXCEPT ![p] = "ok"] /\ done' = [done EXCEPT ![p] = Len(taken)]
         \/ ret' = [ret EXCEPT ![p] = "fail"] /\ done' = [done EXCEPT ![p] = 0]
  BY DEF ReadGet, Return, ReadInv, ReadTyped
<1>7. /\ pc'[p] = "user"
      /\ \A q \in Readers \ {p} : pc'[q] = pc[q] /\ pc'[q] \notin AtWork
  BY <1>1, <1>6 DEF ReadInv
<1>8. ReadTyped'
  BY <1>3, <1>4, <1>6, <1>7, LenProperties, SizesAssumption DEF ReadInv, ReadTyped
<1>9. GetReady' /\ \A q \in Readers : pc'[q] \in AtWork => cpu' = q
  BY <1>7 DEF GetReady, AtWork
<1>10. ReadExact'
  <2> SUFFICES ASSUME NEW q \in Readers, pc'[q] = "user", ret'[q] = "ok"
               PROVE  done'[q] = count'[q]
    BY DEF ReadExact
  <2>1. CASE q = p
    BY <1>1, <1>4, <1>6, <2>1 DEF ReadInv, ReadTyped
  <2>2. CASE q # p
    BY <1>1, <1>6, <1>7, <2>2 DEF ReadInv, ReadTyped, ReadExact
  <2> QED
    BY <2>1, <2>2
<1>11. 0 \notin ReadSizes => NoLostWakeup'
  <2> SUFFICES ASSUME 0 \notin ReadSizes, NEW q \in Readers,
                      pc'[q] = "rd_sleep", q \in rxwq'
               PROVE  Len(rxfifo') # count'[q]
    BY DEF NoLostWakeup
  <2>1. q # p /\ pc[q] = "rd_sleep" /\ q \in rxwq
    BY <1>6, <1>7
  <2>2. Len(rxfifo') = 0
    BY <1>1, <1>5, <1>6, <2>1 DEF ReadInv, GetReady
  <2>3. count'[q] \in ReadSizes
    BY <1>6, <2>1 DEF ReadInv, ReadTyped
  <2> QED
    BY <2>2, <2>3
<1> QED
  BY <1>8, <1>9, <1>10, <1>11 DEF ReadInv

(* The other steps of a reader.                                            *)
LEMMA ReadReader ==
  ASSUME ReadInv, TxInv, NEW p \in Readers, ReadEnter(p) \/ seri_read(p)
  PROVE  ReadInv'
<1>0. /\ p \in Procs /\ Readers \subseteq Procs
      /\ count \in [Procs -> Nat] /\ pc \in [Procs -> Labels] /\ ReadTyped
  BY DEF Procs, TxInv, CallTyped, ReadInv
<1>1. CASE ReadEnter(p)
  <2>1. /\ cpu = Nobody
        /\ UNCHANGED <<rxfifo, rxwq, ret, done>>
        /\ \E n \in ReadSizes : count' = [count EXCEPT ![p] = n]
        /\ \/ pc' = [pc EXCEPT ![p] = "rd_check"] /\ cpu' = p
           \/ pc' = [pc EXCEPT ![p] = "rd_down"]
    BY <1>1 DEF ReadEnter, Awake, Down, Goto, Sleep, rxVars
  <2>2. /\ pc'[p] \in {"rd_check", "rd_down"}
        /\ pc'[p] \in AtWork => cpu' = p
        /\ count'[p] \in ReadSizes
        /\ \A q \in Readers \ {p} : count'[q] = count[q]
        /\ DOMAIN ret' = Procs /\ DOMAIN done' = Procs
    BY <1>0, <2>1 DEF ReadTyped, AtWork
  <2> QED
    BY <2>1, <2>2, ReadMoves
<1>2. CASE \/ ReadDown(p) \/ ReadDownInterrupted(p) \/ ReadReady(p)
           \/ ReadMustWait(p) \/ ReadWake(p)
  <2>1. /\ cpu \in {p, Nobody} /\ cpu' = p /\ pc[p] # "user"
        /\ UNCHANGED <<rxfifo, count, ret, done>>
        /\ rxwq' \subseteq rxwq
        /\ \/ pc' = [pc EXCEPT ![p] = "rd_check"]
           \/ pc' = [pc EXCEPT ![p] = "rd_wait"]
           \/ pc' = [pc EXCEPT ![p] = "rd_get"] /\ Len(rxfifo) = count[p]
    BY <1>2 DEF ReadDown, ReadDownInterrupted, ReadReady, ReadMustWait, ReadWake,
                DownGranted, DownInterrupted, Goto, Runs, Awake, rxVars, callVars
  <2>2. /\ pc'[p] \in {"rd_check", "rd_wait", "rd_get"}
        /\ pc'[p] = "rd_get" => Len(rxfifo) = count'[p]
        /\ count'[p] \in ReadSizes
        /\ DOMAIN ret' = Procs /\ DOMAIN done' = Procs
    BY <1>0, <2>1 DEF ReadTyped
  <2> QED
    BY <2>1, <2>2, ReadMoves
<1>3. CASE ReadWouldBlock(p) \/ ReadWait(p)
  <2>1. /\ cpu = p /\ pc[p] # "user"
        /\ UNCHANGED <<rxfifo, count>>
        /\ \/ /\ pc' = [pc EXCEPT ![p] = "rd_check"] /\ cpu' = p
              /\ UNCHANGED <<rxwq, ret, done>>
           \/ /\ pc' = [pc EXCEPT ![p] = "user"]
              /\ ret' = [ret EXCEPT ![p] = "eagain"]
              /\ done' = [done EXCEPT ![p] = 0]
              /\ rxwq' = rxwq
           \/ /\ pc' = [pc EXCEPT ![p] = "rd_sleep"]
              /\ rxwq' = rxwq \cup {p}
              /\ Len(rxfifo) # count[p]
              /\ UNCHANGED <<ret, done>>
    BY <1>3 DEF ReadWouldBlock, ReadWait, Return, Goto, Sleep, Runs, rxVars
  <2>2. /\ pc'[p] \in {"rd_check", "user", "rd_sleep"}
        /\ pc'[p] \in AtWork => cpu' = p
        /\ count'[p] \in ReadSizes
        /\ pc'[p] = "user" => ret'[p] # "ok"
        /\ pc'[p] = "rd_sleep" => Len(rxfifo) # count'[p]
        /\ DOMAIN ret' = Procs /\ DOMAIN done' = Procs
        /\ \A q \in Readers \ {p} :
              /\ ret'[q] = ret[q] /\ done'[q] = done[q]
              /\ q \in rxwq' => q \in rxwq
    BY <1>0, <2>1 DEF ReadTyped, AtWork
  <2> QED
    BY <2>1, <2>2, ReadMoves
<1> QED
  BY <1>1, <1>2, <1>3, ReadTakes DEF seri_read

(* The inductive invariant of the readers.                                 *)
LEMMA ReadInvariant == Spec => []ReadInv
<1>1. ReadInv /\ TxInv /\ [Next]_vars => ReadInv'
  <2> SUFFICES ASSUME ReadInv, TxInv, [Next]_vars PROVE ReadInv'
    OBVIOUS
  <2>1. CASE UNCHANGED vars
    BY <2>1, ReadAside DEF vars, rxVars, callVars
  <2>2. CASE Line
    BY <2>2, ReadAside DEF Line, LineReceive, LineLoad, LineShiftOut, rxVars, callVars
  <2>3. ASSUME NEW p \in Procs, Enter(p) \/ Signal(p)
        PROVE  ReadInv'
    BY <2>3, ReadAside DEF Enter, seri_open, seri_release, Signal, rxVars, callVars
  <2> QED
    BY <2>1, <2>2, <2>3, ReadInterrupt, ReadReader, ReadWriter DEF Next
<1> QED
  BY <1>1, ReadInit, TxInvariant, PTL DEF Spec

(* A read that returns 0 has copied exactly count bytes, whatever signals  *)
(* break into the mutex, although the mutex is released before kfifo_get.  *)
THEOREM ReadsExact == Spec => []ReadExact
  BY ReadInvariant, PTL DEF ReadInv

(* No wake_up is lost between a reader's test and its sleep, and none is   *)
(* missing when another reader, let in by a signal, empties the queue.  A  *)
(* read of no bytes could sleep on an empty queue: it is left out.         *)
THEOREM WakeupsKept ==
  ASSUME 0 \notin ReadSizes
  PROVE  Spec => []NoLostWakeup
<1>1. ReadInv => NoLostWakeup
  BY DEF ReadInv
<1> QED
  BY <1>1, ReadInvariant, PTL

-----------------------------------------------------------------------------
(* The mutex.  Without signals every process inside has taken it; with a   *)
(* signal it excludes no more (a run shows it), so there is nothing more   *)
(* general to prove.                                                       *)

MutexInv ==
    /\ sig = {} /\ nsig = 0
    /\ \A p \in Writers : pc[p] = "wr_down" => locks
    /\ MutexExcludes

(* A step of p that neither takes nor releases the mutex.                  *)
LEMMA MutexKept ==
  ASSUME MutexExcludes,
         UNCHANGED <<sem, locks>>,
         \A q \in Procs : InMutex(q)' <=> InMutex(q)
  PROVE  MutexExcludes'
BY DEF MutexExcludes

(* p takes the mutex, which was free ...                                   *)
LEMMA MutexTaken ==
  ASSUME MutexExcludes, NEW p \in Procs,
         sem > 0, sem' = sem - 1,
         InMutex(p)',
         \A q \in Procs \ {p} : InMutex(q)' <=> InMutex(q)
  PROVE  MutexExcludes'
<1>1. sem = 1 /\ \A q \in Procs : ~ InMutex(q)
  BY DEF MutexExcludes
<1>2. sem' = 0 /\ \A q \in Procs : InMutex(q)' => q = p
  BY <1>1
<1> QED
  BY <1>2 DEF MutexExcludes

(* ... and releases it.                                                    *)
LEMMA MutexReleased ==
  ASSUME MutexExcludes, NEW p \in Procs,
         InMutex(p), sem' = sem + 1,
         ~ InMutex(p)',
         \A q \in Procs \ {p} : InMutex(q)' <=> InMutex(q)
  PROVE  MutexExcludes'
<1>1. sem = 0 /\ \A q \in Procs : InMutex(q) => q = p
  BY DEF MutexExcludes
<1>2. sem' = 1 /\ \A q \in Procs : ~ InMutex(q)'
  BY <1>1
<1> QED
  BY <1>2 DEF MutexExcludes

(* A step of a reader or a writer leaves the others where they are, in or  *)
(* out of the mutex, and raises no signal.                                 *)
LEMMA MutexOthers ==
  ASSUME TxInv, sig = {}, NEW p \in Readers \cup Writers,
         p \in Readers => ReadEnter(p) \/ seri_read(p),
         p \in Writers => WriteEnter(p) \/ seri_write(p)
  PROVE  /\ p \in Procs /\ pc \in [Procs -> Labels] /\ UNCHANGED locks
         /\ \E to : pc' = [pc EXCEPT ![p] = to]
         /\ \A q \in Procs \ {p} : InMutex(q)' <=> InMutex(q)
         /\ sig' = {} /\ UNCHANGED nsig
<1>1. p \in Procs /\ pc \in [Procs -> Labels]
  BY DEF Procs, TxInv, CallTyped
<1>2. CASE p \in Readers
  <2>1. /\ UNCHANGED <<locks, nsig>>
        /\ sig' \in {sig, sig \ {p}}
        /\ \E to : pc' = [pc EXCEPT ![p] = to]
    BY <1>2 DEF ReadEnter, seri_read, ReadDown, ReadDownInterrupted, ReadReady,
         ReadWouldBlock, ReadMustWait, ReadWait, ReadWake, ReadGet, Down,
         DownGranted, DownInterrupted, Goto, Sleep, Return, fileVars, sigVars
  <2> QED
    BY <1>1, <2>1 DEF InMutex
<1>3. CASE p \in Writers
  <2>1. /\ UNCHANGED <<locks, nsig>>
        /\ sig' \in {sig, sig \ {p}}
        /\ \E to : pc' = [pc EXCEPT ![p] = to]
    BY <1>3 DEF WriteEnter, seri_write, WriteDown, WriteDownInterrupted, WritePut,
         WriteKick, WriteQueued, WriteGet, WriteOut, WriteBegin, Down,
         DownGranted, DownInterrupted, Goto, Sleep, Return, fileVars, sigVars
  <2> QED
    BY <1>1, <2>1 DEF InMutex
<1> QED
  BY <1>2, <1>3

(* A reader is in the mutex from down to up, its sleep included.           *)
LEMMA MutexReader ==
  ASSUME TxInv, MutexInv, NEW p \in Readers, ReadEnter(p) \/ seri_read(p)
  PROVE  MutexInv'
<1>0. p \notin Writers /\ Writers \subseteq Procs
  BY ProcsAssumption DEF Procs
<1>1. /\ p \in Procs /\ pc \in [Procs -> Labels] /\ UNCHANGED locks
      /\ \E to : pc' = [pc EXCEPT ![p] = to]
      /\ \A q \in Procs \ {p} : InMutex(q)' <=> InMutex(q)
      /\ sig' = {} /\ nsig' = 0
  BY <1>0, MutexOthers DEF MutexInv
<1>2. \A q \in Writers : pc'[q] = "wr_down" => locks'
  BY <1>0, <1>1 DEF MutexInv
<1>3. CASE ReadEnter(p) \/ ReadDown(p)
  <2>1. /\ pc[p] \in {"user", "rd_down"}
        /\ \/ sem > 0 /\ sem' = sem - 1 /\ pc' = [pc EXCEPT ![p] = "rd_check"]
           \/ sem' = sem /\ pc' = [pc EXCEPT ![p] = "rd_down"]
    BY <1>3 DEF ReadEnter, ReadDown, Down, DownGranted, Goto, Sleep, Awake
  <2>2. \/ sem > 0 /\ sem' = sem - 1 /\ InMutex(p)'
        \/ sem' = sem /\ ~ InMutex(p)' /\ ~ InMutex(p)
    BY <1>0, <1>1, <2>1 DEF InMutex
  <2>3. MutexExcludes'
    BY <1>1, <2>2, MutexTaken, MutexKept DEF MutexInv
  <2> QED
    BY <1>1, <1>2, <2>3 DEF MutexInv
<1>4. CASE ReadReady(p) \/ ReadWouldBlock(p)
  <2>1. /\ pc[p] = "rd_check" /\ sem' = sem + 1
        /\ \/ pc' = [pc EXCEPT ![p] = "rd_get"]
           \/ pc' = [pc EXCEPT ![p] = "user"]
    BY <1>4 DEF ReadReady, ReadWouldBlock, Up, Goto, Return, Runs
  <2>2. InMutex(p) /\ ~ InMutex(p)'
    BY <1>0, <1>1, <2>1 DEF InMutex
  <2>3. MutexExcludes'
    BY <1>1, <2>1, <2>2, MutexReleased DEF MutexInv
  <2> QED
    BY <1>1, <1>2, <2>3 DEF MutexInv
<1>5. CASE ReadMustWait(p) \/ ReadWait(p) \/ ReadWake(p) \/ ReadGet(p)
  <2>1. /\ sem' = sem
        /\ \/ /\ pc[p] \in {"rd_check", "rd_wait", "rd_sleep"}
              /\ \E to \in {"rd_check", "rd_wait", "rd_sleep"} :
                    pc' = [pc EXCEPT ![p] = to]
           \/ pc[p] = "rd_get" /\ pc' = [pc EXCEPT ![p] = "user"]
    BY <1>5 DEF ReadMustWait, ReadWait, ReadWake, ReadGet, Goto, Sleep, Return,
                Runs, Awake, MutexInv
  <2>2. InMutex(p)' <=> InMutex(p)
    BY <1>0, <1>1, <2>1 DEF InMutex
  <2>3. MutexExcludes'
    BY <1>1, <2>1, <2>2, MutexKept DEF MutexInv
  <2> QED
    BY <1>1, <1>2, <2>3 DEF MutexInv
<1>6. ~ ReadDownInterrupted(p)
  BY DEF ReadDownInterrupted, DownInterrupted, MutexInv
<1> QED
  BY <1>3, <1>4, <1>5, <1>6 DEF seri_read

(* A writer likewise, unless it is one of LAB4, which is never in it.      *)
LEMMA MutexWriter ==
  ASSUME TxInv, MutexInv, NEW p \in Writers, WriteEnter(p) \/ seri_write(p)
  PROVE  MutexInv'
<1>0. p \notin Readers /\ Writers \subseteq Procs
  BY ProcsAssumption DEF Procs
<1>1. /\ p \in Procs /\ pc \in [Procs -> Labels] /\ UNCHANGED locks
      /\ \E to : pc' = [pc EXCEPT ![p] = to]
      /\ \A q \in Procs \ {p} : InMutex(q)' <=> InMutex(q)
      /\ sig' = {} /\ nsig' = 0
  BY <1>0, MutexOthers DEF MutexInv
<1>2. CASE WriteEnter(p) \/ WriteDown(p)
  <2>1. /\ pc[p] \in {"user", "wr_down"}
        /\ \/ /\ locks /\ sem > 0 /\ sem' = sem - 1
              /\ pc' = [pc EXCEPT ![p] = "wr_put"]
           \/ locks /\ sem' = sem /\ pc' = [pc EXCEPT ![p] = "wr_down"]
           \/ ~ locks /\ sem' = sem /\ pc' = [pc EXCEPT ![p] = "wr_put"]
    BY <1>2 DEF WriteEnter, WriteDown, WriteBegin, Down, DownGranted, Goto,
                Sleep, Awake, MutexInv
  <2>2. \/ sem > 0 /\ sem' = sem - 1 /\ InMutex(p)'
        \/ sem' = sem /\ ~ InMutex(p)' /\ ~ InMutex(p)
    BY <1>0, <1>1, <2>1 DEF InMutex
  <2>3. MutexExcludes'
    BY <1>1, <2>2, MutexTaken, MutexKept DEF MutexInv
  <2>4. \A q \in Writers : pc'[q] = "wr_down" => locks'
    BY <1>0, <1>1, <2>1 DEF MutexInv
  <2> QED
    BY <1>1, <2>3, <2>4 DEF MutexInv
<1>3. CASE WritePut(p) \/ WriteKick(p) \/ WriteGet(p)
  <2>1. /\ sem' = sem
        /\ pc[p] \in {"wr_put", "wr_flag", "wr_get"}
        /\ \E to \in {"wr_flag", "wr_get", "wr_out"} : pc' = [pc EXCEPT ![p] = to]
    BY <1>3 DEF WritePut, WriteKick, WriteGet, Goto, Runs
  <2>2. InMutex(p)' <=> InMutex(p)
    BY <1>0, <1>1, <2>1 DEF InMutex
  <2>3. MutexExcludes'
    BY <1>1, <2>1, <2>2, MutexKept DEF MutexInv
  <2>4. \A q \in Writers : pc'[q] = "wr_down" => locks'
    BY <1>0, <1>1, <2>1 DEF MutexInv
  <2> QED
    BY <1>1, <2>3, <2>4 DEF MutexInv
<1>4. CASE WriteQueued(p) \/ WriteOut(p)
  <2>1. /\ pc[p] \in {"wr_flag", "wr_out"}
        /\ pc' = [pc EXCEPT ![p] = "user"]
        /\ sem' = IF locks THEN sem + 1 ELSE sem
    BY <1>4 DEF WriteQueued, WriteOut, WriteUp, Up, Return, Runs
  <2>2. (InMutex(p) <=> locks) /\ ~ InMutex(p)'
    BY <1>0, <1>1, <2>1 DEF InMutex
  <2>3. MutexExcludes'
    BY <1>1, <2>1, <2>2, MutexReleased, MutexKept DEF MutexInv
  <2>4. \A q \in Writers : pc'[q] = "wr_down" => locks'
    BY <1>0, <1>1, <2>1 DEF MutexInv
  <2> QED
    BY <1>1, <2>3, <2>4 DEF MutexInv
<1>5. ~ WriteDownInterrupted(p)
  BY DEF WriteDownInterrupted, DownInterrupted, MutexInv
<1> QED
  BY <1>2, <1>3, <1>4, <1>5 DEF seri_write

(* Without signals the mutex of seri_read and seri_write excludes, over    *)
(* every return of both calls, and its count is 0 or 1.                    *)
THEOREM MutexWorks ==
  ASSUME MaxSignals = 0
  PROVE  Spec => []MutexExcludes
<1>1. Init => MutexInv
  BY DEF Init, MutexInv, MutexExcludes, InMutex, Procs
<1>2. MutexInv /\ TxInv /\ [Next]_vars => MutexInv'
  <2> SUFFICES ASSUME MutexInv, TxInv, [Next]_vars PROVE MutexInv'
    OBVIOUS
  <2>1. CASE UNCHANGED <<pc, sem, locks, sigVars>>
    BY <2>1 DEF MutexInv, MutexExcludes, InMutex, sigVars
  <2>2. CASE UNCHANGED vars \/ seri_interrupt \/ Line
    BY <2>1, <2>2 DEF vars, fileVars, seri_interrupt, IrqNone, IrqLineStatus,
         IrqReceive, IrqTransmit, Line, LineReceive, LineLoad, LineShiftOut
  <2>3. ASSUME NEW p \in Procs, Enter(p) \/ Signal(p)
        PROVE  MutexInv'
    <3>1. ~ Signal(p)
      BY DEF Signal, MutexInv
    <3> QED
      BY <2>1, <2>3, <3>1 DEF Enter, seri_open, seri_release, fileVars
  <2> QED
    BY <2>2, <2>3, MutexReader, MutexWriter DEF Next
<1>3. MutexInv => MutexExcludes
  BY DEF MutexInv
<1> QED
  BY <1>1, <1>2, <1>3, TxInvariant, PTL DEF Spec

-----------------------------------------------------------------------------
(* Reception.  The order of queued is that of arrival because a byte in    *)
(* the chip is the last to have arrived and is in no queue yet.            *)

Increasing(s) == \A i, j \in 1 .. Len(s) : i < j => s[i] < s[j]

(* Every byte of queued arrived before b.                                  *)
AllBefore(b) == \A i \in 1 .. Len(queued) : queued[i] < b

RxTyped ==
    /\ arrived \in Nat
    /\ rxfifo \in Seq(Int) /\ queued \in Seq(Int) /\ delivered \in Seq(Int)

RxInv ==
    /\ RxTyped /\ RxFaithful
    /\ AllBefore(arrived + 1)
    /\ uart.rbr # NoByte => uart.rbr <= arrived /\ AllBefore(uart.rbr)

(* Concatenation is associative, in the form the solver needs.             *)
LEMMA Regroup ==
  \A s, t, u \in Seq(Int) : (s \o t) \o u = s \o (t \o u)
BY ConcatAssociative

(* Nothing has arrived yet.                                                *)
LEMMA RxInit == Init => RxInv
<1> SUFFICES ASSUME Init PROVE RxInv
  OBVIOUS
<1>1. /\ arrived = 0 /\ rxfifo = <<>> /\ queued = <<>> /\ delivered = <<>>
      /\ uart.rbr = NoByte
  BY DEF Init, UartConfigured
<1>2. delivered \o rxfifo = queued
  BY <1>1, ConcatEmptySeq
<1> QED
  BY <1>1, <1>2 DEF RxInv, RxTyped, RxFaithful, AllBefore

(* A step that leaves the queues alone and empties at most the RBR.        *)
LEMMA RxKept ==
  ASSUME RxInv, UNCHANGED <<arrived, rxVars>>,
         uart'.rbr \in {uart.rbr, NoByte}
  PROVE  RxInv'
BY DEF RxInv, RxTyped, RxFaithful, AllBefore, rxVars

(* The handler takes the byte in the RBR, which arrived after all others.  *)
LEMMA RxInterrupt ==
  ASSUME RxInv, ReadInv, TxInv, seri_interrupt
  PROVE  RxInv'
<1>0. uart \in Uart /\ ~ uart.dlab
  BY DEF TxInv, ChipTyped
<1>1. CASE IrqNone \/ IrqLineStatus \/ IrqTransmit
  <2>1. UNCHANGED <<arrived, rxVars>>
    BY <1>1 DEF IrqNone, IrqLineStatus, IrqTransmit
  <2>2. uart'.rbr = uart.rbr
    BY <1>0, <1>1 DEF IrqNone, IrqLineStatus, IrqTransmit, Serve, ReadLSR,
                      ReadIIR, WriteTX, Uart
  <2> QED
    BY <2>1, <2>2, RxKept
<1>2. CASE IrqReceive
  <2> DEFINE b == uart.rbr
             room == KfifoRoom(rxfifo, <<b>>, FifoSize)
  <2>1. b \in Int /\ b # NoByte
    BY <1>0, <1>2 DEF IrqReceive, IIR, Uart
  <2>2. /\ uart'.rbr = NoByte /\ UNCHANGED <<arrived, delivered>>
        /\ rxfifo' = KfifoPut(rxfifo, <<b>>, FifoSize)
        /\ queued' = IF Len(rxfifo) < FifoSize THEN Append(queued, b) ELSE queued
    BY <1>0, <1>2 DEF IrqReceive, Serve, ReadRX, ByteAtRX, Uart
  <2>3. /\ RxTyped /\ delivered \o rxfifo = queued
        /\ Len(rxfifo) \in Nat /\ Len(rxfifo) <= FifoSize
    BY DEF RxInv, RxFaithful, ReadInv, ReadTyped
  <2>4. <<b>> \in Seq(Int) /\ Len(<<b>>) = 1
    BY <2>1
  <2>5. CASE Len(rxfifo) = FifoSize
    <3>1. room = 0
      BY <2>4, <2>5, SizesAssumption DEF KfifoRoom, Least
    <3>2. SubSeq(<<b>>, 1, room) = <<>>
      BY <2>4, <3>1, SubSeqEmpty
    <3>3. rxfifo' = rxfifo /\ queued' = queued
      <4>1. rxfifo' = rxfifo \o <<>>
        BY <2>2, <3>2 DEF KfifoPut
      <4>2. rxfifo \o <<>> = rxfifo
        BY <2>3, ConcatEmptySeq DEF RxTyped
      <4> QED
        BY <2>2, <2>3, <2>5, <4>1, <4>2, SizesAssumption
    <3> QED
      BY <2>2, <3>3 DEF RxInv, RxTyped, RxFaithful, AllBefore
  <2>6. CASE Len(rxfifo) < FifoSize
    <3>1. room = 1
      BY <2>3, <2>4, <2>6, SizesAssumption DEF KfifoRoom, Least
    <3>2. SubSeq(<<b>>, 1, room) = <<b>>
      BY <2>4, <3>1, SubSeqFull
    <3>3. rxfifo' = rxfifo \o <<b>>
      BY <2>2, <3>2 DEF KfifoPut
    <3>4. queued' = Append(queued, b) /\ queued' = queued \o <<b>>
      BY <2>1, <2>2, <2>3, <2>6, AppendIsConcat DEF RxTyped
    <3>5. delivered' \o rxfifo' = queued'
      <4>1. (delivered \o rxfifo) \o <<b>> = delivered \o (rxfifo \o <<b>>)
        <5>1. delivered \in Seq(Int) /\ rxfifo \in Seq(Int)
          BY <2>3 DEF RxTyped
        <5> QED
          BY <2>4, <5>1, Regroup, Zenon
      <4> QED
        BY <2>2, <2>3, <3>3, <3>4, <4>1
    <3>6. /\ queued' \in Seq(Int) /\ Len(queued') = Len(queued) + 1
          /\ queued'[Len(queued) + 1] = b
          /\ \A i \in 1 .. Len(queued) : queued'[i] = queued[i]
      BY <2>1, <2>3, <3>4, AppendProperties DEF RxTyped
    <3>7. Len(queued) \in Nat /\ \A i \in 1 .. Len(queued) : queued[i] \in Int
      BY <2>3, LenProperties DEF RxTyped
    <3>8. Increasing(queued)'
      <4>1. AllBefore(b) /\ Increasing(queued)
        BY <2>1 DEF RxInv, RxFaithful, Increasing
      <4> QED
        BY <3>6, <3>7, <4>1 DEF Increasing, AllBefore
    <3>9. AllBefore(arrived + 1)'
      BY <2>1, <2>2, <3>6, <3>7 DEF RxInv, RxTyped, AllBefore
    <3>10. RxTyped'
      <4>1. rxfifo \o <<b>> \in Seq(Int)
        BY <2>3, <2>4, ConcatProperties DEF RxTyped
      <4> QED
        BY <2>2, <2>3, <3>3, <3>6, <4>1 DEF RxTyped
    <3> QED
      BY <2>2, <3>5, <3>8, <3>9, <3>10 DEF RxInv, RxFaithful, Increasing
  <2> QED
    BY <2>3, <2>5, <2>6, SizesAssumption
<1> QED
  BY <1>1, <1>2 DEF seri_interrupt

(* The line: what arrives arrives last.                                    *)
LEMMA RxLine ==
  ASSUME RxInv, TxInv, Line
  PROVE  RxInv'
<1>0. uart \in Uart /\ ~ uart.dlab /\ UNCHANGED rxVars
  BY DEF TxInv, ChipTyped, Line, LineReceive, LineLoad, LineShiftOut
<1>1. CASE LineReceive
  <2>1. uart'.rbr = arrived + 1 /\ arrived' = arrived + 1
    BY <1>0, <1>1 DEF LineReceive, Touch, Receive, Uart
  <2>2. Len(queued) \in Nat /\ \A i \in 1 .. Len(queued) : queued[i] \in Int
    BY LenProperties DEF RxInv, RxTyped
  <2>3. AllBefore(arrived + 1)' /\ AllBefore(arrived + 1)
    BY <1>0, <2>1, <2>2 DEF RxInv, RxTyped, AllBefore, rxVars
  <2> QED
    BY <1>0, <2>1, <2>3 DEF RxInv, RxTyped, RxFaithful, AllBefore, rxVars
<1>2. CASE LineLoad \/ LineShiftOut
  <2>1. arrived' = arrived /\ uart'.rbr = uart.rbr
    BY <1>0, <1>2 DEF LineLoad, LineShiftOut, Touch, Load, ShiftOut, Uart
  <2> QED
    BY <1>0, <2>1, RxKept
<1> QED
  BY <1>1, <1>2 DEF Line

(* A read without copy faults moves bytes from rxfifo to the user.         *)
LEMMA RxTakes ==
  ASSUME RxInv, TxInv, ~ CopyFaults, NEW p \in Readers, ReadGet(p)
  PROVE  RxInv'
<1> DEFINE n == Least(count[p], FifoSize)
           k == Least(n, Len(rxfifo))
           taken == SubSeq(rxfifo, 1, k)
           left == SubSeq(rxfifo, k + 1, Len(rxfifo))
<1>1. /\ UNCHANGED <<uart, arrived, queued>>
      /\ rxfifo' = left /\ delivered' = delivered \o taken
  BY DEF ReadGet, KfifoTaken, KfifoGet, hwVars
<1>2. count[p] \in Nat /\ RxTyped /\ Len(rxfifo) \in Nat
  BY LenProperties DEF TxInv, CallTyped, Procs, RxInv, RxTyped
<1>3. k \in 0 .. Len(rxfifo)
  BY <1>2, SizesAssumption DEF Least
<1>4. taken \in Seq(Int) /\ left \in Seq(Int)
  BY <1>2, <1>3, SubSeqProperties DEF RxTyped
<1>5. taken \o left = rxfifo
  <2>1. taken \o left = SubSeq(rxfifo, 1, Len(rxfifo))
    <3>1. /\ rxfifo \in Seq(Int) /\ 1 \in 1 .. Len(rxfifo) + 1
          /\ k \in 1 - 1 .. Len(rxfifo) /\ Len(rxfifo) \in k .. Len(rxfifo)
      BY <1>2, <1>3 DEF RxTyped
    <3> HIDE DEF k
    <3> QED
      BY <3>1, ConcatAdjacentSubSeq
  <2> QED
    BY <1>2, <2>1, SubSeqFull DEF RxTyped
<1>6. delivered' \o rxfifo' = delivered \o rxfifo
  <2>1. (delivered \o taken) \o left = delivered \o (taken \o left)
    <3>1. delivered \in Seq(Int)
      BY <1>2 DEF RxTyped
    <3> HIDE DEF taken, left
    <3> QED
      BY <1>4, <3>1, Regroup, Zenon
  <2> QED
    BY <1>1, <1>5, <2>1
<1>7. RxTyped'
  BY <1>1, <1>2, <1>4, ConcatProperties DEF RxTyped
<1> QED
  BY <1>1, <1>6, <1>7 DEF RxInv, RxFaithful, AllBefore

(* When copies do not fail, bytes reach the users once and in the order of *)
(* their arrival, whoever reads and whatever signals interrupt.            *)
THEOREM Reception ==
  ASSUME ~ CopyFaults
  PROVE  Spec => []RxFaithful
<1>1. RxInv /\ ReadInv /\ TxInv /\ [Next]_vars => RxInv'
  <2> SUFFICES ASSUME RxInv, ReadInv, TxInv, [Next]_vars PROVE RxInv'
    OBVIOUS
  <2>0. uart \in Uart /\ ~ uart.dlab
    BY DEF TxInv, ChipTyped
  <2>1. CASE UNCHANGED vars
    BY <2>1, RxKept DEF vars, hwVars
  <2>2. ASSUME NEW p \in Procs, Enter(p) \/ Signal(p)
        PROVE  RxInv'
    BY <2>2, RxKept DEF Enter, seri_open, seri_release, Signal, hwVars
  <2>3. ASSUME NEW p \in Readers, ReadEnter(p) \/ seri_read(p)
        PROVE  RxInv'
    <3>1. CASE ReadGet(p)
      BY <3>1, RxTakes
    <3>2. CASE ~ ReadGet(p)
      BY <2>3, <3>2, RxKept DEF ReadEnter, seri_read, ReadDown,
         ReadDownInterrupted, ReadReady, ReadWouldBlock, ReadMustWait,
         ReadWait, ReadWake, hwVars
    <3> QED
      BY <3>1, <3>2
  <2>4. ASSUME NEW p \in Writers, WriteEnter(p) \/ seri_write(p)
        PROVE  RxInv'
    <3>1. UNCHANGED <<arrived, rxVars>> /\ uart'.rbr = uart.rbr
      BY <2>0, <2>4 DEF WriteEnter, seri_write, WriteDown, WriteDownInterrupted,
         WritePut, WriteKick, WriteQueued, WriteGet, WriteOut, Touch, WriteTX,
         Uart, hwVars
    <3> QED
      BY <3>1, RxKept
  <2> QED
    BY <2>1, <2>2, <2>3, <2>4, RxInterrupt, RxLine DEF Next
<1>2. RxInv => RxFaithful
  BY DEF RxInv
<1> QED
  BY <1>1, <1>2, RxInit, ReadInvariant, TxInvariant, PTL DEF Spec

-----------------------------------------------------------------------------
(* poll, beside the other calls.                                           *)

(* A poller that found nothing and is asleep on rxwq, or about to be.      *)
Idle(p) == pc[p] = "po_sleep" \/ (pc[p] = "po_ret" /\ revents[p] = {})

PollInv ==
    /\ DOMAIN pc = Procs
    /\ DOMAIN interest = Pollers /\ DOMAIN revents = Pollers
    /\ count \in [Procs -> Nat]
    /\ \A p \in Pollers :
          Idle(p) /\ p \in rxwq /\ "POLLIN" \in interest[p] => rxfifo = <<>>

LEMMA PollersAreProcs == /\ Pollers \subseteq Procs
                         /\ Pollers \cap (Readers \cup Writers) = {}
BY ProcsAssumption DEF Procs, Pollers

(* A step of one process, not to the end of a pass of poll, that puts no   *)
(* byte in rxfifo and nobody else on rxwq.                                 *)
LEMMA PollOther ==
  ASSUME PollInv, NEW p \in Procs, NEW to, to \notin {"po_ret", "po_sleep"},
         pc' = [pc EXCEPT ![p] = to],
         rxwq' \subseteq rxwq \cup {p}, rxfifo = <<>> => rxfifo' = <<>>,
         count' \in [Procs -> Nat],
         DOMAIN interest' = Pollers, DOMAIN revents' = Pollers,
         \A q \in Pollers \ {p} : /\ interest'[q] = interest[q]
                                  /\ revents'[q] = revents[q]
  PROVE  PollInv'
<1>1. ASSUME NEW q \in Pollers, Idle(q)', q \in rxwq', "POLLIN" \in interest'[q]
      PROVE  rxfifo' = <<>>
  <2>1. q \in Procs
    BY PollersAreProcs
  <2>2. q # p
    BY <1>1, <2>1 DEF Idle, PollInv
  <2>3. pc'[q] = pc[q] /\ Idle(q) /\ q \in rxwq /\ "POLLIN" \in interest[q]
    BY <1>1, <2>1, <2>2 DEF Idle, PollInv
  <2> QED
    BY <2>3 DEF PollInv
<1> QED
  BY <1>1 DEF PollInv

(* A step of no process that leaves the queue, or wakes all that wait.     *)
LEMMA PollAside ==
  ASSUME PollInv, UNCHANGED <<pc, count, pollVars>>,
         UNCHANGED <<rxfifo, rxwq>> \/ rxwq' = {}
  PROVE  PollInv'
BY DEF PollInv, Idle, pollVars

(* kfifo_get of an empty queue.                                            *)
LEMMA GetOfNone == \A n \in Nat : KfifoGet(<<>>, n) = <<>>
BY DEF KfifoGet, Least

(* The steps of SeriDriver.                                                *)
LEMMA PollDriver ==
  ASSUME PollInv, Next, UNCHANGED pollVars
  PROVE  PollInv'
<1>1. CASE seri_interrupt
  BY <1>1, PollAside DEF seri_interrupt, IrqNone, IrqLineStatus, IrqReceive,
     IrqTransmit, WakeReaders, rxVars, callVars
<1>2. CASE Line
  BY <1>2, PollAside DEF Line, LineReceive, LineLoad, LineShiftOut, rxVars,
     callVars
<1>3. ASSUME NEW p \in Procs, Enter(p) \/ Signal(p)
      PROVE  PollInv'
  BY <1>3, PollAside DEF Enter, seri_open, seri_release, Signal, rxVars,
     callVars
<1>4. ASSUME NEW p \in Readers, ReadEnter(p) \/ seri_read(p)
      PROVE  PollInv'
  <2>1. p \in Procs /\ p \notin Pollers
    BY PollersAreProcs DEF Procs
  <2>2. \E to \in {"rd_down", "rd_check", "rd_wait", "rd_sleep", "rd_get",
                   "user"} : pc' = [pc EXCEPT ![p] = to]
    BY <1>4 DEF ReadEnter, seri_read, ReadDown, ReadDownInterrupted, ReadReady,
       ReadWouldBlock, ReadMustWait, ReadWait, ReadWake, ReadGet, Down,
       DownGranted, DownInterrupted, Goto, Sleep, Return
  <2>3. rxwq' \subseteq rxwq \cup {p}
    BY <1>4 DEF ReadEnter, seri_read, ReadDown, ReadDownInterrupted, ReadReady,
       ReadWouldBlock, ReadMustWait, ReadWait, ReadWake, ReadGet
  <2>4. count' \in [Procs -> Nat]
    BY <1>4, <2>1, SizesAssumption DEF PollInv, ReadEnter, seri_read, ReadDown,
       ReadDownInterrupted, ReadReady, ReadWouldBlock, ReadMustWait, ReadWait,
       ReadWake, ReadGet, callVars
  <2>5. rxfifo = <<>> => rxfifo' = <<>>
    <3>1. CASE ReadGet(p)
      <4>1. rxfifo' = KfifoGet(rxfifo, Least(count[p], FifoSize))
        BY <3>1 DEF ReadGet
      <4>2. Least(count[p], FifoSize) \in Nat
        BY <2>1, SizesAssumption DEF PollInv, Least
      <4> QED
        BY <4>1, <4>2, GetOfNone
    <3>2. CASE ~ ReadGet(p)
      BY <1>4, <3>2 DEF ReadEnter, seri_read, ReadDown, ReadDownInterrupted,
         ReadReady, ReadWouldBlock, ReadMustWait, ReadWait, ReadWake, rxVars
    <3> QED
      BY <3>1, <3>2
  <2> QED
    BY <2>1, <2>2, <2>3, <2>4, <2>5, PollOther DEF PollInv, pollVars
<1>5. ASSUME NEW p \in Writers, WriteEnter(p) \/ seri_write(p)
      PROVE  PollInv'
  <2>1. p \in Procs /\ p \notin Pollers
    BY PollersAreProcs DEF Procs
  <2>2. \E to \in {"wr_down", "wr_put", "wr_flag", "wr_get", "wr_out",
                   "user"} : pc' = [pc EXCEPT ![p] = to]
    BY <1>5 DEF WriteEnter, WriteBegin, seri_write, WriteDown,
       WriteDownInterrupted, WritePut, WriteKick, WriteQueued, WriteGet,
       WriteOut, Down, DownGranted, DownInterrupted, Goto, Sleep, Return
  <2>3. UNCHANGED <<rxfifo, rxwq>>
    BY <1>5 DEF WriteEnter, seri_write, WriteDown, WriteDownInterrupted,
       WritePut, WriteKick, WriteQueued, WriteGet, WriteOut, rxVars
  <2>4. count' \in [Procs -> Nat]
    BY <1>5, <2>1, SizesAssumption DEF PollInv, WriteEnter, seri_write,
       WriteDown, WriteDownInterrupted, WritePut, WriteKick, WriteQueued,
       WriteGet, WriteOut, callVars
  <2> QED
    BY <2>1, <2>2, <2>3, <2>4, PollOther DEF PollInv, pollVars
<1> QED
  BY <1>1, <1>2, <1>3, <1>4, <1>5 DEF Next

(* A pass of poll: it tests the queue as a sleeper, after it has joined    *)
(* rxwq, so that a byte from then on takes it off rxwq again.              *)
LEMMA PollPass ==
  ASSUME PollInv, NEW p \in Pollers, PollEnter(p) \/ seri_poll(p)
  PROVE  PollInv'
<1>0. p \in Procs
  BY PollersAreProcs
<1>1. CASE PollEnter(p) \/ PollDown(p) \/ PollWait(p) \/ PollReturn(p)
           \/ PollAgain(p)
  <2>1. \E to \in {"po_wait", "po_down", "po_test", "user"} :
           pc' = [pc EXCEPT ![p] = to]
    BY <1>1 DEF PollEnter, PollDown, PollWait, PollReturn, PollAgain, Down,
       DownGranted, Goto, Sleep, Return
  <2>2. rxwq' \subseteq rxwq \cup {p} /\ UNCHANGED <<rxfifo, count>>
    BY <1>1 DEF PollEnter, PollDown, PollWait, PollReturn, PollAgain, pollRest,
       rxVars, callVars
  <2>3. /\ DOMAIN interest' = Pollers /\ DOMAIN revents' = Pollers
        /\ \A q \in Pollers \ {p} : /\ interest'[q] = interest[q]
                                    /\ revents'[q] = revents[q]
    BY <1>1 DEF PollEnter, PollDown, PollWait, PollReturn, PollAgain, pollVars,
       PollInv
  <2> QED
    BY <1>0, <2>1, <2>2, <2>3, PollOther DEF PollInv
<1>2. CASE PollTest(p) \/ PollSleep(p)
  <2>1. /\ UNCHANGED <<rxfifo, rxwq, interest, count>>
        /\ DOMAIN pc' = Procs /\ DOMAIN revents' = Pollers
        /\ \A q \in Pollers \ {p} : pc'[q] = pc[q] /\ revents'[q] = revents[q]
    <3>1. \E to \in {"po_ret", "po_sleep"} : pc' = [pc EXCEPT ![p] = to]
      BY <1>2 DEF PollTest, PollSleep, Goto, Sleep
    <3>2. revents' = [revents EXCEPT ![p] = interest[p] \cap Mask]
          \/ revents' = revents
      BY <1>2 DEF PollTest, PollSleep, pollVars
    <3>3. UNCHANGED <<rxfifo, rxwq, interest, count>>
      BY <1>2 DEF PollTest, PollSleep, pollRest, pollVars, rxVars, callVars
    <3> QED
      BY <1>0, <3>1, <3>2, <3>3 DEF PollInv
  <2>2. Idle(p)' /\ p \in rxwq /\ "POLLIN" \in interest[p] => rxfifo = <<>>
    <3>1. CASE PollTest(p)
      <4>1. revents'[p] = interest[p] \cap Mask /\ pc'[p] = "po_ret"
        BY <1>0, <3>1 DEF PollTest, Goto, PollInv
      <4> QED
        BY <4>1 DEF Idle, Mask
    <3>2. CASE PollSleep(p)
      <4>1. Idle(p)
        BY <3>2 DEF PollSleep, Runs, Idle
      <4> QED
        BY <4>1 DEF PollInv
    <3> QED
      BY <1>2, <3>1, <3>2
  <2>3. \A q \in Pollers \ {p} : Idle(q)' => Idle(q)
    BY <2>1 DEF Idle
  <2> QED
    BY <2>1, <2>2, <2>3 DEF PollInv
<1> QED
  BY <1>1, <1>2 DEF seri_poll

(* ioctl has nothing to do with the queue.                                 *)
LEMMA PollIoctl ==
  ASSUME PollInv, NEW p \in Configurers, IoctlEnter(p) \/ seri_ioctl(p),
         UNCHANGED pollVars
  PROVE  PollInv'
<1>1. \E to \in {"io_get", "io_set", "io_get_close", "io_set_close", "user"} :
         pc' = [pc EXCEPT ![p] = to]
  BY DEF IoctlEnter, IoctlUnknown, GetEnter, SetEnter, IoctlOpen, seri_ioctl,
     GetDivisor, SetDivisor, IoctlClose, Goto, Return
<1>2. UNCHANGED <<rxfifo, rxwq, count>>
  BY DEF IoctlEnter, IoctlUnknown, GetEnter, SetEnter, IoctlOpen, seri_ioctl,
     GetDivisor, SetDivisor, IoctlClose, ioctlRest, rxVars, callVars
<1>3. p \in Procs
  BY DEF Procs, Configurers
<1> QED
  BY <1>1, <1>2, <1>3, PollOther DEF PollInv, pollVars

(* No poller sleeps on while there is input it asked for, for any number   *)
(* of pollers, readers and writers, though none of its passes holds the    *)
(* mutex from its test of rxfifo to its sleep.                             *)
THEOREM PollsNotLost == CallsSpec => []NoLostPoll
<1>1. CallsInit => PollInv
  BY DEF CallsInit, PollInit, Init, PollInv, Idle
<1>2. PollInv /\ [CallsNext]_allVars => PollInv'
  <2> SUFFICES ASSUME PollInv, [CallsNext]_allVars PROVE PollInv'
    OBVIOUS
  <2>1. CASE UNCHANGED allVars
    BY <2>1, PollAside DEF allVars, vars, rxVars, callVars
  <2>2. CASE Next /\ UNCHANGED <<pollVars, ioctlVars>>
    BY <2>2, PollDriver
  <2>3. ASSUME NEW p \in Others, poll(p)
        PROVE  PollInv'
    BY <2>3, PollPass DEF poll, Pollers
  <2>4. ASSUME NEW p \in Others, ioctl(p)
        PROVE  PollInv'
    BY <2>4, PollIoctl DEF ioctl, Configurers
  <2> QED
    BY <2>1, <2>2, <2>3, <2>4 DEF CallsNext
<1>3. PollInv => NoLostPoll
  BY DEF PollInv, Idle, NoLostPoll, Dozing
<1> QED
  BY <1>1, <1>2, <1>3, PTL DEF CallsSpec

-----------------------------------------------------------------------------
(* ioctl, beside the other calls.                                          *)

(* What may be on its way to the line: no divisor.                         *)
Payload == Int \ (Divisors \cup {Divisor1200})

Window == {"io_get", "io_set", "io_get_close", "io_set_close"}

(* DLAB, between the two writes of ioctl to the LCR, stays set: it keeps   *)
(* the CPU, and the handler does not touch the LCR.                        *)
WindowOpen == \A p \in Configurers : pc[p] \in Window => cpu = p /\ uart.dlab

PayloadTyped ==
    /\ uart \in Uart /\ uart.thr \in Payload /\ uart.tsr \in Payload
    /\ sent \in Seq(Payload) /\ byte \in [Procs -> Payload]
    /\ txfifo \in Seq(Payload) /\ Len(txfifo) <= FifoSize
    /\ arrived \in Nat /\ accepted \in Nat

DivisorInv ==
    /\ DOMAIN pc = Procs /\ count \in [Procs -> Nat]
    /\ arg \in [Configurers -> Divisors \cup {Divisor1200}]
    /\ WindowOpen
    /\ PayloadTyped

LEMMA PayloadLemma == /\ NoByte \in Payload /\ Garbage \in Payload
                      /\ Nat \subseteq Payload /\ Payload \subseteq Int
                      /\ Divisors \cup {Divisor1200} \subseteq Int
BY IoctlAssumption DEF Payload, NoByte, Garbage, Divisor1200

(* What the line and the driver do to the chip as to payload: outside the  *)
(* window, or with a byte of payload, no divisor gets into THR and TSR.    *)
LEMMA PayloadChip ==
  ASSUME NEW u \in Uart, u.thr \in Payload, u.tsr \in Payload,
         NEW b \in Payload, NEW a \in Int
  PROVE  \A v \in {u, ReadIIR(u), ReadLSR(u), ReadRX(u), WriteTX(u, b), Load(u),
                   ShiftOut(u), Receive(u, a), WriteTX(ReadIIR(u), b)} :
            /\ v \in Uart /\ v.dlab = u.dlab
            /\ v.thr \in Payload /\ v.tsr \in Payload
<1>1. b \in Int /\ NoByte \in Payload
  BY PayloadLemma
<1>2. \A v \in {ReadIIR(u), ReadLSR(u), ReadRX(u), WriteTX(u, b), Load(u),
                ShiftOut(u), Receive(u, a)} : v \in Uart /\ v.dlab = u.dlab
  BY <1>1, ChipLemma
<1>3. \A v \in {ReadIIR(u), ReadLSR(u), ReadRX(u), Receive(u, a)} :
         v.thr = u.thr /\ v.tsr = u.tsr
  BY DEF Uart, ReadIIR, ReadLSR, ReadRX, Receive
<1>4. \A v \in {WriteTX(u, b), Load(u), ShiftOut(u)} :
         v.thr \in Payload /\ v.tsr \in Payload
  BY <1>1 DEF Uart, WriteTX, Load, ShiftOut
<1>5. /\ WriteTX(ReadIIR(u), b) \in Uart
      /\ WriteTX(ReadIIR(u), b).dlab = u.dlab
      /\ WriteTX(ReadIIR(u), b).thr \in Payload
      /\ WriteTX(ReadIIR(u), b).tsr \in Payload
  <2> DEFINE v == ReadIIR(u)
  <2>1. v \in Uart /\ v.dlab = u.dlab /\ v.thr \in Payload /\ v.tsr \in Payload
    BY <1>2, <1>3
  <2> HIDE DEF v
  <2>2. WriteTX(v, b) \in Uart /\ WriteTX(v, b).dlab = v.dlab
    BY <1>1, <2>1, ChipLemma
  <2>3. WriteTX(v, b).thr \in Payload /\ WriteTX(v, b).tsr \in Payload
    BY <2>1 DEF Uart, WriteTX
  <2> QED
    BY <2>1, <2>2, <2>3 DEF v
<1> QED
  BY <1>2, <1>3, <1>4, <1>5

(* DLAB alone.                                                             *)
LEMMA PayloadDLAB ==
  ASSUME NEW u \in Uart, NEW on \in BOOLEAN
  PROVE  /\ WriteDLAB(u, on) \in Uart /\ WriteDLAB(u, on).dlab = on
         /\ WriteDLAB(u, on).thr = u.thr /\ WriteDLAB(u, on).tsr = u.tsr
BY DEF Uart, WriteDLAB

(* The handler and the line.                                               *)
LEMMA DivisorMachine ==
  ASSUME DivisorInv, seri_interrupt \/ Line, UNCHANGED ioctlVars
  PROVE  DivisorInv'
<1>0. /\ UNCHANGED <<pc, cpu, count, byte, accepted, arg>>
      /\ uart \in Uart /\ uart.thr \in Payload /\ uart.tsr \in Payload
      /\ arrived \in Nat /\ arrived + 1 \in Int /\ NoByte \in Payload
  BY PayloadLemma DEF DivisorInv, PayloadTyped, seri_interrupt, IrqNone,
     IrqLineStatus, IrqReceive, IrqTransmit, Line, LineReceive, LineLoad,
     LineShiftOut, callVars, txVars, ioctlVars
<1>1. \E b \in Payload :
         uart' \in {uart, ReadIIR(uart), ReadLSR(uart), ReadRX(uart), Load(uart),
                    ShiftOut(uart), Receive(uart, arrived + 1),
                    WriteTX(ReadIIR(uart), b)}
  <2>1. CASE IrqTransmit /\ txfifo # <<>>
    <3>1. Head(txfifo) \in Payload
      BY <2>1, HeadTailProperties DEF DivisorInv, PayloadTyped
    <3>2. uart' = WriteTX(ReadIIR(uart), Head(txfifo))
      BY <2>1 DEF IrqTransmit, Serve
    <3> QED
      BY <3>1, <3>2
  <2>2. CASE ~ (IrqTransmit /\ txfifo # <<>>)
    BY <1>0, <2>2 DEF seri_interrupt, IrqNone, IrqLineStatus, IrqReceive,
       IrqTransmit, Line, LineReceive, LineLoad, LineShiftOut, Serve, Touch
  <2> QED
    BY <2>1, <2>2
<1>2. /\ uart' \in Uart /\ uart'.dlab = uart.dlab
      /\ uart'.thr \in Payload /\ uart'.tsr \in Payload
  BY <1>0, <1>1, PayloadChip
<1>3. sent' \in Seq(Payload) /\ arrived' \in Nat
  <2>1. \/ sent' = sent
        \/ sent' = Append(sent, uart.tsr)
    BY DEF seri_interrupt, IrqNone, IrqLineStatus, IrqReceive, IrqTransmit,
       Line, LineReceive, LineLoad, LineShiftOut
  <2>2. arrived' = arrived \/ arrived' = arrived + 1
    BY DEF seri_interrupt, IrqNone, IrqLineStatus, IrqReceive, IrqTransmit,
       Line, LineReceive, LineLoad, LineShiftOut
  <2>3. sent' \in Seq(Payload)
    <3>1. sent \in Seq(Payload) /\ uart.tsr \in Payload
      BY DEF DivisorInv, PayloadTyped
    <3>2. Append(sent, uart.tsr) \in Seq(Payload)
      BY <3>1, AppendProperties
    <3> QED
      BY <2>1, <3>1, <3>2
  <2>4. arrived' \in Nat
    BY <1>0, <2>2
  <2> QED
    BY <2>3, <2>4
<1>4. txfifo' \in Seq(Payload) /\ Len(txfifo') <= FifoSize
  <2>1. txfifo' = txfifo \/ (txfifo # <<>> /\ txfifo' = Tail(txfifo))
    BY DEF seri_interrupt, IrqNone, IrqLineStatus, IrqReceive, IrqTransmit,
       Line, LineReceive, LineLoad, LineShiftOut, txVars
  <2>2. txfifo # <<>> => /\ Tail(txfifo) \in Seq(Payload)
                         /\ Len(Tail(txfifo)) <= FifoSize
    BY HeadTailProperties, LenProperties, SizesAssumption
       DEF DivisorInv, PayloadTyped
  <2> QED
    BY <2>1, <2>2 DEF DivisorInv, PayloadTyped
<1> QED
  BY <1>0, <1>2, <1>3, <1>4 DEF DivisorInv, WindowOpen, PayloadTyped

(* A step of a process that finds the CPU free, or has it, is no step of   *)
(* another process's window.                                               *)
LEMMA WindowElsewhere ==
  ASSUME WindowOpen, NEW p \in Procs, cpu \in {p, Nobody},
         \A q \in Procs \ {p} : pc'[q] = pc[q],
         pc'[p] \in Window => cpu' = p /\ uart'.dlab
  PROVE  WindowOpen'
<1>1. ASSUME NEW q \in Configurers, q # p
      PROVE  pc'[q] \notin Window
  <2>1. q \in Procs /\ q # cpu
    BY <1>1, ProcsAssumption DEF Procs, Configurers
  <2>2. pc[q] \notin Window
    BY <2>1 DEF WindowOpen
  <2> QED
    BY <1>1, <2>1, <2>2
<1> QED
  BY <1>1 DEF WindowOpen

(* Any other step of a process that sends nothing.                         *)
LEMMA DivisorQuiet ==
  ASSUME DivisorInv, NEW p \in Procs, NEW to, to \notin Window,
         cpu \in {p, Nobody}, pc' = [pc EXCEPT ![p] = to],
         UNCHANGED <<uart, sent, txfifo, byte, arrived, accepted, arg>>,
         count' \in [Procs -> Nat]
  PROVE  DivisorInv'
<1>1. WindowOpen'
  <2>1. /\ \A q \in Procs \ {p} : pc'[q] = pc[q]
        /\ pc'[p] \notin Window
    BY DEF DivisorInv
  <2> QED
    BY <2>1, WindowElsewhere DEF DivisorInv
<1>2. PayloadTyped' /\ DOMAIN pc' = Procs
  BY DEF DivisorInv, PayloadTyped
<1> QED
  BY <1>1, <1>2 DEF DivisorInv

(* A step that moves no process and sends nothing.                         *)
LEMMA DivisorAside ==
  ASSUME DivisorInv, UNCHANGED <<pc, cpu, count, arg>>,
         UNCHANGED <<uart, sent, txfifo, byte, arrived, accepted>>
  PROVE  DivisorInv'
BY DEF DivisorInv, WindowOpen, PayloadTyped

(* Reads.                                                                  *)
LEMMA DivisorReader ==
  ASSUME DivisorInv, NEW p \in Readers, ReadEnter(p) \/ seri_read(p),
         UNCHANGED ioctlVars
  PROVE  DivisorInv'
<1>1. p \in Procs
  BY DEF Procs
<1>2. \E to \in {"rd_down", "rd_check", "rd_wait", "rd_sleep", "rd_get",
                 "user"} : pc' = [pc EXCEPT ![p] = to]
  BY DEF ReadEnter, seri_read, ReadDown, ReadDownInterrupted, ReadReady,
     ReadWouldBlock, ReadMustWait, ReadWait, ReadWake, ReadGet, Down,
     DownGranted, DownInterrupted, Goto, Sleep, Return
<1>3. cpu \in {p, Nobody}
  BY DEF ReadEnter, seri_read, ReadDown, ReadDownInterrupted, ReadReady,
     ReadWouldBlock, ReadMustWait, ReadWait, ReadWake, ReadGet,
     DownGranted, DownInterrupted, Runs, Awake
<1>4. count' \in [Procs -> Nat]
  BY <1>1, SizesAssumption DEF DivisorInv, ReadEnter, seri_read, ReadDown,
     ReadDownInterrupted, ReadReady, ReadWouldBlock, ReadMustWait, ReadWait,
     ReadWake, ReadGet, callVars
<1>5. UNCHANGED <<uart, sent, txfifo, byte, arrived, accepted, arg>>
  BY DEF ReadEnter, seri_read, ReadDown, ReadDownInterrupted, ReadReady,
     ReadWouldBlock, ReadMustWait, ReadWait, ReadWake, ReadGet, hwVars, txVars,
     callVars, ioctlVars
<1> QED
  BY <1>1, <1>2, <1>3, <1>4, <1>5, DivisorQuiet DEF Window

(* Writes put in the queue and in the chip what they accepted, or garbage. *)
LEMMA DivisorWriter ==
  ASSUME DivisorInv, NEW p \in Writers, WriteEnter(p) \/ seri_write(p),
         UNCHANGED ioctlVars
  PROVE  DivisorInv'
<1>1. p \in Procs
  BY DEF Procs
<1>2. \E to \in {"wr_down", "wr_put", "wr_flag", "wr_get", "wr_out", "user"} :
         pc' = [pc EXCEPT ![p] = to]
  BY DEF WriteEnter, WriteBegin, seri_write, WriteDown, WriteDownInterrupted,
     WritePut, WriteKick, WriteQueued, WriteGet, WriteOut, Down, DownGranted,
     DownInterrupted, Goto, Sleep, Return
<1>3. cpu \in {p, Nobody}
  BY DEF WriteEnter, seri_write, WriteDown, WriteDownInterrupted, WritePut,
     WriteKick, WriteQueued, WriteGet, WriteOut, DownGranted, DownInterrupted,
     Runs, Awake
<1>4. count' \in [Procs -> Nat]
  BY <1>1, SizesAssumption DEF DivisorInv, WriteEnter, seri_write, WriteDown,
     WriteDownInterrupted, WritePut, WriteKick, WriteQueued, WriteGet,
     WriteOut, callVars
<1>5. WindowOpen' /\ DOMAIN pc' = Procs
  <2>1. /\ \A q \in Procs \ {p} : pc'[q] = pc[q]
        /\ pc'[p] \notin Window /\ DOMAIN pc' = Procs
    BY <1>1, <1>2 DEF DivisorInv, Window
  <2> QED
    BY <1>1, <1>3, <2>1, WindowElsewhere DEF DivisorInv
<1>6. UNCHANGED <<sent, arrived, arg>>
  BY DEF WriteEnter, seri_write, WriteDown, WriteDownInterrupted, WritePut,
     WriteKick, WriteQueued, WriteGet, WriteOut, hwVars, ioctlVars
<1>7. PayloadTyped'
  <2>1. CASE WritePut(p)
    <3> DEFINE data == Ids(accepted, accepted + count[p])
    <3>1. data \in Seq(Payload)
      <4>1. accepted \in Nat /\ count[p] \in Nat
        BY <1>1 DEF DivisorInv, PayloadTyped
      <4>2. \A i \in 1 .. count[p] : accepted + i \in Payload
        BY <4>1, PayloadLemma
      <4>3. data = [i \in 1 .. count[p] |-> accepted + i]
        BY <4>1 DEF Ids
      <4> QED
        BY <4>1, <4>2, <4>3
    <3>2. /\ KfifoRoom(txfifo, data, FifoSize) \in Nat
          /\ KfifoPut(txfifo, data, FifoSize) \in Seq(Payload)
          /\ Len(KfifoPut(txfifo, data, FifoSize)) <= FifoSize
      BY <3>1, KfifoPutLemma, SizesAssumption DEF DivisorInv, PayloadTyped
    <3>3. /\ txfifo' = KfifoPut(txfifo, data, FifoSize)
          /\ accepted' = accepted + KfifoRoom(txfifo, data, FifoSize)
          /\ UNCHANGED <<uart, byte>>
      BY <2>1 DEF WritePut, hwVars
    <3> HIDE DEF data
    <3>4. /\ txfifo' \in Seq(Payload) /\ Len(txfifo') <= FifoSize
          /\ accepted' \in Nat
      BY <3>2, <3>3 DEF DivisorInv, PayloadTyped
    <3> QED
      BY <1>6, <3>3, <3>4 DEF DivisorInv, PayloadTyped
  <2>2. CASE WriteGet(p)
    <3> DEFINE c == IF txfifo = <<>> THEN Garbage ELSE Head(txfifo)
    <3>1. /\ KfifoGet(txfifo, 1) \in Seq(Payload)
          /\ Len(KfifoGet(txfifo, 1)) <= FifoSize
      <4>1. txfifo \in Seq(Payload) /\ Len(txfifo) \in Nat
            /\ Len(txfifo) <= FifoSize /\ FifoSize \in Nat
        BY LenProperties, SizesAssumption DEF DivisorInv, PayloadTyped
      <4>2. /\ KfifoGet(txfifo, 1) \in Seq(Payload)
            /\ Len(KfifoGet(txfifo, 1)) <= Len(txfifo)
        BY <4>1, KfifoGetLemma
      <4>3. Len(KfifoGet(txfifo, 1)) \in Nat
        BY <4>2, LenProperties
      <4> QED
        BY <4>1, <4>2, <4>3
    <3>2. c \in Payload
      BY HeadTailProperties, PayloadLemma DEF DivisorInv, PayloadTyped
    <3>3. /\ txfifo' = KfifoGet(txfifo, 1)
          /\ byte' = [byte EXCEPT ![p] = c]
          /\ UNCHANGED <<uart, accepted>>
      BY <2>2 DEF WriteGet, hwVars
    <3> HIDE DEF c
    <3> QED
      BY <1>1, <1>6, <3>1, <3>2, <3>3 DEF DivisorInv, PayloadTyped
  <2>3. CASE WriteOut(p)
    <3>1. /\ uart' = WriteTX(uart, byte[p])
          /\ byte' = [byte EXCEPT ![p] = NoByte]
          /\ UNCHANGED <<txfifo, accepted>>
      BY <2>3 DEF WriteOut, Touch, txVars
    <3>2. /\ uart \in Uart /\ uart.thr \in Payload /\ uart.tsr \in Payload
          /\ byte[p] \in Payload /\ arrived \in Int /\ NoByte \in Payload
      BY <1>1, PayloadLemma DEF DivisorInv, PayloadTyped
    <3>3. uart' \in Uart /\ uart'.thr \in Payload /\ uart'.tsr \in Payload
      BY <3>1, <3>2, PayloadChip
    <3> QED
      BY <1>1, <1>6, <3>1, <3>2, <3>3 DEF DivisorInv, PayloadTyped
  <2>4. CASE ~ (WritePut(p) \/ WriteGet(p) \/ WriteOut(p))
    <3>1. UNCHANGED <<uart, txfifo, byte, accepted>>
      BY <2>4 DEF WriteEnter, seri_write, WriteDown, WriteDownInterrupted,
         WriteKick, WriteQueued, hwVars, txVars, callVars
    <3> QED
      BY <1>6, <3>1 DEF DivisorInv, PayloadTyped
  <2> QED
    BY <2>1, <2>2, <2>3, <2>4
<1> QED
  BY <1>4, <1>5, <1>6, <1>7 DEF DivisorInv

(* Polls.                                                                  *)
LEMMA DivisorPoller ==
  ASSUME DivisorInv, NEW p \in Pollers, PollEnter(p) \/ seri_poll(p),
         UNCHANGED ioctlVars
  PROVE  DivisorInv'
<1>1. p \in Procs
  BY PollersAreProcs
<1>2. \E to \in {"po_wait", "po_down", "po_test", "po_ret", "po_sleep",
                 "user"} : pc' = [pc EXCEPT ![p] = to]
  BY DEF PollEnter, seri_poll, PollDown, PollWait, PollTest, PollReturn,
     PollSleep, PollAgain, Down, DownGranted, Goto, Sleep, Return
<1>3. cpu \in {p, Nobody}
  BY DEF PollEnter, seri_poll, PollDown, PollWait, PollTest, PollReturn,
     PollSleep, PollAgain, DownGranted, Runs, Awake
<1>4. UNCHANGED <<uart, sent, txfifo, byte, arrived, accepted, count, arg>>
  BY DEF PollEnter, seri_poll, PollDown, PollWait, PollTest, PollReturn,
     PollSleep, PollAgain, pollRest, hwVars, txVars, callVars, ioctlVars
<1> QED
  BY <1>1, <1>2, <1>3, <1>4, DivisorQuiet DEF Window, DivisorInv

(* ioctl writes a divisor to offset 0 only in its window.                  *)
LEMMA DivisorIoctl ==
  ASSUME DivisorInv, NEW p \in Configurers, IoctlEnter(p) \/ seri_ioctl(p)
  PROVE  DivisorInv'
<1>1. p \in Procs
  BY DEF Procs, Configurers
<1>2. cpu \in {p, Nobody}
  BY DEF IoctlEnter, IoctlUnknown, GetEnter, SetEnter, IoctlOpen, seri_ioctl,
     GetDivisor, SetDivisor, IoctlClose, Runs, Awake
<1>3. UNCHANGED <<sent, txfifo, byte, arrived, accepted, count>>
  BY DEF IoctlEnter, IoctlUnknown, GetEnter, SetEnter, IoctlOpen, seri_ioctl,
     GetDivisor, SetDivisor, IoctlClose, ioctlRest, txVars, callVars
<1>4. arg' \in [Configurers -> Divisors \cup {Divisor1200}]
  BY DEF IoctlEnter, IoctlUnknown, GetEnter, SetEnter, IoctlOpen, seri_ioctl,
     GetDivisor, SetDivisor, IoctlClose, ioctlVars, DivisorInv
<1>5. \E to \in Window \cup {"user"} :
         /\ pc' = [pc EXCEPT ![p] = to]
         /\ to \in Window => cpu' = p
  BY DEF IoctlEnter, IoctlUnknown, GetEnter, SetEnter, IoctlOpen, seri_ioctl,
     GetDivisor, SetDivisor, IoctlClose, Goto, Return, Window
<1>6. /\ uart' \in Uart /\ uart'.thr \in Payload /\ uart'.tsr \in Payload
      /\ pc'[p] \in Window => uart'.dlab
  <2>1. uart \in Uart /\ uart.thr \in Payload /\ uart.tsr \in Payload
    BY DEF DivisorInv, PayloadTyped
  <2>2. CASE IoctlUnknown(p)
    <3>1. uart' = uart /\ pc'[p] = "user"
      BY <1>1, <2>2 DEF IoctlUnknown, Return, DivisorInv
    <3> QED
      BY <2>1, <3>1 DEF Window
  <2>3. CASE GetEnter(p) \/ SetEnter(p)
    <3>1. uart' = WriteDLAB(uart, TRUE)
      BY <2>3 DEF GetEnter, SetEnter, IoctlOpen, Touch
    <3> QED
      BY <2>1, <3>1, PayloadDLAB
  <2>4. CASE GetDivisor(p) \/ SetDivisor(p)
    <3>1. uart.dlab /\ arg[p] \in Int /\ p \in Configurers
      BY <2>4, PayloadLemma DEF GetDivisor, SetDivisor, Runs, DivisorInv,
         WindowOpen, Window
    <3>2. uart' = ReadRX(uart) \/ uart' = WriteTX(uart, arg[p])
      BY <2>4 DEF GetDivisor, SetDivisor, Touch
    <3>3. uart' = uart \/ uart' = [uart EXCEPT !.dll = arg[p]]
      BY <3>1, <3>2 DEF ReadRX, WriteTX
    <3> QED
      BY <2>1, <3>1, <3>3 DEF Uart
  <2>5. CASE IoctlClose(p)
    <3>1. uart' = WriteDLAB(uart, FALSE) /\ pc'[p] = "user"
      BY <1>1, <2>5 DEF IoctlClose, Touch, Return, DivisorInv
    <3> QED
      BY <2>1, <3>1, PayloadDLAB DEF Window
  <2> QED
    BY <2>2, <2>3, <2>4, <2>5 DEF IoctlEnter, seri_ioctl
<1>7. WindowOpen' /\ DOMAIN pc' = Procs
  <2>1. /\ \A q \in Procs \ {p} : pc'[q] = pc[q]
        /\ pc'[p] \in Window => cpu' = p
        /\ DOMAIN pc' = Procs
    BY <1>1, <1>5 DEF DivisorInv
  <2> QED
    BY <1>1, <1>2, <1>6, <2>1, WindowElsewhere DEF DivisorInv
<1> QED
  BY <1>3, <1>4, <1>6, <1>7 DEF DivisorInv, PayloadTyped

(* No divisor of SET_SERI goes out as data, and none is taken for a byte   *)
(* that was queued, for any processes in the four calls: between the two   *)
(* writes to the LCR only the handler runs, and it leaves DLAB alone.      *)
THEOREM DivisorsKept == CallsSpec => []NoDivisorSent
<1>1. CallsInit => DivisorInv
  <2> SUFFICES ASSUME CallsInit PROVE DivisorInv
    OBVIOUS
  <2>1. Init /\ IoctlInit /\ Greeting \in Nat
    BY SizesAssumption DEF CallsInit, IoctlInit
  <2>2. /\ uart \in Uart /\ uart.thr = NoByte /\ uart.tsr = NoByte
    BY <2>1 DEF Init, Uart, UartConfigured, NoByte, Divisor1200
  <2>3. txfifo \in Seq(Payload) /\ Len(txfifo) <= FifoSize
    <3>1. txfifo = Ids(0, Greeting) /\ Greeting <= FifoSize
      BY <2>1, SizesAssumption DEF Init
    <3>2. \A i \in 1 .. Greeting - 0 : 0 + i \in Payload
      BY <2>1, PayloadLemma
    <3> QED
      BY <2>1, <3>1, <3>2 DEF Ids
  <2>4. PayloadTyped
    <3>1. /\ sent = <<>> /\ byte = [p \in Procs |-> NoByte]
          /\ arrived = 0 /\ accepted = Greeting
      BY <2>1 DEF Init
    <3> QED
      BY <2>1, <2>2, <2>3, <3>1, PayloadLemma DEF PayloadTyped
  <2>5. WindowOpen /\ DOMAIN pc = Procs /\ count \in [Procs -> Nat]
    BY <2>1 DEF Init, WindowOpen, Window, Configurers, Procs
  <2> QED
    BY <2>1, <2>4, <2>5 DEF IoctlInit, DivisorInv
<1>2. DivisorInv /\ [CallsNext]_allVars => DivisorInv'
  <2> SUFFICES ASSUME DivisorInv, [CallsNext]_allVars PROVE DivisorInv'
    OBVIOUS
  <2>1. CASE UNCHANGED allVars
    BY <2>1, DivisorAside DEF allVars, vars, hwVars, txVars, callVars,
       ioctlVars
  <2>2. ASSUME Next, UNCHANGED ioctlVars
        PROVE  DivisorInv'
    <3>1. ASSUME NEW p \in Procs, Enter(p) \/ Signal(p)
          PROVE  DivisorInv'
      BY <2>2, <3>1, DivisorAside DEF Enter, seri_open, seri_release, Signal,
         hwVars, txVars, callVars, ioctlVars
    <3> QED
      BY <2>2, <3>1, DivisorMachine, DivisorReader, DivisorWriter DEF Next
  <2>3. ASSUME NEW p \in Others, poll(p)
        PROVE  DivisorInv'
    BY <2>3, DivisorPoller DEF poll, Pollers
  <2>4. ASSUME NEW p \in Others, ioctl(p)
        PROVE  DivisorInv'
    BY <2>4, DivisorIoctl DEF ioctl, Configurers
  <2> QED
    BY <2>1, <2>2, <2>3, <2>4 DEF CallsNext
<1>3. DivisorInv => NoDivisorSent
  BY DEF DivisorInv, PayloadTyped, Payload, NoDivisorSent
<1> QED
  BY <1>1, <1>2, <1>3, PTL DEF CallsSpec
=============================================================================
