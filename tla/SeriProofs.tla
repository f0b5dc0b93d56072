---------------------------- MODULE SeriProofs ----------------------------
(***************************************************************************)
(* Proofs about SeriDriver for any processes, queue size, greeting, counts *)
(* of reads and writes, and bounds; for both versions of seri_write, both  *)
(* kinds of interrupt line, and, but for the mutex, any signals.           *)
(***************************************************************************)
EXTENDS SeriDriver, UartProofs, SequenceTheorems, TLAPS

Data == Int \ {NoByte}

(* The initial contents of txfifo and the bytes of a write are sequences.  *)
LEMMA IdsLemma ==
  ASSUME NEW a \in Nat, NEW b \in Nat, a <= b
  PROVE  /\ Ids(a, b) \in Seq(Data)
         /\ Len(Ids(a, b)) = b - a
<1>1. Ids(a, b) \in [1 .. (b - a) -> Data]
  BY DEF Ids, Data, NoByte
<1>2. b - a \in Nat
  OBVIOUS
<1> QED
  BY <1>1, <1>2

(* kfifo_put keeps a queue within its size.                                *)
LEMMA KfifoPutLemma ==
  ASSUME NEW S, NEW q \in Seq(S), NEW s \in Seq(S), NEW size \in Nat,
         Len(q) <= size
  PROVE  /\ KfifoRoom(q, s, size) \in Nat
         /\ KfifoPut(q, s, size) \in Seq(S)
         /\ Len(KfifoPut(q, s, size)) <= size
<1> DEFINE room == KfifoRoom(q, s, size)
<1>1. room \in 0 .. Len(s) /\ Len(q) + room <= size
  BY DEF KfifoRoom, Least
<1>2. SubSeq(s, 1, room) \in Seq(S) /\ Len(SubSeq(s, 1, room)) = room
  BY <1>1, SubSeqProperties
<1>3. /\ q \o SubSeq(s, 1, room) \in Seq(S)
      /\ Len(q \o SubSeq(s, 1, room)) = Len(q) + room
  BY <1>2, ConcatProperties
<1> QED
  BY <1>1, <1>3 DEF KfifoPut

(* kfifo_get takes a sequence and leaves one that is no longer.            *)
LEMMA KfifoGetLemma ==
  ASSUME NEW S, NEW q \in Seq(S), NEW n \in Nat
  PROVE  /\ KfifoGet(q, n) \in Seq(S)
         /\ KfifoTaken(q, n) \in Seq(S)
         /\ Len(KfifoGet(q, n)) <= Len(q)
         /\ Len(KfifoTaken(q, n)) = Least(n, Len(q))
<1> DEFINE k == Least(n, Len(q))
<1>1. k \in 0 .. Len(q)
  BY DEF Least
<1>2. SubSeq(q, 1, k) \in Seq(S) /\ Len(SubSeq(q, 1, k)) = k
  BY <1>1, SubSeqProperties
<1>3. /\ SubSeq(q, k + 1, Len(q)) \in Seq(S)
      /\ Len(SubSeq(q, k + 1, Len(q))) <= Len(q)
  BY <1>1, SubSeqProperties
<1> QED
  BY <1>2, <1>3 DEF KfifoGet, KfifoTaken

-----------------------------------------------------------------------------
(* The users of the device.                                                *)

UserInv == AtMostOneUser /\ opens \in Nat

(* Only open and release touch the count of users and the open file.       *)
LEMMA FileKept ==
  ASSUME Next, \A p \in Procs : ~ seri_open(p) /\ ~ seri_release(p)
  PROVE  UNCHANGED fileVars
<1>1. CASE seri_interrupt \/ Line
  BY <1>1 DEF seri_interrupt, IrqNone, IrqLineStatus, IrqReceive, IrqTransmit,
              Line, LineReceive, LineLoad, LineShiftOut
<1>2. ASSUME NEW p \in Procs, Signal(p)
      PROVE  UNCHANGED fileVars
  BY <1>2 DEF Signal
<1>3. ASSUME NEW p \in Readers, ReadEnter(p) \/ seri_read(p)
      PROVE  UNCHANGED fileVars
  BY <1>3 DEF ReadEnter, seri_read, ReadDown, ReadDownInterrupted, ReadReady,
              ReadWouldBlock, ReadMustWait, ReadWait, ReadWake, ReadGet
<1>4. ASSUME NEW p \in Writers, WriteEnter(p) \/ seri_write(p)
      PROVE  UNCHANGED fileVars
  BY <1>4 DEF WriteEnter, seri_write, WriteDown, WriteDownInterrupted,
              WritePut, WriteKick, WriteQueued, WriteGet, WriteOut
<1> QED
  BY <1>1, <1>2, <1>3, <1>4 DEF Next, Enter

(* The count of users is that of open files.                               *)
LEMMA UsersCounted == Spec => []UserInv
<1>1. Init => UserInv
  BY DEF Init, UserInv, AtMostOneUser
<1>2. ASSUME UserInv, [Next]_vars
      PROVE  UserInv'
  <2>1. CASE UNCHANGED fileVars
    BY <1>2, <2>1 DEF UserInv, AtMostOneUser, fileVars
  <2>2. ASSUME NEW p \in Procs, seri_open(p)
        PROVE  UserInv'
    BY <1>2, <2>2 DEF UserInv, AtMostOneUser, seri_open, fileVars
  <2>3. ASSUME NEW p \in Procs, seri_release(p)
        PROVE  UserInv'
    BY <1>2, <2>3 DEF UserInv, AtMostOneUser, seri_release
  <2>4. CASE UNCHANGED vars
    BY <2>1, <2>4 DEF vars
  <2> QED
    BY <1>2, <2>1, <2>2, <2>3, <2>4, FileKept
<1> QED
  BY <1>1, <1>2, PTL DEF Spec

(* "we prevent more than one user to open the device": at most one open    *)
(* file at any time, for any number of processes that open and release.    *)
THEOREM OneUser == Spec => []AtMostOneUser
  BY UsersCounted, PTL DEF UserInv

-----------------------------------------------------------------------------
(* The transmitter, as far as THR and THRE go: whether the handler is      *)
(* called for a THRE is the line's part, below.  BytesMove is not          *)
(* inductive: that a writer may leave its bytes to the handler when it     *)
(* finds txflag = 0 depends on FlagTrue, and that filling the THR counts   *)
(* as progress depends on no byte being NoByte and on DLAB being clear.    *)

Labels == ReadLabels \cup WriteLabels \cup {"user"}

ChipTyped == uart \in Uart /\ ~ uart.dlab

QueueTyped ==
    /\ txflag \in {0, 1}
    /\ accepted \in Nat
    /\ txfifo \in Seq(Data) /\ Len(txfifo) <= FifoSize

CallTyped ==
    /\ pc \in [Procs -> Labels]
    /\ count \in [Procs -> Nat]
    /\ byte \in [Procs -> Int]
    /\ \A p \in Writers : pc[p] = "wr_out" => byte[p] \in Data

FlagTrue == txflag = 0 => uart.thr # NoByte \/ uart.thri

BytesMove ==
    txfifo # <<>> =>
        \/ uart.thr # NoByte
        \/ uart.thri
        \/ \E p \in Writers : pc[p] \in {"wr_flag", "wr_get", "wr_out"}

TxInv ==
    /\ ChipTyped /\ QueueTyped /\ CallTyped
    /\ FlagTrue /\ BytesMove

(* A greeting is queued and the THRE interrupt that starts it is due.      *)
LEMMA TxInit == Init => TxInv
<1> SUFFICES ASSUME Init PROVE TxInv
  OBVIOUS
<1>1. QueueTyped
  <2>1. 0 \in Nat /\ Greeting \in Nat /\ 0 <= Greeting /\ Greeting - 0 <= FifoSize
    BY SizesAssumption
  <2>2. Ids(0, Greeting) \in Seq(Data) /\ Len(Ids(0, Greeting)) <= FifoSize
    BY <2>1, IdsLemma
  <2> QED
    BY <2>1, <2>2 DEF Init, QueueTyped
<1>2. ChipTyped /\ uart.thri
  BY DEF Init, ChipTyped, Uart, UartConfigured, Divisor1200, NoByte
<1>3. CallTyped
  BY DEF Init, CallTyped, Procs, NoByte, Labels, ReadLabels, WriteLabels
<1> QED
  BY <1>1, <1>2, <1>3 DEF TxInv, FlagTrue, BytesMove

(* A step that fills the THR, or keeps THR and THRE interrupt as they are, *)
(* or raises the interrupt, leaves the transmitter as reliable as it was.  *)
LEMMA TxChip ==
  ASSUME TxInv, ChipTyped',
         UNCHANGED <<txVars, pc, count, byte>>,
         \/ uart'.thri
         \/ uart'.thr # NoByte
         \/ uart'.thr = uart.thr /\ uart'.thri = uart.thri
  PROVE  TxInv'
<1>1. QueueTyped' /\ CallTyped'
  BY DEF TxInv, QueueTyped, CallTyped, txVars
<1>2. FlagTrue' /\ BytesMove'
  BY DEF TxInv, FlagTrue, BytesMove, txVars
<1> QED
  BY <1>1, <1>2 DEF TxInv

(* The handler: it clears the THRE interrupt only to fill the THR or to    *)
(* set txflag with txfifo empty.                                           *)
LEMMA TxInterrupt ==
  ASSUME TxInv, seri_interrupt
  PROVE  TxInv'
<1>1. CASE IrqNone \/ IrqLineStatus \/ IrqReceive
  <2>1. UNCHANGED <<txVars, pc, count, byte>>
    BY <1>1 DEF IrqNone, IrqLineStatus, IrqReceive, callVars
  <2>2. uart' \in {uart, ReadLSR(uart), ReadRX(uart)}
    BY <1>1 DEF IrqNone, IrqLineStatus, IrqReceive, Serve
  <2>3. ChipTyped' /\ uart'.thr = uart.thr /\ uart'.thri = uart.thri
    <3>1. uart \in Uart /\ ~ uart.dlab
      BY DEF TxInv, ChipTyped
    <3>2. ChipTyped'
      BY <2>2, <3>1, ChipLemma DEF ChipTyped
    <3>3. uart'.thr = uart.thr /\ uart'.thri = uart.thri
      BY <2>2, <3>1 DEF ReadLSR, ReadRX, Uart
    <3> QED
      BY <3>2, <3>3
  <2> QED
    BY <2>1, <2>3, TxChip
<1>2. CASE IrqTransmit /\ txfifo # <<>>
  <2> DEFINE acked == ReadIIR(uart)
  <2>1. acked \in Uart /\ ~ acked.dlab
    BY <1>2 DEF IrqTransmit, ReadIIR, TxInv, ChipTyped, Uart
  <2>2. /\ uart' = WriteTX(acked, Head(txfifo))
        /\ txfifo' = Tail(txfifo)
        /\ txflag' = 0
        /\ UNCHANGED <<accepted, pc, count, byte>>
    BY <1>2 DEF IrqTransmit, Serve, callVars
  <2>3. /\ Head(txfifo) \in Data
        /\ Tail(txfifo) \in Seq(Data)
        /\ Len(Tail(txfifo)) <= FifoSize
    BY <1>2, HeadTailProperties, LenProperties, SizesAssumption
       DEF TxInv, QueueTyped
  <2>4. ChipTyped' /\ uart'.thr # NoByte
    BY <2>1, <2>2, <2>3 DEF WriteTX, ChipTyped, Uart, Data
  <2>5. QueueTyped' /\ CallTyped'
    BY <2>2, <2>3 DEF TxInv, QueueTyped, CallTyped
  <2> QED
    BY <2>4, <2>5 DEF TxInv, FlagTrue, BytesMove
<1>3. CASE IrqTransmit /\ txfifo = <<>>
  <2>1. /\ uart' = ReadIIR(uart) /\ txflag' = 1 /\ txfifo' = <<>>
        /\ UNCHANGED <<txfifo, accepted, pc, count, byte>>
    BY <1>3 DEF IrqTransmit, Serve, callVars
  <2>2. ChipTyped'
    BY <2>1 DEF ReadIIR, TxInv, ChipTyped, Uart
  <2>3. QueueTyped' /\ CallTyped'
    BY <2>1 DEF TxInv, QueueTyped, CallTyped
  <2> QED
    BY <2>1, <2>2, <2>3 DEF TxInv, FlagTrue, BytesMove
<1> QED
  BY <1>1, <1>2, <1>3 DEF seri_interrupt

(* The line: it empties the THR only together with raising THRE.           *)
LEMMA TxLine ==
  ASSUME TxInv, Line, arrived \in Nat
  PROVE  TxInv'
<1>1. UNCHANGED <<txVars, pc, count, byte>>
  BY DEF Line, LineReceive, LineLoad, LineShiftOut, callVars
<1>2. CASE LineReceive
  <2>1. uart' = Receive(uart, arrived + 1)
    BY <1>2 DEF LineReceive, Touch
  <2>2. ChipTyped' /\ uart'.thr = uart.thr /\ uart'.thri = uart.thri
    <3>1. uart \in Uart /\ ~ uart.dlab
      BY DEF TxInv, ChipTyped
    <3>2. ChipTyped'
      BY <2>1, <3>1, ChipLemma DEF ChipTyped
    <3>3. uart'.thr = uart.thr /\ uart'.thri = uart.thri
      BY <2>1, <3>1 DEF Receive, Uart
    <3> QED
      BY <3>2, <3>3
  <2> QED
    BY <1>1, <2>2, TxChip
<1>3. CASE LineLoad
  <2>1. ChipTyped' /\ uart'.thri
    <3>1. uart \in Uart /\ ~ uart.dlab /\ uart' = Load(uart)
      BY <1>3 DEF LineLoad, Touch, TxInv, ChipTyped
    <3>2. ChipTyped'
      BY <3>1, ChipLemma DEF ChipTyped
    <3>3. uart'.thri
      BY <3>1 DEF Load, Uart
    <3> QED
      BY <3>2, <3>3
  <2> QED
    BY <1>1, <2>1, TxChip
<1>4. CASE LineShiftOut
  <2>1. ChipTyped' /\ uart'.thr = uart.thr /\ uart'.thri = uart.thri
    BY <1>4 DEF LineShiftOut, Touch, ShiftOut, TxInv, ChipTyped, Uart, NoByte
  <2> QED
    BY <1>1, <2>1, TxChip
<1> QED
  BY <1>2, <1>3, <1>4 DEF Line

(* A step that leaves the transmitter alone and only moves a process, from *)
(* outside the last steps of a write or within them, but not to the outb.  *)
LEMMA TxUntouched ==
  ASSUME TxInv,
         UNCHANGED <<uart, txVars, byte>>,
         pc' \in [Procs -> Labels],
         count' \in [Procs -> Nat],
         \A q \in Writers :
            /\ pc'[q] = "wr_out" => pc[q] = "wr_out"
            /\ pc[q] \in {"wr_flag", "wr_get", "wr_out"}
                 => pc'[q] \in {"wr_flag", "wr_get", "wr_out"}
  PROVE  TxInv'
<1>1. ChipTyped' /\ QueueTyped'
  BY DEF TxInv, ChipTyped, QueueTyped, txVars
<1>2. CallTyped'
  BY DEF TxInv, CallTyped
<1>3. FlagTrue' /\ BytesMove'
  BY DEF TxInv, FlagTrue, BytesMove, txVars
<1> QED
  BY <1>1, <1>2, <1>3 DEF TxInv

(* The steps of a reader.                                                  *)
LEMMA TxReader ==
  ASSUME TxInv, NEW p \in Readers, ReadEnter(p) \/ seri_read(p)
  PROVE  TxInv'
<1>1. UNCHANGED <<uart, txVars, byte>>
  BY DEF ReadEnter, seri_read, ReadDown, ReadDownInterrupted, ReadReady,
         ReadWouldBlock, ReadMustWait, ReadWait, ReadWake, ReadGet,
         hwVars, callVars
<1>2. count' \in [Procs -> Nat]
  BY SizesAssumption
     DEF ReadEnter, seri_read, ReadDown, ReadDownInterrupted, ReadReady,
         ReadWouldBlock, ReadMustWait, ReadWait, ReadWake, ReadGet,
         callVars, TxInv, CallTyped, Procs
<1>3. \E to \in Labels : pc' = [pc EXCEPT ![p] = to]
  BY DEF ReadEnter, seri_read, ReadDown, ReadDownInterrupted, ReadReady,
         ReadWouldBlock, ReadMustWait, ReadWait, ReadWake, ReadGet,
         Down, DownGranted, DownInterrupted, Goto, Sleep, Return,
         Labels, ReadLabels
<1>4. pc \in [Procs -> Labels] /\ p \in Procs /\ p \notin Writers
      /\ Writers \subseteq Procs
  BY ProcsAssumption DEF TxInv, CallTyped, Procs
<1>5. pc' \in [Procs -> Labels] /\ \A q \in Writers : pc'[q] = pc[q]
  BY <1>3, <1>4
<1> QED
  BY <1>1, <1>2, <1>5, TxUntouched

(* The steps of a writer: it leaves with bytes queued only if txflag is 0, *)
(* or if it has filled the THR itself.                                     *)
LEMMA TxWriter ==
  ASSUME TxInv, NEW p \in Writers, WriteEnter(p) \/ seri_write(p)
  PROVE  TxInv'
<1>0. p \in Procs /\ Writers \subseteq Procs
  BY DEF Procs
<1>1. CASE WriteEnter(p) \/ WriteDown(p) \/ WriteDownInterrupted(p) \/ WriteKick(p)
  <2>1. UNCHANGED <<uart, txVars, byte>>
    BY <1>1 DEF WriteEnter, WriteDown, WriteDownInterrupted, WriteKick,
                hwVars, callVars
  <2>2. count' \in [Procs -> Nat]
    BY <1>0, <1>1, SizesAssumption
       DEF WriteEnter, WriteDown, WriteDownInterrupted, WriteKick, callVars,
           TxInv, CallTyped
  <2>3. \E to \in {"wr_down", "wr_put", "wr_get"} :
           /\ pc' = [pc EXCEPT ![p] = to]
           /\ to \in {"wr_down", "wr_put"} =>
                pc[p] \notin {"wr_flag", "wr_get", "wr_out"}
    BY <1>1 DEF WriteEnter, WriteBegin, WriteDown, WriteDownInterrupted, WriteKick, Down,
                DownGranted, DownInterrupted, Goto, Sleep, Awake
  <2>4. /\ pc' \in [Procs -> Labels]
        /\ \A q \in Writers :
              /\ pc'[q] = "wr_out" => pc[q] = "wr_out"
              /\ pc[q] \in {"wr_flag", "wr_get", "wr_out"}
                   => pc'[q] \in {"wr_flag", "wr_get", "wr_out"}
    BY <1>0, <2>3 DEF TxInv, CallTyped, Labels, WriteLabels
  <2> QED
    BY <2>1, <2>2, <2>4, TxUntouched
<1>2. CASE WritePut(p)
  <2> DEFINE data == Ids(accepted, accepted + count[p])
  <2>1. data \in Seq(Data)
    <3>1. /\ accepted \in Nat /\ accepted + count[p] \in Nat
          /\ accepted <= accepted + count[p]
      BY <1>0 DEF TxInv, QueueTyped, CallTyped
    <3> QED
      BY <3>1, IdsLemma
  <2>2. /\ KfifoRoom(txfifo, data, FifoSize) \in Nat
        /\ KfifoPut(txfifo, data, FifoSize) \in Seq(Data)
        /\ Len(KfifoPut(txfifo, data, FifoSize)) <= FifoSize
    BY <2>1, KfifoPutLemma, SizesAssumption DEF TxInv, QueueTyped
  <2>3. /\ txfifo' = KfifoPut(txfifo, data, FifoSize)
        /\ accepted' = accepted + KfifoRoom(txfifo, data, FifoSize)
        /\ pc' = [pc EXCEPT ![p] = "wr_flag"]
        /\ UNCHANGED <<uart, txflag, count, byte>>
    BY <1>2 DEF WritePut, Goto, hwVars
  <2>4. ChipTyped' /\ QueueTyped'
    BY <2>2, <2>3 DEF TxInv, ChipTyped, QueueTyped
  <2>5. CallTyped'
    <3>1. pc' \in [Procs -> Labels]
      BY <2>3 DEF TxInv, CallTyped, Labels, WriteLabels
    <3>2. ASSUME NEW q \in Writers, pc'[q] = "wr_out"
          PROVE  byte'[q] \in Data
      BY <1>0, <2>3, <3>2 DEF TxInv, CallTyped
    <3> QED
      BY <2>3, <3>1, <3>2 DEF TxInv, CallTyped
  <2>6. FlagTrue' /\ BytesMove'
    BY <1>0, <2>3 DEF TxInv, CallTyped, FlagTrue, BytesMove
  <2> QED
    BY <2>4, <2>5, <2>6 DEF TxInv
<1>3. CASE WriteQueued(p)
  <2>1. /\ txflag = 0
        /\ UNCHANGED <<uart, txVars, byte, count>>
        /\ pc' = [pc EXCEPT ![p] = "user"]
    BY <1>3 DEF WriteQueued, Return, hwVars, TxInv, QueueTyped
  <2>2. ChipTyped' /\ QueueTyped'
    BY <2>1 DEF TxInv, ChipTyped, QueueTyped, txVars
  <2>3. CallTyped'
    <3>1. pc' \in [Procs -> Labels]
      BY <2>1 DEF TxInv, CallTyped, Labels
    <3>2. ASSUME NEW q \in Writers, pc'[q] = "wr_out"
          PROVE  byte'[q] \in Data
      BY <1>0, <2>1, <3>2 DEF TxInv, CallTyped
    <3> QED
      BY <2>1, <3>1, <3>2 DEF TxInv, CallTyped
  <2>4. FlagTrue' /\ BytesMove'
    BY <2>1 DEF TxInv, FlagTrue, BytesMove, txVars
  <2> QED
    BY <2>2, <2>3, <2>4 DEF TxInv
<1>4. CASE WriteGet(p)
  <2> DEFINE c == IF txfifo = <<>> THEN Garbage ELSE Head(txfifo)
  <2>1. /\ KfifoGet(txfifo, 1) \in Seq(Data)
        /\ Len(KfifoGet(txfifo, 1)) <= FifoSize
    BY KfifoGetLemma, LenProperties, SizesAssumption DEF TxInv, QueueTyped
  <2>2. c \in Data
    BY HeadTailProperties DEF TxInv, QueueTyped, Data, Garbage, NoByte
  <2>3. /\ txfifo' = KfifoGet(txfifo, 1)
        /\ byte' = [byte EXCEPT ![p] = c]
        /\ pc' = [pc EXCEPT ![p] = "wr_out"]
        /\ UNCHANGED <<uart, txflag, accepted, count>>
    BY <1>4 DEF WriteGet, Goto, hwVars
  <2>4. ChipTyped' /\ QueueTyped'
    BY <2>1, <2>3 DEF TxInv, ChipTyped, QueueTyped
  <2>5. CallTyped'
    <3>1. pc' \in [Procs -> Labels] /\ byte' \in [Procs -> Int]
      BY <2>2, <2>3 DEF TxInv, CallTyped, Data, Labels, WriteLabels
    <3>2. ASSUME NEW q \in Writers, pc'[q] = "wr_out"
          PROVE  byte'[q] \in Data
      BY <1>0, <2>2, <2>3, <3>2 DEF TxInv, CallTyped
    <3> QED
      BY <2>3, <3>1, <3>2 DEF TxInv, CallTyped
  <2>6. FlagTrue' /\ BytesMove'
    BY <1>0, <2>3 DEF TxInv, CallTyped, FlagTrue, BytesMove
  <2> QED
    BY <2>4, <2>5, <2>6 DEF TxInv
<1>5. CASE WriteOut(p)
  <2>1. /\ uart' = WriteTX(uart, byte[p])
        /\ byte' = [byte EXCEPT ![p] = NoByte]
        /\ pc' = [pc EXCEPT ![p] = "user"]
        /\ UNCHANGED <<txVars, count>>
    BY <1>5 DEF WriteOut, Touch, Return
  <2>2. byte[p] \in Data
    BY <1>5 DEF WriteOut, Runs, TxInv, CallTyped
  <2>3. ChipTyped' /\ uart'.thr # NoByte
    BY <2>1, <2>2 DEF WriteTX, TxInv, ChipTyped, Uart, Data
  <2>4. QueueTyped'
    BY <2>1 DEF TxInv, QueueTyped, txVars
  <2>5. CallTyped'
    <3>1. pc' \in [Procs -> Labels]
      BY <2>1 DEF TxInv, CallTyped, Labels
    <3>2. NoByte \in Int
      BY DEF NoByte
    <3>3. byte' \in [Procs -> Int]
      BY <2>1, <3>2 DEF TxInv, CallTyped
    <3>4. ASSUME NEW q \in Writers, pc'[q] = "wr_out"
          PROVE  byte'[q] \in Data
      BY <1>0, <2>1, <3>4 DEF TxInv, CallTyped
    <3> QED
      BY <2>1, <3>1, <3>3, <3>4 DEF TxInv, CallTyped
  <2> QED
    BY <2>3, <2>4, <2>5 DEF TxInv, FlagTrue, BytesMove
<1> QED
  BY <1>1, <1>2, <1>3, <1>4, <1>5 DEF seri_write

(* open, release and signals.                                              *)
LEMMA TxOther ==
  ASSUME TxInv, NEW p \in Procs, Enter(p) \/ Signal(p)
  PROVE  TxInv'
<1>1. UNCHANGED <<uart, txVars, byte, pc, count>>
  BY DEF Enter, seri_open, seri_release, Signal, hwVars, callVars
<1> QED
  BY <1>1, TxUntouched DEF TxInv, CallTyped

(* The history of arrivals is a number.                                    *)
LEMMA ArrivedNat == Spec => [](arrived \in Nat)
<1>1. Init => arrived \in Nat
  BY DEF Init
<1>2. arrived \in Nat /\ [Next]_vars => (arrived \in Nat)'
  BY DEF Next, vars, hwVars, seri_interrupt, IrqNone, IrqLineStatus, IrqReceive,
         IrqTransmit, Line, LineReceive, LineLoad, LineShiftOut, Enter,
         seri_open, seri_release, Signal, ReadEnter, seri_read, ReadDown,
         ReadDownInterrupted, ReadReady, ReadWouldBlock, ReadMustWait,
         ReadWait, ReadWake, ReadGet, WriteEnter, seri_write, WriteDown,
         WriteDownInterrupted, WritePut, WriteKick, WriteQueued, WriteGet,
         WriteOut
<1> QED
  BY <1>1, <1>2, PTL DEF Spec

(* The inductive invariant of the transmitter.                             *)
LEMMA TxInvariant == Spec => []TxInv
<1>1. TxInv /\ arrived \in Nat /\ [Next]_vars => TxInv'
  <2> SUFFICES ASSUME TxInv, arrived \in Nat, [Next]_vars PROVE TxInv'
    OBVIOUS
  <2>1. CASE UNCHANGED vars
    BY <2>1, TxUntouched DEF vars, hwVars, callVars, TxInv, CallTyped
  <2> QED
    BY <2>1, TxInterrupt, TxLine, TxOther, TxReader, TxWriter DEF Next
<1> QED
  BY <1>1, TxInit, ArrivedNat, PTL DEF Spec

-----------------------------------------------------------------------------
(* The interrupt line.  A THRE that is due calls the handler, unless the   *)
(* line is edge triggered and silent; before anything is received THRI is  *)
(* the one source there can be, and the handler's acknowledgement lets     *)
(* INTR fall, so that the next THRE is an edge.                            *)

EdgeInv ==
    /\ uart.ier
    /\ EdgeTriggered /\ arrived = 0 =>
          /\ ~ uart.oe /\ uart.rbr = NoByte
          /\ uart.thri => irr

(* While no other source than THRI is pending, INTR is THRI.               *)
LEMMA OnlyThri ==
  ASSUME NEW u \in Uart, u.ier, ~ u.oe, u.rbr = NoByte
  PROVE  (IIR(u) = "THRI" <=> u.thri) /\ (INTR(u) <=> u.thri)
BY DEF INTR, IIR

(* A chip of which a step changes neither the enables nor the receiver,    *)
(* and where a THRE that comes due is an edge.                             *)
LEMMA EdgeTouched ==
  ASSUME EdgeInv, uart \in Uart, uart' \in Uart, arrived' = arrived,
         Touch(uart'),
         uart'.ier = uart.ier /\ uart'.oe = uart.oe /\ uart'.rbr = uart.rbr
  PROVE  EdgeInv'
<1>1. uart'.ier
  BY DEF EdgeInv
<1>2. ASSUME EdgeTriggered, arrived' = 0
      PROVE  /\ ~ uart'.oe /\ uart'.rbr = NoByte
             /\ uart'.thri => irr'
  <2>1. uart.ier /\ ~ uart.oe /\ uart.rbr = NoByte /\ (uart.thri => irr)
    BY <1>2 DEF EdgeInv
  <2>2. INTR(uart) <=> uart.thri
    BY <2>1, OnlyThri
  <2>3. INTR(uart') <=> uart'.thri
    BY <1>1, <2>1, OnlyThri
  <2>4. irr' <=> (irr \/ (~ INTR(uart) /\ INTR(uart')))
    BY <1>2 DEF Touch
  <2> QED
    BY <2>1, <2>2, <2>3, <2>4
<1> QED
  BY <1>1, <1>2 DEF EdgeInv

(* The handler and the line.                                               *)
LEMMA EdgeMachine ==
  ASSUME EdgeInv, TxInv, arrived \in Nat, seri_interrupt \/ Line
  PROVE  EdgeInv'
<1>0. uart \in Uart /\ ~ uart.dlab /\ uart.ier /\ arrived + 1 \in Int
  BY DEF TxInv, ChipTyped, EdgeInv
<1>1. CASE seri_interrupt
  <2>1. uart'.ier /\ arrived' = arrived
    BY <1>0, <1>1 DEF seri_interrupt, IrqNone, IrqLineStatus, IrqReceive,
       IrqTransmit, Serve, ReadLSR, ReadRX, ReadIIR, WriteTX, Uart
  <2>2. ASSUME EdgeTriggered, arrived = 0
        PROVE  /\ ~ uart'.oe /\ uart'.rbr = NoByte
               /\ uart'.thri => irr'
    <3>1. ~ uart.oe /\ uart.rbr = NoByte /\ (uart.thri => irr)
      BY <2>2 DEF EdgeInv
    <3>2. IIR(uart) = "THRI" <=> uart.thri
      BY <1>0, <3>1, OnlyThri
    <3>3. CASE IrqNone
      <4>1. uart' = uart /\ ~ uart.thri
        BY <3>2, <3>3 DEF IrqNone, Serve
      <4> QED
        BY <3>1, <4>1
    <3>4. CASE IrqLineStatus \/ IrqReceive
      BY <3>1, <3>4 DEF IrqLineStatus, IrqReceive, IIR
    <3>5. CASE IrqTransmit
      <4>1. PICK u : u = ReadIIR(uart)
        OBVIOUS
      <4>2. /\ u \in Uart /\ ~ u.dlab /\ ~ u.oe /\ u.rbr = NoByte /\ ~ u.thri
        BY <1>0, <3>1, <3>5, <4>1 DEF IrqTransmit, ReadIIR, Uart
      <4>3. uart' \in {u, WriteTX(u, Head(txfifo))}
        BY <3>5, <4>1 DEF IrqTransmit, Serve
      <4> QED
        BY <4>2, <4>3 DEF WriteTX, Uart
    <3> QED
      BY <1>1, <3>3, <3>4, <3>5 DEF seri_interrupt
  <2> QED
    BY <2>1, <2>2 DEF EdgeInv
<1>2. CASE LineReceive
  <2>1. arrived' # 0 /\ uart'.ier
    BY <1>0, <1>2 DEF LineReceive, Touch, Receive, Uart
  <2> QED
    BY <2>1 DEF EdgeInv
<1>3. CASE LineLoad
  <2>1. uart' = Load(uart) /\ Touch(uart') /\ arrived' = arrived
    BY <1>3 DEF LineLoad, Touch
  <2>2. uart' \in Uart
    BY <1>0, <2>1, ChipLemma
  <2>3. uart'.ier = uart.ier /\ uart'.oe = uart.oe /\ uart'.rbr = uart.rbr
    BY <1>0, <2>1 DEF Load, Uart
  <2> QED
    BY <1>0, <2>1, <2>2, <2>3, EdgeTouched
<1>4. CASE LineShiftOut
  <2>1. uart' = ShiftOut(uart) /\ Touch(uart') /\ arrived' = arrived
    BY <1>4 DEF LineShiftOut, Touch
  <2>2. uart' \in Uart
    BY <1>0, <2>1, ChipLemma
  <2>3. uart'.ier = uart.ier /\ uart'.oe = uart.oe /\ uart'.rbr = uart.rbr
    BY <1>0, <2>1 DEF ShiftOut, Uart
  <2> QED
    BY <1>0, <2>1, <2>2, <2>3, EdgeTouched
<1> QED
  BY <1>1, <1>2, <1>3, <1>4 DEF Line

(* Of the calls only the outb of a write touches the chip.                 *)
LEMMA EdgeWriter ==
  ASSUME EdgeInv, TxInv, NEW p \in Writers, WriteOut(p)
  PROVE  EdgeInv'
<1>1. uart' = WriteTX(uart, byte[p]) /\ Touch(uart') /\ arrived' = arrived
  BY DEF WriteOut, Touch
<1>2. uart \in Uart /\ byte[p] \in Int
  BY DEF TxInv, ChipTyped, CallTyped, Procs
<1>3. uart' \in Uart
  BY <1>1, <1>2, ChipLemma
<1>4. uart'.ier = uart.ier /\ uart'.oe = uart.oe /\ uart'.rbr = uart.rbr
  BY <1>1, <1>2 DEF WriteTX, Uart
<1> QED
  BY <1>1, <1>2, <1>3, <1>4, EdgeTouched

LEMMA EdgeStep ==
  ASSUME EdgeInv, TxInv, arrived \in Nat, [Next]_vars
  PROVE  EdgeInv'
<1>1. CASE UNCHANGED hwVars
  BY <1>1 DEF hwVars, EdgeInv
<1>2. CASE UNCHANGED vars
  BY <1>1, <1>2 DEF vars
<1>3. ASSUME NEW p \in Procs, Enter(p) \/ Signal(p)
      PROVE  EdgeInv'
  BY <1>1, <1>3 DEF Enter, seri_open, seri_release, Signal
<1>4. ASSUME NEW p \in Readers, ReadEnter(p) \/ seri_read(p)
      PROVE  EdgeInv'
  BY <1>1, <1>4 DEF ReadEnter, seri_read, ReadDown, ReadDownInterrupted,
     ReadReady, ReadWouldBlock, ReadMustWait, ReadWait, ReadWake, ReadGet
<1>5. ASSUME NEW p \in Writers, WriteEnter(p) \/ seri_write(p)
      PROVE  EdgeInv'
  <2>1. CASE WriteOut(p)
    BY <2>1, EdgeWriter
  <2>2. CASE ~ WriteOut(p)
    BY <1>1, <1>5, <2>2 DEF WriteEnter, seri_write, WriteDown,
       WriteDownInterrupted, WritePut, WriteKick, WriteQueued, WriteGet
  <2> QED
    BY <2>1, <2>2
<1> QED
  BY <1>2, <1>3, <1>4, <1>5, EdgeMachine DEF Next

LEMMA EdgeInvariant == Spec => [](TxInv /\ EdgeInv)
<1>1. Init => EdgeInv
  BY DEF Init, EdgeInv, UartConfigured
<1>2. EdgeInv /\ TxInv /\ arrived \in Nat /\ [Next]_vars => EdgeInv'
  BY EdgeStep
<1> QED
  BY <1>1, <1>2, TxInvariant, ArrivedNat, PTL DEF Spec

(* A THRE that is due has the handler called, but for a silent line, and a *)
(* silent line has received something.                                     *)
LEMMA ThriDue ==
  ASSUME TxInv, EdgeInv, arrived \in Nat, uart.thri
  PROVE  TxDue \/ (LineSilent /\ arrived > 0)
<1>1. INTR(uart)
  BY DEF EdgeInv, INTR, IIR
<1> QED
  BY <1>1, SwitchesAssumption DEF TxDue, Interrupted, LineSilent, EdgeInv

(* Bytes in txfifo are on their way: the handler and the writers of seri.c *)
(* never both leave the transmitter to the other.  Only a silent edge      *)
(* triggered line strands them, and only after a byte has been received.   *)
THEOREM NeverStalls == Spec => []TxNeverStalls
<1>1. TxInv /\ EdgeInv /\ arrived \in Nat => TxNeverStalls
  <2> SUFFICES ASSUME TxInv, EdgeInv, arrived \in Nat PROVE TxNeverStalls
    OBVIOUS
  <2> QED
    BY ThriDue DEF TxNeverStalls, TxInv, BytesMove
<1> QED
  BY <1>1, EdgeInvariant, ArrivedNat, PTL

(* txflag = 0 means that the handler is still to be called for the         *)
(* transmitter, with the same exception.                                   *)
THEOREM FlagReliable == Spec => []TxFlagReliable
<1>1. TxInv /\ EdgeInv /\ arrived \in Nat => TxFlagReliable
  <2> SUFFICES ASSUME TxInv, EdgeInv, arrived \in Nat PROVE TxFlagReliable
    OBVIOUS
  <2> QED
    BY ThriDue DEF TxFlagReliable, TxInv, FlagTrue
<1> QED
  BY <1>1, EdgeInvariant, ArrivedNat, PTL

(* On a level triggered line, or where nothing is received, there is no    *)
(* exception: the handler is going to be called for whatever is in txfifo  *)
(* and no writer is about to start.                                        *)
THEOREM OutputAloneMoves ==
  ASSUME ~ EdgeTriggered \/ MaxRx = 0
  PROVE  Spec => [](txfifo # <<>> =>
                      \/ uart.thr # NoByte
                      \/ TxDue
                      \/ \E p \in Writers : pc[p] \in {"wr_flag", "wr_get", "wr_out"})
<1> DEFINE Bounded == arrived \in Nat /\ arrived <= MaxRx
           Moves == txfifo # <<>> =>
                      \/ uart.thr # NoByte
                      \/ TxDue
                      \/ \E p \in Writers : pc[p] \in {"wr_flag", "wr_get", "wr_out"}
<1>1. Init => Bounded
  BY SwitchesAssumption DEF Init
<1>2. Bounded /\ [Next]_vars => Bounded'
  <2> SUFFICES ASSUME Bounded, [Next]_vars PROVE Bounded'
    OBVIOUS
  <2>1. CASE LineReceive
    BY <2>1, SwitchesAssumption DEF LineReceive
  <2>2. CASE ~ LineReceive
    <3>1. arrived' = arrived
      BY <2>2 DEF Next, vars, hwVars, seri_interrupt, IrqNone, IrqLineStatus,
         IrqReceive, IrqTransmit, Line, LineLoad, LineShiftOut, Enter,
         seri_open, seri_release, Signal, ReadEnter, seri_read, ReadDown,
         ReadDownInterrupted, ReadReady, ReadWouldBlock, ReadMustWait,
         ReadWait, ReadWake, ReadGet, WriteEnter, seri_write, WriteDown,
         WriteDownInterrupted, WritePut, WriteKick, WriteQueued, WriteGet,
         WriteOut
    <3> QED
      BY <3>1
  <2> QED
    BY <2>1, <2>2
<1>3. Bounded /\ TxNeverStalls => Moves
  BY DEF TxNeverStalls, LineSilent
<1> QED
  BY <1>1, <1>2, <1>3, NeverStalls, PTL DEF Spec

-----------------------------------------------------------------------------
(* No byte goes out twice.  The bytes on their way are in five places:     *)
(* sent, the two registers of the transmitter, the hand of a writer and    *)
(* txfifo.  Their order is not kept (seri_twowrites), and bytes are lost,  *)
(* but a step takes a byte out of the place it puts it from.               *)

(* No byte but garbage is twice in s; the bytes of s; the byte of b.       *)
Once(s) == \A i, j \in 1 .. Len(s) : i # j /\ s[i] = s[j] => s[i] = Garbage
Tags(s) == {s[i] : i \in 1 .. Len(s)} \ {Garbage}
Tag(b)  == {b} \ {NoByte, Garbage}

Hand == IF cpu = Nobody THEN NoByte ELSE byte[cpu]

HandInv ==
    /\ cpu \in Procs \cup {Nobody}
    /\ \A p \in Procs : pc[p] # "wr_out" => byte[p] = NoByte

FivePlaces(a, b, c, d, e) ==
    /\ a \cap b = {} /\ (a \cup b) \cap c = {} /\ (a \cup b \cup c) \cap d = {}
    /\ (a \cup b \cup c \cup d) \cap e = {}

OnceInv ==
    /\ sent \in Seq(Int) /\ Once(sent) /\ Once(txfifo)
    /\ FivePlaces(Tags(sent), Tag(uart.tsr), Tag(uart.thr), Tag(Hand),
                  Tags(txfifo))
    /\ \A b \in Tags(sent) \cup Tag(uart.tsr) \cup Tag(uart.thr) \cup Tag(Hand)
                \cup Tags(txfifo) : b <= accepted
    /\ HandInv

(* One sequence behind another.                                            *)
LEMMA OnceConcat ==
  ASSUME NEW s \in Seq(Int), NEW t \in Seq(Int), Once(s), Once(t),
         Tags(s) \cap Tags(t) = {}
  PROVE  /\ s \o t \in Seq(Int) /\ Once(s \o t)
         /\ Tags(s \o t) = Tags(s) \cup Tags(t)
<1> DEFINE m == Len(s)
           n == Len(t)
           u == s \o t
<1>1. /\ m = Len(s) /\ n = Len(t) /\ m \in Nat /\ n \in Nat
      /\ u \in Seq(Int) /\ Len(u) = m + n
      /\ \A i \in 1 .. m : u[i] = s[i]
      /\ \A i \in m + 1 .. m + n : u[i] = t[i - m]
  BY ConcatProperties, LenProperties
<1> HIDE DEF m, n, u
<1>0. m \in Nat /\ n \in Nat
  BY <1>1
<1>2. /\ \A i \in 1 .. m + n : \/ i \in 1 .. m
                               \/ i \in m + 1 .. m + n /\ i - m \in 1 .. n
      /\ \A i \in 1 .. m : i \in 1 .. m + n
      /\ \A i \in 1 .. n : m + i \in m + 1 .. m + n /\ m + i \in 1 .. m + n
                           /\ (m + i) - m = i
      /\ \A i, j \in m + 1 .. m + n : i # j => i - m # j - m
  BY <1>0
<1>3. Tags(u) = Tags(s) \cup Tags(t)
  <2>1. ASSUME NEW i \in 1 .. n PROVE m + i \in 1 .. m + n /\ u[m + i] = t[i]
    <3>1. m + i \in 1 .. m + n /\ m + i \in m + 1 .. m + n /\ (m + i) - m = i
      BY <1>2
    <3>2. u[m + i] = t[(m + i) - m]
      BY <1>1, <3>1
    <3> QED
      BY <3>1, <3>2
  <2>2. ASSUME NEW i \in 1 .. m PROVE i \in 1 .. m + n /\ u[i] = s[i]
    BY <1>1, <1>2
  <2>3. ASSUME NEW i \in 1 .. m + n
        PROVE  \/ i \in 1 .. m /\ u[i] = s[i]
               \/ i - m \in 1 .. n /\ u[i] = t[i - m]
    BY <1>1, <1>2
  <2>4. {u[i] : i \in 1 .. m + n}
           = {s[i] : i \in 1 .. m} \cup {t[i] : i \in 1 .. n}
    <3> DEFINE U == {u[i] : i \in 1 .. m + n}
               S == {s[i] : i \in 1 .. m}
               T == {t[i] : i \in 1 .. n}
    <3>1. ASSUME NEW i \in 1 .. m + n PROVE u[i] \in S \cup T
      BY <2>3
    <3>2. ASSUME NEW i \in 1 .. m PROVE s[i] \in U
      BY <2>2
    <3>3. ASSUME NEW i \in 1 .. n PROVE t[i] \in U
      BY <2>1
    <3> QED
      BY <3>1, <3>2, <3>3, Zenon
  <2>5. Len(u) = m + n /\ Len(s) = m /\ Len(t) = n
    BY <1>1
  <2> QED
    BY <2>4, <2>5, Zenon DEF Tags
<1>4. Once(u)
  <2>1. ASSUME NEW i \in 1 .. m, NEW j \in 1 .. m, i # j, u[i] = u[j]
        PROVE  u[i] = Garbage
    <3>1. u[i] = s[i] /\ u[j] = s[j]
      BY <1>1
    <3>2. i \in 1 .. Len(s) /\ j \in 1 .. Len(s)
      BY <1>1
    <3> QED
      BY <2>1, <3>1, <3>2 DEF Once
  <2>2. ASSUME NEW i \in m + 1 .. m + n, NEW j \in m + 1 .. m + n, i # j, u[i] = u[j]
        PROVE  u[i] = Garbage
    <3>1. u[i] = t[i - m] /\ u[j] = t[j - m]
      BY <1>1
    <3>2. i - m \in 1 .. n /\ j - m \in 1 .. n
      BY <1>0
    <3>3. i - m # j - m
      BY <1>2, <2>2
    <3>4. i - m \in 1 .. Len(t) /\ j - m \in 1 .. Len(t)
      BY <1>1, <3>2
    <3> QED
      BY <2>2, <3>1, <3>3, <3>4 DEF Once
  <2>3. ASSUME NEW i \in 1 .. m, NEW j \in m + 1 .. m + n, u[i] = u[j]
        PROVE  u[i] = Garbage
    <3>1. u[i] = s[i] /\ u[j] = t[j - m]
      BY <1>1
    <3>2. j - m \in 1 .. n
      BY <1>0
    <3>3. i \in 1 .. Len(s) /\ j - m \in 1 .. Len(t)
      BY <1>1, <3>2
    <3>4. u[i] # Garbage => u[i] \in Tags(s)
      BY <3>1, <3>3 DEF Tags
    <3>5. u[j] # Garbage => u[j] \in Tags(t)
      BY <3>1, <3>3 DEF Tags
    <3> QED
      BY <2>3, <3>4, <3>5
  <2>4. ASSUME NEW i \in 1 .. m + n, NEW j \in 1 .. m + n, i # j, u[i] = u[j]
        PROVE  u[i] = Garbage
    <3>1. i \in 1 .. m \/ i \in m + 1 .. m + n
      BY <1>2
    <3>2. j \in 1 .. m \/ j \in m + 1 .. m + n
      BY <1>2
    <3>3. CASE i \in 1 .. m /\ j \in 1 .. m
      BY <2>1, <2>4, <3>3
    <3>4. CASE i \in m + 1 .. m + n /\ j \in m + 1 .. m + n
      BY <2>2, <2>4, <3>4
    <3>5. CASE i \in 1 .. m /\ j \in m + 1 .. m + n
      BY <2>3, <2>4, <3>5
    <3>6. CASE j \in 1 .. m /\ i \in m + 1 .. m + n
      <4>1. u[j] = Garbage
        BY <2>3, <2>4, <3>6
      <4> QED
        BY <2>4, <4>1
    <3> QED
      BY <3>1, <3>2, <3>3, <3>4, <3>5, <3>6
  <2>5. Len(u) = m + n
    BY <1>1
  <2> QED
    BY <2>4, <2>5 DEF Once
<1> QED
  BY <1>1, <1>3, <1>4 DEF u

(* One byte, or none.                                                      *)
LEMMA OnceFlight ==
  \A b \in Int : /\ InFlight(b) \in Seq(Int) /\ Once(InFlight(b))
                 /\ Tags(InFlight(b)) = Tag(b)
<1> SUFFICES ASSUME NEW b \in Int
             PROVE  /\ InFlight(b) \in Seq(Int) /\ Once(InFlight(b))
                    /\ Tags(InFlight(b)) = Tag(b)
  OBVIOUS
<1>1. CASE b = NoByte
  <2>1. InFlight(b) = <<>> /\ Len(<<>>) = 0 /\ <<>> \in Seq(Int)
    BY <1>1 DEF InFlight
  <2> QED
    BY <1>1, <2>1 DEF Once, Tags, Tag
<1>2. CASE b # NoByte
  <2> DEFINE s == InFlight(b)
  <2>1. s = <<b>>
    BY <1>2 DEF InFlight
  <2>2. s \in Seq(Int) /\ Len(s) = 1 /\ s[1] = b
    BY <2>1
  <2> HIDE DEF s
  <2>3. {s[i] : i \in 1 .. Len(s)} = {b}
    BY <2>2
  <2> QED
    BY <1>2, <2>2, <2>3 DEF Once, Tags, Tag, s
<1> QED
  BY <1>1, <1>2

(* The first byte and the others.                                          *)
LEMMA OnceTail ==
  ASSUME NEW s \in Seq(Int), s # <<>>, Once(s)
  PROVE  /\ Once(Tail(s)) /\ Tags(Tail(s)) \subseteq Tags(s)
         /\ Tag(Head(s)) \subseteq Tags(s)
         /\ Tag(Head(s)) \cap Tags(Tail(s)) = {}
<1>1. /\ Len(s) \in Nat /\ Len(s) >= 1 /\ Head(s) = s[1]
      /\ Len(Tail(s)) = Len(s) - 1
      /\ \A i \in 1 .. Len(s) - 1 : Tail(s)[i] = s[i + 1]
  BY HeadTailProperties, LenProperties, EmptySeq
<1>2. \A i \in 1 .. Len(s) - 1 : i + 1 \in 1 .. Len(s) /\ i + 1 # 1
  BY <1>1
<1>3. Once(Tail(s))
  BY <1>1, <1>2 DEF Once
<1>4. Tags(Tail(s)) \subseteq Tags(s) /\ Tag(Head(s)) \subseteq Tags(s)
  BY <1>1, <1>2 DEF Tags, Tag
<1>5. \A i \in 1 .. Len(s) - 1 : s[i + 1] = s[1] => s[1] = Garbage
  BY <1>1, <1>2 DEF Once
<1> QED
  BY <1>1, <1>3, <1>4, <1>5 DEF Tags, Tag

(* txfifo is a sequence of integers too.                                   *)
LEMMA QueueInt == QueueTyped => txfifo \in Seq(Int)
<1>1. Data \subseteq Int
  BY DEF Data
<1> QED
  BY <1>1, SeqMonotonic DEF QueueTyped

(* The greeting is numbered, and so are the bytes of a write.              *)
LEMMA IdsOnce ==
  ASSUME NEW a \in Nat, NEW k \in Nat, NEW n \in 0 .. k
  PROVE  LET s == SubSeq(Ids(a, a + k), 1, n)
         IN  /\ s \in Seq(Int) /\ Len(s) = n /\ Once(s)
             /\ \A b \in Tags(s) : b \in Int /\ a < b /\ b <= a + n
<1> DEFINE d == Ids(a, a + k)
           s == SubSeq(d, 1, n)
<1>1. d = [i \in 1 .. k |-> a + i] /\ d \in Seq(Int) /\ Len(d) = k
  <2>1. (a + k) - a = k
    OBVIOUS
  <2>2. d = [i \in 1 .. k |-> a + i]
    BY <2>1 DEF Ids
  <2> QED
    BY <2>2
<1>2. /\ s \in Seq(Int) /\ Len(s) = n
      /\ \A i \in 1 .. n : s[i] = a + i
  <2> HIDE DEF d
  <2>1. \A i \in 1 .. n : i \in 1 .. k /\ d[i] = a + i
    BY <1>1
  <2> QED
    BY <1>1, <2>1, SubSeqProperties
<1> HIDE DEF s
<1>3. Once(s)
  BY <1>2 DEF Once
<1>4. \A b \in Tags(s) : b \in Int /\ a < b /\ b <= a + n
  BY <1>2 DEF Tags
<1> QED
  BY <1>2, <1>3, <1>4 DEF s

(* A step that puts nothing anywhere.                                      *)
LEMMA OnceKept ==
  ASSUME OnceInv, UNCHANGED <<sent, txfifo, accepted>>, HandInv',
         Tag(uart'.tsr) \subseteq Tag(uart.tsr),
         Tag(uart'.thr) \subseteq Tag(uart.thr),
         Tag(Hand') \subseteq Tag(Hand)
  PROVE  OnceInv'
<1>1. Tags(sent)' = Tags(sent) /\ Tags(txfifo)' = Tags(txfifo)
      /\ Once(sent)' /\ Once(txfifo)'
  BY DEF OnceInv
<1>2. FivePlaces(Tags(sent)', Tag(uart'.tsr), Tag(uart'.thr), Tag(Hand'),
                 Tags(txfifo)')
  BY <1>1 DEF OnceInv, FivePlaces
<1> QED
  BY <1>1, <1>2 DEF OnceInv

(* A process that runs, or gets the CPU, and has no byte in its hand, not  *)
(* on its way to outb.                                                     *)
LEMMA HandKept ==
  ASSUME OnceInv, NEW p \in Procs, DOMAIN pc = Procs,
         cpu' \in {p, Nobody}, UNCHANGED byte,
         \A q \in Procs \ {p} : pc'[q] = pc[q],
         pc[p] # "wr_out", pc'[p] # "wr_out"
  PROVE  HandInv' /\ Hand' = NoByte
<1>1. HandInv'
  BY DEF OnceInv, HandInv
<1> QED
  BY <1>1 DEF HandInv, Hand

(* The handler and the line: a byte from txfifo, or along the registers.   *)
LEMMA OnceMachine ==
  ASSUME OnceInv, TxInv, arrived \in Nat, seri_interrupt \/ Line
  PROVE  OnceInv'
<1>0. /\ uart \in Uart /\ ~ uart.dlab /\ arrived + 1 \in Int
      /\ UNCHANGED <<pc, cpu, byte, accepted>>
  BY DEF TxInv, ChipTyped, seri_interrupt, IrqNone, IrqLineStatus, IrqReceive,
     IrqTransmit, Line, LineReceive, LineLoad, LineShiftOut, callVars, txVars
<1>1. HandInv' /\ Hand' = Hand
  BY <1>0 DEF OnceInv, HandInv, Hand
<1>2. CASE IrqNone \/ IrqLineStatus \/ IrqReceive \/ LineReceive
  <2>1. /\ uart'.thr = uart.thr /\ uart'.tsr = uart.tsr
        /\ UNCHANGED <<sent, txfifo>>
    BY <1>0, <1>2, DataRegisters DEF IrqNone, IrqLineStatus, IrqReceive,
       LineReceive, Serve, Touch, txVars
  <2> QED
    BY <1>0, <1>1, <2>1, OnceKept
<1>3. CASE IrqTransmit /\ txfifo = <<>>
  <2>1. /\ uart'.thr = uart.thr /\ uart'.tsr = uart.tsr
        /\ UNCHANGED <<sent, txfifo>>
    BY <1>0, <1>3 DEF IrqTransmit, Serve, ReadIIR, Uart
  <2> QED
    BY <1>0, <1>1, <2>1, OnceKept
<1>4. CASE IrqTransmit /\ txfifo # <<>>
  <2>1. /\ uart'.thr = Head(txfifo) /\ uart'.tsr = uart.tsr
        /\ sent' = sent /\ txfifo' = Tail(txfifo)
    BY <1>0, <1>4 DEF IrqTransmit, Serve, ReadIIR, WriteTX, Uart
  <2>2. /\ Once(txfifo') /\ Tags(txfifo') \subseteq Tags(txfifo)
        /\ Tag(uart'.thr) \subseteq Tags(txfifo)
        /\ Tag(uart'.thr) \cap Tags(txfifo') = {}
    BY <1>4, <2>1, QueueInt, OnceTail DEF OnceInv, TxInv
  <2>3. FivePlaces(Tags(sent'), Tag(uart'.tsr), Tag(uart'.thr), Tag(Hand'),
                   Tags(txfifo'))
    BY <1>1, <2>1, <2>2 DEF OnceInv, FivePlaces
  <2>4. \A b \in Tags(sent') \cup Tag(uart'.tsr) \cup Tag(uart'.thr)
                 \cup Tag(Hand') \cup Tags(txfifo') : b <= accepted'
    BY <1>0, <1>1, <2>1, <2>2 DEF OnceInv
  <2> QED
    BY <1>1, <2>1, <2>2, <2>3, <2>4 DEF OnceInv
<1>5. CASE LineLoad
  <2>1. /\ uart'.tsr = uart.thr /\ uart'.thr = NoByte
        /\ UNCHANGED <<sent, txfifo>>
    BY <1>0, <1>5, DataRegisters DEF LineLoad, Touch, txVars
  <2>2. Tag(uart'.tsr) = Tag(uart.thr) /\ Tag(uart'.thr) = {}
    BY <2>1 DEF Tag
  <2>3. FivePlaces(Tags(sent'), Tag(uart'.tsr), Tag(uart'.thr), Tag(Hand'),
                   Tags(txfifo'))
    BY <1>1, <2>1, <2>2 DEF OnceInv, FivePlaces
  <2>4. \A b \in Tags(sent') \cup Tag(uart'.tsr) \cup Tag(uart'.thr)
                 \cup Tag(Hand') \cup Tags(txfifo') : b <= accepted'
    BY <1>0, <1>1, <2>1, <2>2 DEF OnceInv
  <2> QED
    BY <1>1, <2>1, <2>3, <2>4 DEF OnceInv
<1>6. CASE LineShiftOut
  <2>1. /\ uart'.tsr = NoByte /\ uart'.thr = uart.thr
        /\ sent' = Append(sent, uart.tsr) /\ txfifo' = txfifo
        /\ uart.tsr # NoByte /\ uart.tsr \in Int
    BY <1>0, <1>6, DataRegisters
       DEF LineShiftOut, Touch, txVars, CanShiftOut, Uart
  <2>2. /\ sent' \in Seq(Int) /\ Once(sent')
        /\ Tags(sent') = Tags(sent) \cup Tag(uart.tsr)
    <3> DEFINE f == InFlight(uart.tsr)
    <3>1. sent' = sent \o f /\ sent \in Seq(Int)
      BY <2>1, AppendIsConcat DEF InFlight, OnceInv
    <3>2. f \in Seq(Int) /\ Once(f) /\ Tags(f) = Tag(uart.tsr)
      BY <2>1, OnceFlight
    <3>3. Once(sent) /\ Tags(sent) \cap Tags(f) = {}
      BY <3>2 DEF OnceInv, FivePlaces
    <3> HIDE DEF f
    <3> QED
      BY <3>1, <3>2, <3>3, OnceConcat
  <2>3. Tag(uart'.tsr) = {} /\ Tag(uart'.thr) = Tag(uart.thr)
    BY <2>1 DEF Tag
  <2>4. FivePlaces(Tags(sent'), Tag(uart'.tsr), Tag(uart'.thr), Tag(Hand'),
                   Tags(txfifo'))
    BY <1>1, <2>1, <2>2, <2>3 DEF OnceInv, FivePlaces
  <2>5. \A b \in Tags(sent') \cup Tag(uart'.tsr) \cup Tag(uart'.thr)
                 \cup Tag(Hand') \cup Tags(txfifo') : b <= accepted'
    BY <1>0, <1>1, <2>1, <2>2, <2>3 DEF OnceInv
  <2> QED
    BY <1>1, <2>1, <2>2, <2>4, <2>5 DEF OnceInv
<1> QED
  BY <1>2, <1>3, <1>4, <1>5, <1>6 DEF seri_interrupt, Line

(* A reader holds no byte for the transmitter.                             *)
LEMMA OnceReader ==
  ASSUME OnceInv, TxInv, NEW p \in Readers, ReadEnter(p) \/ seri_read(p)
  PROVE  OnceInv'
<1>1. UNCHANGED <<uart, sent, txfifo, accepted, byte>>
  BY DEF ReadEnter, seri_read, ReadDown, ReadDownInterrupted, ReadReady,
     ReadWouldBlock, ReadMustWait, ReadWait, ReadWake, ReadGet, hwVars, txVars,
     callVars
<1>2. p \in Procs /\ DOMAIN pc = Procs
  BY DEF Procs, TxInv, CallTyped
<1>3. \E to : /\ pc' = [pc EXCEPT ![p] = to] /\ cpu' \in {p, Nobody}
              /\ to # "wr_out" /\ pc[p] # "wr_out"
  BY DEF ReadEnter, seri_read, ReadDown, ReadDownInterrupted, ReadReady,
     ReadWouldBlock, ReadMustWait, ReadWait, ReadWake, ReadGet, Down,
     DownGranted, DownInterrupted, Goto, Sleep, Return, Runs, Awake
<1>4. HandInv' /\ Hand' = NoByte
  BY <1>1, <1>2, <1>3, HandKept
<1> QED
  BY <1>1, <1>4, OnceKept DEF Tag

(* A writer puts new bytes behind the queue, takes one from its front and  *)
(* hands it to the chip.                                                   *)
LEMMA OnceWriter ==
  ASSUME OnceInv, TxInv, NEW p \in Writers, WriteEnter(p) \/ seri_write(p)
  PROVE  OnceInv'
<1>0. /\ p \in Procs /\ p # Nobody /\ DOMAIN pc = Procs /\ DOMAIN byte = Procs
      /\ txfifo \in Seq(Int) /\ accepted \in Nat /\ count[p] \in Nat
  BY ProcsAssumption, QueueInt DEF Procs, TxInv, CallTyped, QueueTyped
<1>1. ASSUME ~ WriteOut(p), ~ WriteGet(p)
      PROVE  HandInv' /\ Hand' = NoByte /\ UNCHANGED <<uart, sent>>
  <2>1. UNCHANGED <<uart, sent, byte>>
    BY <1>1 DEF WriteEnter, seri_write, WriteDown, WriteDownInterrupted,
       WritePut, WriteKick, WriteQueued, hwVars, callVars
  <2>2. \E to : /\ pc' = [pc EXCEPT ![p] = to] /\ cpu' \in {p, Nobody}
                /\ to # "wr_out" /\ pc[p] # "wr_out"
    BY <1>1 DEF WriteEnter, WriteBegin, seri_write, WriteDown,
       WriteDownInterrupted, WritePut, WriteKick, WriteQueued, Down,
       DownGranted, DownInterrupted, Goto, Sleep, Return, Runs, Awake
  <2> QED
    BY <1>0, <2>1, <2>2, HandKept
<1>2. CASE ~ (WritePut(p) \/ WriteGet(p) \/ WriteOut(p))
  <2>1. UNCHANGED <<txfifo, accepted>>
    BY <1>2 DEF WriteEnter, seri_write, WriteDown, WriteDownInterrupted,
       WriteKick, WriteQueued, txVars
  <2> QED
    BY <1>1, <1>2, <2>1, OnceKept DEF Tag
<1>3. CASE WritePut(p)
  <2> DEFINE data == Ids(accepted, accepted + count[p])
             n == KfifoRoom(txfifo, data, FifoSize)
             s == SubSeq(data, 1, n)
  <2>1. n \in 0 .. count[p]
    <3>1. Len(data) = count[p] /\ count[p] \in Nat
      <4>1. /\ accepted + count[p] \in Nat /\ accepted <= accepted + count[p]
            /\ (accepted + count[p]) - accepted = count[p]
        BY <1>0
      <4> QED
        BY <1>0, <4>1, IdsLemma
    <3>2. Len(txfifo) \in Nat /\ Len(txfifo) <= FifoSize /\ FifoSize \in Nat
      BY LenProperties, SizesAssumption DEF TxInv, QueueTyped
    <3> HIDE DEF data
    <3> QED
      BY <3>1, <3>2 DEF KfifoRoom, Least
  <2>2. /\ s \in Seq(Int) /\ Once(s)
        /\ \A b \in Tags(s) : b \in Int /\ accepted < b /\ b <= accepted + n
    <3> HIDE DEF n
    <3> QED
      BY <1>0, <2>1, IdsOnce
  <2>3. txfifo' = txfifo \o s /\ accepted' = accepted + n
    BY <1>3 DEF WritePut, KfifoPut
  <2>4. HandInv' /\ Hand' = NoByte /\ UNCHANGED <<uart, sent>>
    BY <1>1, <1>3 DEF WritePut, WriteOut, WriteGet, Runs
  <2> HIDE DEF n, s
  <2>5. \A b \in Tags(sent) \cup Tag(uart.tsr) \cup Tag(uart.thr)
                 \cup Tags(txfifo) : b \notin Tags(s)
    <3>1. \A b \in Tags(s) : ~ (b <= accepted)
      BY <1>0, <2>2
    <3> QED
      BY <3>1 DEF OnceInv
  <2>6. Once(txfifo') /\ Tags(txfifo') = Tags(txfifo) \cup Tags(s)
    BY <1>0, <2>2, <2>3, <2>5, OnceConcat DEF OnceInv
  <2>7. Tag(Hand') = {}
    BY <2>4 DEF Tag
  <2>8. FivePlaces(Tags(sent'), Tag(uart'.tsr), Tag(uart'.thr), Tag(Hand'),
                   Tags(txfifo'))
    BY <2>4, <2>5, <2>6, <2>7 DEF OnceInv, FivePlaces
  <2>9. \A b \in Tags(sent) \cup Tag(uart.tsr) \cup Tag(uart.thr)
                 \cup Tags(txfifo) \cup Tags(s) : b <= accepted'
    <3>1. \A b \in Int : b <= accepted => b <= accepted'
      BY <1>0, <2>1, <2>3
    <3>2. \A b \in Tags(s) : b <= accepted'
      BY <2>2, <2>3
    <3>3. Tags(sent) \cup Tag(uart.tsr) \cup Tag(uart.thr) \cup Tags(txfifo)
            \subseteq Int
      <4>1. \A i \in 1 .. Len(sent) : sent[i] \in Int
        BY DEF OnceInv
      <4>2. \A i \in 1 .. Len(txfifo) : txfifo[i] \in Int
        BY <1>0
      <4>3. uart.tsr \in Int /\ uart.thr \in Int
        BY DEF TxInv, ChipTyped, Uart
      <4> QED
        BY <4>1, <4>2, <4>3 DEF Tags, Tag
    <3> QED
      BY <3>1, <3>2, <3>3 DEF OnceInv
  <2> QED
    BY <2>4, <2>6, <2>7, <2>8, <2>9 DEF OnceInv
<1>4. CASE WriteGet(p)
  <2>1. /\ UNCHANGED <<uart, sent, accepted>> /\ cpu' = p
        /\ pc' = [pc EXCEPT ![p] = "wr_out"]
        /\ Hand' = IF txfifo = <<>> THEN Garbage ELSE Head(txfifo)
        /\ \A q \in Procs \ {p} : byte'[q] = byte[q]
        /\ txfifo' = KfifoGet(txfifo, 1)
    BY <1>0, <1>4 DEF WriteGet, Goto, hwVars, Hand
  <2>2. HandInv'
    BY <1>0, <2>1 DEF OnceInv, HandInv
  <2>3. Once(txfifo') /\ Tags(txfifo') \subseteq Tags(txfifo)
        /\ Tag(Hand') \subseteq Tags(txfifo) /\ Tag(Hand') \cap Tags(txfifo') = {}
    <3>1. CASE txfifo = <<>>
      <4>1. txfifo' = <<>>
        BY <2>1, <3>1 DEF KfifoGet, Least
      <4>2. Tag(Hand') = {}
        BY <2>1, <3>1 DEF Tag
      <4> QED
        BY <3>1, <4>1, <4>2 DEF OnceInv
    <3>2. CASE txfifo # <<>>
      <4>1. txfifo' = Tail(txfifo)
        <5>1. Len(txfifo) \in Nat /\ Len(txfifo) >= 1
          BY <1>0, <3>2, LenProperties, EmptySeq
        <5>2. Least(1, Len(txfifo)) = 1
          BY <5>1 DEF Least
        <5> QED
          BY <1>0, <2>1, <3>2, <5>2 DEF KfifoGet
      <4> QED
        BY <1>0, <2>1, <3>2, <4>1, OnceTail DEF OnceInv
    <3> QED
      BY <3>1, <3>2
  <2>4. FivePlaces(Tags(sent'), Tag(uart'.tsr), Tag(uart'.thr), Tag(Hand'),
                   Tags(txfifo'))
    BY <2>1, <2>3 DEF OnceInv, FivePlaces
  <2>5. \A b \in Tags(sent') \cup Tag(uart'.tsr) \cup Tag(uart'.thr)
                 \cup Tag(Hand') \cup Tags(txfifo') : b <= accepted'
    BY <2>1, <2>3 DEF OnceInv
  <2> QED
    BY <2>1, <2>2, <2>3, <2>4, <2>5 DEF OnceInv
<1>5. CASE WriteOut(p)
  <2>1. /\ UNCHANGED <<sent, txfifo, accepted>> /\ cpu' = Nobody
        /\ uart'.thr = byte[p] /\ uart'.tsr = uart.tsr
        /\ byte' = [byte EXCEPT ![p] = NoByte]
        /\ pc' = [pc EXCEPT ![p] = "user"]
        /\ Hand = byte[p] /\ Hand' = NoByte
    BY <1>0, <1>5 DEF WriteOut, Touch, Return, Runs, Hand, txVars, WriteTX,
       TxInv, ChipTyped, Uart
  <2>2. HandInv'
    BY <1>0, <2>1 DEF OnceInv, HandInv
  <2>3. Tag(uart'.thr) = Tag(Hand) /\ Tag(Hand') = {}
    BY <2>1 DEF Tag
  <2>4. FivePlaces(Tags(sent'), Tag(uart'.tsr), Tag(uart'.thr), Tag(Hand'),
                   Tags(txfifo'))
    BY <2>1, <2>3 DEF OnceInv, FivePlaces
  <2>5. \A b \in Tags(sent') \cup Tag(uart'.tsr) \cup Tag(uart'.thr)
                 \cup Tag(Hand') \cup Tags(txfifo') : b <= accepted'
    BY <2>1, <2>3 DEF OnceInv
  <2> QED
    BY <2>1, <2>2, <2>4, <2>5 DEF OnceInv
<1> QED
  BY <1>2, <1>3, <1>4, <1>5

LEMMA OnceInit == Init => OnceInv
<1> SUFFICES ASSUME Init PROVE OnceInv
  OBVIOUS
<1>1. /\ sent = <<>> /\ uart.tsr = NoByte /\ uart.thr = NoByte /\ Hand = NoByte
      /\ HandInv /\ accepted = Greeting
  BY DEF Init, UartConfigured, Hand, HandInv
<1>2. Tags(<<>>) = {} /\ Tag(NoByte) = {} /\ Once(<<>>) /\ <<>> \in Seq(Int)
  BY DEF Tags, Tag, Once
<1>3. txfifo = [i \in 1 .. Greeting |-> i] /\ Greeting \in Nat
  BY SizesAssumption DEF Init, Ids
<1>4. Len(txfifo) = Greeting /\ \A i \in 1 .. Greeting : txfifo[i] = i
  BY <1>3
<1>5. Once(txfifo) /\ \A b \in Tags(txfifo) : b <= accepted
  BY <1>1, <1>3, <1>4 DEF Once, Tags
<1> QED
  BY <1>1, <1>2, <1>5 DEF OnceInv, FivePlaces

(* It says of the five places together what TxAtMostOnce does.             *)
LEMMA OnceOutgoing == OnceInv /\ TxInv => TxAtMostOnce
<1> SUFFICES ASSUME OnceInv, TxInv PROVE TxAtMostOnce
  OBVIOUS
<1> DEFINE s1 == sent \o InFlight(uart.tsr)
           s2 == s1 \o InFlight(uart.thr)
           s3 == s2 \o InHand
<1>1. /\ uart.tsr \in Int /\ uart.thr \in Int /\ txfifo \in Seq(Int)
      /\ sent \in Seq(Int)
  BY QueueInt DEF TxInv, ChipTyped, Uart, OnceInv
<1>2. InHand = InFlight(Hand)
  BY DEF InHand, InFlight, Hand
<1>3. /\ s1 \in Seq(Int) /\ Once(s1)
      /\ Tags(s1) = Tags(sent) \cup Tag(uart.tsr)
  BY <1>1, OnceFlight, OnceConcat DEF OnceInv, FivePlaces
<1>4. /\ s2 \in Seq(Int) /\ Once(s2)
      /\ Tags(s2) = Tags(sent) \cup Tag(uart.tsr) \cup Tag(uart.thr)
  <2> DEFINE f == InFlight(uart.thr)
  <2>1. f \in Seq(Int) /\ Once(f) /\ Tags(f) = Tag(uart.thr)
    BY <1>1, OnceFlight
  <2> HIDE DEF s1, f
  <2>2. Tags(s1) \cap Tags(f) = {}
    BY <1>3, <2>1 DEF OnceInv, FivePlaces
  <2>3. /\ s1 \o f \in Seq(Int) /\ Once(s1 \o f)
        /\ Tags(s1 \o f) = Tags(s1) \cup Tags(f)
    BY <1>3, <2>1, <2>2, OnceConcat
  <2> QED
    BY <1>3, <2>1, <2>3 DEF f
<1>5. /\ s3 \in Seq(Int) /\ Once(s3)
      /\ Tags(s3) = Tags(sent) \cup Tag(uart.tsr) \cup Tag(uart.thr) \cup Tag(Hand)
  <2> HIDE DEF s2
  <2>1. Hand \in Int
    BY DEF Hand, OnceInv, HandInv, TxInv, CallTyped, NoByte
  <2>2. /\ InHand \in Seq(Int) /\ Once(InHand) /\ Tags(InHand) = Tag(Hand)
    BY <1>2, <2>1, OnceFlight
  <2> HIDE DEF InHand
  <2> QED
    BY <1>4, <2>2, OnceConcat DEF OnceInv, FivePlaces
<1>6. Once(s3 \o txfifo)
  <2> HIDE DEF s3
  <2> QED
    BY <1>1, <1>5, OnceConcat DEF OnceInv, FivePlaces
<1> QED
  BY <1>6 DEF TxAtMostOnce, Once, Outgoing

LEMMA OnceStep ==
  ASSUME OnceInv, TxInv, arrived \in Nat, [Next]_vars
  PROVE  OnceInv'
<1>1. ASSUME UNCHANGED <<uart, sent, txVars, byte, pc, cpu>>
      PROVE  OnceInv'
  BY <1>1, OnceKept DEF OnceInv, HandInv, Hand, txVars
<1>2. CASE UNCHANGED vars
  BY <1>1, <1>2 DEF vars, hwVars, callVars
<1>3. ASSUME NEW p \in Procs, Enter(p) \/ Signal(p)
      PROVE  OnceInv'
  BY <1>1, <1>3 DEF Enter, seri_open, seri_release, Signal, hwVars, callVars
<1> QED
  BY <1>2, <1>3, OnceMachine, OnceReader, OnceWriter DEF Next

(* No byte leaves twice, however the handler and any number of writers of  *)
(* either version take bytes out of txfifo and put them in the THR.        *)
THEOREM SentOnce == Spec => []TxAtMostOnce
<1>1. OnceInv /\ TxInv /\ arrived \in Nat /\ [Next]_vars => OnceInv'
  BY OnceStep
<1> QED
  BY <1>1, OnceInit, OnceOutgoing, TxInvariant, ArrivedNat, PTL DEF Spec

-----------------------------------------------------------------------------
(* Types.  TxInv and UserInv have those of the transmitter, of the calls'  *)
(* locals and of the users; three more groups are left.                    *)

MachineTyped ==
    /\ irr \in BOOLEAN /\ arrived \in Nat /\ sent \in Seq(Int)
    /\ nsig \in Nat /\ sem \in Nat
    /\ nonblock \in BOOLEAN /\ locks \in BOOLEAN

RxQueueTyped ==
    /\ rxfifo \in Seq(Int) /\ Len(rxfifo) <= FifoSize
    /\ queued \in Seq(Int) /\ delivered \in Seq(Int)

Asleep == {"user", "rd_down", "wr_down", "rd_sleep"}

Scheduled ==
    /\ cpu \in Procs \cup {Nobody}
    /\ \A p \in Readers : pc[p] \in ReadLabels \cup {"user"}
    /\ \A p \in Writers : pc[p] \in WriteLabels \cup {"user"}
    /\ cpu # Nobody => pc[cpu] \notin Asleep
    /\ done \in [Procs -> Nat] /\ ret \in [Procs -> Returns]
    /\ sig \subseteq Procs /\ rxwq \subseteq Procs

LEMMA TypeInit == Init => MachineTyped /\ RxQueueTyped /\ Scheduled
<1> SUFFICES ASSUME Init PROVE MachineTyped /\ RxQueueTyped /\ Scheduled
  OBVIOUS
<1>1. MachineTyped
  <2>1. irr \in BOOLEAN
    BY SwitchesAssumption DEF Init
  <2>2. locks \in BOOLEAN /\ nonblock \in BOOLEAN
    BY SwitchesAssumption DEF Init
  <2>3. /\ arrived \in Nat /\ sent \in Seq(Int) /\ nsig \in Nat /\ sem \in Nat
    BY DEF Init
  <2> QED
    BY <2>1, <2>2, <2>3 DEF MachineTyped
<1>2. RxQueueTyped
  BY SizesAssumption DEF Init, RxQueueTyped
<1>3. Scheduled
  BY DEF Init, Scheduled, Procs, Returns
<1> QED
  BY <1>1, <1>2, <1>3

(* The latch of the interrupt line is a Boolean, whoever sets it.          *)
LEMMA LatchTyped ==
  ASSUME NEW u, NEW v, Touch(u) \/ Serve(v, u)
  PROVE  irr' \in BOOLEAN
BY DEF Touch, Serve

(* The processor and the line have no calls, and a reader no line.         *)
LEMMA MachineKept ==
  ASSUME MachineTyped, TxInv, Next
  PROVE  MachineTyped'
<1>1. CASE seri_interrupt \/ Line
  <2>1. UNCHANGED <<nsig, sem, nonblock, locks>>
    BY <1>1 DEF seri_interrupt, IrqNone, IrqLineStatus, IrqReceive,
       IrqTransmit, Line, LineReceive, LineLoad, LineShiftOut, fileVars, sigVars
  <2>2. irr' \in BOOLEAN
    BY <1>1, LatchTyped DEF seri_interrupt, IrqNone, IrqLineStatus, IrqReceive,
       IrqTransmit, Line, LineReceive, LineLoad, LineShiftOut
  <2>3. arrived' \in {arrived, arrived + 1} /\ sent' \in {sent, Append(sent, uart.tsr)}
    BY <1>1 DEF seri_interrupt, IrqNone, IrqLineStatus, IrqReceive,
       IrqTransmit, Line, LineReceive, LineLoad, LineShiftOut
  <2>4. Append(sent, uart.tsr) \in Seq(Int)
    <3>1. uart.tsr \in Int
      BY DEF TxInv, ChipTyped, Uart
    <3> QED
      BY <3>1, AppendProperties DEF MachineTyped
  <2> QED
    BY <2>1, <2>2, <2>3, <2>4 DEF MachineTyped
<1>2. ASSUME NEW p \in Procs, Enter(p) \/ Signal(p)
      PROVE  MachineTyped'
  BY <1>2, SwitchesAssumption DEF Enter, seri_open, seri_release, Signal,
     MachineTyped, hwVars, fileVars, sigVars
<1>3. ASSUME NEW p \in Readers, ReadEnter(p) \/ seri_read(p)
      PROVE  MachineTyped'
  <2>1. UNCHANGED <<irr, arrived, sent, nsig, nonblock, locks>>
    BY <1>3 DEF ReadEnter, seri_read, ReadDown, ReadDownInterrupted, ReadReady,
       ReadWouldBlock, ReadMustWait, ReadWait, ReadWake, ReadGet, hwVars,
       fileVars, sigVars
  <2>2. \/ sem' \in {sem, sem + 1}
        \/ sem > 0 /\ sem' = sem - 1
    BY <1>3 DEF ReadEnter, seri_read, ReadDown, ReadDownInterrupted, ReadReady,
       ReadWouldBlock, ReadMustWait, ReadWait, ReadWake, ReadGet, Down,
       DownGranted, DownInterrupted, Up
  <2> QED
    BY <2>1, <2>2 DEF MachineTyped
<1>4. ASSUME NEW p \in Writers, WriteEnter(p) \/ seri_write(p)
      PROVE  MachineTyped'
  <2>1. UNCHANGED <<arrived, sent, nsig, nonblock, locks>>
    BY <1>4 DEF WriteEnter, seri_write, WriteDown, WriteDownInterrupted,
       WritePut, WriteKick, WriteQueued, WriteGet, WriteOut, hwVars, fileVars,
       sigVars
  <2>2. \/ sem' \in {sem, sem + 1}
        \/ sem > 0 /\ sem' = sem - 1
    BY <1>4 DEF WriteEnter, WriteBegin, seri_write, WriteDown,
       WriteDownInterrupted, WritePut, WriteKick, WriteQueued, WriteGet,
       WriteOut, WriteUp, Down, DownGranted, DownInterrupted, Up
  <2>3. irr' = irr \/ irr' \in BOOLEAN
    <3>1. CASE WriteOut(p)
      BY <3>1, LatchTyped DEF WriteOut
    <3>2. CASE ~ WriteOut(p)
      BY <1>4, <3>2 DEF WriteEnter, seri_write, WriteDown,
         WriteDownInterrupted, WritePut, WriteKick, WriteQueued, WriteGet,
         hwVars
    <3> QED
      BY <3>1, <3>2
  <2> QED
    BY <2>1, <2>2, <2>3 DEF MachineTyped
<1> QED
  BY <1>1, <1>2, <1>3, <1>4 DEF Next

(* The handler fills rxfifo, a reader empties it.                          *)
LEMMA RxTypeKept ==
  ASSUME RxQueueTyped, TxInv, Next
  PROVE  RxQueueTyped'
<1>1. CASE IrqReceive
  <2> DEFINE b == ByteAtRX(uart)
             room == KfifoRoom(rxfifo, <<b>>, FifoSize)
  <2>1. b \in Int
    BY DEF ByteAtRX, TxInv, ChipTyped, Uart
  <2>2. /\ rxfifo' = KfifoPut(rxfifo, <<b>>, FifoSize)
        /\ delivered' = delivered
        /\ queued' = queued \/ queued' = Append(queued, b)
    BY <1>1 DEF IrqReceive
  <2> HIDE DEF b
  <2>3. <<b>> \in Seq(Int) /\ FifoSize \in Nat
    BY <2>1, SizesAssumption
  <2>4. rxfifo' \in Seq(Int) /\ Len(rxfifo') <= FifoSize
    BY <2>2, <2>3, KfifoPutLemma DEF RxQueueTyped
  <2>5. queued' \in Seq(Int)
    BY <2>1, <2>2, AppendProperties DEF RxQueueTyped
  <2> QED
    BY <2>2, <2>4, <2>5 DEF RxQueueTyped
<1>2. ASSUME NEW p \in Readers, ReadGet(p)
      PROVE  RxQueueTyped'
  <2> DEFINE n == Least(count[p], FifoSize)
             taken == KfifoTaken(rxfifo, n)
  <2>1. /\ rxfifo' = KfifoGet(rxfifo, n) /\ queued' = queued
        /\ delivered' = delivered \/ delivered' = delivered \o taken
    BY <1>2 DEF ReadGet
  <2>2. n \in Nat
    <3>1. count[p] \in Nat /\ FifoSize \in Nat
      BY SizesAssumption DEF TxInv, CallTyped, Procs
    <3> QED
      BY <3>1 DEF Least
  <2> HIDE DEF n
  <2>3. /\ rxfifo' \in Seq(Int) /\ taken \in Seq(Int)
        /\ Len(rxfifo') <= Len(rxfifo)
    BY <2>1, <2>2, KfifoGetLemma DEF RxQueueTyped
  <2>4. Len(rxfifo') <= FifoSize
    BY <2>3, LenProperties, SizesAssumption DEF RxQueueTyped
  <2> HIDE DEF taken
  <2>5. delivered' \in Seq(Int)
    BY <2>1, <2>3, ConcatProperties DEF RxQueueTyped
  <2> QED
    BY <2>1, <2>3, <2>4, <2>5 DEF RxQueueTyped
<1>3. ASSUME ~ IrqReceive, \A p \in Readers : ~ ReadGet(p)
      PROVE  UNCHANGED rxVars
  <2>1. CASE seri_interrupt \/ Line
    BY <1>3, <2>1 DEF seri_interrupt, IrqNone, IrqLineStatus, IrqTransmit,
       Line, LineReceive, LineLoad, LineShiftOut
  <2>2. ASSUME NEW p \in Procs, Enter(p) \/ Signal(p)
        PROVE  UNCHANGED rxVars
    BY <2>2 DEF Enter, seri_open, seri_release, Signal
  <2>3. ASSUME NEW p \in Readers, ReadEnter(p) \/ seri_read(p)
        PROVE  UNCHANGED rxVars
    BY <1>3, <2>3 DEF ReadEnter, seri_read, ReadDown, ReadDownInterrupted,
       ReadReady, ReadWouldBlock, ReadMustWait, ReadWait, ReadWake
  <2>4. ASSUME NEW p \in Writers, WriteEnter(p) \/ seri_write(p)
        PROVE  UNCHANGED rxVars
    BY <2>4 DEF WriteEnter, seri_write, WriteDown, WriteDownInterrupted,
       WritePut, WriteKick, WriteQueued, WriteGet, WriteOut
  <2> QED
    BY <2>1, <2>2, <2>3, <2>4 DEF Next
<1> QED
  BY <1>1, <1>2, <1>3 DEF RxQueueTyped, rxVars

(* A step of p, to a place where it sleeps without the CPU, or runs on.    *)
LEMMA ScheduledStep ==
  ASSUME Scheduled, NEW p \in Procs, DOMAIN pc = Procs,
         \A q \in Procs \ {p} : pc'[q] = pc[q],
         p \in Readers => pc'[p] \in ReadLabels \cup {"user"},
         p \in Writers => pc'[p] \in WriteLabels \cup {"user"},
         cpu' = Nobody \/ (cpu' = p /\ pc'[p] \notin Asleep),
         done' \in [Procs -> Nat], ret' \in [Procs -> Returns],
         sig' \subseteq Procs, rxwq' \subseteq Procs
  PROVE  Scheduled'
<1>1. Readers \subseteq Procs /\ Writers \subseteq Procs
  BY DEF Procs
<1> QED
  BY <1>1 DEF Scheduled

LEMMA ScheduledReader ==
  ASSUME Scheduled, TxInv, RxQueueTyped, NEW p \in Readers,
         ReadEnter(p) \/ seri_read(p)
  PROVE  Scheduled'
<1>1. p \in Procs /\ p \notin Writers /\ DOMAIN pc = Procs
  BY ProcsAssumption DEF Procs, TxInv, CallTyped
<1>2. \E to \in ReadLabels \cup {"user"} :
         /\ pc' = [pc EXCEPT ![p] = to]
         /\ cpu' = Nobody \/ (cpu' = p /\ to \notin Asleep)
  BY DEF ReadEnter, seri_read, ReadDown, ReadDownInterrupted, ReadReady,
     ReadWouldBlock, ReadMustWait, ReadWait, ReadWake, ReadGet, Down,
     DownGranted, DownInterrupted, Goto, Sleep, Return, ReadLabels, Asleep
<1>3. ret' \in [Procs -> Returns]
  <2>1. UNCHANGED ret \/ \E r \in Returns : ret' = [ret EXCEPT ![p] = r]
    BY DEF ReadEnter, seri_read, ReadDown, ReadDownInterrupted, ReadReady,
       ReadWouldBlock, ReadMustWait, ReadWait, ReadWake, ReadGet, callVars,
       Return, Returns
  <2> QED
    BY <2>1 DEF Scheduled
<1>4. done' \in [Procs -> Nat]
  <2>1. CASE ReadGet(p)
    <3> DEFINE n == Least(count[p], FifoSize)
               taken == KfifoTaken(rxfifo, n)
    <3>1. n \in Nat
      <4>1. count[p] \in Nat /\ FifoSize \in Nat
        BY <1>1, SizesAssumption DEF TxInv, CallTyped
      <4> QED
        BY <4>1 DEF Least
    <3>2. \E k \in {0, Len(taken)} : done' = [done EXCEPT ![p] = k]
      BY <2>1 DEF ReadGet, Return
    <3> HIDE DEF n
    <3>3. taken \in Seq(Int)
      BY <3>1, KfifoGetLemma DEF RxQueueTyped
    <3> HIDE DEF taken
    <3>4. {0, Len(taken)} \subseteq Nat
      BY <3>3, LenProperties
    <3>5. \A k \in Nat : [done EXCEPT ![p] = k] \in [Procs -> Nat]
      BY DEF Scheduled
    <3> QED
      BY <3>2, <3>4, <3>5
  <2>2. CASE ~ ReadGet(p)
    <3>1. UNCHANGED done \/ done' = [done EXCEPT ![p] = 0]
      BY <2>2 DEF ReadEnter, seri_read, ReadDown, ReadDownInterrupted,
         ReadReady, ReadWouldBlock, ReadMustWait, ReadWait, ReadWake, callVars,
         Return
    <3> QED
      BY <3>1 DEF Scheduled
  <2> QED
    BY <2>1, <2>2
<1>5. sig' \subseteq sig /\ rxwq' \subseteq rxwq \cup {p}
  BY DEF ReadEnter, seri_read, ReadDown, ReadDownInterrupted, ReadReady,
     ReadWouldBlock, ReadMustWait, ReadWait, ReadWake, ReadGet, sigVars, Return
<1>6. sig' \subseteq Procs /\ rxwq' \subseteq Procs
  BY <1>1, <1>5 DEF Scheduled
<1>7. /\ \A q \in Procs \ {p} : pc'[q] = pc[q]
      /\ pc'[p] \in ReadLabels \cup {"user"}
      /\ cpu' = Nobody \/ (cpu' = p /\ pc'[p] \notin Asleep)
  BY <1>1, <1>2
<1> QED
  BY <1>1, <1>3, <1>4, <1>6, <1>7, ScheduledStep

LEMMA ScheduledWriter ==
  ASSUME Scheduled, TxInv, NEW p \in Writers, WriteEnter(p) \/ seri_write(p)
  PROVE  Scheduled'
<1>1. p \in Procs /\ p \notin Readers /\ DOMAIN pc = Procs
  BY ProcsAssumption DEF Procs, TxInv, CallTyped
<1>2. \E to \in WriteLabels \cup {"user"} :
         /\ pc' = [pc EXCEPT ![p] = to]
         /\ cpu' = Nobody \/ (cpu' = p /\ to \notin Asleep)
  BY DEF WriteEnter, WriteBegin, seri_write, WriteDown, WriteDownInterrupted,
     WritePut, WriteKick, WriteQueued, WriteGet, WriteOut, Down, DownGranted,
     DownInterrupted, Goto, Sleep, Return, WriteLabels, Asleep
<1>3. ret' \in [Procs -> Returns]
  <2>1. UNCHANGED ret \/ ret' = [ret EXCEPT ![p] = "ok"]
    BY DEF WriteEnter, seri_write, WriteDown, WriteDownInterrupted, WritePut,
       WriteKick, WriteQueued, WriteGet, WriteOut, callVars, Return
  <2> QED
    BY <2>1 DEF Scheduled, Returns
<1>4. done' \in [Procs -> Nat]
  <2>1. CASE WritePut(p)
    <3> DEFINE data == Ids(accepted, accepted + count[p])
               n == KfifoRoom(txfifo, data, FifoSize)
    <3>1. data \in Seq(Data)
      <4>1. /\ accepted \in Nat /\ accepted + count[p] \in Nat
            /\ accepted <= accepted + count[p]
        BY <1>1 DEF TxInv, QueueTyped, CallTyped
      <4> QED
        BY <4>1, IdsLemma
    <3> HIDE DEF data
    <3>2. n \in Nat
      BY <3>1, KfifoPutLemma, SizesAssumption DEF TxInv, QueueTyped
    <3>3. done' = [done EXCEPT ![p] = n]
      BY <2>1 DEF WritePut, data
    <3> HIDE DEF n
    <3> QED
      BY <3>2, <3>3 DEF Scheduled
  <2>2. CASE ~ WritePut(p)
    <3>1. UNCHANGED done \/ done' = [done EXCEPT ![p] = done[p]]
      BY <2>2 DEF WriteEnter, seri_write, WriteDown, WriteDownInterrupted,
         WriteKick, WriteQueued, WriteGet, WriteOut, callVars, Return
    <3> QED
      BY <1>1, <3>1 DEF Scheduled
  <2> QED
    BY <2>1, <2>2
<1>5. sig' \subseteq sig /\ rxwq' = rxwq
  BY DEF WriteEnter, seri_write, WriteDown, WriteDownInterrupted, WritePut,
     WriteKick, WriteQueued, WriteGet, WriteOut, sigVars, Return
<1>6. sig' \subseteq Procs /\ rxwq' \subseteq Procs
  BY <1>5 DEF Scheduled
<1>7. /\ \A q \in Procs \ {p} : pc'[q] = pc[q]
      /\ pc'[p] \in WriteLabels \cup {"user"}
      /\ cpu' = Nobody \/ (cpu' = p /\ pc'[p] \notin Asleep)
  BY <1>1, <1>2
<1> QED
  BY <1>1, <1>3, <1>4, <1>6, <1>7, ScheduledStep

(* A step that moves no process leaves who runs, and where.                *)
LEMMA ScheduledAside ==
  ASSUME Scheduled, UNCHANGED <<cpu, pc, done, ret>>,
         sig' \subseteq Procs, rxwq' \subseteq Procs
  PROVE  Scheduled'
BY DEF Scheduled

(* The types of seri.c's state, for any constants: queues never exceed     *)
(* their size, no queue holds anything but bytes, a reader is only ever in *)
(* seri_read and a writer in seri_write, and whoever has the CPU is in the *)
(* kernel and not asleep there.                                            *)
THEOREM SeriTypes == Spec => []TypeOK
<1> DEFINE I == MachineTyped /\ RxQueueTyped /\ Scheduled
<1>1. I /\ TxInv /\ [Next]_vars => I'
  <2> SUFFICES ASSUME I, TxInv, [Next]_vars PROVE I'
    OBVIOUS
  <2>1. CASE UNCHANGED vars
    BY <2>1 DEF vars, hwVars, rxVars, fileVars, callVars, sigVars, Scheduled,
       MachineTyped, RxQueueTyped
  <2>2. CASE Next
    <3>1. MachineTyped' /\ RxQueueTyped'
      BY <2>2, MachineKept, RxTypeKept
    <3>2. CASE seri_interrupt \/ Line
      <4>1. /\ UNCHANGED <<cpu, pc, done, ret, sig>>
            /\ rxwq' \in {rxwq, {}}
        BY <3>2 DEF seri_interrupt, IrqNone, IrqLineStatus, IrqReceive,
           IrqTransmit, WakeReaders, Line, LineReceive, LineLoad, LineShiftOut,
           callVars, sigVars
      <4>2. sig' \subseteq Procs /\ rxwq' \subseteq Procs
        BY <4>1 DEF Scheduled
      <4> QED
        BY <3>1, <4>1, <4>2, ScheduledAside
    <3>3. ASSUME NEW p \in Procs, Enter(p) \/ Signal(p)
          PROVE  I'
      <4>1. /\ UNCHANGED <<cpu, pc, done, ret, rxwq>>
            /\ sig' \subseteq sig \cup {p}
        BY <3>3 DEF Enter, seri_open, seri_release, Signal, callVars, sigVars
      <4>2. sig' \subseteq Procs /\ rxwq' \subseteq Procs
        BY <4>1 DEF Scheduled
      <4> QED
        BY <3>1, <4>1, <4>2, ScheduledAside
    <3> QED
      BY <2>2, <3>1, <3>2, <3>3, ScheduledReader, ScheduledWriter DEF Next
  <2> QED
    BY <2>1, <2>2
<1>2. I /\ TxInv /\ UserInv => TypeOK
  <2> SUFFICES ASSUME I, TxInv, UserInv PROVE TypeOK
    OBVIOUS
  <2>1. txfifo \in Seq(Int) /\ Len(txfifo) <= FifoSize
    BY QueueInt DEF TxInv, QueueTyped
  <2>2. DOMAIN pc = Procs
    BY DEF TxInv, CallTyped
  <2>3. uart \in Uart /\ accepted \in Nat /\ txflag \in {0, 1}
        /\ count \in [Procs -> Nat] /\ byte \in [Procs -> Int]
    BY DEF TxInv, ChipTyped, QueueTyped, CallTyped
  <2>4. nUsers \in Nat /\ opens \in Nat
    BY DEF UserInv, AtMostOneUser
  <2>5. {sent, txfifo, rxfifo, queued, delivered} \subseteq Seq(Int)
    BY <2>1 DEF MachineTyped, RxQueueTyped
  <2> QED
    BY <2>1, <2>2, <2>3, <2>4, <2>5
       DEF TypeOK, MachineTyped, RxQueueTyped, Scheduled, Asleep
<1>3. Init => I
  BY TypeInit
<1>4. Spec => []UserInv
  BY UsersCounted
<1> QED
  BY <1>1, <1>2, <1>3, <1>4, TxInvariant, PTL DEF Spec

-----------------------------------------------------------------------------
(* The order of the bytes.  It is lost in one way only: a writer starts a  *)
(* transmitter that is not idle, or whose queue the handler has emptied,   *)
(* for it believes txflag, which the handler sets when it finds txfifo     *)
(* empty and no writer clears.                                             *)

(* What the writer that finds txflag = 1 takes for granted.                *)
Startable == uart.thr = NoByte /\ ~ uart.thri /\ txfifo # <<>>

(* Filling the THR takes back its interrupt; who writes has the CPU.       *)
ThreClear  == uart.thr # NoByte => ~ uart.thri
WriterRuns == \A p \in Procs :
                 pc[p] \in {"wr_put", "wr_flag", "wr_get", "wr_out"} => cpu = p

(* A writer that starts the transmitter is alone with it.                  *)
Started ==
    \A p \in Procs :
       /\ pc[p] \in {"wr_get", "wr_out"} => uart.thr = NoByte /\ ~ uart.thri
       /\ pc[p] = "wr_get" => txfifo # <<>>

OrderInv == TxFaithful /\ Started

(* The five places a byte passes, in a row.                                *)
InRow(s, t, h, x, q) == s \o InFlight(t) \o InFlight(h) \o InFlight(x) \o q

(* Concatenation, of sequences of integers.                                *)
LEMMA JoinInt ==
  /\ \A u, v, w \in Seq(Int) : (u \o v) \o w = u \o (v \o w)
  /\ \A u, v \in Seq(Int) :
        /\ u \o v \in Seq(Int) /\ Len(u \o v) = Len(u) + Len(v)
        /\ \A j \in 1 .. Len(u) + Len(v) :
              (u \o v)[j] = IF j <= Len(u) THEN u[j] ELSE v[j - Len(u)]
<1>1. ASSUME NEW u \in Seq(Int), NEW v \in Seq(Int), NEW w \in Seq(Int)
      PROVE  (u \o v) \o w = u \o (v \o w)
  BY ConcatAssociative
<1>2. ASSUME NEW u \in Seq(Int), NEW v \in Seq(Int)
      PROVE  /\ u \o v \in Seq(Int) /\ Len(u \o v) = Len(u) + Len(v)
             /\ \A j \in 1 .. Len(u) + Len(v) :
                   (u \o v)[j] = IF j <= Len(u) THEN u[j] ELSE v[j - Len(u)]
  BY ConcatProperties
<1> QED
  BY <1>1, <1>2

LEMMA InFlightSeq ==
  ASSUME NEW e \in Int
  PROVE  InFlight(e) \in Seq(Int)
BY OnceFlight

(* A byte that goes on to the next place, which is empty, keeps its turn:  *)
(* out on the line, into the shift register, from a writer to the THR.     *)
LEMMA RowShiftOut ==
  ASSUME NEW s \in Seq(Int), NEW t \in Int, NEW h, NEW x, NEW q, t # NoByte
  PROVE  InRow(Append(s, t), NoByte, h, x, q) = InRow(s, t, h, x, q)
<1>1. Append(s, t) = s \o <<t>> /\ Append(s, t) \in Seq(Int)
  BY AppendIsConcat, AppendProperties
<1>2. InFlight(NoByte) = <<>> /\ InFlight(t) = <<t>>
  BY DEF InFlight
<1>3. Append(s, t) \o <<>> = Append(s, t)
  BY <1>1, ConcatEmptySeq
<1> QED
  BY <1>1, <1>2, <1>3 DEF InRow

LEMMA RowLoad ==
  ASSUME NEW s \in Seq(Int), NEW h \in Int, NEW x, NEW q
  PROVE  InRow(s, h, NoByte, x, q) = InRow(s, NoByte, h, x, q)
<1>1. InFlight(NoByte) = <<>> /\ InFlight(h) \in Seq(Int)
  BY InFlightSeq DEF InFlight
<1>2. s \in Seq(Int) /\ s \o InFlight(h) \in Seq(Int)
  BY <1>1, JoinInt
<1>3. (s \o InFlight(h)) \o <<>> = s \o InFlight(h) /\ s \o <<>> = s
  BY <1>2, ConcatEmptySeq
<1> QED
  BY <1>1, <1>3 DEF InRow

LEMMA RowHand ==
  ASSUME NEW s \in Seq(Int), NEW t \in Int, NEW x \in Int, NEW q
  PROVE  InRow(s, t, x, NoByte, q) = InRow(s, t, NoByte, x, q)
<1> DEFINE a == s \o InFlight(t)
<1>1. InFlight(NoByte) = <<>> /\ InFlight(t) \in Seq(Int) /\ InFlight(x) \in Seq(Int)
  BY InFlightSeq DEF InFlight
<1>2. s \in Seq(Int) /\ a \in Seq(Int) /\ a \o InFlight(x) \in Seq(Int)
  BY <1>1, JoinInt
<1>3. (a \o InFlight(x)) \o <<>> = a \o InFlight(x) /\ a \o <<>> = a
  BY <1>2, ConcatEmptySeq
<1> QED
  BY <1>1, <1>3 DEF InRow

(* The first byte put back in front of the others.                         *)
LEMMA HeadBack ==
  ASSUME NEW q \in Seq(Int), q # <<>>
  PROVE  <<Head(q)>> \o Tail(q) = q
<1> DEFINE f == <<Head(q)>>
           u == Tail(q)
           n == Len(q)
<1>1. /\ n \in Nat /\ n >= 1 /\ u \in Seq(Int) /\ Len(u) = n - 1
      /\ \A j \in 1 .. n - 1 : u[j] = q[j + 1]
  BY HeadTailProperties, LenProperties, EmptySeq
<1>2. f \in Seq(Int) /\ Len(f) = 1 /\ f[1] = q[1]
  BY HeadTailProperties
<1> HIDE DEF f, u, n
<1>3. /\ f \o u \in Seq(Int) /\ Len(f \o u) = Len(f) + Len(u)
      /\ \A j \in 1 .. Len(f) + Len(u) :
            (f \o u)[j] = IF j <= Len(f) THEN f[j] ELSE u[j - Len(f)]
  BY <1>1, <1>2, JoinInt
<1>4. Len(f) + Len(u) = n
  BY <1>1, <1>2
<1>5. \A j \in 1 .. n : (f \o u)[j] = q[j]
  <2> TAKE j \in 1 .. n
  <2>1. (f \o u)[j] = IF j <= 1 THEN f[j] ELSE u[j - 1]
    BY <1>2, <1>3, <1>4
  <2>2. CASE j = 1
    BY <1>2, <2>1, <2>2
  <2>3. CASE j # 1
    <3>1. j - 1 \in 1 .. n - 1 /\ (j - 1) + 1 = j /\ ~ (j <= 1)
      BY <1>1, <2>3
    <3> QED
      BY <1>1, <2>1, <3>1
  <2> QED
    BY <2>2, <2>3
<1>6. Len(f \o u) = Len(q)
  BY <1>3, <1>4 DEF n
<1> QED
  BY <1>3, <1>5, <1>6, SeqEqual DEF f, u, n

(* So does the first byte of the queue, when nothing is before it but what *)
(* is further on.                                                          *)
LEMMA RowTake ==
  ASSUME NEW s \in Seq(Int), NEW t \in Int, NEW h \in Int, NEW q \in Seq(Int),
         q # <<>>, Head(q) # NoByte
  PROVE  InRow(s, t, h, Head(q), Tail(q)) = InRow(s, t, h, NoByte, q)
<1> DEFINE a == s \o InFlight(t) \o InFlight(h)
<1>1. a \in Seq(Int)
  BY InFlightSeq, ConcatProperties
<1>2. Head(q) \in Int /\ Tail(q) \in Seq(Int) /\ q \in Seq(Int)
  BY HeadTailProperties
<1>3. <<Head(q)>> \in Seq(Int)
  BY <1>2
<1>4. InRow(s, t, h, Head(q), Tail(q)) = (a \o <<Head(q)>>) \o Tail(q)
  BY DEF InRow, InFlight
<1>5. InRow(s, t, h, NoByte, q) = (a \o <<>>) \o q
  BY DEF InRow, InFlight
<1> HIDE DEF a
<1>6. a \o <<>> = a
  BY <1>1, ConcatEmptySeq
<1>7. <<Head(q)>> \o Tail(q) = q
  BY HeadBack
<1>8. (a \o <<Head(q)>>) \o Tail(q) = a \o (<<Head(q)>> \o Tail(q))
  BY <1>1, <1>2, <1>3, JoinInt
<1> QED
  BY <1>4, <1>5, <1>6, <1>7, <1>8

(* New bytes come behind all others.                                       *)
LEMMA RowPut ==
  ASSUME NEW s \in Seq(Int), NEW t \in Int, NEW h \in Int, NEW x \in Int,
         NEW q \in Seq(Int), NEW r \in Seq(Int)
  PROVE  InRow(s, t, h, x, q \o r) = InRow(s, t, h, x, q) \o r
<1> DEFINE a == s \o InFlight(t) \o InFlight(h) \o InFlight(x)
<1>1. a \in Seq(Int)
  BY InFlightSeq, ConcatProperties
<1>2. InRow(s, t, h, x, q \o r) = a \o (q \o r) /\ InRow(s, t, h, x, q) = a \o q
  BY DEF InRow
<1>3. a \in Seq(Int) /\ q \in Seq(Int) /\ r \in Seq(Int)
  BY <1>1
<1> HIDE DEF a
<1>4. (a \o q) \o r = a \o (q \o r)
  BY <1>3, JoinInt
<1> QED
  BY <1>2, <1>4

(* The numbers of a write follow those accepted before.                    *)
LEMMA IdsJoin ==
  ASSUME NEW a \in Nat, NEW k \in Nat, NEW n \in 0 .. k
  PROVE  /\ SubSeq(Ids(a, a + k), 1, n) \in Seq(Int)
         /\ Len(SubSeq(Ids(a, a + k), 1, n)) = n
         /\ Ids(0, a) \o SubSeq(Ids(a, a + k), 1, n) = Ids(0, a + n)
<1> DEFINE d == Ids(a, a + k)
           u == SubSeq(d, 1, n)
           f == Ids(0, a)
           e == Ids(0, a + n)
<1>1. /\ d \in Seq(Int) /\ Len(d) = k
      /\ \A j \in 1 .. k : d[j] = a + j
  <2>1. (a + k) - a = k
    OBVIOUS
  <2>2. d = [j \in 1 .. k |-> a + j]
    BY <2>1 DEF Ids
  <2> QED
    BY <2>2
<1>2. /\ f \in Seq(Int) /\ Len(f) = a
      /\ \A j \in 1 .. a : f[j] = j
  <2>1. f = [j \in 1 .. a |-> j]
    BY DEF Ids
  <2> QED
    BY <2>1
<1>3. /\ e \in Seq(Int) /\ Len(e) = a + n
      /\ \A j \in 1 .. a + n : e[j] = j
  <2>1. e = [j \in 1 .. a + n |-> j] /\ a + n \in Nat
    BY DEF Ids
  <2> QED
    BY <2>1
<1> HIDE DEF d, e, f
<1>4. /\ u \in Seq(Int) /\ Len(u) = n
      /\ \A j \in 1 .. n : u[j] = a + j
  <2>1. \A j \in 1 .. n : j \in 1 .. k /\ d[j] = a + j /\ d[j] \in Int
    BY <1>1
  <2> QED
    BY <1>1, <2>1, SubSeqProperties
<1> HIDE DEF u
<1>5. /\ f \o u \in Seq(Int) /\ Len(f \o u) = a + n
      /\ \A j \in 1 .. a + n : (f \o u)[j] = IF j <= a THEN f[j] ELSE u[j - a]
  <2>1. /\ f \o u \in Seq(Int) /\ Len(f \o u) = Len(f) + Len(u)
        /\ \A j \in 1 .. Len(f) + Len(u) :
              (f \o u)[j] = IF j <= Len(f) THEN f[j] ELSE u[j - Len(f)]
    BY <1>2, <1>4, JoinInt
  <2> QED
    BY <1>2, <1>4, <2>1
<1>6. \A j \in 1 .. a + n : (f \o u)[j] = e[j]
  <2> TAKE j \in 1 .. a + n
  <2>1. CASE j <= a
    BY <1>2, <1>3, <1>5, <2>1
  <2>2. CASE ~ (j <= a)
    <3>1. j - a \in 1 .. n /\ a + (j - a) = j
      BY <2>2
    <3> QED
      BY <1>3, <1>4, <1>5, <2>2, <3>1
  <2> QED
    BY <2>1, <2>2
<1>7. f \o u = e
  <2>1. Len(f \o u) = Len(e)
    BY <1>3, <1>5
  <2>2. \A j \in 1 .. Len(f \o u) : (f \o u)[j] = e[j]
    BY <1>5, <1>6
  <2> QED
    BY <1>3, <1>5, <2>1, <2>2, SeqEqual
<1> QED
  BY <1>4, <1>7 DEF d, e, f, u

(* What is on its way out, as a row.                                       *)
LEMMA OutgoingRow ==
  /\ Outgoing = InRow(sent, uart.tsr, uart.thr, Hand, txfifo)
  /\ Outgoing' = InRow(sent', uart'.tsr, uart'.thr, Hand', txfifo')
BY DEF Outgoing, InRow, InHand, Hand, InFlight

(* The chip after each step that touches the transmitter.                  *)
LEMMA ThreStep ==
  ASSUME ThreClear, TxInv, arrived \in Nat, [Next]_vars
  PROVE  ThreClear'
<1>0. uart \in Uart /\ ~ uart.dlab /\ arrived + 1 \in Int
  BY DEF TxInv, ChipTyped
<1>1. CASE UNCHANGED uart
  BY <1>1 DEF ThreClear
<1>2. CASE IrqNone \/ IrqLineStatus \/ IrqReceive \/ LineReceive \/ LineShiftOut
  <2>1. uart' \in {uart, ReadLSR(uart), ReadRX(uart), Receive(uart, arrived + 1),
                   ShiftOut(uart)}
    BY <1>2 DEF IrqNone, IrqLineStatus, IrqReceive, LineReceive, LineShiftOut,
       Serve, Touch
  <2>2. uart'.thr = uart.thr /\ uart'.thri = uart.thri
    BY <1>0, <2>1 DEF ReadLSR, ReadRX, Receive, ShiftOut, Uart
  <2> QED
    BY <2>2 DEF ThreClear
<1>3. CASE IrqTransmit
  <2>1. uart' = ReadIIR(uart) \/ uart' = WriteTX(ReadIIR(uart), Head(txfifo))
    BY <1>3 DEF IrqTransmit, Serve
  <2>2. IIR(uart) = "THRI"
    BY <1>3 DEF IrqTransmit
  <2>3. ~ uart'.thri
    BY <1>0, <2>1, <2>2 DEF ReadIIR, WriteTX, Uart
  <2> QED
    BY <2>3 DEF ThreClear
<1>4. CASE LineLoad
  <2>1. uart'.thr = NoByte
    BY <1>0, <1>4, DataRegisters DEF LineLoad, Touch
  <2> QED
    BY <2>1 DEF ThreClear
<1>5. ASSUME NEW p \in Writers, WriteOut(p)
      PROVE  ThreClear'
  BY <1>0, <1>5 DEF WriteOut, Touch, WriteTX, Uart, ThreClear
<1>6. ASSUME NEW p \in Procs, Enter(p) \/ Signal(p)
      PROVE  UNCHANGED uart
  BY <1>6 DEF Enter, seri_open, seri_release, Signal, hwVars
<1>7. ASSUME NEW p \in Readers, ReadEnter(p) \/ seri_read(p)
      PROVE  UNCHANGED uart
  BY <1>7 DEF ReadEnter, seri_read, ReadDown, ReadDownInterrupted, ReadReady,
     ReadWouldBlock, ReadMustWait, ReadWait, ReadWake, ReadGet, hwVars
<1>8. ASSUME NEW p \in Writers, WriteEnter(p) \/ seri_write(p), ~ WriteOut(p)
      PROVE  UNCHANGED uart
  BY <1>8 DEF WriteEnter, seri_write, WriteDown, WriteDownInterrupted,
     WritePut, WriteKick, WriteQueued, WriteGet, hwVars
<1>9. CASE UNCHANGED vars
  BY <1>1, <1>9 DEF vars, hwVars
<1> QED
  BY <1>1, <1>2, <1>3, <1>4, <1>5, <1>6, <1>7, <1>8, <1>9
     DEF Next, seri_interrupt, Line

(* A step of p leaves the CPU to p or to nobody, and takes it from neither *)
(* another.                                                                *)
LEMMA RunsStep ==
  ASSUME WriterRuns, NEW p \in Procs, DOMAIN pc = Procs, p # Nobody,
         cpu \in {p, Nobody}, cpu' \in {p, Nobody}, Nobody \notin Procs,
         NEW to, pc' = [pc EXCEPT ![p] = to],
         cpu' = p \/ to \notin {"wr_put", "wr_flag", "wr_get", "wr_out"}
  PROVE  WriterRuns'
<1> SUFFICES ASSUME NEW q \in Procs,
                    pc'[q] \in {"wr_put", "wr_flag", "wr_get", "wr_out"}
             PROVE  cpu' = q
  BY DEF WriterRuns
<1>1. CASE q = p
  BY <1>1
<1>2. CASE q # p
  BY <1>2 DEF WriterRuns
<1> QED
  BY <1>1, <1>2

LEMMA WriterRunsStep ==
  ASSUME WriterRuns, TxInv, [Next]_vars
  PROVE  WriterRuns'
<1>0. DOMAIN pc = Procs /\ Nobody \notin Procs
  BY ProcsAssumption DEF TxInv, CallTyped
<1>1. CASE UNCHANGED <<pc, cpu>>
  BY <1>1 DEF WriterRuns
<1>2. CASE seri_interrupt \/ Line
  BY <1>1, <1>2 DEF seri_interrupt, IrqNone, IrqLineStatus, IrqReceive,
     IrqTransmit, Line, LineReceive, LineLoad, LineShiftOut
<1>3. ASSUME NEW p \in Procs, Enter(p) \/ Signal(p)
      PROVE  WriterRuns'
  BY <1>1, <1>3 DEF Enter, seri_open, seri_release, Signal
<1>4. ASSUME NEW p \in Readers, ReadEnter(p) \/ seri_read(p)
      PROVE  WriterRuns'
  <2>1. \E to : /\ pc' = [pc EXCEPT ![p] = to]
                /\ cpu \in {p, Nobody} /\ cpu' \in {p, Nobody}
                /\ to \notin {"wr_put", "wr_flag", "wr_get", "wr_out"}
    BY <1>4 DEF ReadEnter, seri_read, ReadDown, ReadDownInterrupted, ReadReady,
       ReadWouldBlock, ReadMustWait, ReadWait, ReadWake, ReadGet, Down,
       DownGranted, DownInterrupted, Goto, Sleep, Return, Runs, Awake
  <2>2. p \in Procs /\ p # Nobody
    BY <1>0 DEF Procs
  <2> QED
    BY <1>0, <2>1, <2>2, RunsStep
<1>5. ASSUME NEW p \in Writers, WriteEnter(p) \/ seri_write(p)
      PROVE  WriterRuns'
  <2>1. cpu \in {p, Nobody}
    BY <1>5 DEF WriteEnter, WriteBegin, seri_write, WriteDown,
       WriteDownInterrupted, WritePut, WriteKick, WriteQueued, WriteGet,
       WriteOut, Down, DownGranted, DownInterrupted, Goto, Sleep, Return, Runs,
       Awake
  <2>3. \E to : /\ pc' = [pc EXCEPT ![p] = to]
                /\ \/ cpu' = p
                   \/ cpu' = Nobody
                      /\ to \notin {"wr_put", "wr_flag", "wr_get", "wr_out"}
    <3>1. CASE WriteEnter(p)
      BY <3>1 DEF WriteEnter, WriteBegin, Down, Goto, Sleep
    <3>2. CASE \/ WriteDown(p) \/ WriteDownInterrupted(p) \/ WritePut(p)
               \/ WriteKick(p) \/ WriteGet(p)
      BY <3>2 DEF WriteDown, WriteDownInterrupted, WritePut, WriteKick, WriteGet,
         DownGranted, DownInterrupted, Goto
    <3>3. CASE WriteQueued(p) \/ WriteOut(p)
      BY <3>3 DEF WriteQueued, WriteOut, Return
    <3> QED
      BY <1>5, <3>1, <3>2, <3>3 DEF seri_write
  <2>2. p \in Procs /\ p # Nobody
    BY <1>0 DEF Procs
  <2> QED
    BY <1>0, <2>1, <2>2, <2>3, RunsStep
<1>6. CASE UNCHANGED vars
  BY <1>1, <1>6 DEF vars
<1> QED
  BY <1>2, <1>3, <1>4, <1>5, <1>6 DEF Next

-----------------------------------------------------------------------------
LEMMA NoByteInt == NoByte \in Int
BY DEF NoByte

(* The five places hold what they hold.                                    *)
LEMMA RowTyped ==
  ASSUME TxInv, OnceInv
  PROVE  /\ sent \in Seq(Int) /\ uart.tsr \in Int /\ uart.thr \in Int
         /\ Hand \in Int /\ txfifo \in Seq(Int)
BY NoByteInt, QueueInt
   DEF TxInv, ChipTyped, Uart, CallTyped, OnceInv, HandInv, Hand

(* A step that moves no byte, and no process to the start of the chip.     *)
LEMMA OrderKept ==
  ASSUME OrderInv, UNCHANGED <<sent, txfifo, accepted>>, Hand' = Hand,
         uart'.tsr = uart.tsr, uart'.thr = uart.thr,
         uart'.thri => uart.thri,
         \A q \in Procs : pc'[q] \in {"wr_get", "wr_out"} => pc'[q] = pc[q]
  PROVE  OrderInv'
<1>1. TxFaithful'
  BY OutgoingRow DEF OrderInv, TxFaithful
<1>2. Started'
  BY DEF OrderInv, Started
<1> QED
  BY <1>1, <1>2 DEF OrderInv

(* Nobody is starting the chip while its interrupt is due or the THR full. *)
LEMMA NobodyStarts ==
  ASSUME Started, HandInv, DOMAIN pc = Procs, uart.thri \/ uart.thr # NoByte
  PROVE  /\ \A q \in Procs : pc[q] \notin {"wr_get", "wr_out"}
         /\ Hand = NoByte
BY DEF Started, HandInv, Hand

(* The handler and the line pass bytes on, each to the next place, empty.  *)
LEMMA OrderMachine ==
  ASSUME OrderInv, TxInv, OnceInv, ThreClear, arrived \in Nat,
         seri_interrupt \/ Line
  PROVE  OrderInv'
<1>0. /\ uart \in Uart /\ ~ uart.dlab /\ arrived + 1 \in Int
      /\ DOMAIN pc = Procs /\ HandInv
      /\ UNCHANGED <<pc, cpu, byte, accepted>>
  BY DEF TxInv, ChipTyped, CallTyped, OnceInv, seri_interrupt, IrqNone,
     IrqLineStatus, IrqReceive, IrqTransmit, Line, LineReceive, LineLoad,
     LineShiftOut, callVars, txVars
<1>1. Hand' = Hand
  BY <1>0 DEF Hand
<1>2. CASE IrqNone \/ IrqLineStatus \/ IrqReceive \/ LineReceive
  <2>1. /\ uart' \in {uart, ReadLSR(uart), ReadRX(uart), Receive(uart, arrived + 1)}
        /\ UNCHANGED <<sent, txfifo>>
    BY <1>2 DEF IrqNone, IrqLineStatus, IrqReceive, LineReceive, Serve, Touch,
       txVars
  <2>2. uart'.tsr = uart.tsr /\ uart'.thr = uart.thr /\ uart'.thri = uart.thri
    BY <1>0, <2>1 DEF ReadLSR, ReadRX, Receive, Uart
  <2> QED
    BY <1>0, <1>1, <2>1, <2>2, OrderKept
<1>3. CASE IrqTransmit /\ txfifo = <<>>
  <2>1. /\ uart'.tsr = uart.tsr /\ uart'.thr = uart.thr
        /\ uart'.thri => uart.thri
        /\ UNCHANGED <<sent, txfifo>>
    BY <1>0, <1>3 DEF IrqTransmit, Serve, ReadIIR, Uart
  <2> QED
    BY <1>0, <1>1, <2>1, OrderKept
<1>4. CASE IrqTransmit /\ txfifo # <<>>
  <2>1. uart.thri
    BY <1>4 DEF IrqTransmit, IIR
  <2>2. uart.thr = NoByte
    BY <2>1 DEF ThreClear
  <2>3. (\A q \in Procs : pc[q] \notin {"wr_get", "wr_out"}) /\ Hand = NoByte
    BY <1>0, <2>1, NobodyStarts DEF OrderInv
  <2>4. /\ uart'.thr = Head(txfifo) /\ uart'.tsr = uart.tsr
        /\ sent' = sent /\ txfifo' = Tail(txfifo)
    BY <1>0, <1>4 DEF IrqTransmit, Serve, ReadIIR, WriteTX, Uart
  <2>5. Head(txfifo) \in Int /\ Head(txfifo) # NoByte /\ Tail(txfifo) \in Seq(Int)
    <3>1. Head(txfifo) \in Data
      BY <1>4, HeadTailProperties DEF TxInv, QueueTyped
    <3>2. Tail(txfifo) \in Seq(Int)
      BY <1>4, RowTyped, HeadTailProperties
    <3> QED
      BY <3>1, <3>2 DEF Data
  <2>6. Outgoing' = InRow(sent, uart.tsr, Head(txfifo), NoByte, Tail(txfifo))
    BY <1>1, <2>3, <2>4, OutgoingRow
  <2>7. InRow(sent, uart.tsr, Head(txfifo), NoByte, Tail(txfifo))
          = InRow(sent, uart.tsr, NoByte, Head(txfifo), Tail(txfifo))
    BY <2>5, RowTyped, RowHand
  <2>8. InRow(sent, uart.tsr, NoByte, Head(txfifo), Tail(txfifo))
          = InRow(sent, uart.tsr, NoByte, NoByte, txfifo)
    BY <1>4, <2>2, <2>5, RowTyped, RowTake, NoByteInt
  <2>9. Outgoing' = Outgoing
    BY <2>2, <2>3, <2>6, <2>7, <2>8, OutgoingRow
  <2> QED
    BY <1>0, <2>3, <2>9 DEF OrderInv, TxFaithful, Started
<1>5. CASE LineLoad
  <2>1. uart.thr # NoByte /\ uart.tsr = NoByte
    BY <1>5 DEF LineLoad, CanLoad
  <2>2. (\A q \in Procs : pc[q] \notin {"wr_get", "wr_out"}) /\ Hand = NoByte
    BY <1>0, <2>1, NobodyStarts DEF OrderInv
  <2>3. /\ uart'.tsr = uart.thr /\ uart'.thr = NoByte
        /\ UNCHANGED <<sent, txfifo>>
    BY <1>0, <1>5, DataRegisters DEF LineLoad, Touch, txVars
  <2>4. Outgoing' = InRow(sent, uart.thr, NoByte, Hand, txfifo)
    BY <1>1, <2>3, OutgoingRow
  <2>5. InRow(sent, uart.thr, NoByte, Hand, txfifo)
          = InRow(sent, NoByte, uart.thr, Hand, txfifo)
    BY RowTyped, RowLoad
  <2>6. Outgoing' = Outgoing
    BY <2>1, <2>4, <2>5, OutgoingRow
  <2> QED
    BY <1>0, <2>2, <2>6 DEF OrderInv, TxFaithful, Started
<1>6. CASE LineShiftOut
  <2>1. /\ uart.tsr # NoByte /\ sent' = Append(sent, uart.tsr) /\ txfifo' = txfifo
        /\ uart'.tsr = NoByte /\ uart'.thr = uart.thr /\ uart'.thri = uart.thri
    BY <1>0, <1>6 DEF LineShiftOut, CanShiftOut, Touch, ShiftOut, Uart, txVars
  <2>2. Outgoing' = InRow(Append(sent, uart.tsr), NoByte, uart.thr, Hand, txfifo)
    BY <1>1, <2>1, OutgoingRow
  <2>3. InRow(Append(sent, uart.tsr), NoByte, uart.thr, Hand, txfifo)
          = InRow(sent, uart.tsr, uart.thr, Hand, txfifo)
    BY <2>1, RowTyped, RowShiftOut
  <2>4. Outgoing' = Outgoing
    BY <2>2, <2>3, OutgoingRow
  <2> QED
    BY <1>0, <2>1, <2>4 DEF OrderInv, TxFaithful, Started
<1> QED
  BY <1>2, <1>3, <1>4, <1>5, <1>6 DEF seri_interrupt, Line

(* A reader has no part in it.                                             *)
LEMMA OrderReader ==
  ASSUME OrderInv, TxInv, OnceInv, NEW p \in Readers, ReadEnter(p) \/ seri_read(p)
  PROVE  OrderInv'
<1>1. UNCHANGED <<uart, sent, txfifo, accepted, byte>>
  BY DEF ReadEnter, seri_read, ReadDown, ReadDownInterrupted, ReadReady,
     ReadWouldBlock, ReadMustWait, ReadWait, ReadWake, ReadGet, hwVars, txVars,
     callVars
<1>2. p \in Procs /\ DOMAIN pc = Procs /\ HandInv
  BY DEF Procs, TxInv, CallTyped, OnceInv
<1>3. \E to : /\ pc' = [pc EXCEPT ![p] = to]
              /\ cpu \in {p, Nobody} /\ cpu' \in {p, Nobody}
              /\ to \notin {"wr_get", "wr_out"} /\ pc[p] # "wr_out"
  BY DEF ReadEnter, seri_read, ReadDown, ReadDownInterrupted, ReadReady,
     ReadWouldBlock, ReadMustWait, ReadWait, ReadWake, ReadGet, Down,
     DownGranted, DownInterrupted, Goto, Sleep, Return, Runs, Awake
<1>4. Hand' = NoByte
  BY <1>1, <1>2, <1>3, HandKept
<1>5. Hand = NoByte
  BY <1>2, <1>3 DEF HandInv, Hand
<1>6. \A q \in Procs : pc'[q] \in {"wr_get", "wr_out"} => pc'[q] = pc[q]
  BY <1>2, <1>3
<1> QED
  BY <1>1, <1>4, <1>5, <1>6, OrderKept

(* A writer's bytes go behind all others, and from the front of txfifo to  *)
(* the THR through its hand: in order if it starts an idle chip only.      *)
LEMMA OrderWriter ==
  ASSUME OrderInv, TxInv, OnceInv, WriterRuns, NEW p \in Writers,
         WriteEnter(p) \/ seri_write(p), WriteKick(p) => Startable
  PROVE  OrderInv'
<1>0. /\ p \in Procs /\ p # Nobody /\ DOMAIN pc = Procs /\ DOMAIN byte = Procs
      /\ accepted \in Nat /\ count[p] \in Nat /\ HandInv
      /\ uart \in Uart /\ ~ uart.dlab
  BY ProcsAssumption DEF Procs, TxInv, ChipTyped, CallTyped, QueueTyped, OnceInv
<1>1. ASSUME cpu = p
      PROVE  \A q \in Procs \ {p} : pc[q] \notin {"wr_get", "wr_out"}
  BY <1>1 DEF WriterRuns
<1>2. ASSUME pc[p] # "wr_out", cpu \in {p, Nobody}
      PROVE  Hand = NoByte
  BY <1>0, <1>2 DEF HandInv, Hand
<1>3. CASE \/ WriteEnter(p) \/ WriteDown(p) \/ WriteDownInterrupted(p)
           \/ WriteQueued(p)
  <2>1. UNCHANGED <<uart, sent, txfifo, accepted, byte>>
    BY <1>3 DEF WriteEnter, WriteDown, WriteDownInterrupted, WriteQueued, hwVars,
       txVars, callVars
  <2>2. \E to : /\ pc' = [pc EXCEPT ![p] = to]
                /\ cpu \in {p, Nobody} /\ cpu' \in {p, Nobody}
                /\ to \notin {"wr_get", "wr_out"} /\ pc[p] # "wr_out"
    BY <1>3 DEF WriteEnter, WriteBegin, WriteDown, WriteDownInterrupted,
       WriteQueued, Down, DownGranted, DownInterrupted, Goto, Sleep, Return,
       Runs, Awake
  <2>3. Hand' = NoByte
    BY <1>0, <2>1, <2>2, HandKept
  <2>4. \A q \in Procs : pc'[q] \in {"wr_get", "wr_out"} => pc'[q] = pc[q]
    BY <1>0, <2>2
  <2> QED
    BY <1>2, <2>1, <2>2, <2>3, <2>4, OrderKept
<1>4. CASE WriteKick(p)
  <2>1. /\ UNCHANGED <<uart, sent, txfifo, accepted, byte>>
        /\ pc' = [pc EXCEPT ![p] = "wr_get"]
        /\ cpu = p /\ cpu' = p /\ pc[p] = "wr_flag"
    BY <1>4 DEF WriteKick, Runs, Goto, hwVars, txVars, callVars
  <2>2. Hand' = Hand
    BY <1>0, <2>1 DEF Hand
  <2>3. TxFaithful'
    BY <2>1, <2>2, OutgoingRow DEF OrderInv, TxFaithful
  <2>4. Started'
    BY <1>0, <1>1, <1>4, <2>1 DEF Started, Startable
  <2> QED
    BY <2>3, <2>4 DEF OrderInv
<1>5. CASE WritePut(p)
  <2> DEFINE data == Ids(accepted, accepted + count[p])
             n == KfifoRoom(txfifo, data, FifoSize)
             r == SubSeq(data, 1, n)
  <2>1. n \in 0 .. count[p]
    <3>1. Len(data) = count[p] /\ count[p] \in Nat
      <4>1. /\ accepted + count[p] \in Nat /\ accepted <= accepted + count[p]
            /\ (accepted + count[p]) - accepted = count[p]
        BY <1>0
      <4> QED
        BY <1>0, <4>1, IdsLemma
    <3>2. Len(txfifo) \in Nat /\ Len(txfifo) <= FifoSize /\ FifoSize \in Nat
      BY LenProperties, SizesAssumption DEF TxInv, QueueTyped
    <3> HIDE DEF data
    <3> QED
      BY <3>1, <3>2 DEF KfifoRoom, Least
  <2>2. /\ txfifo' = txfifo \o r /\ accepted' = accepted + n
        /\ UNCHANGED <<uart, sent, byte>> /\ cpu = p /\ cpu' = p
        /\ pc' = [pc EXCEPT ![p] = "wr_flag"] /\ pc[p] = "wr_put"
    BY <1>5 DEF WritePut, KfifoPut, Goto, Runs, hwVars
  <2>3. r \in Seq(Int) /\ Ids(0, accepted) \o r = Ids(0, accepted + n)
    <3> HIDE DEF n
    <3> QED
      BY <1>0, <2>1, IdsJoin
  <2> HIDE DEF n, r
  <2>4. Hand' = Hand
    BY <2>2 DEF Hand
  <2>5. Outgoing' = InRow(sent, uart.tsr, uart.thr, Hand, txfifo \o r)
    BY <2>2, <2>4, OutgoingRow
  <2>6. InRow(sent, uart.tsr, uart.thr, Hand, txfifo \o r)
          = InRow(sent, uart.tsr, uart.thr, Hand, txfifo) \o r
    <3>1. /\ sent \in Seq(Int) /\ uart.tsr \in Int /\ uart.thr \in Int
          /\ Hand \in Int /\ txfifo \in Seq(Int)
      BY RowTyped
    <3>2. r \in Seq(Int)
      BY <2>3
    <3>3. PICK e1 \in Int : e1 = uart.tsr
      BY <3>1
    <3>4. PICK e2 \in Int : e2 = uart.thr
      BY <3>1
    <3>5. PICK e3 \in Int : e3 = Hand
      BY <3>1
    <3>6. PICK v1 \in Seq(Int) : v1 = sent
      BY <3>1
    <3>7. PICK v2 \in Seq(Int) : v2 = txfifo
      BY <3>1
    <3>8. PICK v3 \in Seq(Int) : v3 = r
      BY <3>2
    <3>9. InRow(v1, e1, e2, e3, v2 \o v3) = InRow(v1, e1, e2, e3, v2) \o v3
      BY RowPut
    <3> QED
      BY <3>3, <3>4, <3>5, <3>6, <3>7, <3>8, <3>9
  <2>7. TxFaithful'
    BY <2>2, <2>3, <2>5, <2>6, OutgoingRow DEF OrderInv, TxFaithful
  <2>8. Started'
    BY <1>0, <1>1, <2>2 DEF Started
  <2> QED
    BY <2>7, <2>8 DEF OrderInv
<1>6. CASE WriteGet(p)
  <2>1. /\ cpu = p /\ cpu' = p /\ pc[p] = "wr_get"
        /\ pc' = [pc EXCEPT ![p] = "wr_out"]
        /\ UNCHANGED <<uart, sent, accepted>>
        /\ txfifo' = KfifoGet(txfifo, 1)
        /\ byte' = [byte EXCEPT ![p] =
                      IF txfifo = <<>> THEN Garbage ELSE Head(txfifo)]
    BY <1>6 DEF WriteGet, Goto, Runs, hwVars
  <2>2. txfifo # <<>> /\ uart.thr = NoByte /\ ~ uart.thri
    BY <1>0, <2>1 DEF OrderInv, Started
  <2>3. Hand = NoByte /\ Hand' = Head(txfifo)
    BY <1>0, <1>2, <2>1, <2>2 DEF Hand
  <2>4. Head(txfifo) # NoByte
    BY <2>2, HeadTailProperties DEF TxInv, QueueTyped, Data
  <2>5. txfifo' = Tail(txfifo)
    <3>1. txfifo \in Seq(Int)
      BY RowTyped
    <3>2. Len(txfifo) \in Nat /\ Len(txfifo) >= 1
      BY <2>2, <3>1, LenProperties, EmptySeq
    <3>3. Least(1, Len(txfifo)) = 1
      BY <3>2 DEF Least
    <3> QED
      BY <2>1, <2>2, <3>1, <3>3 DEF KfifoGet
  <2>6. Outgoing' = InRow(sent, uart.tsr, uart.thr, Head(txfifo), Tail(txfifo))
    BY <2>1, <2>3, <2>5, OutgoingRow
  <2>7. InRow(sent, uart.tsr, uart.thr, Head(txfifo), Tail(txfifo))
          = InRow(sent, uart.tsr, uart.thr, NoByte, txfifo)
    BY <2>2, <2>4, RowTyped, RowTake
  <2>8. Outgoing' = Outgoing
    BY <2>3, <2>6, <2>7, OutgoingRow
  <2>9. Started'
    BY <1>0, <1>1, <2>1, <2>2 DEF Started
  <2> QED
    BY <2>1, <2>8, <2>9 DEF OrderInv, TxFaithful
<1>7. CASE WriteOut(p)
  <2>1. /\ cpu = p /\ cpu' = Nobody /\ pc[p] = "wr_out"
        /\ pc' = [pc EXCEPT ![p] = "user"]
        /\ UNCHANGED <<sent, txfifo, accepted>>
        /\ uart'.thr = byte[p] /\ uart'.tsr = uart.tsr
    BY <1>0, <1>7 DEF WriteOut, Touch, Return, Runs, txVars, WriteTX, Uart
  <2>2. uart.thr = NoByte
    BY <1>0, <2>1 DEF OrderInv, Started
  <2>3. Hand = byte[p] /\ Hand' = NoByte
    BY <1>0, <2>1 DEF Hand
  <2>4. Outgoing' = InRow(sent, uart.tsr, Hand, NoByte, txfifo)
    BY <2>1, <2>3, OutgoingRow
  <2>5. InRow(sent, uart.tsr, Hand, NoByte, txfifo)
          = InRow(sent, uart.tsr, NoByte, Hand, txfifo)
    BY RowTyped, RowHand
  <2>6. Outgoing' = Outgoing
    BY <2>2, <2>4, <2>5, OutgoingRow
  <2>7. Started'
    BY <1>0, <1>1, <2>1 DEF Started
  <2> QED
    BY <2>1, <2>6, <2>7 DEF OrderInv, TxFaithful
<1> QED
  BY <1>3, <1>4, <1>5, <1>6, <1>7 DEF seri_write

(* The greeting is all that was accepted.                                  *)
LEMMA OrderInit == Init => OrderInv /\ ThreClear /\ WriterRuns
<1> SUFFICES ASSUME Init PROVE OrderInv /\ ThreClear /\ WriterRuns
  OBVIOUS
<1>1. /\ sent = <<>> /\ uart.tsr = NoByte /\ uart.thr = NoByte
      /\ Hand = NoByte /\ txfifo = Ids(0, Greeting) /\ accepted = Greeting
      /\ \A p \in Procs : pc[p] = "user"
  BY DEF Init, UartConfigured, Hand
<1>2. Ids(0, Greeting) \in Seq(Int)
  BY SizesAssumption DEF Ids
<1>3. Outgoing = <<>> \o <<>> \o <<>> \o <<>> \o Ids(0, Greeting)
  BY <1>1, OutgoingRow DEF InRow, InFlight
<1>4. <<>> \o Ids(0, Greeting) = Ids(0, Greeting) /\ <<>> \o <<>> = <<>>
  BY <1>2, ConcatEmptySeq, EmptySeq
<1>5. TxFaithful
  BY <1>1, <1>3, <1>4 DEF TxFaithful
<1> QED
  BY <1>1, <1>5 DEF OrderInv, Started, ThreClear, WriterRuns

(* What holds of the chip and of the processes, whatever the writers do.   *)
LEMMA Undisturbed == Spec => [](TxInv /\ OnceInv /\ ThreClear /\ WriterRuns)
<1>1. OnceInv /\ TxInv /\ arrived \in Nat /\ [Next]_vars => OnceInv'
  BY OnceStep
<1>2. ThreClear /\ TxInv /\ arrived \in Nat /\ [Next]_vars => ThreClear'
  BY ThreStep
<1>3. WriterRuns /\ TxInv /\ [Next]_vars => WriterRuns'
  BY WriterRunsStep
<1> QED
  BY <1>1, <1>2, <1>3, OnceInit, OrderInit, TxInvariant, ArrivedNat, PTL DEF Spec

(* A step that starts the chip only when it can be started keeps the order.*)
LEMMA OrderStep ==
  ASSUME OrderInv, TxInv, OnceInv, ThreClear, WriterRuns, arrived \in Nat,
         [Next]_vars, [\A p \in Writers : WriteKick(p) => Startable]_vars
  PROVE  OrderInv'
<1>1. CASE UNCHANGED <<uart, sent, txVars, byte, pc, cpu>>
  <2>1. Hand' = Hand
    BY <1>1 DEF Hand
  <2> QED
    BY <1>1, <2>1, OrderKept DEF txVars
<1>2. CASE UNCHANGED vars
  BY <1>1, <1>2 DEF vars, hwVars, callVars
<1>3. ASSUME NEW p \in Procs, Enter(p) \/ Signal(p)
      PROVE  OrderInv'
  BY <1>1, <1>3 DEF Enter, seri_open, seri_release, Signal, hwVars, callVars
<1>4. ASSUME NEW p \in Writers, WriteEnter(p) \/ seri_write(p), ~ UNCHANGED vars
      PROVE  OrderInv'
  BY <1>4, OrderWriter
<1> QED
  BY <1>2, <1>3, <1>4, OrderMachine, OrderReader DEF Next

(* Handler and writers lose, repeat and reorder nothing, for any processes,*)
(* sizes, signals and both versions of seri_write, as long as every writer *)
(* that finds txflag = 1 does find an idle transmitter and a byte to give  *)
(* it.  So every byte that these calls lose after accepting it, send out of*)
(* turn or make up goes back to a txflag that was 1 when it should not be. *)
THEOREM OrderKeptByIdleStarts ==
  Spec /\ [][\A p \in Writers : WriteKick(p) => Startable]_vars
    => []TxFaithful
<1>1. OrderInv /\ (TxInv /\ OnceInv /\ ThreClear /\ WriterRuns) /\ arrived \in Nat
      /\ [Next]_vars /\ [\A p \in Writers : WriteKick(p) => Startable]_vars
        => OrderInv'
  BY OrderStep
<1>2. OrderInv => TxFaithful
  BY DEF OrderInv
<1>3. Init => OrderInv
  BY OrderInit
<1> QED
  BY <1>1, <1>2, <1>3, Undisturbed, ArrivedNat, PTL DEF Spec

-----------------------------------------------------------------------------
(* One write, of at least two bytes, on a slow line: it starts the chip    *)
(* only when it is idle.                                                   *)

(* One writer, that finds room for a byte at least and whose second write  *)
(* would go beyond the bound.                                              *)
OneWrite ==
    /\ SlowLine
    /\ FifoSize >= 2 /\ Greeting < FifoSize
    /\ \A p, q \in Writers : p = q
    /\ \A n \in WriteSizes : n >= 2 /\ Greeting + 1 + n > MaxTx

(* Until some writer starts the chip, txflag = 1 says what it should.      *)
IdleFlag == txflag = 1 => uart.thr = NoByte /\ ~ uart.thri

(* Of the two bytes or more that the call has left in txfifo the handler   *)
(* can take two at most before the line has sent one, and while it holds   *)
(* the second it has not seen the queue empty.                             *)
TwoHeld ==
    /\ Len(txfifo) <= 1 => uart.thr # NoByte \/ uart.tsr # NoByte
    /\ txfifo = <<>> => uart.thr # NoByte /\ uart.tsr # NoByte /\ txflag = 0

Before ==
    /\ accepted = Greeting /\ Len(txfifo) <= Greeting /\ IdleFlag
    /\ \A p \in Writers :
          /\ pc[p] \in {"user", "wr_down", "wr_put"}
          /\ pc[p] # "user" => count[p] >= 2

During == /\ accepted > Greeting /\ IdleFlag /\ TwoHeld
          /\ \E p \in Writers : pc[p] = "wr_flag"

After == /\ accepted > Greeting
         /\ \A p \in Writers : pc[p] \in {"user", "wr_get", "wr_out"}

FirstInv == Before \/ During \/ After

(* A step that changes nothing of it.                                      *)
LEMMA FirstKept ==
  ASSUME FirstInv, UNCHANGED <<uart, txVars>>,
         \A q \in Writers : pc'[q] = pc[q] /\ count'[q] = count[q]
  PROVE  FirstInv'
<1>1. CASE Before
  BY <1>1 DEF FirstInv, Before, IdleFlag, txVars
<1>2. CASE During
  BY <1>2 DEF FirstInv, During, IdleFlag, TwoHeld, txVars
<1>3. CASE After
  BY <1>3 DEF FirstInv, After, txVars
<1> QED
  BY <1>1, <1>2, <1>3 DEF FirstInv

(* The handler and the line.                                               *)
LEMMA FirstMachine ==
  ASSUME OneWrite, FirstInv, TxInv, ThreClear, WriterRuns, arrived \in Nat,
         seri_interrupt \/ Line
  PROVE  FirstInv'
<1>0. /\ uart \in Uart /\ ~ uart.dlab /\ arrived + 1 \in Int
      /\ UNCHANGED <<pc, cpu, count, accepted>>
      /\ Greeting \in Nat /\ Nobody \notin Procs /\ Writers \subseteq Procs
  BY ProcsAssumption, SizesAssumption DEF TxInv, ChipTyped, Procs, seri_interrupt,
     IrqNone, IrqLineStatus, IrqReceive, IrqTransmit, Line, LineReceive, LineLoad,
     LineShiftOut, callVars, txVars
<1>1. CASE After
  BY <1>0, <1>1 DEF After, FirstInv
<1>2. CASE (Before \/ During) /\ (IrqNone \/ IrqLineStatus \/ IrqReceive \/ LineReceive)
  <2>1. /\ uart' \in {uart, ReadLSR(uart), ReadRX(uart), Receive(uart, arrived + 1)}
        /\ UNCHANGED <<txflag, txfifo>>
    BY <1>2 DEF IrqNone, IrqLineStatus, IrqReceive, LineReceive, Serve, Touch,
       txVars
  <2>2. uart'.tsr = uart.tsr /\ uart'.thr = uart.thr /\ uart'.thri = uart.thri
    BY <1>0, <2>1 DEF ReadLSR, ReadRX, Receive, Uart
  <2>3. IdleFlag' /\ (TwoHeld => TwoHeld')
    BY <1>2, <2>1, <2>2 DEF Before, During, IdleFlag, TwoHeld
  <2> QED
    BY <1>0, <1>2, <2>1, <2>3 DEF FirstInv, Before, During
<1>3. CASE (Before \/ During) /\ IrqTransmit /\ txfifo = <<>>
  <2>1. uart.thri /\ uart.thr = NoByte
    BY <1>3 DEF IrqTransmit, IIR, ThreClear
  <2>2. Before
    BY <1>3, <2>1 DEF During, TwoHeld
  <2>3. IIR(uart) = "THRI" /\ uart' = ReadIIR(uart) /\ txfifo' = txfifo
    BY <1>3 DEF IrqTransmit, Serve
  <2>4. uart'.thr = NoByte /\ ~ uart'.thri
    BY <1>0, <2>1, <2>3 DEF ReadIIR, Uart
  <2> QED
    BY <1>0, <2>2, <2>3, <2>4 DEF FirstInv, Before, IdleFlag
<1>4. CASE (Before \/ During) /\ IrqTransmit /\ txfifo # <<>>
  <2>1. uart.thri /\ uart.thr = NoByte
    BY <1>4 DEF IrqTransmit, IIR, ThreClear
  <2>2. /\ uart'.thr = Head(txfifo) /\ uart'.tsr = uart.tsr
        /\ txflag' = 0 /\ txfifo' = Tail(txfifo)
    BY <1>0, <1>4 DEF IrqTransmit, Serve, ReadIIR, WriteTX, Uart
  <2>3. Head(txfifo) # NoByte
    BY <1>4, HeadTailProperties DEF TxInv, QueueTyped, Data
  <2>4. /\ Len(txfifo) \in Nat /\ Len(txfifo) >= 1 /\ Tail(txfifo) \in Seq(Data)
        /\ Len(Tail(txfifo)) = Len(txfifo) - 1
    BY <1>4, HeadTailProperties, LenProperties, EmptySeq DEF TxInv, QueueTyped
  <2>5. Tail(txfifo) = <<>> => Len(txfifo) = 1
    <3>1. PICK u \in Seq(Data) : u = Tail(txfifo)
      BY <2>4
    <3>2. PICK n \in Nat : n = Len(txfifo)
      BY <2>4
    <3>3. u = <<>> => Len(u) = 0
      BY EmptySeq
    <3>4. Len(u) = n - 1
      BY <2>4, <3>1, <3>2
    <3>5. Len(u) = 0 => n = 1
      BY <3>4
    <3> QED
      BY <3>1, <3>2, <3>3, <3>5
  <2>6. IdleFlag'
    BY <2>2 DEF IdleFlag
  <2>7. CASE Before
    <3>1. Len(txfifo') <= Greeting
      BY <1>0, <2>2, <2>4, <2>7 DEF Before
    <3> QED
      BY <1>0, <2>6, <2>7, <3>1 DEF FirstInv, Before
  <2>8. CASE During
    <3>1. Len(txfifo) = 1 => uart.tsr # NoByte
      BY <2>1, <2>8 DEF During, TwoHeld
    <3>2. TwoHeld'
      BY <2>2, <2>3, <2>5, <3>1 DEF TwoHeld
    <3> QED
      BY <1>0, <2>6, <2>8, <3>2 DEF FirstInv, During
  <2> QED
    BY <1>4, <2>7, <2>8
<1>5. CASE (Before \/ During) /\ LineLoad
  <2>1. uart.thr # NoByte /\ uart.tsr = NoByte
    BY <1>5 DEF LineLoad, CanLoad
  <2>2. /\ uart'.tsr = uart.thr /\ uart'.thr = NoByte
        /\ UNCHANGED <<txfifo, txflag>>
    BY <1>0, <1>5, DataRegisters DEF LineLoad, Touch, txVars
  <2>3. txflag # 1
    BY <1>5, <2>1 DEF Before, During, IdleFlag
  <2>4. IdleFlag'
    BY <2>2, <2>3 DEF IdleFlag
  <2>5. During => TwoHeld'
    BY <2>1, <2>2 DEF During, TwoHeld
  <2> QED
    BY <1>0, <1>5, <2>2, <2>4, <2>5 DEF FirstInv, Before, During
<1>6. CASE (Before \/ During) /\ LineShiftOut
  <2>1. cpu = Nobody
    BY <1>6 DEF LineShiftOut, OneWrite
  <2>2. Before
    BY <1>0, <1>6, <2>1 DEF During, WriterRuns
  <2>3. /\ uart'.thr = uart.thr /\ uart'.thri = uart.thri
        /\ UNCHANGED <<txfifo, txflag>>
    BY <1>0, <1>6 DEF LineShiftOut, Touch, ShiftOut, Uart, txVars
  <2> QED
    BY <1>0, <2>2, <2>3 DEF FirstInv, Before, IdleFlag
<1> QED
  BY <1>1, <1>2, <1>3, <1>4, <1>5, <1>6 DEF FirstInv, seri_interrupt, Line

(* A reader has no part in it.                                             *)
LEMMA FirstReader ==
  ASSUME FirstInv, TxInv, NEW p \in Readers, ReadEnter(p) \/ seri_read(p)
  PROVE  FirstInv'
<1>1. UNCHANGED <<uart, txVars>>
  BY DEF ReadEnter, seri_read, ReadDown, ReadDownInterrupted, ReadReady,
     ReadWouldBlock, ReadMustWait, ReadWait, ReadWake, ReadGet, hwVars
<1>2. \E to : pc' = [pc EXCEPT ![p] = to]
  BY DEF ReadEnter, seri_read, ReadDown, ReadDownInterrupted, ReadReady,
     ReadWouldBlock, ReadMustWait, ReadWait, ReadWake, ReadGet, Down,
     DownGranted, DownInterrupted, Goto, Sleep, Return
<1>3. \E n : count' = [count EXCEPT ![p] = n]
  <2>1. CASE ReadEnter(p)
    BY <2>1 DEF ReadEnter
  <2>2. CASE seri_read(p)
    <3>1. count' = count
      BY <2>2 DEF seri_read, ReadDown, ReadDownInterrupted, ReadReady,
         ReadWouldBlock, ReadMustWait, ReadWait, ReadWake, ReadGet, callVars
    <3> QED
      BY <3>1 DEF TxInv, CallTyped
  <2> QED
    BY <2>1, <2>2
<1>4. ASSUME NEW q \in Writers
      PROVE  pc'[q] = pc[q] /\ count'[q] = count[q]
  <2>1. q # p /\ q \in Procs
    BY ProcsAssumption DEF Procs
  <2> QED
    BY <1>2, <1>3, <2>1 DEF TxInv, CallTyped
<1> QED
  BY <1>1, <1>4, FirstKept

(* The write: it looks at txflag with two bytes queued, and after it no    *)
(* other begins.                                                           *)
LEMMA FirstWriter ==
  ASSUME OneWrite, FirstInv, TxInv, NEW p \in Writers, WriteEnter(p) \/ seri_write(p)
  PROVE  FirstInv'
<1>0. /\ p \in Procs /\ DOMAIN pc = Procs /\ DOMAIN count = Procs
      /\ accepted \in Nat /\ count[p] \in Nat
      /\ FifoSize \in Nat /\ Greeting \in Nat /\ MaxTx \in Nat
      /\ \A q \in Writers : q = p
  BY SizesAssumption, SwitchesAssumption
     DEF OneWrite, Procs, TxInv, QueueTyped, CallTyped
<1>1. CASE WriteEnter(p)
  <2>1. PICK n \in WriteSizes : /\ accepted + n <= MaxTx
                                /\ count' = [count EXCEPT ![p] = n]
    BY <1>1 DEF WriteEnter
  <2>2. n \in Nat /\ n >= 2 /\ Greeting + 1 + n > MaxTx
    BY SizesAssumption DEF OneWrite
  <2>3. ~ (accepted > Greeting)
    BY <1>0, <2>1, <2>2
  <2>4. Before
    BY <2>3 DEF FirstInv, During, After
  <2>5. /\ UNCHANGED <<uart, txVars>>
        /\ pc'[p] \in {"wr_down", "wr_put"}
    BY <1>0, <1>1 DEF WriteEnter, WriteBegin, Down, Goto, Sleep, hwVars
  <2>6. count'[p] >= 2
    BY <1>0, <2>1, <2>2
  <2> QED
    BY <1>0, <2>4, <2>5, <2>6 DEF FirstInv, Before, IdleFlag, txVars
<1>2. CASE WriteDown(p) \/ WriteDownInterrupted(p)
  <2>1. /\ UNCHANGED <<uart, txVars, count>>
        /\ pc[p] = "wr_down" /\ pc'[p] = "wr_put"
    BY <1>0, <1>2 DEF WriteDown, WriteDownInterrupted, DownGranted,
       DownInterrupted, Awake, Goto, hwVars, callVars
  <2>2. Before
    BY <1>0, <2>1 DEF FirstInv, During, After
  <2> QED
    BY <1>0, <2>1, <2>2 DEF FirstInv, Before, IdleFlag, txVars
<1>3. CASE WritePut(p)
  <2> DEFINE data == Ids(accepted, accepted + count[p])
             n == KfifoRoom(txfifo, data, FifoSize)
  <2>1. /\ UNCHANGED <<uart, txflag, count>>
        /\ txfifo' = KfifoPut(txfifo, data, FifoSize) /\ accepted' = accepted + n
        /\ pc[p] = "wr_put" /\ pc'[p] = "wr_flag"
    BY <1>0, <1>3 DEF WritePut, Runs, Goto, hwVars
  <2>2. Before /\ count[p] >= 2
    BY <1>0, <2>1 DEF FirstInv, Before, During, After
  <2>3. data \in Seq(Data) /\ Len(data) = count[p]
    <3>1. /\ accepted + count[p] \in Nat /\ accepted <= accepted + count[p]
          /\ (accepted + count[p]) - accepted = count[p]
      BY <1>0
    <3> QED
      BY <1>0, <3>1, IdsLemma
  <2>4. /\ txfifo \in Seq(Data) /\ Len(txfifo) \in Nat
        /\ Len(txfifo) <= Greeting /\ Greeting < FifoSize /\ FifoSize >= 2
    BY <2>2, LenProperties DEF Before, OneWrite, TxInv, QueueTyped
  <2> HIDE DEF data
  <2>5. n \in Nat /\ n >= 1 /\ n <= Len(data) /\ Len(txfifo) + n >= 2
    BY <1>0, <2>2, <2>3, <2>4 DEF KfifoRoom, Least
  <2>6. txfifo' = txfifo \o SubSeq(data, 1, n)
    BY <2>1 DEF KfifoPut
  <2> HIDE DEF n
  <2>7. SubSeq(data, 1, n) \in Seq(Data) /\ Len(SubSeq(data, 1, n)) = n
    <3>1. \A j \in 1 .. n : data[j] \in Data
      BY <2>3, <2>5
    <3> QED
      BY <2>3, <2>5, <3>1, SubSeqProperties
  <2>8. Len(txfifo') >= 2 /\ txfifo' \in Seq(Data)
    <3>1. /\ Len(txfifo') = Len(txfifo) + Len(SubSeq(data, 1, n))
          /\ txfifo' \in Seq(Data)
      BY <2>4, <2>6, <2>7, ConcatProperties
    <3> QED
      BY <2>5, <2>7, <3>1
  <2>9. accepted' > Greeting
    BY <1>0, <2>1, <2>2, <2>5 DEF Before
  <2>10. TwoHeld'
    <3>1. txfifo' # <<>> /\ ~ (Len(txfifo') <= 1)
      BY <2>8, EmptySeq, LenProperties
    <3> QED
      BY <3>1 DEF TwoHeld
  <2> QED
    BY <2>1, <2>2, <2>9, <2>10 DEF FirstInv, Before, During, IdleFlag
<1>4. CASE WriteKick(p) \/ WriteQueued(p)
  <2>1. /\ accepted' = accepted /\ pc[p] = "wr_flag" /\ pc'[p] \in {"wr_get", "user"}
    BY <1>0, <1>4 DEF WriteKick, WriteQueued, Runs, Goto, Return, txVars
  <2>2. During
    BY <1>0, <2>1 DEF FirstInv, Before, After
  <2> QED
    BY <1>0, <2>1, <2>2 DEF FirstInv, During, After
<1>5. CASE WriteGet(p) \/ WriteOut(p)
  <2>1. /\ accepted' = accepted /\ pc[p] \in {"wr_get", "wr_out"}
        /\ pc'[p] \in {"wr_out", "user"}
    BY <1>0, <1>5 DEF WriteGet, WriteOut, Runs, Goto, Return, txVars
  <2>2. After
    BY <1>0, <2>1 DEF FirstInv, Before, During
  <2> QED
    BY <1>0, <2>1, <2>2 DEF FirstInv, After
<1> QED
  BY <1>1, <1>2, <1>3, <1>4, <1>5 DEF seri_write

(* Nothing but the greeting is queued, and the flag is 0.                  *)
LEMMA FirstInit == Init => FirstInv
<1> SUFFICES ASSUME Init PROVE FirstInv
  OBVIOUS
<1>1. /\ txflag = 0 /\ accepted = Greeting /\ txfifo = Ids(0, Greeting)
      /\ \A p \in Writers : pc[p] = "user"
  BY DEF Init, Procs
<1>2. Greeting \in Nat /\ Greeting - 0 = Greeting /\ 0 <= Greeting
  BY SizesAssumption
<1>3. Len(Ids(0, Greeting)) = Greeting
  BY <1>2, IdsLemma
<1> QED
  BY <1>1, <1>2, <1>3 DEF FirstInv, Before, IdleFlag

LEMMA FirstStep ==
  ASSUME OneWrite, FirstInv, TxInv, ThreClear, WriterRuns, arrived \in Nat,
         [Next]_vars
  PROVE  FirstInv'
<1>1. CASE UNCHANGED vars
  BY <1>1, FirstKept DEF vars, hwVars, callVars
<1>2. ASSUME NEW p \in Procs, Enter(p) \/ Signal(p)
      PROVE  FirstInv'
  BY <1>2, FirstKept DEF Enter, seri_open, seri_release, Signal, hwVars, callVars
<1> QED
  BY <1>1, <1>2, FirstMachine, FirstReader, FirstWriter DEF Next

(* The one look at txflag that the write takes is true.                    *)
LEMMA FirstStarts ==
  ASSUME OneWrite, FirstInv, TxInv, NEW p \in Writers, WriteKick(p)
  PROVE  Startable
<1>1. pc[p] = "wr_flag" /\ txflag = 1
  BY DEF WriteKick, Runs
<1>2. During
  BY <1>1 DEF FirstInv, Before, After
<1> QED
  BY <1>1, <1>2 DEF During, IdleFlag, TwoHeld, Startable

(* The first write after the greeting, if it has two bytes or more and the *)
(* line sends none of them before it has looked at txflag, leaves the      *)
(* driver in order: nothing is lost, repeated or out of turn, for any size *)
(* of the queue that leaves room for a byte, any processes that read, open,*)
(* release and are interrupted, and both versions of seri_write.           *)
THEOREM OneWriteFaithful ==
  ASSUME OneWrite
  PROVE  Spec => []TxFaithful
<1>1. FirstInv /\ (TxInv /\ OnceInv /\ ThreClear /\ WriterRuns) /\ arrived \in Nat
      /\ [Next]_vars => FirstInv'
  BY FirstStep
<1>2. FirstInv /\ (TxInv /\ OnceInv /\ ThreClear /\ WriterRuns)
        => [\A p \in Writers : WriteKick(p) => Startable]_vars
  BY FirstStarts
<1>3. Spec => [][\A p \in Writers : WriteKick(p) => Startable]_vars
  BY <1>1, <1>2, FirstInit, Undisturbed, ArrivedNat, PTL DEF Spec
<1> QED
  BY <1>3, OrderKeptByIdleStarts, PTL
=============================================================================
