---------------------------- MODULE SerpProofs ----------------------------
(***************************************************************************)
(* Proofs about serp.c, for any number of readers and writers, any counts  *)
(* and any line: without a mutex, no byte is read twice and none is        *)
(* overwritten before it has left.                                         *)
(***************************************************************************)
EXTENDS SerpDriver, UartProofs, FiniteSetTheorems, SequenceTheorems, TLAPS

(* The chip, whose line is set up for data throughout.                     *)
ChipTyped == uart \in Uart /\ ~ uart.dlab

(* A process between its look at the LSR and its inb or outb has the CPU,  *)
(* and what it saw is still so: the line does not fill the THR, and it     *)
(* replaces what is in the RBR and does not empty it.                      *)
Looked ==
    /\ DOMAIN pc = Procs
    /\ \A p \in Readers : pc[p] \in {"r_loop", "r_dr", "r_rx"} => cpu = p
    /\ \A p \in Readers : pc[p] = "r_rx" => uart.rbr # NoByte
    /\ \A p \in Writers : pc[p] \in {"w_loop", "w_out"} => cpu = p
    /\ \A p \in Writers : pc[p] = "w_out" => uart.thr = NoByte

SerpInv == ChipTyped /\ Looked

(* Nobody has the CPU.                                                     *)
LEMMA SerpInit == Init => SerpInv
BY SerpAssumption
   DEF Init, SerpInv, ChipTyped, Looked, UartConfigured, Uart, NoByte,
       Divisor1200, Procs

(* The line.                                                               *)
LEMMA SerpLine ==
  ASSUME SerpInv, LineReceive \/ LineLoad \/ LineShiftOut,
         arrived \in Nat
  PROVE  SerpInv'
<1>1. /\ uart \in Uart /\ ~ uart.dlab /\ arrived + 1 \in Int
      /\ arrived + 1 # NoByte
  BY DEF SerpInv, ChipTyped, NoByte
<1>2. /\ \/ uart' = Receive(uart, arrived + 1)
         \/ uart' = Load(uart)
         \/ uart' = ShiftOut(uart)
      /\ UNCHANGED <<pc, cpu>>
  BY DEF LineReceive, LineLoad, LineShiftOut
<1>3. ChipTyped'
  BY <1>1, <1>2, ChipLemma DEF ChipTyped
<1>4. /\ uart'.rbr = uart.rbr \/ uart'.rbr # NoByte
      /\ uart'.thr = uart.thr \/ uart'.thr = NoByte
  BY <1>1, <1>2, DataRegisters
<1> QED
  BY <1>2, <1>3, <1>4 DEF SerpInv, Looked

(* A reader: another has no CPU, and what it saw is its own affair.        *)
LEMMA SerpReader ==
  ASSUME SerpInv, NEW p \in Readers, ReadEnter(p) \/ serp_read(p)
  PROVE  SerpInv'
<1>0. p \in Procs /\ p \notin Writers /\ p # Nobody
  BY SerpAssumption DEF Procs
<1>1. cpu \in {p, Nobody}
  BY DEF ReadEnter, serp_read, ReadOverrun, ReadNoOverrun, ReadData,
     ReadNothing, ReadScheduled, ReadByte, ReadDone, Runs, Awake
<1>2. \/ UNCHANGED uart
      \/ uart' = ReadLSR(uart)
      \/ uart' = ReadRX(uart) /\ pc' = [pc EXCEPT ![p] = "r_loop"]
  BY DEF ReadEnter, serp_read, ReadOverrun, ReadNoOverrun, ReadData, Goto,
     ReadNothing, ReadScheduled, ReadByte, ReadDone, hwVars
<1>3. ChipTyped' /\ uart'.thr = uart.thr
  <2>1. uart \in Uart /\ ~ uart.dlab /\ NoByte \in Int
    BY DEF SerpInv, ChipTyped, NoByte
  <2> QED
    BY <1>2, <2>1, ChipLemma, DataRegisters DEF ChipTyped
<1>4. \/ Goto(p, "r_loop") \/ Goto(p, "r_dr")
      \/ Goto(p, "r_rx") /\ uart'.rbr # NoByte
      \/ Yield(p, "user") \/ Yield(p, "r_sched")
  BY DEF ReadEnter, serp_read, ReadOverrun, ReadNoOverrun, ReadData, Return,
     ReadNothing, ReadScheduled, ReadByte, ReadDone, hwVars, ReadLSR, SerpInv,
     ChipTyped, Uart
<1>5. Looked'
  <2>1. \A q \in Procs \ {p} : cpu # q /\ pc'[q] = pc[q]
    BY <1>1, <1>4, SerpAssumption DEF Goto, Yield, SerpInv, Looked
  <2> QED
    BY <1>0, <1>3, <1>4, <2>1 DEF Goto, Yield, SerpInv, Looked, Procs
<1> QED
  BY <1>3, <1>5 DEF SerpInv

(* A writer, likewise.                                                     *)
LEMMA SerpWriter ==
  ASSUME SerpInv, NEW p \in Writers, WriteEnter(p) \/ serp_write(p), put \in Nat
  PROVE  /\ SerpInv'
         /\ uart'.rbr = uart.rbr
<1>0. p \in Procs /\ p \notin Readers /\ p # Nobody
  BY SerpAssumption DEF Procs
<1>1. cpu \in {p, Nobody}
  BY DEF WriteEnter, serp_write, WriteDone, WCharReady, WCharSleep, WCharWake,
     WCharOut, Runs, Awake
<1>2. \/ UNCHANGED uart
      \/ uart' = ReadLSR(uart)
      \/ uart' = WriteTX(uart, put + 1) /\ pc' = [pc EXCEPT ![p] = "w_loop"]
  BY DEF WriteEnter, serp_write, WriteDone, WCharReady, WCharSleep, WCharWake,
     WCharOut, Goto, hwVars
<1>3. ChipTyped' /\ uart'.rbr = uart.rbr
  <2>1. uart \in Uart /\ ~ uart.dlab /\ put + 1 \in Int
    BY DEF SerpInv, ChipTyped
  <2> QED
    BY <1>2, <2>1, ChipLemma, DataRegisters DEF ChipTyped
<1>4. \/ Goto(p, "w_loop")
      \/ Goto(p, "w_out") /\ uart'.thr = NoByte
      \/ Yield(p, "user") \/ Yield(p, "w_sleep")
  BY DEF WriteEnter, serp_write, WriteDone, WCharReady, WCharSleep, WCharWake,
     WCharOut, Return, hwVars, ReadLSR, SerpInv, ChipTyped, Uart
<1>5. Looked'
  <2>1. \A q \in Procs \ {p} : cpu # q /\ pc'[q] = pc[q]
    BY <1>1, <1>4, SerpAssumption DEF Goto, Yield, SerpInv, Looked
  <2> QED
    BY <1>0, <1>3, <1>4, <2>1 DEF Goto, Yield, SerpInv, Looked, Procs
<1> QED
  BY <1>3, <1>5 DEF SerpInv

-----------------------------------------------------------------------------
(* Transmission.                                                           *)

TxInv ==
    /\ put \in Nat /\ arrived \in Nat /\ sent \in Seq(Int)
    /\ SerpTxFaithful

(* What is in flight is a sequence of at most one byte.                    *)
LEMMA Flights ==
  \A s \in Seq(Int), b \in Int :
      /\ s \o InFlight(b) \in Seq(Int)
      /\ b = NoByte => s \o InFlight(b) = s
      /\ b # NoByte => s \o InFlight(b) = Append(s, b)
<1> SUFFICES ASSUME NEW s \in Seq(Int), NEW b \in Int
             PROVE  /\ s \o InFlight(b) \in Seq(Int)
                    /\ b = NoByte => s \o InFlight(b) = s
                    /\ b # NoByte => s \o InFlight(b) = Append(s, b)
  OBVIOUS
<1>1. CASE b = NoByte
  BY <1>1, ConcatEmptySeq DEF InFlight
<1>2. CASE b # NoByte
  BY <1>2, AppendIsConcat, AppendProperties DEF InFlight
<1> QED
  BY <1>1, <1>2

(* A step that puts nothing and moves nothing on the line.                 *)
LEMMA TxKept ==
  ASSUME TxInv, UNCHANGED <<sent, put>>, arrived' \in Nat,
         uart'.thr = uart.thr, uart'.tsr = uart.tsr
  PROVE  TxInv'
BY DEF TxInv, SerpTxFaithful

(* The line moves a byte on and keeps the order.                           *)
LEMMA TxLine ==
  ASSUME TxInv, SerpInv, LineLoad \/ LineShiftOut
  PROVE  TxInv'
<1>0. /\ uart \in Uart /\ sent \in Seq(Int) /\ uart.thr \in Int /\ uart.tsr \in Int
      /\ UNCHANGED <<arrived, put>> /\ NoByte \in Int
  BY DEF SerpInv, ChipTyped, TxInv, LineLoad, LineShiftOut, Uart, NoByte
<1>1. CASE LineLoad
  <2>1. /\ uart.tsr = NoByte /\ uart'.tsr = uart.thr /\ uart'.thr = NoByte
        /\ sent' = sent
    BY <1>0, <1>1 DEF LineLoad, CanLoad, Load, Uart
  <2>2. (sent \o InFlight(uart.tsr)) \o InFlight(uart.thr)
           = sent \o InFlight(uart.thr)
    BY <1>0, <2>1, Flights
  <2>3. /\ sent \o InFlight(uart.thr) \in Seq(Int)
        /\ (sent \o InFlight(uart.thr)) \o InFlight(NoByte)
              = sent \o InFlight(uart.thr)
    <3> DEFINE s == sent \o InFlight(uart.thr)
    <3>1. s \in Seq(Int)
      BY <1>0, Flights
    <3>2. s \o InFlight(NoByte) = s
      <4> HIDE DEF s
      <4> QED
        BY <1>0, <3>1, Flights
    <3> QED
      BY <3>1, <3>2
  <2> QED
    BY <1>0, <2>1, <2>2, <2>3 DEF TxInv, SerpTxFaithful
<1>2. CASE LineShiftOut
  <2>1. /\ uart.tsr # NoByte /\ uart'.tsr = NoByte /\ uart'.thr = uart.thr
        /\ sent' = Append(sent, uart.tsr)
    BY <1>0, <1>2 DEF LineShiftOut, CanShiftOut, ShiftOut, Uart
  <2>2. sent' = sent \o InFlight(uart.tsr) /\ sent' \in Seq(Int)
    BY <1>0, <2>1, Flights
  <2>3. sent' \o InFlight(NoByte) = sent'
    BY <1>0, <2>2, Flights
  <2> QED
    BY <1>0, <2>1, <2>2, <2>3 DEF TxInv, SerpTxFaithful
<1> QED
  BY <1>1, <1>2

(* outb finds the THR empty and puts the next byte behind all others.      *)
LEMMA TxOut ==
  ASSUME TxInv, SerpInv, NEW p \in Writers, WCharOut(p)
  PROVE  TxInv'
<1> DEFINE s == sent \o InFlight(uart.tsr)
<1>1. /\ uart \in Uart /\ ~ uart.dlab /\ uart.thr = NoByte /\ put \in Nat
      /\ UNCHANGED <<arrived, sent>> /\ put' = put + 1
      /\ uart'.thr = put + 1 /\ uart'.tsr = uart.tsr
  BY DEF SerpInv, ChipTyped, Looked, TxInv, WCharOut, Runs, WriteTX, Uart
<1>2. /\ sent \in Seq(Int) /\ uart.tsr \in Int
      /\ put + 1 \in Int /\ put + 1 # NoByte
  BY <1>1 DEF TxInv, Uart, NoByte
<1>3. s \in Seq(Int)
  BY <1>2, Flights
<1>7. s \o InFlight(uart.thr) = s
  <2> HIDE DEF s
  <2>1. uart.thr \in Int
    BY <1>1 DEF NoByte
  <2> QED
    BY <1>1, <1>3, <2>1, Flights
<1>4. s = [i \in 1 .. put |-> i]
  BY <1>7 DEF TxInv, SerpTxFaithful
<1>5. Append(s, put + 1) = [i \in 1 .. put + 1 |-> i]
  <2>1. Len(s) = put /\ \A i \in 1 .. put : s[i] = i
    BY <1>1, <1>3, <1>4
  <2> HIDE DEF s
  <2>2. /\ Append(s, put + 1) \in Seq(Int)
        /\ Len(Append(s, put + 1)) = put + 1
        /\ \A i \in 1 .. put : Append(s, put + 1)[i] = i
        /\ Append(s, put + 1)[put + 1] = put + 1
    BY <1>1, <1>2, <1>3, <2>1, AppendProperties
  <2> DEFINE t == [i \in 1 .. put + 1 |-> i]
  <2>3. t \in Seq(Int) /\ Len(t) = put + 1 /\ \A i \in 1 .. put + 1 : t[i] = i
    BY <1>1
  <2>4. \A i \in 1 .. put + 1 : Append(s, put + 1)[i] = t[i]
    BY <1>1, <2>2, <2>3
  <2> QED
    BY <2>2, <2>3, <2>4, SeqEqual
<1>6. s \o InFlight(put + 1) = Append(s, put + 1)
  <2> HIDE DEF s
  <2> QED
    BY <1>2, <1>3, Flights
<1>8. (sent' \o InFlight(uart'.tsr)) \o InFlight(uart'.thr)
         = [i \in 1 .. put' |-> i]
  BY <1>1, <1>5, <1>6
<1>9. SerpTxFaithful'
  BY <1>8 DEF SerpTxFaithful
<1> QED
  BY <1>1, <1>9 DEF TxInv

(* Both invariants are kept, by every step.                                *)
LEMMA SerpStep ==
  ASSUME SerpInv, TxInv, [Next]_vars
  PROVE  SerpInv' /\ TxInv'
<1>1. CASE UNCHANGED vars
  BY <1>1 DEF vars, hwVars, SerpInv, ChipTyped, Looked, TxInv, SerpTxFaithful
<1>2. CASE LineReceive
  <2>1. SerpInv' /\ UNCHANGED <<sent, put>> /\ arrived' \in Nat
        /\ uart'.thr = uart.thr /\ uart'.tsr = uart.tsr
    BY <1>2, SerpLine DEF LineReceive, Receive, SerpInv, ChipTyped, Uart, TxInv
  <2> QED
    BY <2>1, TxKept
<1>3. CASE LineLoad \/ LineShiftOut
  BY <1>3, SerpLine, TxLine DEF TxInv
<1>4. ASSUME NEW p \in Readers, ReadEnter(p) \/ serp_read(p)
      PROVE  SerpInv' /\ TxInv'
  <2>1. /\ UNCHANGED <<sent, put, arrived>>
        /\ uart'.thr = uart.thr /\ uart'.tsr = uart.tsr
    BY <1>4 DEF ReadEnter, serp_read, ReadOverrun, ReadNoOverrun, ReadData,
       ReadNothing, ReadScheduled, ReadByte, ReadDone, hwVars, ReadLSR, ReadRX,
       SerpInv, ChipTyped, Uart
  <2>2. TxInv'
    BY <2>1, TxKept DEF TxInv
  <2> QED
    BY <1>4, <2>2, SerpReader
<1>5. ASSUME NEW p \in Writers, WriteEnter(p) \/ serp_write(p)
      PROVE  SerpInv' /\ TxInv'
  <2>1. CASE WCharOut(p)
    BY <1>5, <2>1, TxOut, SerpWriter DEF TxInv
  <2>2. CASE ~ WCharOut(p)
    <3>1. /\ UNCHANGED <<sent, put, arrived>>
          /\ uart'.thr = uart.thr /\ uart'.tsr = uart.tsr
      BY <1>5, <2>2 DEF WriteEnter, serp_write, WriteDone, WCharReady,
         WCharSleep, WCharWake, hwVars, ReadLSR, SerpInv, ChipTyped, Uart
    <3>2. TxInv'
      BY <3>1, TxKept DEF TxInv
    <3> QED
      BY <1>5, <3>2, SerpWriter DEF TxInv
  <2> QED
    BY <2>1, <2>2
<1> QED
  BY <1>1, <1>2, <1>3, <1>4, <1>5 DEF Next

(* Nothing has been put.                                                   *)
LEMMA TxInit == Init => TxInv
<1> SUFFICES ASSUME Init PROVE TxInv
  OBVIOUS
<1>1. /\ sent = <<>> /\ put = 0 /\ arrived = 0
      /\ uart.thr = NoByte /\ uart.tsr = NoByte
  BY DEF Init, UartConfigured
<1>2. (sent \o InFlight(uart.tsr)) \o InFlight(uart.thr) = <<>>
  <2>1. <<>> \in Seq(Int) /\ NoByte \in Int
    BY DEF NoByte
  <2>2. <<>> \o InFlight(NoByte) = <<>>
    BY <2>1, Flights
  <2> QED
    BY <1>1, <2>2
<1>3. [i \in 1 .. 0 |-> i] = <<>>
  OBVIOUS
<1> QED
  BY <1>1, <1>2, <1>3 DEF TxInv, SerpTxFaithful

(* What writers of serp.c put in the THR leaves on the line once and in    *)
(* order, for any number of them and no mutex: none is preempted between   *)
(* its look at THRE and its outb, and the line does not fill the THR.      *)
THEOREM SerpTransmits == Spec => []SerpTxFaithful
<1>1. SerpInv /\ TxInv /\ [Next]_vars => SerpInv' /\ TxInv'
  BY SerpStep
<1>2. TxInv => SerpTxFaithful
  BY DEF TxInv
<1> QED
  BY <1>1, <1>2, SerpInit, TxInit, PTL DEF Spec

-----------------------------------------------------------------------------
(* Reception.                                                              *)

(* What a reader has is old and no longer in the chip.                     *)
RxInv ==
    /\ DOMAIN buffer = Procs
    /\ uart.rbr <= arrived
    /\ \A p \in Readers :
          /\ buffer[p] \in Seq(Int) /\ IsFiniteSet(Got(p))
          /\ \A b \in Got(p) : b \in Int /\ b <= arrived /\ b # uart.rbr
    /\ SerpReadOnce

(* The bytes of a sequence of one more.                                    *)
LEMMA GotAppend ==
  ASSUME NEW s \in Seq(Int), NEW b \in Int
  PROVE  {Append(s, b)[i] : i \in 1 .. Len(Append(s, b))}
             = {s[i] : i \in 1 .. Len(s)} \cup {b}
<1>1. /\ Len(s) \in Nat /\ Len(Append(s, b)) = Len(s) + 1
      /\ \A i \in 1 .. Len(s) : Append(s, b)[i] = s[i]
      /\ Append(s, b)[Len(s) + 1] = b
  BY AppendProperties, LenProperties
<1>2. 1 .. Len(s) + 1 = (1 .. Len(s)) \cup {Len(s) + 1}
  BY <1>1
<1> QED
  BY <1>1, <1>2

(* A step that reads no byte, and brings at most one that is new.          *)
LEMMA RxKept ==
  ASSUME RxInv, UNCHANGED buffer, arrived \in Nat, arrived' \in Nat,
         \/ arrived' = arrived /\ uart'.rbr = uart.rbr
         \/ arrived' = arrived + 1 /\ uart'.rbr = arrived + 1
  PROVE  RxInv'
<1>1. \A p \in Readers : Got(p)' = Got(p) /\ buffer'[p] = buffer[p]
  BY DEF Got
<1>2. SerpReadOnce'
  BY <1>1 DEF RxInv, SerpReadOnce
<1>3. \A p \in Readers : \A b \in Got(p) : b <= arrived' /\ b # uart'.rbr
  BY DEF RxInv
<1>4. uart'.rbr <= arrived' /\ DOMAIN buffer' = Procs
  BY DEF RxInv
<1> QED
  BY <1>1, <1>2, <1>3, <1>4 DEF RxInv

(* A read begins with an empty buffer.                                     *)
LEMMA RxEnter ==
  ASSUME RxInv, NEW p \in Readers, ReadEnter(p)
  PROVE  RxInv'
<1>1. /\ buffer' = [buffer EXCEPT ![p] = <<>>] /\ UNCHANGED <<uart, arrived>>
      /\ p \in Procs
  BY DEF ReadEnter, hwVars, Procs
<1>2. Got(p)' = {} /\ Len(buffer'[p]) = 0 /\ buffer'[p] \in Seq(Int)
  BY <1>1 DEF RxInv, Got
<1>3. \A q \in Readers \ {p} : buffer'[q] = buffer[q] /\ Got(q)' = Got(q)
  BY <1>1 DEF RxInv, Got
<1>4. IsFiniteSet(Got(p)') /\ Cardinality(Got(p)') = 0
  BY <1>2, FS_EmptySet
<1>5. SerpReadOnce'
  BY <1>2, <1>3, <1>4 DEF RxInv, SerpReadOnce
<1> QED
  BY <1>1, <1>2, <1>3, <1>4, <1>5 DEF RxInv

(* inb takes the byte of the RBR, which nobody has, and empties it.        *)
LEMMA RxByte ==
  ASSUME RxInv, SerpInv, arrived \in Nat, NEW p \in Readers, ReadByte(p)
  PROVE  RxInv'
<1> DEFINE b == uart.rbr
<1>1. b \in Int /\ b # NoByte /\ p \in Procs /\ uart \in Uart /\ ~ uart.dlab
  BY DEF SerpInv, ChipTyped, Looked, ReadByte, Runs, Uart, Procs
<1>2. /\ buffer' = [buffer EXCEPT ![p] = Append(@, b)]
      /\ arrived' = arrived /\ uart'.rbr = NoByte
  BY <1>1, DataRegisters DEF ReadByte
<1>3. buffer[p] \in Seq(Int) /\ IsFiniteSet(Got(p)) /\ b \notin Got(p)
  BY DEF RxInv
<1>4. /\ buffer'[p] = Append(buffer[p], b) /\ buffer'[p] \in Seq(Int)
      /\ Len(buffer'[p]) = Len(buffer[p]) + 1
  BY <1>1, <1>2, <1>3, AppendProperties DEF RxInv
<1>5. Got(p)' = Got(p) \cup {b}
  BY <1>1, <1>3, <1>4, GotAppend DEF Got
<1>6. /\ IsFiniteSet(Got(p)')
      /\ Cardinality(Got(p)') = Cardinality(Got(p)) + 1
  BY <1>3, <1>5, FS_AddElement
<1>7. \A q \in Readers \ {p} : buffer'[q] = buffer[q] /\ Got(q)' = Got(q)
  BY <1>2 DEF RxInv, Got
<1>8. \A q \in Readers : b \notin Got(q) /\ NoByte \notin Got(q)
  BY DEF RxInv, SerpReadOnce
<1>9. SerpReadOnce'
  <2>1. Cardinality(Got(p)') = Len(buffer'[p])
    BY <1>4, <1>6 DEF RxInv, SerpReadOnce
  <2>2. \A q, r \in Readers : q # r => Got(q)' \cap Got(r)' = {}
    BY <1>5, <1>7, <1>8 DEF RxInv, SerpReadOnce
  <2>3. \A q \in Readers : NoByte \notin Got(q)'
    BY <1>1, <1>5, <1>7, <1>8
  <2> QED
    BY <1>7, <2>1, <2>2, <2>3 DEF RxInv, SerpReadOnce
<1>10. \A q \in Readers : \A c \in Got(q)' :
          c \in Int /\ c <= arrived' /\ c # uart'.rbr
  BY <1>1, <1>2, <1>5, <1>7, <1>8 DEF RxInv
<1>11. uart'.rbr <= arrived'
  BY <1>2 DEF NoByte
<1>12. \A q \in Readers : buffer'[q] \in Seq(Int) /\ IsFiniteSet(Got(q)')
  BY <1>4, <1>6, <1>7 DEF RxInv
<1>13. DOMAIN buffer' = Procs
  BY <1>2 DEF RxInv
<1> QED
  BY <1>9, <1>10, <1>11, <1>12, <1>13 DEF RxInv

(* Readers of serp.c share the chip without a mutex, and yet no byte is    *)
(* read twice, by one call or by two, and none where there is none.        *)
THEOREM SerpReceives == Spec => []SerpReadOnce
<1>1. Init => RxInv
  <2> SUFFICES ASSUME Init PROVE RxInv
    OBVIOUS
  <2>1. /\ uart.rbr = NoByte /\ arrived = 0 /\ DOMAIN buffer = Procs
        /\ \A p \in Readers : buffer[p] = <<>> /\ Got(p) = {}
    BY DEF Init, UartConfigured, Got, Procs
  <2>2. \A p \in Readers : /\ buffer[p] \in Seq(Int) /\ Len(buffer[p]) = 0
                            /\ IsFiniteSet(Got(p)) /\ Cardinality(Got(p)) = 0
    <3>1. <<>> \in Seq(Int) /\ Len(<<>>) = 0
      OBVIOUS
    <3>2. IsFiniteSet({}) /\ Cardinality({}) = 0
      BY FS_EmptySet
    <3> QED
      BY <2>1, <3>1, <3>2
  <2>3. SerpReadOnce
    BY <2>1, <2>2 DEF SerpReadOnce
  <2>4. DOMAIN buffer = Procs /\ uart.rbr <= arrived
    BY <2>1 DEF NoByte
  <2>5. \A p \in Readers : \A b \in Got(p) : FALSE
    BY <2>1
  <2> QED
    BY <2>2, <2>3, <2>4, <2>5 DEF RxInv
<1>2. RxInv /\ SerpInv /\ TxInv /\ [Next]_vars => RxInv'
  <2> SUFFICES ASSUME RxInv, SerpInv, TxInv, [Next]_vars PROVE RxInv'
    OBVIOUS
  <2>0. uart \in Uart /\ ~ uart.dlab /\ arrived \in Nat /\ put + 1 \in Int
    BY DEF SerpInv, ChipTyped, TxInv
  <2>1. CASE UNCHANGED vars
    BY <2>0, <2>1, RxKept DEF vars, hwVars, callVars
  <2>2. CASE LineReceive
    <3>1. /\ UNCHANGED buffer /\ arrived' = arrived + 1
          /\ uart'.rbr = arrived + 1 /\ arrived + 1 \in Int
      BY <2>0, <2>2, DataRegisters DEF LineReceive, callVars
    <3> QED
      BY <2>0, <3>1, RxKept
  <2>3. CASE LineLoad \/ LineShiftOut
    <3>1. UNCHANGED <<buffer, arrived>> /\ uart'.rbr = uart.rbr
      BY <2>0, <2>3, DataRegisters DEF LineLoad, LineShiftOut, callVars
    <3> QED
      BY <2>0, <3>1, RxKept
  <2>4. ASSUME NEW p \in Readers, serp_read(p), ~ ReadByte(p)
        PROVE  RxInv'
    <3>1. /\ UNCHANGED <<buffer, arrived>>
          /\ uart' = uart \/ uart' = ReadLSR(uart)
      BY <2>4 DEF serp_read, ReadOverrun, ReadNoOverrun, ReadData,
         ReadNothing, ReadScheduled, ReadDone, hwVars, callVars
    <3>2. uart'.rbr = uart.rbr
      BY <2>0, <3>1, DataRegisters
    <3> QED
      BY <2>0, <3>1, <3>2, RxKept
  <2>5. ASSUME NEW p \in Writers, WriteEnter(p) \/ serp_write(p)
        PROVE  RxInv'
    <3>1. UNCHANGED <<buffer, arrived>>
      BY <2>5 DEF WriteEnter, serp_write, WriteDone, WCharReady, WCharSleep,
         WCharWake, WCharOut, hwVars, callVars
    <3>2. uart'.rbr = uart.rbr
      BY <2>5, SerpWriter DEF TxInv
    <3> QED
      BY <2>0, <3>1, <3>2, RxKept
  <2> QED
    BY <2>0, <2>1, <2>2, <2>3, <2>4, <2>5, RxEnter, RxByte DEF Next
<1>3. SerpInv /\ TxInv /\ [Next]_vars => SerpInv' /\ TxInv'
  BY SerpStep
<1>4. RxInv => SerpReadOnce
  BY DEF RxInv
<1> QED
  BY <1>1, <1>2, <1>3, <1>4, SerpInit, TxInit, PTL DEF Spec

-----------------------------------------------------------------------------
(* The error of serp_read.                                                 *)

(* The readers that were told of an overrun.                               *)
Told == {p \in Readers : ret[p] = "eio"}

(* Each byte lost is told of at most once: what OE has still to tell is    *)
(* lost already, and not counted among what was told.                      *)
LossInv ==
    /\ DOMAIN ret = Procs
    /\ lost \in Nat
    /\ IsFiniteSet(Told)
    /\ Cardinality(Told) <= lost
    /\ uart.oe => Cardinality(Told) + 1 <= lost

(* A step that lets OE be, or clears it, and tells nobody.                 *)
LEMMA LossUntold ==
  ASSUME LossInv, DOMAIN ret' = Procs, Told' \subseteq Told, lost' = lost,
         uart'.oe => uart.oe
  PROVE  LossInv'
<1>1. IsFiniteSet(Told) /\ lost \in Nat
  BY DEF LossInv
<1>2. /\ IsFiniteSet(Told') /\ Cardinality(Told') <= Cardinality(Told)
      /\ Cardinality(Told) \in Nat /\ Cardinality(Told') \in Nat
  BY <1>1, FS_Subset, FS_CardinalityType
<1> QED
  BY <1>1, <1>2 DEF LossInv

(* A call that returns something else than EIO.                            *)
LEMMA UntoldReturn ==
  ASSUME LossInv, NEW p \in Procs, NEW r, r # "eio",
         ret' = [ret EXCEPT ![p] = r]
  PROVE  DOMAIN ret' = Procs /\ Told' \subseteq Told
<1>1. \A q \in Readers : ret'[q] = "eio" => ret[q] = "eio"
  BY DEF LossInv, Procs
<1> QED
  BY <1>1 DEF LossInv, Told

(* Only the line sets OE, and only when it overwrites a byte.              *)
LEMMA LossLine ==
  ASSUME LossInv, uart \in Uart, arrived \in Nat, LineReceive
  PROVE  LossInv'
<1>1. /\ UNCHANGED ret /\ lost \in Nat /\ arrived + 1 \in Int
      /\ uart'.oe => uart.oe \/ uart.rbr # NoByte
      /\ lost' = IF uart.rbr # NoByte THEN lost + 1 ELSE lost
  BY DEF LineReceive, callVars, Receive, Uart, LossInv
<1>2. /\ Told' = Told /\ DOMAIN ret' = Procs /\ IsFiniteSet(Told')
      /\ Cardinality(Told') = Cardinality(Told) /\ Cardinality(Told) \in Nat
  BY <1>1, FS_CardinalityType DEF Told, LossInv, Procs
<1>3. CASE uart.rbr # NoByte
  BY <1>1, <1>2, <1>3 DEF LossInv
<1>4. CASE uart.rbr = NoByte
  BY <1>1, <1>2, <1>4 DEF LossInv
<1> QED
  BY <1>3, <1>4

(* The read that returns EIO clears what it tells of.                      *)
LEMMA LossTold ==
  ASSUME LossInv, uart \in Uart, NEW p \in Readers, ReadOverrun(p)
  PROVE  LossInv'
<1>1. /\ p \in Procs /\ uart.oe /\ ~ uart'.oe /\ lost' = lost
      /\ ret' = [ret EXCEPT ![p] = "eio"]
  BY DEF ReadOverrun, Return, Yield, ReadLSR, Uart, Procs
<1>2. Told' = Told \cup {p} /\ DOMAIN ret' = Procs
  BY <1>1 DEF Told, LossInv, Procs
<1>3. IsFiniteSet(Told) /\ Cardinality(Told) \in Nat
  BY FS_CardinalityType DEF LossInv
<1>4. /\ IsFiniteSet(Told')
      /\ Cardinality(Told') = Cardinality(Told)
         \/ Cardinality(Told') = Cardinality(Told) + 1
  BY <1>2, <1>3, FS_AddElement
<1> QED
  BY <1>1, <1>2, <1>3, <1>4 DEF LossInv

(* Every step keeps it.                                                    *)
LEMMA LossStep ==
  ASSUME LossInv, SerpInv, arrived \in Nat, put \in Nat, [Next]_vars
  PROVE  LossInv'
<1>0. uart \in Uart
  BY DEF SerpInv, ChipTyped
<1>1. CASE UNCHANGED vars
  BY <1>1, LossUntold DEF vars, hwVars, callVars, Told, LossInv
<1>2. CASE LineReceive
  BY <1>0, <1>2, LossLine
<1>3. CASE LineLoad \/ LineShiftOut
  <2>1. UNCHANGED <<ret, lost>> /\ uart'.oe = uart.oe
    BY <1>0, <1>3 DEF LineLoad, LineShiftOut, Load, ShiftOut, callVars, Uart
  <2> QED
    BY <2>1, LossUntold DEF Told, LossInv
<1>4. ASSUME NEW p \in Readers, ReadEnter(p) \/ serp_read(p), ~ ReadOverrun(p)
      PROVE  LossInv'
  <2>1. lost' = lost /\ (uart'.oe => uart.oe)
    BY <1>0, <1>4 DEF ReadEnter, serp_read, ReadNoOverrun, ReadData,
       ReadNothing, ReadScheduled, ReadByte, ReadDone, hwVars, ReadLSR, ReadRX,
       Uart
  <2>2. UNCHANGED ret \/ \E r \in {"ok", "fail"} : ret' = [ret EXCEPT ![p] = r]
    BY <1>4 DEF ReadEnter, serp_read, ReadNoOverrun, ReadData, ReadNothing,
       ReadScheduled, ReadByte, ReadDone, Return, callVars
  <2>3. p \in Procs
    BY DEF Procs
  <2>4. DOMAIN ret' = Procs /\ Told' \subseteq Told
    BY <2>2, <2>3, UntoldReturn DEF Told, LossInv
  <2> QED
    BY <2>1, <2>4, LossUntold
<1>5. ASSUME NEW p \in Writers, WriteEnter(p) \/ serp_write(p)
      PROVE  LossInv'
  <2>1. lost' = lost /\ (uart'.oe => uart.oe)
    BY <1>0, <1>5 DEF WriteEnter, serp_write, WriteDone, WCharReady,
       WCharSleep, WCharWake, WCharOut, hwVars, ReadLSR, WriteTX, Uart
  <2>2. UNCHANGED ret \/ ret' = [ret EXCEPT ![p] = "ok"]
    BY <1>5 DEF WriteEnter, serp_write, WriteDone, WCharReady, WCharSleep,
       WCharWake, WCharOut, Return, callVars
  <2>3. p \in Procs
    BY DEF Procs
  <2>4. DOMAIN ret' = Procs /\ Told' \subseteq Told
    BY <2>2, <2>3, UntoldReturn DEF Told, LossInv
  <2> QED
    BY <2>1, <2>4, LossUntold
<1>6. ASSUME NEW p \in Readers, ReadOverrun(p)
      PROVE  LossInv'
  BY <1>0, <1>6, LossTold
<1> QED
  BY <1>1, <1>2, <1>3, <1>4, <1>5, <1>6 DEF Next

(* serp_read returns EIO only for a byte that was overwritten, and no two  *)
(* of the readers' last calls report the same one, for any number of       *)
(* readers: the status that tells of it is cleared in the same inb.        *)
THEOREM SerpReportsLosses == Spec => []SerpEioMeansLoss
<1>1. Init => LossInv
  <2> SUFFICES ASSUME Init PROVE LossInv
    OBVIOUS
  <2>1. DOMAIN ret = Procs /\ lost = 0 /\ Told = {} /\ ~ uart.oe
    BY DEF Init, Told, UartConfigured, Procs
  <2> QED
    BY <2>1, FS_EmptySet DEF LossInv
<1>2. LossInv /\ SerpInv /\ TxInv /\ [Next]_vars => LossInv'
  BY LossStep DEF TxInv
<1>3. SerpInv /\ TxInv /\ [Next]_vars => SerpInv' /\ TxInv'
  BY SerpStep
<1>4. LossInv => SerpEioMeansLoss
  BY DEF LossInv, SerpEioMeansLoss, Told
<1> QED
  BY <1>1, <1>2, <1>3, <1>4, SerpInit, TxInit, PTL DEF Spec
=============================================================================
