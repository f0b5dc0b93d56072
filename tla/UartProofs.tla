---------------------------- MODULE UartProofs ----------------------------
(***************************************************************************)
(* Lemmas about the chip, for the proofs about both drivers.               *)
(***************************************************************************)
EXTENDS Uart16550, TLAPS

(* A register of the chip written with a value of its type: still a chip,  *)
(* and DLAB as it was.                                                     *)
LEMMA RegisterLemma ==
  ASSUME NEW u \in Uart, NEW x \in Int, NEW on \in BOOLEAN
  PROVE  \A v \in {[u EXCEPT !.dll = x], [u EXCEPT !.rbr = x],
                   [u EXCEPT !.thr = x], [u EXCEPT !.tsr = x],
                   [u EXCEPT !.oe = on], [u EXCEPT !.thri = on]} :
            v \in Uart /\ v.dlab = u.dlab
<1>1. [u EXCEPT !.dll = x] \in Uart /\ [u EXCEPT !.dll = x].dlab = u.dlab
  BY DEF Uart
<1>2. [u EXCEPT !.rbr = x] \in Uart /\ [u EXCEPT !.rbr = x].dlab = u.dlab
  BY DEF Uart
<1>3. [u EXCEPT !.thr = x] \in Uart /\ [u EXCEPT !.thr = x].dlab = u.dlab
  BY DEF Uart
<1>4. [u EXCEPT !.tsr = x] \in Uart /\ [u EXCEPT !.tsr = x].dlab = u.dlab
  BY DEF Uart
<1>5. [u EXCEPT !.oe = on] \in Uart /\ [u EXCEPT !.oe = on].dlab = u.dlab
  BY DEF Uart
<1>6. [u EXCEPT !.thri = on] \in Uart /\ [u EXCEPT !.thri = on].dlab = u.dlab
  BY DEF Uart
<1> QED
  BY <1>1, <1>2, <1>3, <1>4, <1>5, <1>6

(* What the chip does to itself, and what the driver does to it.           *)
LEMMA ChipLemma ==
  ASSUME NEW u \in Uart, NEW b \in Int
  PROVE  \A v \in {ReadIIR(u), ReadLSR(u), ReadRX(u), WriteTX(u, b), Load(u),
                   ShiftOut(u), Receive(u, b)} :
            v \in Uart /\ v.dlab = u.dlab
<1>0. NoByte \in Int
  BY DEF NoByte
<1>1. ReadIIR(u) \in Uart /\ ReadIIR(u).dlab = u.dlab
  BY RegisterLemma DEF ReadIIR
<1>2. ReadLSR(u) \in Uart /\ ReadLSR(u).dlab = u.dlab
  BY RegisterLemma DEF ReadLSR
<1>3. ReadRX(u) \in Uart /\ ReadRX(u).dlab = u.dlab
  BY <1>0, RegisterLemma DEF ReadRX
<1>4. WriteTX(u, b) \in Uart /\ WriteTX(u, b).dlab = u.dlab
  BY RegisterLemma DEF WriteTX
<1>5. Load(u) \in Uart /\ Load(u).dlab = u.dlab
  <2> DEFINE v == [u EXCEPT !.tsr = u.thr]
             w == [v EXCEPT !.thr = NoByte]
  <2>1. u.thr \in Int
    BY DEF Uart
  <2>2. v \in Uart /\ v.dlab = u.dlab
    BY <2>1, RegisterLemma
  <2>3. Load(u) = [w EXCEPT !.thri = TRUE]
    BY DEF Load
  <2> HIDE DEF v
  <2>4. w \in Uart /\ w.dlab = u.dlab
    BY <1>0, <2>2, RegisterLemma
  <2> HIDE DEF w
  <2> QED
    BY <2>3, <2>4, RegisterLemma
<1>6. ShiftOut(u) \in Uart /\ ShiftOut(u).dlab = u.dlab
  BY <1>0, RegisterLemma DEF ShiftOut
<1>7. Receive(u, b) \in Uart /\ Receive(u, b).dlab = u.dlab
  <2> DEFINE o == u.oe \/ u.rbr # NoByte
             v == [u EXCEPT !.rbr = b]
  <2>1. o = TRUE \/ o = FALSE
    OBVIOUS
  <2>2. Receive(u, b) = [v EXCEPT !.oe = o]
    BY DEF Receive, Uart
  <2>3. v \in Uart /\ v.dlab = u.dlab
    BY RegisterLemma
  <2> HIDE DEF o, v
  <2>4. CASE o = TRUE
    <3>1. Receive(u, b) = [v EXCEPT !.oe = TRUE]
      BY <2>2, <2>4
    <3> QED
      BY <2>3, <3>1, RegisterLemma
  <2>5. CASE o = FALSE
    <3>1. Receive(u, b) = [v EXCEPT !.oe = FALSE]
      BY <2>2, <2>5
    <3> QED
      BY <2>3, <3>1, RegisterLemma
  <2> QED
    BY <2>1, <2>4, <2>5
<1> QED
  BY <1>1, <1>2, <1>3, <1>4, <1>5, <1>6, <1>7

(* The registers that data pass through, while DLAB is clear: who fills    *)
(* and who empties each.                                                   *)
LEMMA DataRegisters ==
  ASSUME NEW u \in Uart, NEW b \in Int, ~ u.dlab
  PROVE  /\ \A v \in {ReadLSR(u), ReadRX(u), Receive(u, b)} :
               v.thr = u.thr /\ v.tsr = u.tsr
         /\ \A v \in {ReadLSR(u), WriteTX(u, b), Load(u), ShiftOut(u)} :
               v.rbr = u.rbr
         /\ ReadRX(u).rbr = NoByte /\ Receive(u, b).rbr = b
         /\ WriteTX(u, b).thr = b /\ WriteTX(u, b).tsr = u.tsr
         /\ Load(u).thr = NoByte /\ Load(u).tsr = u.thr
         /\ ShiftOut(u).thr = u.thr /\ ShiftOut(u).tsr = NoByte
         /\ ByteAtRX(u) = u.rbr
BY DEF Uart, ReadLSR, ReadRX, Receive, WriteTX, Load, ShiftOut, ByteAtRX
=============================================================================
