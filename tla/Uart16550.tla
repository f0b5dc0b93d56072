---------------------------- MODULE Uart16550 ----------------------------
(***************************************************************************)
(* The serial port as both drivers program it (serial_reg.h): the UART in  *)
(* its reset mode, without its internal FIFOs, since neither driver writes *)
(* the FCR.  The chip is not code of the repository: these operators say   *)
(* what one access to a register, or one event of the line, does to it.    *)
(*                                                                         *)
(* A byte is a tag that says where it came from, not its 8 bits: a         *)
(* positive number for data (the n-th byte received, or the n-th byte      *)
(* accepted for transmission), a negative one for the low byte of a baud   *)
(* rate divisor.                                                           *)
(***************************************************************************)
EXTENDS Integers

NoByte == 0         \* an empty RBR, THR or shift register

Uart == [ ier  : BOOLEAN,   \* the RLSI, THRI and RDI enables, set together
          dlab : BOOLEAN,   \* LCR.DLAB: offset 0 is the divisor, not RX/TX
          dll  : Int,       \* divisor latch, low byte
          rbr  : Int,       \* receive buffer; NoByte means LSR.DR = 0
          oe   : BOOLEAN,   \* LSR.OE
          thr  : Int,       \* transmit holding register; NoByte = LSR.THRE
          tsr  : Int,       \* transmit shift register
          thri : BOOLEAN ]  \* a THRE interrupt is due

(* The chip once seri_init or serp_init has configured it: THRE is set, so *)
(* enabling its interrupt makes one due at once.                           *)
UartConfigured(enabled, divisor) ==
    [ ier |-> enabled, dlab |-> FALSE, dll |-> divisor, rbr |-> NoByte,
      oe |-> FALSE, thr |-> NoByte, tsr |-> NoByte, thri |-> TRUE ]

(* UART_IIR: the pending source of highest priority.                       *)
IIR(u) == IF ~ u.ier             THEN "NO_INT"
          ELSE IF u.oe           THEN "RLSI"
          ELSE IF u.rbr # NoByte THEN "RDI"
          ELSE IF u.thri         THEN "THRI"
          ELSE                        "NO_INT"

(* The INTR pin: high as long as any source is pending.                    *)
INTR(u) == IIR(u) # "NO_INT"

(* Reading the IIR acknowledges a THRE interrupt, if it is the one shown.  *)
ReadIIR(u) == IF IIR(u) = "THRI" THEN [u EXCEPT !.thri = FALSE] ELSE u

(* Reading the LSR clears its error bits.                                  *)
ReadLSR(u) == [u EXCEPT !.oe = FALSE]

(* Reading offset 0: UART_RX, or UART_DLL while DLAB is set.               *)
ByteAtRX(u) == IF u.dlab THEN u.dll ELSE u.rbr
ReadRX(u)   == IF u.dlab THEN u ELSE [u EXCEPT !.rbr = NoByte]

(* Writing offset 0: UART_TX, or UART_DLL while DLAB is set.  A byte still *)
(* in the THR is overwritten.                                              *)
WriteTX(u, b) == IF u.dlab THEN [u EXCEPT !.dll = b]
                           ELSE [u EXCEPT !.thr = b, !.thri = FALSE]

WriteDLAB(u, on) == [u EXCEPT !.dlab = on]

(* The THR moves to the empty shift register, and THRE is set.             *)
CanLoad(u) == u.thr # NoByte /\ u.tsr = NoByte
Load(u)    == [u EXCEPT !.tsr = u.thr, !.thr = NoByte, !.thri = TRUE]

(* The last bit of the shift register has left on the line.                *)
CanShiftOut(u) == u.tsr # NoByte
ShiftOut(u)    == [u EXCEPT !.tsr = NoByte]

(* A byte has arrived.  One not yet read is overwritten: an overrun.       *)
Receive(u, b) == [u EXCEPT !.rbr = b, !.oe = @ \/ u.rbr # NoByte]
=============================================================================
