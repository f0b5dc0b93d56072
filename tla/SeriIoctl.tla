----------------------------- MODULE SeriIoctl -----------------------------
(***************************************************************************)
(* SeriDriver with processes that read and set the line's configuration    *)
(* through ioctl, GET_SERI and SET_SERI, on the same open file.  Between   *)
(* setting and clearing DLAB the registers at offsets 0 and 1 are those of *)
(* the divisor, and the interrupt handler may run at any point of that     *)
(* window.  Of the configuration only the low byte of the divisor is kept: *)
(* it shares offset 0 with RX and TX; the handler touches neither the LCR  *)
(* nor offset 1.                                                           *)
(***************************************************************************)
EXTENDS SeriDriver

CONSTANTS
    Divisors,     \* low bytes that SET_SERI is called with
    MaxIoctls     \* bound: calls of ioctl

(* Tags of divisors differ from those of data.                             *)
ASSUME IoctlAssumption ==
    /\ Divisors \subseteq {d \in Int : d < 0} \ {Garbage}
    /\ MaxIoctls \in Nat

Configurers == Others

VARIABLES
    ioctls,    \* history: calls made
    arg,       \* the divisor a SET_SERI is given
    divisor,   \* history: the divisor last programmed on purpose
    config     \* what the last GET_SERI of each process returned

ioctlVars == <<ioctls, arg, divisor, config>>
ioctlRest == <<arrived, sent, txVars, rxVars, fileVars, sem, rxwq>>

IoctlInit ==
    /\ Init
    /\ ioctls = 0
    /\ arg = [p \in Configurers |-> Divisor1200]
    /\ divisor = Divisor1200
    /\ config = [p \in Configurers |-> Divisor1200]

(* A command that is neither of the two.                                   *)
IoctlUnknown(p) ==
    /\ Awake(p, "user")
    /\ opens > 0
    /\ ioctls < MaxIoctls
    /\ ioctls' = ioctls + 1
    /\ Return(p, "enotty", 0)
    /\ UNCHANGED <<uart, irr, ioctlRest, count, byte, nsig, arg, divisor,
                   config>>

(* Mutant: DLAB is not set. *)
IoctlOpenForgotten(p, to) ==
    /\ Awake(p, "user")
    /\ opens > 0
    /\ ioctls < MaxIoctls
    /\ ioctls' = ioctls + 1
    /\ Touch(uart)
    /\ Goto(p, to)
    /\ UNCHANGED <<ioctlRest, callVars, sigVars, divisor, config>>

(* GET_SERI and SET_SERI open the window, ...                              *)
IoctlOpen(p, to) ==
    /\ Awake(p, "user")
    /\ opens > 0
    /\ ioctls < MaxIoctls
    /\ ioctls' = ioctls + 1
    /\ Touch(WriteDLAB(uart, TRUE))
    /\ Goto(p, to)
    /\ UNCHANGED <<ioctlRest, callVars, sigVars, divisor, config>>

GetEnter(p) == IoctlOpen(p, "io_get") /\ UNCHANGED arg

SetEnter(p) ==
    /\ IoctlOpen(p, "io_set")
    /\ \E d \in Divisors : arg' = [arg EXCEPT ![p] = d]

(* ... read or write the divisor ...                                       *)
GetDivisor(p) ==
    /\ Runs(p, "io_get")
    /\ config' = [config EXCEPT ![p] = ByteAtRX(uart)]
    /\ Touch(ReadRX(uart))
    /\ Goto(p, "io_get_close")
    /\ UNCHANGED <<ioctlRest, callVars, sigVars, ioctls, arg, divisor>>

SetDivisor(p) ==
    /\ Runs(p, "io_set")
    /\ Touch(WriteTX(uart, arg[p]))
    /\ divisor' = arg[p]
    /\ Goto(p, "io_set_close")
    /\ UNCHANGED <<ioctlRest, callVars, sigVars, ioctls, arg, config>>

(* ... and close it.                                                       *)
IoctlClose(p) ==
    /\ \E at \in {"io_get_close", "io_set_close"} : Runs(p, at)
    /\ Touch(WriteDLAB(uart, FALSE))
    /\ Return(p, "ok", 0)
    /\ UNCHANGED <<ioctlRest, count, byte, nsig, ioctlVars>>

seri_ioctl(p) == GetDivisor(p) \/ SetDivisor(p) \/ IoctlClose(p)

IoctlEnter(p) == IoctlUnknown(p) \/ GetEnter(p) \/ SetEnter(p)

-----------------------------------------------------------------------------
(* What the chip sends as data, and has accepted as data, is never a       *)
(* divisor: the window of ioctl and the writes of seri_write do not mix.   *)
NoDivisorSent ==
    \A b \in {uart.thr, uart.tsr} \cup {sent[i] : i \in 1 .. Len(sent)} :
        b \notin Divisors \cup {Divisor1200}

(* "Return consists of 24 bits, 8 for LCR, 8 for DLL and 8 for DLM"        *)
(* (seri.c:183): GET_SERI returns the divisor that was programmed.         *)
GetReturnsDivisor ==
    \A p \in Configurers : Runs(p, "io_get_close") => config[p] = divisor
=============================================================================
