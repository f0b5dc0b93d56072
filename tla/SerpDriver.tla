---------------------------- MODULE SerpDriver ----------------------------
(***************************************************************************)
(* The polling driver serp.c.  Any number of processes open its devices,   *)
(* which all stand for the one UART, and read and write it with no mutual  *)
(* exclusion but that of the kernel: uniprocessor and non-preemptible, so  *)
(* that a process gives the CPU away only in msleep_interruptible, in      *)
(* schedule, and when its call returns.  The line runs at its own pace.    *)
(***************************************************************************)
EXTENDS Uart16550, FiniteSets, Sequences

CONSTANTS
    Readers, Writers,  \* processes that call read, and that call write
    Nobody,            \* the CPU is in user mode, or idle
    Enters,            \* the arriving bytes that are 13, the Enter key
    ReadSizes,         \* the counts that reads ask for
    WriteSizes,        \* the counts that writes ask for
    CopyFaults,        \* copy_to_user may fail
    MaxRx,             \* bound: bytes that arrive on the line
    MaxTx              \* bound: no write starts that would send more bytes

Procs == Readers \cup Writers

ASSUME SerpAssumption ==
    /\ Readers \cap Writers = {} /\ Nobody \notin Procs
    /\ Enters \subseteq Nat
    /\ ReadSizes \subseteq Nat /\ WriteSizes \subseteq Nat
    /\ CopyFaults \in BOOLEAN /\ {MaxRx, MaxTx} \subseteq Nat

VARIABLES
    uart,       \* the chip
    arrived,    \* history: bytes that have come on the line
    lost,       \* history: how many were overwritten in the RBR
    sent,       \* history: bytes that have left on the line
    put,        \* history: bytes written to the THR
    cpu,        \* the process executing kernel code
    pc,         \* where each process is
    count,      \* the count argument of its last call
    buffer,     \* what the read in progress, or the last one, has read
    left,       \* the bytes that the write in progress has still to send
    ret         \* what the last call returned

hwVars   == <<uart, arrived, lost, sent>>
callVars == <<count, buffer, left, ret>>
vars     == <<hwVars, put, cpu, pc, callVars>>

Divisor1200 == -1

(* serp_init has turned the interrupts off and set the line up.  Its       *)
(* greeting goes out through w_char like any write.                        *)
Init ==
    /\ uart = UartConfigured(FALSE, Divisor1200)
    /\ arrived = 0 /\ lost = 0 /\ sent = <<>> /\ put = 0
    /\ cpu = Nobody
    /\ pc = [p \in Procs |-> "user"]
    /\ count = [p \in Procs |-> 0]
    /\ buffer = [p \in Procs |-> <<>>]
    /\ left = [p \in Procs |-> 0]
    /\ ret = [p \in Procs |-> "none"]

Runs(p, at)  == pc[p] = at /\ cpu = p
Awake(p, at) == pc[p] = at /\ cpu = Nobody
Goto(p, to)  == pc' = [pc EXCEPT ![p] = to] /\ cpu' = p
Yield(p, at) == pc' = [pc EXCEPT ![p] = at] /\ cpu' = Nobody

Return(p, r) == Yield(p, "user") /\ ret' = [ret EXCEPT ![p] = r]

-----------------------------------------------------------------------------
(* The line.                                                               *)

LineReceive ==
    /\ arrived < MaxRx
    /\ arrived' = arrived + 1
    /\ lost' = IF uart.rbr # NoByte THEN lost + 1 ELSE lost
    /\ uart' = Receive(uart, arrived + 1)
    /\ UNCHANGED <<sent, put, cpu, pc, callVars>>

LineLoad ==
    /\ CanLoad(uart)
    /\ uart' = Load(uart)
    /\ UNCHANGED <<arrived, lost, sent, put, cpu, pc, callVars>>

LineShiftOut ==
    /\ CanShiftOut(uart)
    /\ uart' = ShiftOut(uart)
    /\ sent' = Append(sent, uart.tsr)
    /\ UNCHANGED <<arrived, lost, put, cpu, pc, callVars>>

-----------------------------------------------------------------------------
(* serp_write, with w_char.                                                *)

WriteEnter(p) ==
    /\ Awake(p, "user")
    /\ \E n \in WriteSizes :
          /\ put + n <= MaxTx
          /\ left' = [left EXCEPT ![p] = n]
    /\ Goto(p, "w_loop")
    /\ UNCHANGED <<hwVars, put, count, buffer, ret>>

WriteDone(p) ==
    /\ Runs(p, "w_loop")
    /\ left[p] = 0
    /\ Return(p, "ok")
    /\ UNCHANGED <<hwVars, put, count, buffer, left>>

(* w_char finds THRE set; no other process runs before its outb.           *)
WCharReady(p) ==
    /\ Runs(p, "w_loop")
    /\ left[p] > 0
    /\ uart.thr = NoByte
    /\ uart' = ReadLSR(uart)
    /\ Goto(p, "w_out")
    /\ UNCHANGED <<arrived, lost, sent, put, callVars>>

WCharSleep(p) ==
    /\ Runs(p, "w_loop")
    /\ left[p] > 0
    /\ uart.thr # NoByte
    /\ uart' = ReadLSR(uart)
    /\ Yield(p, "w_sleep")
    /\ UNCHANGED <<arrived, lost, sent, put, callVars>>

(* Mutant: having slept, w_char does not look at THRE again. *)
WCharWakeTrusting(p) ==
    /\ Awake(p, "w_sleep")
    /\ Goto(p, "w_out")
    /\ UNCHANGED <<hwVars, put, callVars>>

(* Mutant: a sleeper leaves the chip to the other writers until they are   *)
(* done, as they do to it.                                                 *)
WCharWakeYields(p) ==
    /\ Awake(p, "w_sleep")
    /\ \A q \in Writers \ {p} : pc[q] = "user"
    /\ Goto(p, "w_loop")
    /\ UNCHANGED <<hwVars, put, callVars>>

WCharWake(p) ==
    /\ Awake(p, "w_sleep")
    /\ Goto(p, "w_loop")
    /\ UNCHANGED <<hwVars, put, callVars>>

WCharOut(p) ==
    /\ Runs(p, "w_out")
    /\ put' = put + 1
    /\ uart' = WriteTX(uart, put + 1)
    /\ left' = [left EXCEPT ![p] = @ - 1]
    /\ Goto(p, "w_loop")
    /\ UNCHANGED <<arrived, lost, sent, count, buffer, ret>>

serp_write(p) ==
    WriteDone(p) \/ WCharReady(p) \/ WCharSleep(p) \/ WCharWake(p) \/ WCharOut(p)

-----------------------------------------------------------------------------
(* serp_read                                                               *)

ReadEnter(p) ==
    /\ Awake(p, "user")
    /\ \E n \in ReadSizes : count' = [count EXCEPT ![p] = n]
    /\ buffer' = [buffer EXCEPT ![p] = <<>>]
    /\ Goto(p, "r_loop")
    /\ UNCHANGED <<hwVars, put, left, ret>>

LastIsEnter(b) == b # <<>> /\ b[Len(b)] \in Enters

ReadMore(p) == ~ LastIsEnter(buffer[p]) /\ Len(buffer[p]) < count[p]

(* Mutant: any received byte is taken for an overrun. *)
ReadOverrunAnyStatus(p) ==
    /\ Runs(p, "r_loop")
    /\ ReadMore(p)
    /\ uart.oe \/ uart.rbr # NoByte
    /\ uart' = ReadLSR(uart)
    /\ Return(p, "eio")
    /\ UNCHANGED <<arrived, lost, sent, put, count, buffer, left>>

(* The first look at the LSR is for an overrun, and clears it.             *)
ReadOverrun(p) ==
    /\ Runs(p, "r_loop")
    /\ ReadMore(p)
    /\ uart.oe
    /\ uart' = ReadLSR(uart)
    /\ Return(p, "eio")
    /\ UNCHANGED <<arrived, lost, sent, put, count, buffer, left>>

ReadNoOverrun(p) ==
    /\ Runs(p, "r_loop")
    /\ ReadMore(p)
    /\ ~ uart.oe
    /\ Goto(p, "r_dr")
    /\ UNCHANGED <<hwVars, put, callVars>>

(* The second is for data, and clears an overrun that came in between.     *)
ReadData(p) ==
    /\ Runs(p, "r_dr")
    /\ uart.rbr # NoByte
    /\ uart' = ReadLSR(uart)
    /\ Goto(p, "r_rx")
    /\ UNCHANGED <<arrived, lost, sent, put, callVars>>

(* Mutant: RX is read whether or not DR is set. *)
ReadNothingReads(p) ==
    /\ Runs(p, "r_dr")
    /\ uart.rbr = NoByte
    /\ uart' = ReadLSR(uart)
    /\ Goto(p, "r_rx")
    /\ UNCHANGED <<arrived, lost, sent, put, callVars>>

ReadNothing(p) ==
    /\ Runs(p, "r_dr")
    /\ uart.rbr = NoByte
    /\ uart' = ReadLSR(uart)
    /\ Yield(p, "r_sched")
    /\ UNCHANGED <<arrived, lost, sent, put, callVars>>

ReadScheduled(p) ==
    /\ Awake(p, "r_sched")
    /\ Goto(p, "r_loop")
    /\ UNCHANGED <<hwVars, put, callVars>>

ReadByte(p) ==
    /\ Runs(p, "r_rx")
    /\ buffer' = [buffer EXCEPT ![p] = Append(@, ByteAtRX(uart))]
    /\ uart' = ReadRX(uart)
    /\ Goto(p, "r_loop")
    /\ UNCHANGED <<arrived, lost, sent, put, count, left, ret>>

ReadDone(p) ==
    /\ Runs(p, "r_loop")
    /\ ~ ReadMore(p)
    /\ \/ Return(p, "ok")
       \/ CopyFaults /\ buffer[p] # <<>> /\ Return(p, "fail")
    /\ UNCHANGED <<hwVars, put, count, buffer, left>>

serp_read(p) ==
    \/ ReadOverrun(p) \/ ReadNoOverrun(p) \/ ReadData(p) \/ ReadNothing(p)
    \/ ReadScheduled(p) \/ ReadByte(p) \/ ReadDone(p)

Next ==
    \/ LineReceive \/ LineLoad \/ LineShiftOut
    \/ \E p \in Readers : ReadEnter(p) \/ serp_read(p)
    \/ \E p \in Writers : WriteEnter(p) \/ serp_write(p)

(* The line shifts, and the scheduler is fair to a process that is ready,  *)
(* though readers that poll take the CPU again and again.                  *)
Fairness ==
    /\ WF_vars(LineLoad) /\ WF_vars(LineShiftOut)
    /\ \A p \in Readers : SF_vars(serp_read(p))
    /\ \A p \in Writers : SF_vars(serp_write(p))

Spec == Init /\ [][Next]_vars /\ Fairness

-----------------------------------------------------------------------------
InFlight(b) == IF b = NoByte THEN <<>> ELSE <<b>>

(* Every byte of every write leaves on the line, in the order the writers  *)
(* put them in the THR: with no mutex at all, writers do not overwrite one *)
(* another's byte, because none gives the CPU away between its look at     *)
(* THRE and its outb.                                                      *)
SerpTxFaithful ==
    sent \o InFlight(uart.tsr) \o InFlight(uart.thr) = [i \in 1 .. put |-> i]

Got(p) == {buffer[p][i] : i \in 1 .. Len(buffer[p])}

(* No byte is read twice by the last calls of one reader or of two, and    *)
(* none is read that did not come.                                         *)
SerpReadOnce ==
    /\ \A p \in Readers : Cardinality(Got(p)) = Len(buffer[p])
    /\ \A p, q \in Readers : p # q => Got(p) \cap Got(q) = {}
    /\ \A p \in Readers : NoByte \notin Got(p)

(* The error EIO is never raised without a byte having been overwritten,   *)
(* and no overwritten byte is reported by two reads.                       *)
SerpEioMeansLoss == Cardinality({p \in Readers : ret[p] = "eio"}) <= lost

(* As long as a write has bytes to send, some byte is sent, whoever writes *)
(* and reads: writers and polling readers cannot keep all of them waiting. *)
(* Which writer it is that gets on is left open: one that sleeps may find  *)
(* THRE clear each time it wakes, if others keep on writing.               *)
SerpWritersAdvance ==
    \A n \in 0 .. Cardinality(Writers) * MaxTx :
        put = n /\ (\E p \in Writers : pc[p] # "user" /\ left[p] > 0)
            ~> put > n
=============================================================================
