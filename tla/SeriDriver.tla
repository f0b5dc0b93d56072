---------------------------- MODULE SeriDriver ----------------------------
(***************************************************************************)
(* The interrupt driven driver seri.c, for /dev/seri0, the one device its  *)
(* interrupt handler serves.  Processes that share the open file read and  *)
(* write it while the handler moves bytes between the UART and the two     *)
(* kfifos.                                                                 *)
(*                                                                         *)
(* The machine is the one the repository's kernel objects are built for: a *)
(* uniprocessor, non-preemptible 2.6.19 kernel (the vermagic of            *)
(* host/disser.ko names neither SMP nor preempt).  A process inside a      *)
(* system call keeps the CPU until it sleeps or returns; only the          *)
(* interrupt handler can run between two of its steps, and the handler     *)
(* runs to its end.                                                        *)
(***************************************************************************)
EXTENDS Uart16550, Kfifo, FiniteSets

CONSTANTS
    Readers, Writers, \* processes that call read, and that call write
    Others,           \* processes of the modules that extend this one
    Nobody,           \* the CPU is in user mode, or idle
    FifoSize,         \* FIFO_SIZE
    Greeting,         \* bytes of the greeting that seri_init queues
    ReadSizes,        \* the counts that reads ask for
    WriteSizes,       \* the counts that writes ask for
    NonblockModes,    \* whether the file is opened with O_NONBLOCK
    LockModes,        \* seri_write takes the mutex: TRUE, FALSE in LAB4
    EdgeTriggered,    \* the interrupt line is an ISA, edge triggered, line
    CopyFaults,       \* copy_to_user may fail
    SlowLine,         \* no byte leaves on the line during a system call
    MaxSignals,       \* bound: signals sent to sleeping processes
    MaxRx,            \* bound: bytes that arrive on the line
    MaxTx             \* bound: no write starts that would accept more bytes

Procs == Readers \cup Writers \cup Others

ASSUME ProcsAssumption ==
    /\ Readers \cap Writers = {}
    /\ (Readers \cup Writers) \cap Others = {}
    /\ Nobody \notin Procs

ASSUME SizesAssumption ==
    /\ FifoSize \in Nat \ {0}
    /\ Greeting \in 0 .. FifoSize
    /\ ReadSizes \subseteq Nat
    /\ WriteSizes \subseteq Nat \ {0}

ASSUME SwitchesAssumption ==
    /\ NonblockModes \subseteq BOOLEAN /\ LockModes \subseteq BOOLEAN
    /\ {EdgeTriggered, CopyFaults, SlowLine} \subseteq BOOLEAN
    /\ {MaxSignals, MaxRx, MaxTx} \subseteq Nat

Divisor1200 == -1   \* the divisor seri_init programs
Garbage     == -9   \* an uninitialised stack byte, nobody's data

VARIABLES
    uart,      \* the chip
    irr,       \* an edge of the interrupt line awaits service
    arrived,   \* history: bytes that have come on the line
    sent,      \* history: bytes that have left on the line
    txflag,    \* seri_dev.txflag
    sem,       \* the count of seri_dev.mutex
    rxfifo,    \* seri_dev.rxfifo
    txfifo,    \* seri_dev.txfifo
    rxwq,      \* the processes asleep on seri_dev.rxwq
    nUsers,    \* seri_dev.n_users
    opens,     \* open files of the device
    nonblock,  \* the O_NONBLOCK flag of the open file
    locks,     \* the version of seri_write: it never changes
    cpu,       \* the process executing kernel code
    pc,        \* where each process is
    count,     \* the count argument of its last call
    done,      \* the bytes that call transferred
    ret,       \* what that call returned
    byte,      \* the local c of seri_write
    sig,       \* processes with a pending signal
    nsig,      \* history: signals sent
    accepted,  \* history: bytes put in txfifo
    queued,    \* history: bytes put in rxfifo
    delivered  \* history: bytes copied to user space

hwVars   == <<uart, irr, arrived, sent>>
txVars   == <<txflag, txfifo, accepted>>
rxVars   == <<rxfifo, queued, delivered>>
fileVars == <<nUsers, opens, nonblock, locks>>
callVars == <<count, done, ret, byte>>
sigVars  == <<sig, nsig>>
vars == <<hwVars, txVars, rxVars, fileVars, callVars, sigVars,
          sem, rxwq, cpu, pc>>

Ids(m, n) == [i \in 1 .. (n - m) |-> m + i]   \* <<m+1, ..., n>>

(***************************************************************************)
(* What seri_init leaves behind: the greeting queued, the THRE interrupt   *)
(* that will start it due, txflag zeroed with the rest of seri_dev.        *)
(***************************************************************************)
Init ==
    /\ uart = UartConfigured(TRUE, Divisor1200)
    /\ irr = EdgeTriggered
    /\ txflag = 0
    /\ sem = 1
    /\ rxfifo = <<>>
    /\ txfifo = Ids(0, Greeting)
    /\ accepted = Greeting
    /\ arrived = 0 /\ sent = <<>> /\ queued = <<>> /\ delivered = <<>>
    /\ rxwq = {}
    /\ nUsers = 0 /\ opens = 0 /\ nonblock = FALSE
    /\ locks \in LockModes
    /\ cpu = Nobody
    /\ pc = [p \in Procs |-> "user"]
    /\ count = [p \in Procs |-> 0]
    /\ done = [p \in Procs |-> 0]
    /\ ret = [p \in Procs |-> "none"]
    /\ byte = [p \in Procs |-> NoByte]
    /\ sig = {} /\ nsig = 0

-----------------------------------------------------------------------------
(* The processor: who runs, sleeping, and the interrupt line.              *)

Runs(p, at)  == pc[p] = at /\ cpu = p        \* p is in the kernel, at at
Awake(p, at) == pc[p] = at /\ cpu = Nobody   \* p gets the CPU, at at

Goto(p, to)  == pc' = [pc EXCEPT ![p] = to] /\ cpu' = p
Sleep(p, at) == pc' = [pc EXCEPT ![p] = at] /\ cpu' = Nobody

(* The system call of p returns r after transferring n bytes.              *)
Return(p, r, n) ==
    /\ pc' = [pc EXCEPT ![p] = "user"]
    /\ cpu' = Nobody
    /\ ret' = [ret EXCEPT ![p] = r]
    /\ done' = [done EXCEPT ![p] = n]
    /\ sig' = sig \ {p}

(* A process or the line changes the chip to u: a rising edge is latched.  *)
Touch(u) ==
    /\ uart' = u
    /\ irr' = (EdgeTriggered /\ (irr \/ (~ INTR(uart) /\ INTR(u))))

(* The handler acknowledges with acked and leaves the chip at u.           *)
Serve(acked, u) ==
    /\ uart' = u
    /\ irr' = (EdgeTriggered /\ ~ INTR(acked) /\ INTR(u))

Interrupted == IF EdgeTriggered THEN irr ELSE INTR(uart)

(* down_interruptible(&dev->mutex): p proceeds at to, or sleeps at wait.   *)
Down(p, to, wait) ==
    IF sem > 0 THEN sem' = sem - 1 /\ Goto(p, to)
               ELSE sem' = sem /\ Sleep(p, wait)

(* A sleeper of the mutex gets it ...                                      *)
DownGranted(p, wait, to) ==
    /\ Awake(p, wait)
    /\ p \notin sig
    /\ sem > 0
    /\ sem' = sem - 1
    /\ Goto(p, to)

(* ... or is woken by a signal, with -EINTR and without the mutex.  Neither*)
(* call looks at the result: the process goes on as if it held the mutex.  *)
DownInterrupted(p, wait, to) ==
    /\ Awake(p, wait)
    /\ p \in sig
    /\ sem' = sem
    /\ Goto(p, to)

-----------------------------------------------------------------------------
(* seri_interrupt: one source is served per interrupt.                     *)

WakeReaders == rxwq' = {}   \* wake_up_interruptible(&dev->rxwq)

IrqNone ==
    /\ Interrupted
    /\ IIR(uart) = "NO_INT"
    /\ Serve(uart, uart)
    /\ UNCHANGED <<arrived, sent, txVars, rxVars, fileVars, callVars, sigVars,
                   sem, rxwq, cpu, pc>>

IrqLineStatus ==
    /\ Interrupted
    /\ IIR(uart) = "RLSI"
    /\ Serve(uart, ReadLSR(uart))
    /\ UNCHANGED <<arrived, sent, txVars, rxVars, fileVars, callVars, sigVars,
                   sem, rxwq, cpu, pc>>

(* Mutant: a full queue drops its oldest byte for the new one. *)
IrqReceiveDropsOldest ==
    /\ Interrupted
    /\ IIR(uart) = "RDI"
    /\ Serve(uart, ReadRX(uart))
    /\ rxfifo' = IF Len(rxfifo) < FifoSize
                 THEN Append(rxfifo, ByteAtRX(uart))
                 ELSE Append(Tail(rxfifo), ByteAtRX(uart))
    /\ queued' = Append(queued, ByteAtRX(uart))
    /\ WakeReaders
    /\ UNCHANGED <<arrived, sent, txVars, delivered, fileVars, callVars,
                   sigVars, sem, cpu, pc>>

(* Mutant: the readers are not woken. *)
IrqReceiveNoWake ==
    /\ Interrupted
    /\ IIR(uart) = "RDI"
    /\ Serve(uart, ReadRX(uart))
    /\ rxfifo' = KfifoPut(rxfifo, <<ByteAtRX(uart)>>, FifoSize)
    /\ queued' = IF Len(rxfifo) < FifoSize THEN Append(queued, ByteAtRX(uart))
                                           ELSE queued
    /\ UNCHANGED <<arrived, sent, txVars, delivered, fileVars, callVars,
                   sigVars, sem, rxwq, cpu, pc>>

IrqReceive ==
    /\ Interrupted
    /\ IIR(uart) = "RDI"
    /\ Serve(uart, ReadRX(uart))
    /\ rxfifo' = KfifoPut(rxfifo, <<ByteAtRX(uart)>>, FifoSize)
    /\ queued' = IF Len(rxfifo) < FifoSize THEN Append(queued, ByteAtRX(uart))
                                           ELSE queued
    /\ WakeReaders
    /\ UNCHANGED <<arrived, sent, txVars, delivered, fileVars, callVars,
                   sigVars, sem, cpu, pc>>

(* Mutant: an empty transmit queue does not set txflag. *)
IrqTransmitNoFlag ==
    /\ Interrupted
    /\ IIR(uart) = "THRI"
    /\ LET acked == ReadIIR(uart)
       IN  IF txfifo # <<>>
           THEN /\ Serve(acked, WriteTX(acked, Head(txfifo)))
                /\ txfifo' = Tail(txfifo)
                /\ txflag' = 0
           ELSE /\ Serve(acked, acked)
                /\ UNCHANGED <<txfifo, txflag>>
    /\ UNCHANGED <<arrived, sent, accepted, rxVars, fileVars, callVars,
                   sigVars, sem, rxwq, cpu, pc>>

IrqTransmit ==
    /\ Interrupted
    /\ IIR(uart) = "THRI"
    /\ LET acked == ReadIIR(uart)
       IN  IF txfifo # <<>>
           THEN /\ Serve(acked, WriteTX(acked, Head(txfifo)))
                /\ txfifo' = Tail(txfifo)
                /\ txflag' = 0
           ELSE /\ Serve(acked, acked)
                /\ txflag' = 1
                /\ UNCHANGED txfifo
    /\ UNCHANGED <<arrived, sent, accepted, rxVars, fileVars, callVars,
                   sigVars, sem, rxwq, cpu, pc>>

seri_interrupt == IrqNone \/ IrqLineStatus \/ IrqReceive \/ IrqTransmit

-----------------------------------------------------------------------------
(* The line.                                                               *)

LineReceive ==
    /\ arrived < MaxRx
    /\ arrived' = arrived + 1
    /\ Touch(Receive(uart, arrived + 1))
    /\ UNCHANGED <<sent, txVars, rxVars, fileVars, callVars, sigVars, sem,
                   rxwq, cpu, pc>>

LineLoad ==
    /\ CanLoad(uart)
    /\ Touch(Load(uart))
    /\ UNCHANGED <<arrived, sent, txVars, rxVars, fileVars, callVars, sigVars,
                   sem, rxwq, cpu, pc>>

(* At 1200 baud a byte takes 9 ms, a system call that does not sleep a few *)
(* microseconds: SlowLine says that the call is over first.                *)
LineShiftOut ==
    /\ CanShiftOut(uart)
    /\ SlowLine => cpu = Nobody
    /\ Touch(ShiftOut(uart))
    /\ sent' = Append(sent, uart.tsr)
    /\ UNCHANGED <<arrived, txVars, rxVars, fileVars, callVars, sigVars, sem,
                   rxwq, cpu, pc>>

Line == LineReceive \/ LineLoad \/ LineShiftOut

(* A signal reaches a process asleep in down_interruptible or              *)
(* wait_event_interruptible.                                               *)
Signal(p) ==
    /\ nsig < MaxSignals
    /\ pc[p] \in {"rd_down", "wr_down", "rd_sleep"}
    /\ p \notin sig
    /\ sig' = sig \cup {p}
    /\ nsig' = nsig + 1
    /\ UNCHANGED <<hwVars, txVars, rxVars, fileVars, callVars, sem, rxwq,
                   cpu, pc>>

-----------------------------------------------------------------------------
(* open and release.  The kernel calls release when the last reference to  *)
(* the file is dropped, so never while a call on it is in progress.        *)

(* Mutant: the test of n_users is left out. *)
seri_open_anyone(p) ==
    /\ Awake(p, "user")
    /\ nUsers' = nUsers + 1
    /\ opens' = opens + 1
    /\ nonblock' \in NonblockModes
    /\ UNCHANGED <<hwVars, txVars, rxVars, locks, callVars, sigVars, sem, rxwq,
                   cpu, pc>>

(* Mutant: the user is not counted. *)
seri_open_uncounted(p) ==
    /\ Awake(p, "user")
    /\ nUsers = 0
    /\ opens' = opens + 1
    /\ nonblock' \in NonblockModes
    /\ UNCHANGED <<hwVars, txVars, rxVars, nUsers, locks, callVars, sigVars,
                   sem, rxwq, cpu, pc>>

(* A second user gets -EBUSY, and the driver is as it was.                 *)
seri_open(p) ==
    /\ Awake(p, "user")
    /\ \/ nUsers > 0 /\ UNCHANGED fileVars
       \/ /\ nUsers = 0
          /\ nUsers' = nUsers + 1
          /\ opens' = opens + 1
          /\ nonblock' \in NonblockModes
          /\ UNCHANGED locks
    /\ UNCHANGED <<hwVars, txVars, rxVars, callVars, sigVars, sem, rxwq, cpu,
                   pc>>

seri_release(p) ==
    /\ \A q \in Procs : pc[q] = "user"
    /\ Awake(p, "user")
    /\ opens > 0
    /\ opens' = opens - 1
    /\ nUsers' = nUsers - 1
    /\ UNCHANGED <<hwVars, txVars, rxVars, nonblock, locks, callVars, sigVars,
                   sem, rxwq, cpu, pc>>

-----------------------------------------------------------------------------
(* seri_read                                                               *)

Up == sem' = sem + 1

ReadEnter(p) ==
    /\ Awake(p, "user")
    /\ opens > 0
    /\ count' \in {[count EXCEPT ![p] = n] : n \in ReadSizes}
    /\ Down(p, "rd_check", "rd_down")
    /\ UNCHANGED <<hwVars, txVars, rxVars, fileVars, done, ret, byte, sigVars,
                   rxwq>>

ReadDown(p) ==
    /\ DownGranted(p, "rd_down", "rd_check")
    /\ UNCHANGED <<hwVars, txVars, rxVars, fileVars, callVars, sigVars, rxwq>>

ReadDownInterrupted(p) ==
    /\ DownInterrupted(p, "rd_down", "rd_check")
    /\ UNCHANGED <<hwVars, txVars, rxVars, fileVars, callVars, sigVars, rxwq>>

(* The while condition: with exactly count bytes the mutex is released and *)
(* the loop left.                                                          *)
ReadReady(p) ==
    /\ Runs(p, "rd_check")
    /\ Len(rxfifo) = count[p]
    /\ Up
    /\ Goto(p, "rd_get")
    /\ UNCHANGED <<hwVars, txVars, rxVars, fileVars, callVars, sigVars, rxwq>>

(* Mutant: the O_NONBLOCK return keeps the mutex. *)
ReadWouldBlockKeepsMutex(p) ==
    /\ Runs(p, "rd_check")
    /\ Len(rxfifo) # count[p]
    /\ nonblock
    /\ Return(p, "eagain", 0)
    /\ UNCHANGED <<hwVars, txVars, rxVars, fileVars, count, byte, nsig, rxwq,
                   sem>>

ReadWouldBlock(p) ==
    /\ Runs(p, "rd_check")
    /\ Len(rxfifo) # count[p]
    /\ nonblock
    /\ Up
    /\ Return(p, "eagain", 0)
    /\ UNCHANGED <<hwVars, txVars, rxVars, fileVars, count, byte, nsig, rxwq>>

ReadMustWait(p) ==
    /\ Runs(p, "rd_check")
    /\ Len(rxfifo) # count[p]
    /\ ~ nonblock
    /\ Goto(p, "rd_wait")
    /\ UNCHANGED <<hwVars, txVars, rxVars, fileVars, callVars, sigVars, sem,
                   rxwq>>

(* wait_event_interruptible: p joins the queue, then tests the condition,  *)
(* then the signal, and sleeps if neither holds.  Back in the loop the     *)
(* while condition is tested again.                                        *)
ReadWait(p) ==
    /\ Runs(p, "rd_wait")
    /\ IF Len(rxfifo) = count[p]
       THEN /\ Goto(p, "rd_check")
            /\ UNCHANGED <<rxwq, sem, done, ret, sig>>
       ELSE IF p \in sig
       THEN /\ Up
            /\ Return(p, "eagain", 0)
            /\ UNCHANGED rxwq
       ELSE /\ Sleep(p, "rd_sleep")
            /\ rxwq' = rxwq \cup {p}
            /\ UNCHANGED <<sem, done, ret, sig>>
    /\ UNCHANGED <<hwVars, txVars, rxVars, fileVars, count, byte, nsig>>

(* Mutant: the sleeper wakes only for a wake_up, not for a signal. *)
ReadWakeUninterruptible(p) ==
    /\ Awake(p, "rd_sleep")
    /\ p \notin rxwq
    /\ Goto(p, "rd_wait")
    /\ rxwq' = rxwq \ {p}
    /\ UNCHANGED <<hwVars, txVars, rxVars, fileVars, callVars, sigVars, sem>>

(* Mutant: once woken, the reader does not test the queue again. *)
ReadWakeTrusting(p) ==
    /\ Awake(p, "rd_sleep")
    /\ p \notin rxwq \/ p \in sig
    /\ Up
    /\ Goto(p, "rd_get")
    /\ rxwq' = rxwq \ {p}
    /\ UNCHANGED <<hwVars, txVars, rxVars, fileVars, callVars, sigVars>>

ReadWake(p) ==
    /\ Awake(p, "rd_sleep")
    /\ p \notin rxwq \/ p \in sig
    /\ Goto(p, "rd_wait")
    /\ rxwq' = rxwq \ {p}
    /\ UNCHANGED <<hwVars, txVars, rxVars, fileVars, callVars, sigVars, sem>>

(* kfifo_get, after the mutex is released, and copy_to_user.  When the copy*)
(* fails the bytes are in no queue any more, and buffer is leaked.         *)
ReadGet(p) ==
    /\ Runs(p, "rd_get")
    /\ LET n == Least(count[p], FifoSize)
           taken == KfifoTaken(rxfifo, n)
       IN  /\ rxfifo' = KfifoGet(rxfifo, n)
           /\ \/ /\ Return(p, "ok", Len(taken))
                 /\ delivered' = delivered \o taken
              \/ /\ CopyFaults
                 /\ taken # <<>>
                 /\ Return(p, "fail", 0)
                 /\ UNCHANGED delivered
    /\ UNCHANGED <<hwVars, txVars, queued, fileVars, count, byte, nsig, sem,
                   rxwq>>

(* What seri_read does once it has been entered.                           *)
seri_read(p) ==
    \/ ReadDown(p) \/ ReadDownInterrupted(p)
    \/ ReadReady(p) \/ ReadWouldBlock(p) \/ ReadMustWait(p)
    \/ ReadWait(p) \/ ReadWake(p) \/ ReadGet(p)

-----------------------------------------------------------------------------
(* seri_write.  A copy_from_user that fails returns -1 before anything     *)
(* shared is touched, and is left out.                                     *)

(* Mutant of the LAB4 version: the mutex is taken, as in the later one. *)
WriteEnterLocks(p) ==
    /\ Awake(p, "user")
    /\ opens > 0
    /\ \E n \in WriteSizes :
          /\ accepted + n <= MaxTx
          /\ count' = [count EXCEPT ![p] = n]
    /\ Down(p, "wr_put", "wr_down")
    /\ UNCHANGED <<hwVars, txVars, rxVars, fileVars, done, ret, byte, sigVars,
                   rxwq>>

(* The LAB4 version goes straight to kfifo_put, and has no mutex to release.*)
WriteBegin(p) == IF locks THEN Down(p, "wr_put", "wr_down")
                          ELSE sem' = sem /\ Goto(p, "wr_put")
WriteUp       == IF locks THEN Up ELSE UNCHANGED sem

WriteEnter(p) ==
    /\ Awake(p, "user")
    /\ opens > 0
    /\ \E n \in WriteSizes :
          /\ accepted + n <= MaxTx
          /\ count' = [count EXCEPT ![p] = n]
    /\ WriteBegin(p)
    /\ UNCHANGED <<hwVars, txVars, rxVars, fileVars, done, ret, byte, sigVars,
                   rxwq>>

WriteDown(p) ==
    /\ DownGranted(p, "wr_down", "wr_put")
    /\ UNCHANGED <<hwVars, txVars, rxVars, fileVars, callVars, sigVars, rxwq>>

WriteDownInterrupted(p) ==
    /\ DownInterrupted(p, "wr_down", "wr_put")
    /\ UNCHANGED <<hwVars, txVars, rxVars, fileVars, callVars, sigVars, rxwq>>

(* What fits in txfifo is accepted, the rest is dropped with a printk.     *)
WritePut(p) ==
    /\ Runs(p, "wr_put")
    /\ LET data == Ids(accepted, accepted + count[p])
           n == KfifoRoom(txfifo, data, FifoSize)
       IN  /\ txfifo' = KfifoPut(txfifo, data, FifoSize)
           /\ accepted' = accepted + n
           /\ done' = [done EXCEPT ![p] = n]
    /\ Goto(p, "wr_flag")
    /\ UNCHANGED <<hwVars, txflag, rxVars, fileVars, count, ret, byte,
                   sigVars, sem, rxwq>>

(* txflag = 1: the transmitter is taken to be idle, and is started.        *)
WriteKick(p) ==
    /\ Runs(p, "wr_flag")
    /\ txflag = 1
    /\ Goto(p, "wr_get")
    /\ UNCHANGED <<hwVars, txVars, rxVars, fileVars, callVars, sigVars, sem,
                   rxwq>>

(* Mutant: the mutex is released only by the writer that starts the chip. *)
WriteQueuedKeepsMutex(p) ==
    /\ Runs(p, "wr_flag")
    /\ txflag # 1
    /\ sem' = sem
    /\ Return(p, "ok", done[p])
    /\ UNCHANGED <<hwVars, txVars, rxVars, fileVars, count, byte, nsig, rxwq>>

WriteQueued(p) ==
    /\ Runs(p, "wr_flag")
    /\ txflag # 1
    /\ WriteUp
    /\ Return(p, "ok", done[p])
    /\ UNCHANGED <<hwVars, txVars, rxVars, fileVars, count, byte, nsig, rxwq>>

(* Mutant: the byte is looked at and stays in the queue. *)
WriteGetPeeks(p) ==
    /\ Runs(p, "wr_get")
    /\ byte' = [byte EXCEPT ![p] =
                  IF txfifo = <<>> THEN Garbage ELSE Head(txfifo)]
    /\ Goto(p, "wr_out")
    /\ UNCHANGED <<hwVars, txVars, rxVars, fileVars, count, done, ret,
                   sigVars, sem, rxwq>>

(* An empty queue leaves c as it was: uninitialised.                       *)
WriteGet(p) ==
    /\ Runs(p, "wr_get")
    /\ byte' = [byte EXCEPT ![p] =
                  IF txfifo = <<>> THEN Garbage ELSE Head(txfifo)]
    /\ txfifo' = KfifoGet(txfifo, 1)
    /\ Goto(p, "wr_out")
    /\ UNCHANGED <<hwVars, txflag, accepted, rxVars, fileVars, count, done,
                   ret, sigVars, sem, rxwq>>

(* Mutant: the byte taken from the queue is not written to the chip. *)
WriteOutForgotten(p) ==
    /\ Runs(p, "wr_out")
    /\ byte' = [byte EXCEPT ![p] = NoByte]
    /\ WriteUp
    /\ Return(p, "ok", done[p])
    /\ UNCHANGED <<hwVars, txVars, rxVars, fileVars, count, nsig, rxwq>>

WriteOut(p) ==
    /\ Runs(p, "wr_out")
    /\ Touch(WriteTX(uart, byte[p]))
    /\ byte' = [byte EXCEPT ![p] = NoByte]
    /\ WriteUp
    /\ Return(p, "ok", done[p])
    /\ UNCHANGED <<arrived, sent, txVars, rxVars, fileVars, count, nsig, rxwq>>

seri_write(p) ==
    \/ WriteDown(p) \/ WriteDownInterrupted(p)
    \/ WritePut(p) \/ WriteKick(p) \/ WriteQueued(p)
    \/ WriteGet(p) \/ WriteOut(p)

-----------------------------------------------------------------------------
Enter(p) == seri_open(p) \/ seri_release(p)

Next ==
    \/ seri_interrupt
    \/ Line
    \/ \E p \in Procs : Enter(p) \/ Signal(p)
    \/ \E p \in Readers : ReadEnter(p) \/ seri_read(p)
    \/ \E p \in Writers : WriteEnter(p) \/ seri_write(p)

(* The scheduler runs a process that can run, the processor takes pending  *)
(* interrupts, and the line shifts: strongly fair, for under SlowLine every*)
(* system call only puts it off.  Nothing obliges a process to make a      *)
(* system call, a byte to arrive or a signal to be sent.                   *)
Fairness ==
    /\ WF_vars(seri_interrupt)
    /\ WF_vars(LineLoad)
    /\ SF_vars(LineShiftOut)
    /\ \A p \in Readers : WF_vars(seri_read(p))
    /\ \A p \in Writers : WF_vars(seri_write(p))

Spec == Init /\ [][Next]_vars /\ Fairness

-----------------------------------------------------------------------------
(* Properties                                                              *)

ReadLabels  == {"rd_down", "rd_check", "rd_wait", "rd_sleep", "rd_get"}
WriteLabels == {"wr_down", "wr_put", "wr_flag", "wr_get", "wr_out"}
Returns     == {"none", "ok", "eagain", "fail", "enotty"}

(* The types of the variables; a reader is only ever in seri_read, a       *)
(* writer only in seri_write, and only a process in the kernel has the CPU.*)
TypeOK ==
    /\ uart \in Uart /\ irr \in BOOLEAN
    /\ arrived \in Nat /\ accepted \in Nat /\ nsig \in Nat
    /\ txflag \in {0, 1} /\ sem \in Nat
    /\ {sent, txfifo, rxfifo, queued, delivered} \subseteq Seq(Int)
    /\ Len(txfifo) <= FifoSize /\ Len(rxfifo) <= FifoSize
    /\ nUsers \in Nat /\ opens \in Nat /\ nonblock \in BOOLEAN
    /\ locks \in BOOLEAN
    /\ cpu \in Procs \cup {Nobody}
    /\ DOMAIN pc = Procs
    /\ \A p \in Readers : pc[p] \in ReadLabels \cup {"user"}
    /\ \A p \in Writers : pc[p] \in WriteLabels \cup {"user"}
    /\ cpu # Nobody => pc[cpu] \notin {"user", "rd_down", "wr_down", "rd_sleep"}
    /\ count \in [Procs -> Nat] /\ done \in [Procs -> Nat]
    /\ ret \in [Procs -> Returns] /\ byte \in [Procs -> Int]
    /\ sig \subseteq Procs /\ rxwq \subseteq Procs

(* The file is open at most once, and n_users says so: "we prevent more    *)
(* than one user to open the device" (Report.pdf, 3.6), whatever the order *)
(* of opens, failed opens and releases of several processes.               *)
AtMostOneUser == nUsers = opens /\ opens <= 1

(* Between down and up of seri.c's mutex.                                  *)
InMutex(p) ==
    \/ p \in Readers /\ pc[p] \in {"rd_check", "rd_wait", "rd_sleep"}
    \/ /\ p \in Writers /\ locks
       /\ pc[p] \in {"wr_put", "wr_flag", "wr_get", "wr_out"}

(* The mutex of seri_read and seri_write excludes ("We eliminated race     *)
(* conditions using semaphores for the read and write system call"):       *)
(* never two processes inside, and its count is 1 when none is, 0 when one *)
(* is, over every error return.                                            *)
MutexExcludes ==
    /\ sem = IF \E p \in Procs : InMutex(p) THEN 0 ELSE 1
    /\ \A p, q \in Procs : InMutex(p) /\ InMutex(q) => p = q

(* The handler serves one source and leaves; the line is silent when on an *)
(* edge triggered line another source was pending beside it: INTR stays    *)
(* high, so there is no edge and the handler is not called again, until a  *)
(* write to the THR lets INTR fall.                                        *)
LineSilent == EdgeTriggered /\ ~ irr /\ INTR(uart)

(* The handler will be called for an empty THR, and look at txfifo.        *)
TxDue == uart.thri /\ Interrupted

(* No lost start of the transmitter: bytes in txfifo are on their way out, *)
(* because the THR is full, or the handler will be called for an empty     *)
(* one, or a writer is about to look at txflag or to fill the THR.  It     *)
(* relates the handler's txflag to the writers' use of it, for every point *)
(* where the interrupt may come.  The one exception is a silent line: it   *)
(* strands output, but output alone never silences the line, only a byte   *)
(* received does.                                                          *)
TxNeverStalls ==
    txfifo # <<>> =>
        \/ uart.thr # NoByte
        \/ TxDue
        \/ \E p \in Writers : pc[p] \in {"wr_flag", "wr_get", "wr_out"}
        \/ LineSilent /\ arrived > 0

(* txflag, the "flag for possible trasmission" (seri.c:44), is 0 only      *)
(* while the handler is still to be called for the transmitter, and will   *)
(* look at txfifo: a write that finds 0 may leave its bytes to it.  Again  *)
(* but for a line silenced by a byte received, where txflag stays 0 and    *)
(* nobody starts the transmitter.                                          *)
TxFlagReliable ==
    txflag = 0 => uart.thr # NoByte \/ TxDue \/ (LineSilent /\ arrived > 0)

(* A byte on its way, or none.                                             *)
InFlight(b) == IF b = NoByte THEN <<>> ELSE <<b>>
InHand      == IF cpu = Nobody THEN <<>> ELSE InFlight(byte[cpu])

Outgoing    == sent \o InFlight(uart.tsr) \o InFlight(uart.thr)
                    \o InHand \o txfifo

(* What has left on the line, what is in the chip, in a writer's hand and  *)
(* in txfifo is exactly what was accepted, in order: handler and writers   *)
(* together lose, repeat and reorder nothing.                              *)
TxFaithful == Outgoing = Ids(0, accepted)

(* No byte is sent twice, though the handler and a writer both take bytes  *)
(* out of txfifo and put them in the THR, at any point of each other.      *)
TxAtMostOnce ==
    \A i, j \in 1 .. Len(Outgoing) :
        i # j /\ Outgoing[i] = Outgoing[j] => Outgoing[i] = Garbage

(* What the handler queued reaches user space exactly once and in order,   *)
(* whoever reads: delivered bytes, then rxfifo, are all of queued, and     *)
(* queued is in the order of arrival.                                      *)
RxFaithful ==
    /\ delivered \o rxfifo = queued
    /\ \A i, j \in 1 .. Len(queued) : i < j => queued[i] < queued[j]

(* A read that returns 0 copied exactly count bytes (readTest.c:33 prints  *)
(* all of its buffer when read returns 0), though the mutex is released    *)
(* before kfifo_get and other readers and the handler run in between.      *)
ReadExact ==
    \A p \in Readers : pc[p] = "user" /\ ret[p] = "ok" => done[p] = count[p]

(* A reader that sleeps un-woken has no reason to run: no wake_up is lost  *)
(* between its test of the queue and its sleep.                            *)
NoLostWakeup ==
    \A p \in Readers : pc[p] = "rd_sleep" /\ p \in rxwq => Len(rxfifo) # count[p]

InTxfifo(b) == \E i \in 1 .. Len(txfifo) : txfifo[i] = b

(* Each byte queued for transmission is handed to the chip, whatever is    *)
(* written behind it, if the processor takes the interrupts that come;     *)
(* unless the line falls silent for good.                                  *)
TxDrains ==
    \A b \in 1 .. MaxTx : InTxfifo(b) ~> ~ InTxfifo(b) \/ []LineSilent

(* Ctrl-C out of reading (seri.c:262) and out of writing: a call that got  *)
(* a signal while asleep returns.                                          *)
SignalReturns == \A p \in Procs : p \in sig ~> pc[p] = "user"

(* A call returns, whatever the others do, whatever arrives, and whichever *)
(* of them a signal interrupts: any call with O_NONBLOCK (seri.c:255), and *)
(* a write of the LAB4 version, although a reader sleeps with the mutex.   *)
CallsReturn ==
    \A p \in Procs :
        (nonblock \/ (~ locks /\ p \in Writers)) /\ pc[p] # "user"
            ~> pc[p] = "user"
=============================================================================
