# Verification of SO_Praticas

TLA+ specifications, TLC runs and TLAPS proofs for the programs of this
repository: two Linux device drivers for the PC's serial port (`host/`) and the
programs of six problem sets (`Problem_Set_1` to `6`). The drivers are the core:
an interrupt handler, sleeping processes, signals and a UART meet in 450 lines of
C. The monitors of the last problem set come next, and then the small programs of
the others, with their threads, processes and partial reads.

Paths are relative to the repository. `seri.c` and `serp.c` without a path are
those of `host/201505870_201604453_201604317/`; `LAB3/serp` and `LAB4/seri` are
earlier versions (`LAB3/serp/serp.c` is the same file as the final one, `LAB4/seri/seri.c`
differs in `seri_write`, see below).

## Inventory

| Part | State it keeps | Operations | Talks to |
|---|---|---|---|
| `seri.c`, interrupt driven driver | per device: `n_users`, `txflag`, `mutex`, `rxfifo`, `txfifo`, `rxwq`, `txwq`; the UART | `seri_interrupt`, `seri_open`, `seri_release`, `seri_read`, `seri_write`, `seri_poll`, `seri_ioctl`, `seri_init`, `seri_exit` | the UART by `inb`/`outb`, processes by wait queues and the mutex, the kernel's `poll` |
| `serp.c`, polling driver | the UART; `rx_buffer`, used on a failed copy only | `serp_open`, `serp_release`, `serp_read`, `serp_write`, `w_char`, `serp_init`, `serp_exit` | the UART |
| `seri/test`, `serp/test` | the user's side of the 24 bits of a configuration; the descriptors of the device | `ioctlTest`, `nusersTest`; the others make one call of one operation | the drivers |
| `Problem_Set_6/stack.c`, `ex1.c` | array, `top`, a mutex and two condition variables | `init`, `push`, `pop`, `show`, `spfree`; `input`, `output` | threads through the stack |
| `Problem_Set_6/ex2.c` | `m`, `n`, `readers`, a mutex and a condition variable | `reader`, `writer` | threads through the counters |
| `Problem_Set_5/ex0.c`, `ex1.c`, `tfun.c` | a counter, a mutex | `increment`, `sfun`; `tfun`, without the mutex | threads through the counter |
| `Problem_Set_5/stack.c`, `ex2.c` | a linked list | `init`, `show`, `push`, and an empty `pop` | sequential |
| `Problem_Set_4` | arrays, and the argument and the return value of each thread | create, join, a partition of an array | threads |
| `Problem_Set_3` | processes, exit codes, the file of each process | `fork`, `wait`, `execv`, `open`, `write` | a process and its children |
| `Problem_Set_2` | files | copy, redirect, merge, sample, records | `ex3` writes what `ex3b` reads |
| `Problem_Set_1` | none | number and string functions | sequential |

What is hard, part by part, and what makes each correct:

* **seri.c.** The handler runs between any two instructions of a system call, and
  shares `txfifo`, `txflag` and the chip's registers with it. Readers sleep with the
  mutex held; signals end `down_interruptible` and `wait_event_interruptible`. `ioctl`
  redirects the data register to the divisor while it works. Correct means: bytes
  leave and arrive once and in order; queued bytes are on their way; no
  wake-up is lost; the mutex excludes; calls return when they should.
* **serp.c.** No lock at all; several readers and writers poll one chip.
  Correct means that writers do not overwrite each other's byte and readers do not
  read one twice.
* **The stack.** Two condition variables and spurious wake-ups; correct means that it
  behaves as an atomic bounded stack and that nobody waits for good.
* **Readers and writers.** Readers read outside the mutex; correct means that they see
  consistent counters, and that everybody ends.
* **Loading and unloading.** Both drivers want the one UART, their init functions sleep in
  allocations, and each call may fail when others have succeeded; devices can be
  opened before init has returned. Correct means that a loaded driver has the chip to
  itself, that the handler and open files find what they use, and that an unload, or a
  failed load, leaves nothing behind. seri keeps to that but for the region after a failure;
  serp does not (see `lifecycle`).
* **The small programs.** Threads get their arguments through arrays and return through
  `pthread_join`; `fork`, `open`, `read` and `write` may fail or come short, and no program
  looks. Correct means that no increment is lost under the mutex, that every element of the
  array is written by exactly one thread, that a parent gets its own child's code and leaves no
  zombie, that copies are whole however reads are cut (that of the sample is not), and that one program reads what
  another wrote: the records of `ex3` and `ex3b`, the configuration of `ioctlTest` and
  `seri_ioctl`.

`PROJECT.json` lists every component, those not modelled included, and every
hazard at the line where it bites with the properties that would catch it.

## Modules

| Module | Models | Used by |
|---|---|---|
| `Uart16550` | the chip: one access to a register, or one event of the line | both drivers |
| `Kfifo` | the kernel's byte queue | `SeriDriver` |
| `SeriDriver` | `seri_interrupt`, `open`, `release`, `read`, `write` | `SeriPoll`, `SeriIoctl`, `SeriProofs`, `MCSeri` |
| `SeriPoll` | the actions of `poll` on the state of `SeriDriver` | `SeriCalls` |
| `SeriIoctl` | the actions of `ioctl` on the state of `SeriDriver` | `SeriCalls` |
| `SeriCalls` | all of seri.c's calls on one open file | `MCSeriCalls` |
| `SerpDriver` | `serp_read`, `serp_write`, `w_char` | `SerpProofs` |
| `Lifecycle` | `seri_init`, `seri_exit`, `serp_init`, `serp_exit` on one kernel | `LifecycleProofs` |
| `BoundedStack` | what `push` and `pop` of `stack.c` do when each is one step: the abstract specification | `PthreadStack` |
| `PthreadStack` | `push`, `pop` and the threads of `ex1.c` | `PthreadStackProofs` |
| `ReadersWriters` | the threads of `ex2.c` | `ReadersWritersProofs` |
| `CommandLine` | a command and its `main`: what the small programs share | the next five |
| `SmallThreads` | the thread programs of `Problem_Set_4` and the counters of `Problem_Set_5` | `Programs` |
| `Processes` | `ex2` to `ex5` of `Problem_Set_3` | `Programs` |
| `FileCopies` | `ex1`, `ex2`, `ex4`, `ex5` of `Problem_Set_2` | `Programs` |
| `StudentRecords` | `ex3` and `ex3b` of `Problem_Set_2`, one after the other | `Programs` |
| `SeriTests` | `ioctlTest` and `nusersTest` of `seri/test`, with what they use of the driver | `Programs` |
| `Programs` | the shell running one of these programs | `MCPrograms`, `ProgramsProofs` |
| `UartProofs` | lemmas about the chip | `SeriProofs`, `SerpProofs` |
| `SeriProofs` | theorems about the types, the opens, the transmitter and the order of the bytes of `SeriDriver` | `SeriCallsProofs` |
| `SeriCallsProofs` | theorems about the readers and the mutex of `SeriDriver`, and about `poll` and `ioctl` in `SeriCalls` | |
| `SerpProofs`, `LifecycleProofs`, `PthreadStackProofs`, `ReadersWritersProofs`, `ProgramsProofs` | theorems about the module they are named after | |

The `MC*` modules add the symmetry sets and the few values a `.cfg` cannot write;
a module that needs neither is run as it is. Operators commented "Mutant" are the
plausible bugs that the properties were tried against: no specification uses them.

### The machine of the drivers

`host/disser.ko` was built for `2.6.19.7-so2011 mod_unload 686`: neither `SMP` nor
`preempt`. A process inside a system call keeps the CPU until it sleeps or
returns, and only the interrupt handler runs between two of its steps. The
variable `cpu` says which process is in the kernel (`Nobody`: user mode or idle);
a step of a process either starts with the CPU (`Runs`), or gets it (`Awake`), and
ends with keeping it (`Goto`) or giving it up (`Sleep`, `Return`). The handler runs
with interrupts off, so each of its branches is one action. Accesses to the `kfifo`s
are under a spinlock and are atomic.

A step of a process goes from one place where the handler can make a difference to
the next. `pc` has these values, with the lines they stand before:

| `pc` | place | `pc` | place |
|---|---|---|---|
| `user` | not in a call | `wr_down` | asleep in `down_interruptible`, 309 |
| `rd_down` | asleep in `down_interruptible`, 249 | `wr_put` | `kfifo_put`, 311 |
| `rd_check` | `while (kfifo_len != count)`, 253 | `wr_flag` | `if (txflag == 1)`, 316 |
| `rd_wait` | inside `wait_event_interruptible`, 262 | `wr_get` | `kfifo_get`, 317 |
| `rd_sleep` | asleep there | `wr_out` | `outb`, 318 |
| `rd_get` | `kfifo_get`, 274 | | |

The variables `txflag`, `sem`, `rxfifo`, `txfifo`, `rxwq`, `nUsers`, `nonblock` are the
fields of `struct seri_dev` and of the open file; `count` and `byte` are locals (`byte` is
`c` of `seri_write`, uninitialised when `kfifo_get` finds nothing: `Garbage`). `arrived`,
`sent`, `accepted`, `queued`, `delivered`, `done`, `ret` and `nsig` are history: the
properties compare what came with what left. `locks` is the version of `seri_write`: with the
mutex, as in the final driver, or without it, as in LAB4. It never changes; `LockModes` is the set of
versions that a run starts in. A byte is a tag, the n-th received or the
n-th accepted for transmission. The failure of `copy_from_user`, a write of no bytes and
a failed `kmalloc` touch nothing shared and are left out.

The interrupt line comes in two kinds. `EdgeTriggered = TRUE` is the ISA line of IRQ 4, on
which the handler is called for a rising edge, latched in `irr`; all runs have this one. `FALSE` is
a level triggered line; the theorems are about both. On the edge triggered line the
driver has a way to fall silent: while THRI is pending, not yet served, a byte arrives;
the handler serves the byte alone (seri.c:72), INTR stays high, and as there is no edge
any more, the handler is not called again. `LineSilent` is that state: INTR high and no
interrupt latched. `SlowLine` says that no byte leaves on the line during a
system call that does not sleep: at 1200 baud a byte takes 9 ms.

`Uart16550` is the chip in its reset mode, one byte each way (no FCR is ever written):
receive buffer, transmit holding and shift registers, the three interrupt sources in
their order of priority, DLAB. It is external: what the drivers' use of the registers
assumes of it.

### poll and ioctl

`SeriPoll` and `SeriIoctl` add their actions and variables to `SeriDriver`, and `SeriCalls`
composes the three: a process in `Others` polls or configures, call after call, each
action leaving the other's variables alone.
A pass of the kernel's `do_poll` is modelled around `seri_poll`: the mutex,
`poll_wait` on `rxwq`, the mask, and the sleep of a process that found nothing and that
nothing has woken. `txwq` is not a variable, because no code wakes it. `ioctl` keeps the
CPU but not the interrupts; its window between setting and clearing DLAB is three steps.

### Loading and unloading

`Lifecycle` takes each of the four functions call by call: the steps are the calls that
take something of the kernel's or give it back, with their failure branch, and `pc` and
`k` (the loop counter) say where each driver's function is. The two drivers interleave, and
with them `insmod`, `rmmod`, opens and closes. The registers of the UART are programmed by
`outb`s in a row, in one step. What a driver holds is five variables: `region`, `numbers`,
`memory` (the array of devices), `cdevs`, and for seri `queues` and `irq`. serp asks besides
for an `rx_buffer` per device (serp.c:172), and frees the array with the pointers in it and
not the buffers: `given` are the devices that ever got one, `lost` those whose buffer no
pointer leads to any more. A failed init
takes the module out of the kernel, whatever it holds; `failed` remembers it.

### The threaded programs

Each access of shared data by an unprotected thread is a step; what runs under the
mutex to its release and touches only what the mutex protects is one step, except the
two increments of `writer`, which are apart because others read the counters without it. `pthread_cond_wait` releases the mutex, waits to be
signalled or spuriously woken, and takes the mutex again.
`PthreadStack` has `Size + 1` slots, the last being the memory behind the array, because
`pop` reads there.

### The small programs

The programs of the problem sets 2 to 5, and two tests of seri, run by themselves. A behaviour of
`Programs` is one run of one program: `command` is the program with its arguments and
the files it finds, a choice of `Init` among all inputs within the bounds, and `main` is where its
main function is (`killed` after a trap). Each module has the variables of its programs and the
actions they take; `Programs` composes them, a step of one leaving the others' variables
alone, and once a main has ended only a child it did not wait for goes on.

* `SmallThreads`: main creates its threads one by one, each with an argument, and joins them in
  order. The test, lock, load, store and unlock of a turn of `increment`, `sfun` and `tfun` are
  steps; an `int` wraps at `IntMax`; `INT_MIN / -1` and a division by 0 trap, also that of `ex4`
  by no threads.
* `Processes`: a family of a parent, a child and a grandchild, each with its program counter,
  `stat`, exit code and file. `fork`, `open`, `write` and `execv` fail or succeed; a process that
  ends is a zombie until its parent waits for it or ends.
* `FileCopies`: a byte is its file and position. `read` returns any number of bytes up to what
  is left, `write` writes any part of what it is given, and the input may be missing or a directory.
  `JunkByte` is a byte of memory that `malloc` returned and nobody filled.
* `StudentRecords`: the file is a sequence of hexadecimal digits, newlines and NULs. `ex3b` keeps
  the same three bytes of buffer from one read to the next, as in the code.
* `SeriTests`: an `ioctl` is one step here, and its argument the 24 bits of the code; another
  process opens and closes the device beside `nusersTest`, and `met` remembers which of the test's
  opens found it there. Descriptors are the lowest free ones.

## Runs

Passing runs:

| Run | Question | Answer |
|---|---|---|
| `seri_safety` | do readers, a writer and the handler corrupt, lose or strand anything, on an edge triggered line? | bytes are received once and in order; a read of status 0 is exact; no wake-up is lost; at most one open file; the mutex excludes; no byte is sent twice; queued bytes are on their way and `txflag` can be relied on, except when a received byte has left the line silent |
| `seri_progress` | does everything end, with signals, both kinds of open and both versions of `seri_write`, at 1200 baud? | every byte leaves `txfifo`, or the line goes silent for good; an interrupted call returns; with O_NONBLOCK every call does, and so does a write of LAB4 though a reader sleeps with the mutex; one write after the greeting leaves whole |
| `seri_calls` | do `poll` and `ioctl` fit in with reads, whose copies may fail? | `poll` sleeps only without input, and returns when there is some, unless a reader that asks for more than is queued keeps the mutex for good; no divisor is sent as data |
| `serp` | can one chip be shared without a lock? | no byte is read twice or overwritten before it is sent; EIO means a loss; some writer always goes on |
| `stack` | is the monitor an atomic bounded stack? | yes, for whatever wake-ups, but not the one that `stack.h` promises: `BoundedStack` waits where that reports full or empty, and its `pop` returns not the element it removes but what was in the slot above; the holder alone is inside; all threads end |
| `readers_writers` | do readers see consistent counters? | yes; the count is exact, writers exclude readers, and the readers end |
| `lifecycle` | do the two drivers load and unload beside each other, with failures at each call? | a loaded driver has the region and the chip; the handler finds its queues; a complete load is undone but for serp's receive buffers, all of which are lost; a failed `seri_init` leaves at most the region; open files have their code |
| `programs` | does each small program do what it is for, on every input within the bounds and in every interleaving? | what threads are given to do is printed; slices of the array are apart; codes reach the parent, and no zombie remains; copies are whole, except that the sample is uninitialised behind a short read; `ex3b` shows what `ex3` wrote; `ioctlTest` shows what it set; `nusersTest` is refused when the device is in use, and only then; every program ends, unless its input cannot be read |

Runs that end in a violation, each a disagreement of the code with what a comment or a
test says; `PROJECT.json` quotes the line:

| Run | Disagreement |
|---|---|
| `seri_interrupted` | a signal in `down_interruptible` lets the call go on without the mutex |
| `seri_twowrites` | two writes in a row both start the transmitter, and the second overwrites the first's byte in the THR |
| `ioctl_divisor` | while `ioctl` has DLAB set, the handler writes data to the divisor |
| `rw_twowriters` | of two waiting writers one is never signalled, and `main` does not end |

Other disagreements met while modelling are visible in the definitions and need no
interleaving, so no run is spent on them: a reader sleeps while *more* bytes are queued than
it asked for (seri.c:253, `ReadMustWait`); a write that did not fit returns 0 (seri.c:312,
`WritePut`); bytes of a failed copy are gone, though seri.c:279 says they are stored
(`ReadGet`); POLLIN is reported for a device that is only writable (seri.c:233, `Mask`), and
nothing wakes a poller that waits for room (seri.c:228); `pop` reads and clears the slot above
the last element (Problem_Set_6/stack.c:41, `PopTake`), so that it returns what the pop just before it
removed, or no element, where stack.h:21 promises the element; and `push` waits where stack.h:20
promises 0. On an edge triggered line the handler, which serves one source per interrupt
(seri.c:72), may never be called again once two are pending together: what is then in `txfifo`
stays there (`LineSilent`, excepted by `TxNeverStalls`, `TxFlagReliable` and `TxDrains`). A poller waits
uninterruptibly, though there is input, while a reader that asks for more sleeps with the mutex (seri.c:225,
`ReaderHoldsOn`, excepted by `PollReturns`). No unload of serp frees its receive buffers (serp.c:172). A load that fails after
`request_region` keeps the region, so that neither driver loads again (seri.c:373, serp.c:205),
though seri.c:428 and serp.c:254 clean up; `serp_init`, where a comment asks to "fail gracefully"
(serp.c:178), leaves all that it has taken when a later device cannot be added; `seri_init`
reports success without its interrupt (seri.c:421); `seri_exit` frees the queues before the
handler that uses them (seri.c:441), and `serp_exit` says "Bye!" on a port that it has
given back (serp.c:264, 277).

In the small programs: `tfun` loses increments, down to two in all (`ThreadAnswers`; the code has it
for that). `ex1.c` and `ex5.c` of `Problem_Set_2` never end once a read fails, because they wait
for 0 (`Read`, and the last disjunct of `ProgramsEnd`). `ex5.c` means to give standard output
back with `dup2(std, STDOUT_FILENO)`, but `std` is that same number, so its report goes to the
output file; without an output file `std` is uninitialised (`CopyClose`). `ex4.c` writes a whole sample even if its read came short, the rest from memory that nobody
filled (ex4.c:50, `Sample`). In `ex3b.c` the third
byte of the buffer and `name` are uninitialised until they are first cleared, so the name and
the first grade of the first student may be wrong (`RecordsRead` claims what is sure). `ex2.c`
of `Problem_Set_3` does not truncate its files, so that the two are equal only if they were equal
(`WriteFile`, `FamilyResults`), and waits with `waitpid` for its parent, which fails at once;
its processes and those of `ex3.c` and `ex4.c` do not look at what `fork` and `open` return.

Read and not modelled: `no_months` of `Problem_Set_1/ex6.c` stops at the first month it finds,
takes January for "not found", and computes `12 - x - y` where it means `12 - x + y`; `Problem_Set_3/ex1.c`
frees the string that `getenv` returned; `Problem_Set_2/ex1.c` prints a full buffer with
`%s`, although nothing ends it; `pop` of `Problem_Set_5/stack.c` has no body.

### Bounds

`FIFO_SIZE` is 128 in the code and 2 in the runs, with up to 3 arriving and 3
accepted bytes: enough to fill a queue, overflow it, empty it, and do so again.
Read counts 1 and 2 make a reader see fewer bytes, as many, and more than it asked for. Two
readers, or a reader and a writer, are the fewest for a conflict on the mutex, and the greeting
and one write for a conflict on `txflag`; a third process adds another waiter of the same kind.
`MaxSignals` is 2: one to break the mutex, one more. `MaxRx`, `MaxTx`,
`MaxSignals`, `MaxIoctls` and `Rounds` bound history only: they are guards of what the
environment does, and a state at a bound is a state in which nothing more happens
to come. What eventually happens must not be due to a bound: `TxDrains` follows
each byte, whatever is queued behind it; and of serp's writers `SerpWritersAdvance` claims only that together they
advance, since without `MaxTx` another writer can have filled the THR each time one of them
wakes (serp.c:65), for ever. `seri_calls` has a reader that asks for 1 byte or 2 of a
queue of two, so that it can sleep with the mutex while the poller's input is there. Its greeting fills the transmit queue, since
`seri_poll` reports POLLIN for room there too (seri.c:228): a poll sleeps only while both say no. It has no
writer: between `poll`, `ioctl` and a write nothing interleaves but the handler, which has the greeting to send. Runs of the drivers do not check
deadlock: once the bounds are reached, all processes may be in user mode or wait for a
byte that does not come, as in the real system. `lifecycle` has two devices per
driver, so that a load can fail at the first, in between and at the last, two open files each,
and no bound on loads; it is checked for deadlock. The threaded programs have an explicit
`Terminating` step and are checked for deadlock, except in `readers_writers`, where a writer
may remain waiting (`rw_twowriters` shows it).

`seri_progress` writes two bytes at a time: `TxFaithful` holds of one such write. With a
one byte write the handler may already have sent it when the writer, which has found
`txflag = 1`, takes a byte from the empty queue, and with two writes the second
overwrites the first. `seri_twowrites` has a queue of four and writes of two bytes, on a slow line, so that
the first of these does not happen and its trace shows the second. `OneWriteFaithful` below proves it of one write of
any two bytes or more. `seri_safety` has signals off, for with them the
mutex does not exclude (`seri_interrupted`); `seri_progress` has them.

`programs` runs every program on every input within its bounds. An `int` is -4 to 3, where the
four operations overflow in both directions and every division, the trapping ones included, occurs.
There are up to 4 threads and 5 elements, so fewer, as many and more threads than elements, with
and without a remainder, and none. Each thread of a counter makes 0 to 2 increments: with 2, one
thread can overwrite all that the others did in between. A buffer of 2 bytes and files of 0, 1 and
5 take no read, one and several, the last one partial; 2 letters make 4 parts, so that the second
letter wraps, each part missing, empty or of 3 bytes. Samples are of files of 0, 9, 10 and 25
bytes, read whole or short, at offsets before, at, inside, near and beyond the end, where a tenth is nothing, one
byte, and more than is left. PATH is 2 bytes long, and the files it is written to are empty or longer. The
two students have every combination of an empty name, a name of two digits and one with a
character of one digit, and of grades of one and of two digits; what lies behind the buffer is a
digit or not. `SeriTests` has every setting of `ioctlTest`.

### Fairness

Weak fairness of the handler: a pending interrupt is taken. Weak fairness of loading the
shift register and strong fairness of shifting out: the UART's clock runs, and under
`SlowLine` each system call only puts the end of a byte off. Weak fairness of each
process inside a call: the scheduler runs a process that can run; nothing obliges a
process to call, a byte to arrive or a signal to be sent. Two pollers, and the processes of
`SerpDriver`, need strong fairness: the others take the CPU with one short call after
another, so that a woken process is ready again and again rather than always, and the
scheduler gives it its turn. The threaded programs use strong fairness of
each thread, since a mutex is taken and released many times while a thread waits for it:
a thread that is again and again able to take a free mutex some day does. The small programs
need weak fairness only, of main, of each thread and of each process: the scheduler runs what can run,
and no mutex is asked for more often than the bounds allow. The other user of the device in
`SeriTests` need not do anything.

## Proofs

`ReadersWritersProofs` proves, for any finite set of readers, any writers and any number
of rounds, the four invariants that `readers_writers` checks: `TypeCorrect`, `ReadersCounted`,
`WritersAlone`, `ReadersConsistent`. That readers see equal counters is not inductive. The
argument: the holder of the mutex is unique (`TypeOK`); `readers` is the number of readers
that are counted in; a writer between its two increments has found it 0 and holds the mutex,
so nobody is counted in; hence `m = n` whenever anybody is, and a reader keeps the value it
read, `m1 = m`, until it leaves.

`SeriProofs` proves for any processes, queue size, greeting, counts, bounds and signals,
both kinds of line and both versions of `seri_write`:

* `OneUser`: at most one open file. `nUsers = opens` is inductive as it stands.
* `SeriTypes`: the types of everything `TypeOK` names. The arithmetic is in `nUsers`, `sem` and the
  bounds of the queues; a `kfifo` never holds more than it has room for. `TypeOK` says of `pc` only that it
  is a function on the processes, since the provers do not know that a string literal is a `STRING`.
* `SentOnce`: no byte leaves twice. A byte on its way out is in `txfifo`, in a writer's hand, in
  the THR, in the shift register or gone, and `OnceInv` says that these five are disjoint, that each holds
  a byte once, and that none holds one that has not been accepted yet. Bytes may get lost, be
  overtaken or replaced by garbage (`seri_twowrites`), but none doubles; the theorem asks for no
  mutex either.
* `OrderKeptByIdleStarts`: `TxFaithful`, which is false in general (`seri_twowrites`), under one condition:
  a writer that finds `txflag = 1` finds what that is meant to say, an idle transmitter
  (THR empty, no interrupt of it due) and a byte in `txfifo` (`Startable`). Every byte that seri.c, without its `ioctl`, loses after accepting it, sends out of
  turn or makes up therefore goes back to a stale `txflag`, and to nothing else: not to signals, not to the
  missing mutex of LAB4, not to the handler. The five places are in a row (`InRow`), and a byte
  goes on to the next one only when that is empty: for the shift register and the handler the chip sees to it
  (`ThreClear`: a full THR has no interrupt due), for a writer its start does (`Started`: from its look at `txflag` to
  its `outb` the THR stays empty and without an interrupt, so that the handler takes nothing either).
* `OneWriteFaithful`: one case in which the condition holds, proved without it. After the
  greeting one writer writes once (`OneWrite`: a second write would go beyond `MaxTx`), two bytes or more, to
  a queue with room for one, on a slow line. `FirstInv` follows the write: `Before` it, `txflag = 1` is true
  because nobody has started the chip since the handler set it (`IdleFlag`); `During` it, from `kfifo_put` to the look at
  `txflag`, the handler can take two bytes at most, into the THR and, once that is loaded, into the THR again, before the line
  sends one. So `txfifo` is empty only after the handler has cleared `txflag` and filled
  both (`TwoHeld`), and then no interrupt comes that would find the queue empty. `After` it no write begins. The constants of `seri_progress` satisfy `OneWrite`. With a byte only, with a line that
  sends during the call, or with a second write, it fails.
* `NeverStalls` and `FlagReliable`: while bytes are in `txfifo` the transmitter is busy, or a writer is
  about to start it, or a THRE interrupt is due that the line will deliver (`TxDue`: THRI pending, and an edge
  latched or, on the level triggered line, INTR high); and `txflag = 0` only while such an
  interrupt is to come. The exception, `LineSilent` after a byte has arrived, is part of both
  statements, for it is what the code does. Neither is inductive alone: a
  writer leaves its bytes to the handler because `txflag` is 0, and a byte in the THR
  counts because DLAB is clear and no byte is `NoByte`. `TxInv` adds the types of the
  chip, of the queue and of the writers' locals; `EdgeInv` says that where nothing has been
  received, THRI is the only source, so that INTR is THRI and every THRI has had its edge. Note what
  it does not need: the mutex. The handshake of `txflag` with the handler is safe even for writers that a signal has
  let in together, or that take no mutex; what goes wrong then is the order of bytes
  (`seri_twowrites`), not the progress of the transmitter. The `ioctl` of the same driver
  does break it, because it breaks the premise that DLAB is clear: `SeriProofs` is about
  `SeriDriver`, without `ioctl` (`ioctl_divisor` is the same interleaving).
* `OutputAloneMoves`: the same without the exception, if the line is level triggered or nothing is
  received. So a received byte, on the edge triggered line, is the only thing that stops the transmitter.

`SeriCallsProofs` goes on from `TxInv` to the readers, and then to all calls together:

* `ReadsExact` and `WakeupsKept` hold for any signals. What protects a reader from the others
  between its test and its `kfifo_get` is that it keeps the CPU, not the mutex, which it has
  already released: `ReadInv` says that a reader at work has the CPU, and that one past the
  loop (`GetReady`) finds its `count` bytes, or more with all sleepers woken, since only the handler
  runs before its `kfifo_get`, and the handler wakes all for each byte it adds. `WakeupsKept` asks for reads
  of at least one byte: one of none sleeps beside an empty queue.
* `MutexWorks`: without signals (`MaxSignals = 0`) the mutex excludes, for any processes and
  over every return. The invariant also says that no signal is pending and that a writer
  asleep in `down_interruptible` is of the version that takes the mutex. With a signal the property
  is false (`seri_interrupted`), so the premise cannot be weakened.
* `Reception`: if copies do not fail, delivered bytes followed by `rxfifo` are all that was
  queued, in the order of arrival. For the order, the byte in the RBR, if any, is the one that arrived
  last, and all that were queued came before it.
* `PollsNotLost`, of `SeriCalls`: no poller sleeps beside input. It joins `rxwq` before it looks at `rxfifo`
  (`PollInv` has the pass from the look on), the handler empties `rxwq` with every byte it queues, and nobody else
  adds a byte.
* `DivisorsKept`, of `SeriCalls`: no divisor goes out as data. `TxInv` does not hold of `SeriCalls`, so this has an
  invariant of its own: a process with DLAB set keeps the CPU to the end of its window
  (`WindowOpen`), the handler never writes the LCR, and outside the window the THR gets
  bytes of data only, the garbage of `seri_write` included. `IoctlAssumption` therefore keeps the
  divisors apart from `Garbage`, as from the tags of bytes.

`SerpProofs` proves that serp, for any processes and without a lock, sends each byte once and in order
(`SerpTransmits`) and reads none twice (`SerpReceives`). `SerpInv` holds the reason: a process
between its look at the LSR and its `inb` or `outb` has the CPU, and the line, which alone runs
then, does not undo what it saw: it never fills the THR nor empties the RBR. `TxInv` adds that
what is in flight is a sequence; `RxInv` that a byte somebody has read is not in the RBR and
not newer than the last arrival. `SerpReportsLosses`: no more reads end in EIO than bytes were overwritten;
`LossInv` counts a set OE as one loss still to be told.

`LifecycleProofs` proves the five invariants of `lifecycle` for any number of devices and open
files and whatever the kernel refuses. They speak of drivers that are loaded or absent, so
none is inductive: `LifeInv` says what a driver holds at each step of its init and exit.
Its heart is `RegionOf`: a driver between `request_region` and `release_region` is the
region's owner, the owner is there or has failed half-way, and one that has failed
never gets past `request_region` again; hence only one driver at a time programs the chip.
`Allocated`, `Openable` and `OfHandler` follow `pc` and `k` for the rest: the queues that exist
are `0 .. k - 1` while seri is set up and `k .. SERI_DEVS - 1` while it is torn down. `UnloadIsClean` says
of serp's receive buffers that all it was ever given are lost once it is unloaded: its array
holds the pointers (`OfBuffers`), and is freed first.

`PthreadStackProofs` proves for any threads, size and numbers of pushes and pops that the
holder of the mutex alone is inside (`StackTypes`), and that the array below `top` implements
`BoundedStack` (`StackRefines`): the store of `push` is the abstract push, the take of `pop` the
abstract pop, with its result, and every other step a stutter. For the result, no slot above `top` holds an
element and the one at `top` at most the element removed last (`SlotsInv`), which `removed` maps to. Neither is inductive without `Inside`: a thread that
has found room, or an element, still has it when it stores or takes, because it has held the
mutex since, however it was woken.

`ProgramsProofs` proves of the small programs all six invariants of the run `programs`, each from
`ProgramsSpec` as it is run. `OneProgram` says that only the program that runs takes steps, so each
has an invariant of its own:

* `SlicesDisjoint`: for any size of the array and any number of threads the slices are inside it and
  apart. `FillInv` gives the start of slice `t` in closed form, `t * q + min(t, e)` for a share
  `q` and a remainder `e`, and the lemma `Shares` shows that shares follow one another and
  that the last ends with the array.
* `ThreadsAnswer`: what is printed at the end is right, for every input. `StagesInv` is the order
  that all thread programs share: threads are created from 0 on, each with its argument, and joined
  in that order, so that at the end every one has returned. Then, program by program: `ReturnsInv` has what
  a thread returns, and `QuotientRight` and `IntUnwrapped` that it is the arithmetic one where an `int` does
  not overflow; `FilledInv` that the slices of the threads joined so far are written and that one thread does not
  write another's; `CounterInv` counts, in `Made(t)`, a turn of the loop from its store on.
  Under the mutex (`Excluded`) a thread between lock and unlock is alone and has loaded the present
  counter, which is therefore the sum of all turns (`NoIncrementLost`). Without it (`Racy`) a store may take
  the counter back, but no thread that has made a turn ever stores 1 again, which is why
  `tfun` ends with at least 2; and never with more than was made.
* `TestersReport`: `Layouts` computes the three layouts of the 24 bits against each other over
  all settings; `NusersInv` has `n_users` equal to the users there are, whatever `fd0` means when
  `nusersTest` closes it for the second time, and hence a refusal exactly where the other process, or
  `fd0` itself, has the device (`Refusals`).
* `FamiliesEndWell`: a process past its `wait` has a child that is gone for good, or never had one, and in
  `stat` what that child left (`WaitInv`); each of the two files of `ex2.c` is as it was, or filled once
  (`FileInv`).
* `CopiesAreWhole`: what is in the output is the input up to the byte that is in the buffer first, if no write came
  short (`CopyInv`). The sample, read once, is the input as far as that read came, and `JunkByte`s from there on. Of merge, the bytes in the output are those of the parts before the present one and of this
  one up to there, and are in order (`MergeInv`). The reference of merge is not a recursive concatenation but
  what characterises it: the bytes of the parts before the first one missing, each once, in order.
* `RecordsComeBack`: the records lie one behind the other in the file, the n-th from `f[n]` to
  `f[n + 1]` (`LaidOut`; `f` is existential, so that no sum of lengths has to be computed), and
  `ex3b` is at a letter of the student after those it has shown (`Reading`). Its buffer's third byte is what the
  stack held for the first student and NUL from then on, which decides how much of the first
  record is sure.

Proving changed the model in some places. Two `CASE`s with overlapping guards (`First` of `Processes`,
`IIR` of `Uart16550`) were right only in the order in which TLC tries them, and name their
priorities now. The reference of merge, the bytes of a record and `strtol` are written without recursion.
`IoctlAssumption` and `RecordsAssumption` say what was meant of divisors and of students.

The constants' assumptions used are those named in the modules: disjoint sets of
processes or threads, a queue or stack size of at least 1, a greeting that fits, natural numbers for the
bounds. Theorems that need more say so (`MaxSignals = 0`, `0 \notin ReadSizes`, `~ CopyFaults`).

Only model-checked: everything temporal under fairness (liveness is outside the prover's
reach, as is ENABLED). Every invariant of the passing runs is the subject of a theorem, and so is the refinement;
`TxFaithful`, false in general, is so under the premises above. No
recursive operator is used.

## Plan

Done: the drivers (`Uart16550`, `Kfifo`, `SeriDriver`, `SeriPoll`, `SeriIoctl`, `SeriCalls`, `SerpDriver`,
`Lifecycle`), the monitors (`BoundedStack`, `PthreadStack`, `ReadersWriters`) and the small programs
(`Programs` with its five parts), with their runs, and the proofs above.

Left, in this order:

1. `SeriDriver` with several devices: `seri1` to `seri3` have their own state but no handler
   serves them, so that a reader of one sleeps for good.
2. Line errors in `SeriDriver`, if the handler ever does more with them than print.

## Not modelled

* Of the drivers: device numbers, `printk`, parity and framing errors (their branch only prints),
  `llseek`, the contents of serp's `rx_buffer`, which keeps the bytes of a failed copy for nobody, and a
  failure of `kfifo_alloc`, which answers with an error pointer that `seri_setup_cdev` takes for a
  queue: what follows is whatever lies at that address. The failure of `copy_from_user`, a write of no
  bytes and a failed `kmalloc` touch nothing shared.
* The tests of the drivers that make a single call: the runs of the drivers contain it.
* `Problem_Set_1`, `Problem_Set_3/ex1.c` and the linked stack of `Problem_Set_5`: a screen of
  sequential code each, that computes something of its arguments and prints it. A model would
  restate the code, and a unit test reaches all of it.
* `spfree` of `Problem_Set_6/stack.c`, which nothing calls; a failing `pthread_create`; what the
  programs print for the user beyond their result.
* Build files, load scripts and binaries.

The chip, the kernel's scheduler, semaphores, wait queues, `kfifo` and `poll`, the pthread library and
the system calls are modelled from how the code uses them and marked external.
