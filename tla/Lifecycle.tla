----------------------------- MODULE Lifecycle -----------------------------
(***************************************************************************)
(* Loading and unloading the two drivers of the one UART, seri.c and       *)
(* serp.c, on one kernel.  insmod and rmmod of one driver interleave with  *)
(* those of the other, with users who open the devices, and with one       *)
(* another's failures: each call of seri_init, seri_exit, serp_init and    *)
(* serp_exit that takes or gives back something of the kernel's is a step. *)
(* An allocation may sleep, so the CPU may go elsewhere in between.        *)
(***************************************************************************)
EXTENDS Integers, FiniteSets

CONSTANTS
    Devs,        \* SERI_DEVS, SERP_DEVS: the devices of each driver
    MayFail,     \* what the kernel may refuse: see Failures
    MaxFiles     \* bound: open files of each driver

Drivers  == {"seri", "serp"}
NoDriver == "none"
Failures == {"numbers", "memory", "cdev", "irq"}

ASSUME LifecycleAssumption ==
    /\ Devs \in Nat \ {0}
    /\ MayFail \subseteq Failures
    /\ MaxFiles \in Nat

VARIABLES
    region,   \* who holds the I/O region at UART_BASE
    numbers,  \* the drivers that hold device numbers
    memory,   \* the drivers whose array of devices is allocated
    queues,   \* the devices of seri whose kfifos are allocated
    cdevs,    \* the devices of each driver that can be opened
    irq,      \* whether seri_interrupt is registered for IRQ 4
    given,    \* the devices of serp for which it was ever given an rx_buffer
    lost,     \* those of them whose rx_buffer no pointer leads to any more
    chip,     \* the driver that has programmed the UART last
    module,   \* the kernel's state of each module
    pc, k,    \* where its init or exit is, and the loop counter i
    files,    \* the open files of each driver's devices
    failed    \* history: the drivers of which a load failed half-way

buffers == <<given, lost>>
taken   == <<region, numbers, memory, queues, cdevs, irq, buffers>>
vars    == <<taken, chip, module, pc, k, files, failed>>

Init ==
    /\ region = NoDriver
    /\ numbers = {} /\ memory = {} /\ queues = {} /\ irq = FALSE
    /\ given = {} /\ lost = {}
    /\ cdevs = [d \in Drivers |-> {}]
    /\ chip = NoDriver
    /\ module = [d \in Drivers |-> "absent"]
    /\ pc = [d \in Drivers |-> "idle"]
    /\ k = [d \in Drivers |-> 0]
    /\ files = [d \in Drivers |-> 0]
    /\ failed = {}

At(d, from)   == pc[d] = from
Goto(d, to)   == pc' = [pc EXCEPT ![d] = to]
Become(d, st) == module' = [module EXCEPT ![d] = st]

-----------------------------------------------------------------------------
(* The kernel: insmod, rmmod and open.  A module with open files is not    *)
(* unloaded, one that is being unloaded is not opened.  A device that a    *)
(* failed load has left asks freed memory: it may be opened at any time.   *)

Insmod(d) ==
    /\ module[d] = "absent"
    /\ Become(d, "coming")
    /\ Goto(d, "region")
    /\ UNCHANGED <<taken, chip, k, files, failed>>

(* init returns 0, or an error, before it has taken anything or after: then*)
(* the module's memory is freed, open files or not.                        *)
Loaded(d)     == Become(d, "live") /\ Goto(d, "idle") /\ UNCHANGED failed
Refused(d)    == Become(d, "absent") /\ Goto(d, "idle") /\ UNCHANGED failed
LoadFailed(d) == Become(d, "absent") /\ Goto(d, "idle") /\ failed' = failed \cup {d}

Rmmod(d) ==
    /\ module[d] = "live"
    /\ files[d] = 0
    /\ Become(d, "going")
    /\ Goto(d, "x_region")
    /\ UNCHANGED <<taken, chip, k, files, failed>>

Open(d) ==
    /\ module[d] \in {"coming", "live"} \/ d \in failed
    /\ cdevs[d] # {}
    /\ files[d] < MaxFiles
    /\ files' = [files EXCEPT ![d] = @ + 1]
    /\ UNCHANGED <<taken, chip, module, pc, k, failed>>

Close(d) ==
    /\ files[d] > 0
    /\ files' = [files EXCEPT ![d] = @ - 1]
    /\ UNCHANGED <<taken, chip, module, pc, k, failed>>

-----------------------------------------------------------------------------
(* seri_init and serp_init                                                 *)

(* Mutant: the result of request_region is not looked at. *)
RequestRegionUnchecked(d) ==
    /\ At(d, "region")
    /\ region' = IF region = NoDriver THEN d ELSE region
    /\ Goto(d, "numbers")
    /\ UNCHANGED <<numbers, memory, queues, cdevs, irq, buffers, chip, module, k,
                   files, failed>>

RequestRegion(d) ==
    /\ At(d, "region")
    /\ \/ /\ region = NoDriver
          /\ region' = d
          /\ Goto(d, "numbers")
          /\ UNCHANGED <<module, failed>>
       \/ /\ region # NoDriver
          /\ Refused(d)
          /\ UNCHANGED region
    /\ UNCHANGED <<numbers, memory, queues, cdevs, irq, buffers, chip, k, files>>

(* A failure returns at once, and the region stays taken.                  *)
AllocNumbers(d) ==
    /\ At(d, "numbers")
    /\ \/ /\ numbers' = numbers \cup {d}
          /\ Goto(d, "memory")
          /\ UNCHANGED <<module, failed>>
       \/ /\ "numbers" \in MayFail
          /\ LoadFailed(d)
          /\ UNCHANGED numbers
    /\ UNCHANGED <<region, memory, queues, cdevs, irq, buffers, chip, k, files>>

(* A failure gives back the numbers (fail_malloc), and not the region.     *)
AllocDevices(d) ==
    /\ At(d, "memory")
    /\ \/ /\ memory' = memory \cup {d}
          /\ Goto(d, "setup")
          /\ k' = [k EXCEPT ![d] = 0]
          /\ UNCHANGED <<numbers, module, failed>>
       \/ /\ "memory" \in MayFail
          /\ numbers' = numbers \ {d}
          /\ LoadFailed(d)
          /\ UNCHANGED <<memory, k>>
    /\ UNCHANGED <<region, queues, cdevs, irq, buffers, chip, files>>

AddCdev(d) == cdevs' = [cdevs EXCEPT ![d] = @ \cup {k[d]}]
NextDev(d) == k' = [k EXCEPT ![d] = @ + 1]

(* seri_setup_cdev only reports that cdev_add failed; the loop goes on.    *)
SeriSetup ==
    /\ At("seri", "setup") /\ k["seri"] < Devs
    /\ queues' = queues \cup {k["seri"]}
    /\ \/ AddCdev("seri")
       \/ "cdev" \in MayFail /\ UNCHANGED cdevs
    /\ NextDev("seri")
    /\ UNCHANGED <<region, numbers, memory, irq, buffers, chip, module, pc, files,
                   failed>>

(* serp_setup_cdev asks for the receive buffer of the device, and does not *)
(* look whether it got it.  An error of cdev_add it returns, and so does   *)
(* serp_init: the devices added before can still be opened.                *)
SerpSetup ==
    /\ At("serp", "setup") /\ k["serp"] < Devs
    /\ \/ given' = given \cup {k["serp"]}
       \/ "memory" \in MayFail /\ UNCHANGED given
    /\ \/ /\ AddCdev("serp")
          /\ NextDev("serp")
          /\ UNCHANGED <<module, pc, failed>>
       \/ /\ "cdev" \in MayFail
          /\ LoadFailed("serp")
          /\ UNCHANGED <<cdevs, k>>
    /\ UNCHANGED <<region, numbers, memory, queues, irq, lost, chip, files>>

(* The registers of the UART, in one go: no call in between sleeps.        *)
Configure(d) ==
    /\ At(d, "setup") /\ k[d] = Devs
    /\ chip' = d
    /\ Goto(d, "greet")
    /\ UNCHANGED <<taken, module, k, files, failed>>

(* serp_init sends its greeting itself, and sleeps as it does.             *)
SerpGreet ==
    /\ At("serp", "greet")
    /\ Loaded("serp")
    /\ UNCHANGED <<taken, chip, k, files>>

(* Mutant: an init whose request_irq failed reports it, as it is. *)
RequestIrqReports ==
    /\ At("seri", "greet")
    /\ \/ /\ irq' = TRUE
          /\ Loaded("seri")
       \/ /\ "irq" \in MayFail
          /\ LoadFailed("seri")
          /\ UNCHANGED irq
    /\ UNCHANGED <<region, numbers, memory, queues, cdevs, buffers, chip, k, files>>

(* seri_init queues its greeting and asks for the interrupt: not getting   *)
(* it is only reported, and the load succeeds.                             *)
RequestIrq ==
    /\ At("seri", "greet")
    /\ \/ irq' = TRUE
       \/ "irq" \in MayFail /\ UNCHANGED irq
    /\ Loaded("seri")
    /\ UNCHANGED <<region, numbers, memory, queues, cdevs, buffers, chip, k, files>>

-----------------------------------------------------------------------------
(* seri_exit and serp_exit                                                 *)

ReleaseRegion(d) ==
    /\ At(d, "x_region")
    /\ region' = NoDriver
    /\ k' = [k EXCEPT ![d] = 0]
    /\ Goto(d, "x_devices")
    /\ UNCHANGED <<numbers, memory, queues, cdevs, irq, buffers, chip, module, files,
                   failed>>

(* Mutant: one device too few. *)
RemoveDeviceButLast(d) ==
    /\ At(d, "x_devices") /\ k[d] < Devs
    /\ queues' = IF d = "seri" THEN queues \ {k[d]} ELSE queues
    /\ cdevs' = [cdevs EXCEPT ![d] = IF k[d] < Devs - 1 THEN @ \ {k[d]} ELSE @]
    /\ NextDev(d)
    /\ UNCHANGED <<region, numbers, memory, irq, buffers, chip, module, pc, files,
                   failed>>

(* kfifo_free, which serp has not, and cdev_del.                           *)
RemoveDevice(d) ==
    /\ At(d, "x_devices") /\ k[d] < Devs
    /\ queues' = IF d = "seri" THEN queues \ {k[d]} ELSE queues
    /\ cdevs' = [cdevs EXCEPT ![d] = @ \ {k[d]}]
    /\ NextDev(d)
    /\ UNCHANGED <<region, numbers, memory, irq, buffers, chip, module, pc, files,
                   failed>>

(* Mutant: free_irq is forgotten. *)
FreeIrqForgotten ==
    /\ At("seri", "x_devices") /\ k["seri"] = Devs
    /\ Goto("seri", "x_memory")
    /\ UNCHANGED <<taken, chip, module, k, files, failed>>

(* The handler has been registered until now, and its queues are gone.     *)
FreeIrq ==
    /\ At("seri", "x_devices") /\ k["seri"] = Devs
    /\ irq' = FALSE
    /\ Goto("seri", "x_memory")
    /\ UNCHANGED <<region, numbers, memory, queues, cdevs, buffers, chip, module, k,
                   files, failed>>

(* kfree of the array, with the pointers to serp's receive buffers in it.  *)
FreeDevices(d) ==
    /\ At(d, IF d = "seri" THEN "x_memory" ELSE "x_devices") /\ k[d] = Devs
    /\ memory' = memory \ {d}
    /\ lost' = IF d = "serp" THEN given ELSE lost
    /\ Goto(d, "x_numbers")
    /\ UNCHANGED <<region, numbers, queues, cdevs, irq, given, chip, module, k,
                   files, failed>>

Unloaded(d) == Become(d, "absent") /\ Goto(d, "idle")

(* The last act of seri_exit; serp_exit still says "Bye!".                 *)
FreeNumbers(d) ==
    /\ At(d, "x_numbers")
    /\ numbers' = numbers \ {d}
    /\ \/ d = "seri" /\ Unloaded(d)
       \/ d = "serp" /\ Goto(d, "x_bye") /\ UNCHANGED module
    /\ UNCHANGED <<region, memory, queues, cdevs, irq, buffers, chip, k, files, failed>>

(* w_char, sleeping, on a UART that may be another driver's by now.        *)
SerpBye ==
    /\ At("serp", "x_bye")
    /\ Unloaded("serp")
    /\ UNCHANGED <<taken, chip, k, files, failed>>

-----------------------------------------------------------------------------
load(d) ==
    \/ RequestRegion(d) \/ AllocNumbers(d) \/ AllocDevices(d) \/ Configure(d)
    \/ d = "seri" /\ (SeriSetup \/ RequestIrq)
    \/ d = "serp" /\ (SerpSetup \/ SerpGreet)

unload(d) ==
    \/ ReleaseRegion(d) \/ RemoveDevice(d) \/ FreeDevices(d) \/ FreeNumbers(d)
    \/ d = "seri" /\ FreeIrq
    \/ d = "serp" /\ SerpBye

Next == \E d \in Drivers :
    Insmod(d) \/ Rmmod(d) \/ Open(d) \/ Close(d) \/ load(d) \/ unload(d)

Spec == Init /\ [][Next]_vars

-----------------------------------------------------------------------------
(* What d holds of the kernel's, serp's receive buffers apart.             *)
Holds(d) ==
    \/ region = d \/ d \in numbers \/ d \in memory \/ cdevs[d] # {}
    \/ d = "seri" /\ (queues # {} \/ irq)

(* A driver that is loaded owns the region, has its array and numbers, and *)
(* the chip is programmed as it wants: whatever the other driver's loads   *)
(* and unloads do at the same time.                                        *)
LoadedOwnsChip == \A d \in Drivers :
    module[d] = "live" => region = d /\ chip = d /\ d \in memory \cap numbers

(* The handler is registered only while seri's code and its array of       *)
(* devices are there, and outside seri_exit its queues, so that an         *)
(* interrupt finds all that it uses.                                       *)
HandlerHasAll == irq =>
    /\ module["seri"] \in {"live", "going"} /\ "seri" \in memory
    /\ module["seri"] = "live" => 0 \in queues

(* A driver that is not in the kernel, and whose loads were complete or    *)
(* refused the region, holds nothing that could be met again: it can be    *)
(* loaded and unloaded again and again, the other driver's loads in        *)
(* between.  Of serp that is all: serp_exit frees no rx_buffer, so that    *)
(* every one its loads were ever given is lost to the kernel by then.      *)
CleanUnload == \A d \in Drivers :
    module[d] = "absent" /\ d \notin failed =>
        ~ Holds(d) /\ (d = "serp" => lost = given)

(* seri, absent, leaves at most the region behind, whichever call of its   *)
(* init failed: nothing that can be opened, called or interrupted.         *)
SeriLeavesOnlyRegion == module["seri"] = "absent" =>
    /\ "seri" \notin numbers \cup memory
    /\ cdevs["seri"] = {} /\ queues = {} /\ ~ irq

(* An open file of seri's, or of a serp that never failed, always has the  *)
(* code behind it: also when it is opened while the module is still coming.*)
OpenHasModule == \A d \in Drivers :
    files[d] > 0 => module[d] \in {"coming", "live"} \/ d \in failed \ {"seri"}
=============================================================================
