-------------------------- MODULE LifecycleProofs --------------------------
(***************************************************************************)
(* Theorems about Lifecycle, for any number of devices per driver and of   *)
(* open files, and whatever the kernel refuses.                            *)
(*                                                                         *)
(* The properties speak of drivers that are loaded or absent; the          *)
(* inductive invariant says what a driver holds at each step of its init   *)
(* and exit, and that a driver whose load failed half-way keeps the region *)
(* for good, so that neither driver ever gets past request_region again.   *)
(***************************************************************************)
EXTENDS Lifecycle, TLAPS

InitLabels == {"region", "numbers", "memory", "setup", "greet"}
ExitLabels == {"x_region", "x_devices", "x_memory", "x_numbers", "x_bye"}
States     == {"absent", "coming", "live", "going"}

Live(d) == module[d] = "live"

(* The types, and that pc and the kernel's state of a module agree.        *)
Phases(d) ==
    /\ module[d] \in States
    /\ pc[d] \in InitLabels \cup ExitLabels \cup {"idle"}
    /\ module[d] = "coming" <=> pc[d] \in InitLabels
    /\ module[d] = "going" <=> pc[d] \in ExitLabels
    /\ pc[d] = "x_memory" => d = "seri"
    /\ pc[d] = "x_bye" => d = "serp"
    /\ k[d] \in 0 .. Devs
    /\ files[d] \in Nat

(* The region is d's from request_region to release_region, and only then, *)
(* or after a load that failed half-way.                                   *)
HasRegion(d) ==
    pc[d] \in {"numbers", "memory", "setup", "greet", "x_region"} \/ Live(d)

RegionOf(d) ==
    /\ HasRegion(d) => region = d /\ d \notin failed
    /\ region = d => HasRegion(d) \/ d \in failed
    /\ d \in failed => region = d /\ pc[d] \in {"idle", "region"}

(* What d has besides, at each of its steps.                               *)
Programmed(d) == pc[d] \in {"greet", "x_region"} \/ Live(d) => chip = d

HasNumbers(d) ==
    pc[d] \in {"memory", "setup", "greet", "x_region", "x_devices", "x_memory",
               "x_numbers"} \/ Live(d)
HasMemory(d) ==
    pc[d] \in {"setup", "greet", "x_region", "x_devices", "x_memory"} \/ Live(d)

Stuck(d) == d = "serp" /\ d \in failed

Allocated(d) ==
    /\ HasNumbers(d) => d \in numbers
    /\ d \in numbers => HasNumbers(d) \/ Stuck(d)
    /\ HasMemory(d) => d \in memory
    /\ d \in memory => HasMemory(d) \/ Stuck(d)

(* The devices that can be opened, and that are open.                      *)
Openable(d) ==
    /\ cdevs[d] \subseteq 0 .. Devs - 1
    /\ pc[d] = "x_devices" => \A j \in cdevs[d] : j >= k[d]
    /\ cdevs[d] # {} =>
         pc[d] \in {"setup", "greet", "x_region", "x_devices"} \/ Live(d) \/ Stuck(d)
    /\ files[d] > 0 =>
         pc[d] \in {"setup", "greet"} \/ Live(d) \/ Stuck(d)

OfDriver(d) ==
    Phases(d) /\ RegionOf(d) /\ Programmed(d) /\ Allocated(d) /\ Openable(d)

(* The queues that seri's handler uses, and its registration.              *)
OfHandler ==
    /\ queues =
         IF pc["seri"] = "setup" THEN 0 .. k["seri"] - 1
         ELSE IF pc["seri"] \in {"greet", "x_region"} \/ Live("seri") THEN 0 .. Devs - 1
         ELSE IF pc["seri"] = "x_devices" THEN k["seri"] .. Devs - 1
         ELSE {}
    /\ irq \in BOOLEAN
    /\ irq => pc["seri"] \in {"x_region", "x_devices"} \/ Live("seri")

Functions ==
    /\ module \in [Drivers -> States]
    /\ pc \in [Drivers -> InitLabels \cup ExitLabels \cup {"idle"}]
    /\ k \in [Drivers -> Nat]
    /\ files \in [Drivers -> Nat]
    /\ cdevs \in [Drivers -> SUBSET Nat]
    /\ numbers \subseteq Drivers /\ memory \subseteq Drivers
    /\ failed \subseteq Drivers

(* With its array serp has given away all pointers to its rx_buffers.      *)
OfBuffers == "serp" \notin memory => lost = given

LifeInv ==
    Functions /\ (\A d \in Drivers : OfDriver(d)) /\ OfHandler /\ OfBuffers

(* insmod holds nothing yet. *)
LEMMA KeepInsmod ==
  ASSUME LifeInv, NEW e \in Drivers, Insmod(e)
  PROVE  LifeInv'
<1> USE DEF LifeInv, Insmod,
        Become, Goto, At, Live, InitLabels, ExitLabels, States, taken
<1>0. "seri" \in Drivers /\ "serp" \in Drivers
  BY DEF Drivers
<1>1. Functions'
  BY <1>0 DEF Functions
<1>2. ASSUME NEW d \in Drivers PROVE Phases(d)' /\ RegionOf(d)' /\ Programmed(d)'
  BY <1>2, LifecycleAssumption DEF Drivers, NoDriver, Functions, OfDriver,
              Phases, RegionOf, HasRegion, Programmed
<1>3. ASSUME NEW d \in Drivers PROVE Allocated(d)' /\ Openable(d)'
  BY <1>3, LifecycleAssumption DEF Drivers, Functions, OfDriver, Phases,
              RegionOf, HasRegion, Allocated, HasNumbers, HasMemory, Openable, Stuck
<1>4. OfHandler'
  BY LifecycleAssumption DEF Drivers, Functions, OfDriver, Phases, OfHandler
<1>5. OfBuffers'
  BY <1>0 DEF OfDriver, Allocated, HasMemory, OfBuffers, buffers
<1> QED
  BY <1>1, <1>2, <1>3, <1>4, <1>5 DEF OfDriver

(* rmmod starts seri_exit or serp_exit; nothing is given back yet. *)
LEMMA KeepRmmod ==
  ASSUME LifeInv, NEW e \in Drivers, Rmmod(e)
  PROVE  LifeInv'
<1> USE DEF LifeInv, Rmmod,
        Become, Goto, At, Live, InitLabels, ExitLabels, States, taken
<1>0. "seri" \in Drivers /\ "serp" \in Drivers
  BY DEF Drivers
<1>1. Functions'
  BY <1>0 DEF Functions
<1>2. ASSUME NEW d \in Drivers PROVE Phases(d)' /\ RegionOf(d)' /\ Programmed(d)'
  BY <1>2, LifecycleAssumption DEF Drivers, NoDriver, Functions, OfDriver,
              Phases, RegionOf, HasRegion, Programmed
<1>3. ASSUME NEW d \in Drivers PROVE Allocated(d)' /\ Openable(d)'
  BY <1>3, LifecycleAssumption DEF Drivers, Functions, OfDriver, Phases,
              RegionOf, HasRegion, Allocated, HasNumbers, HasMemory, Openable, Stuck
<1>4. OfHandler'
  BY LifecycleAssumption DEF Drivers, Functions, OfDriver, Phases, OfHandler
<1>5. OfBuffers'
  BY <1>0 DEF OfDriver, Allocated, HasMemory, OfBuffers, buffers
<1> QED
  BY <1>1, <1>2, <1>3, <1>4, <1>5 DEF OfDriver

(* A device is opened only where init has added one. *)
LEMMA KeepOpen ==
  ASSUME LifeInv, NEW e \in Drivers, Open(e)
  PROVE  LifeInv'
<1> USE DEF LifeInv, Open,
        Become, Goto, At, Live, InitLabels, ExitLabels, States, taken
<1>0. "seri" \in Drivers /\ "serp" \in Drivers
  BY DEF Drivers
<1>1. Functions'
  BY <1>0 DEF Functions
<1>2. ASSUME NEW d \in Drivers PROVE Phases(d)' /\ RegionOf(d)' /\ Programmed(d)'
  BY <1>2, LifecycleAssumption DEF Drivers, NoDriver, Functions, OfDriver,
              Phases, RegionOf, HasRegion, Programmed
<1>3. ASSUME NEW d \in Drivers PROVE Allocated(d)' /\ Openable(d)'
  BY <1>3, LifecycleAssumption DEF Drivers, Functions, OfDriver, Phases,
              RegionOf, HasRegion, Allocated, HasNumbers, HasMemory, Openable, Stuck
<1>4. OfHandler'
  BY LifecycleAssumption DEF Drivers, Functions, OfDriver, Phases, OfHandler
<1>5. OfBuffers'
  BY <1>0 DEF OfDriver, Allocated, HasMemory, OfBuffers, buffers
<1> QED
  BY <1>1, <1>2, <1>3, <1>4, <1>5 DEF OfDriver

(* A file is closed. *)
LEMMA KeepClose ==
  ASSUME LifeInv, NEW e \in Drivers, Close(e)
  PROVE  LifeInv'
<1> USE DEF LifeInv, Close,
        Become, Goto, At, Live, InitLabels, ExitLabels, States, taken
<1>0. "seri" \in Drivers /\ "serp" \in Drivers
  BY DEF Drivers
<1>1. Functions'
  BY <1>0 DEF Functions
<1>2. ASSUME NEW d \in Drivers PROVE Phases(d)' /\ RegionOf(d)' /\ Programmed(d)'
  BY <1>2, LifecycleAssumption DEF Drivers, NoDriver, Functions, OfDriver,
              Phases, RegionOf, HasRegion, Programmed
<1>3. ASSUME NEW d \in Drivers PROVE Allocated(d)' /\ Openable(d)'
  BY <1>3, LifecycleAssumption DEF Drivers, Functions, OfDriver, Phases,
              RegionOf, HasRegion, Allocated, HasNumbers, HasMemory, Openable, Stuck
<1>4. OfHandler'
  BY LifecycleAssumption DEF Drivers, Functions, OfDriver, Phases, OfHandler
<1>5. OfBuffers'
  BY <1>0 DEF OfDriver, Allocated, HasMemory, OfBuffers, buffers
<1> QED
  BY <1>1, <1>2, <1>3, <1>4, <1>5 DEF OfDriver

(* The region goes to one driver, and to none while a failed load keeps it. *)
LEMMA KeepRequestRegion ==
  ASSUME LifeInv, NEW e \in Drivers, RequestRegion(e)
  PROVE  LifeInv'
<1> USE DEF LifeInv, RequestRegion, Refused,
        Become, Goto, At, Live, InitLabels, ExitLabels, States, taken
<1>0. "seri" \in Drivers /\ "serp" \in Drivers
  BY DEF Drivers
<1>1. Functions'
  BY <1>0 DEF Functions
<1>2. ASSUME NEW d \in Drivers PROVE Phases(d)' /\ RegionOf(d)' /\ Programmed(d)'
  BY <1>2, LifecycleAssumption DEF Drivers, NoDriver, Functions, OfDriver,
              Phases, RegionOf, HasRegion, Programmed
<1>3. ASSUME NEW d \in Drivers PROVE Allocated(d)' /\ Openable(d)'
  BY <1>3, LifecycleAssumption DEF Drivers, Functions, OfDriver, Phases,
              RegionOf, HasRegion, Allocated, HasNumbers, HasMemory, Openable, Stuck
<1>4. OfHandler'
  BY LifecycleAssumption DEF Drivers, Functions, OfDriver, Phases, OfHandler
<1>5. OfBuffers'
  BY <1>0 DEF OfDriver, Allocated, HasMemory, OfBuffers, buffers
<1> QED
  BY <1>1, <1>2, <1>3, <1>4, <1>5 DEF OfDriver

(* A failure here leaves the region behind. *)
LEMMA KeepAllocNumbers ==
  ASSUME LifeInv, NEW e \in Drivers, AllocNumbers(e)
  PROVE  LifeInv'
<1> USE DEF LifeInv, AllocNumbers, LoadFailed,
        Become, Goto, At, Live, InitLabels, ExitLabels, States, taken
<1>0. "seri" \in Drivers /\ "serp" \in Drivers
  BY DEF Drivers
<1>1. Functions'
  BY <1>0 DEF Functions
<1>2. ASSUME NEW d \in Drivers PROVE Phases(d)' /\ RegionOf(d)' /\ Programmed(d)'
  BY <1>2, LifecycleAssumption DEF Drivers, NoDriver, Functions, OfDriver,
              Phases, RegionOf, HasRegion, Programmed
<1>3. ASSUME NEW d \in Drivers PROVE Allocated(d)' /\ Openable(d)'
  BY <1>3, LifecycleAssumption DEF Drivers, Functions, OfDriver, Phases,
              RegionOf, HasRegion, Allocated, HasNumbers, HasMemory, Openable, Stuck
<1>4. OfHandler'
  BY LifecycleAssumption DEF Drivers, Functions, OfDriver, Phases, OfHandler
<1>5. OfBuffers'
  BY <1>0 DEF OfDriver, Allocated, HasMemory, OfBuffers, buffers
<1> QED
  BY <1>1, <1>2, <1>3, <1>4, <1>5 DEF OfDriver

(* A failure here gives back the numbers. *)
LEMMA KeepAllocDevices ==
  ASSUME LifeInv, NEW e \in Drivers, AllocDevices(e)
  PROVE  LifeInv'
<1> USE DEF LifeInv, AllocDevices, LoadFailed,
        Become, Goto, At, Live, InitLabels, ExitLabels, States, taken
<1>0. "seri" \in Drivers /\ "serp" \in Drivers
  BY DEF Drivers
<1>1. Functions'
  BY <1>0 DEF Functions
<1>2. ASSUME NEW d \in Drivers PROVE Phases(d)' /\ RegionOf(d)' /\ Programmed(d)'
  BY <1>2, LifecycleAssumption DEF Drivers, NoDriver, Functions, OfDriver,
              Phases, RegionOf, HasRegion, Programmed
<1>3. ASSUME NEW d \in Drivers PROVE Allocated(d)' /\ Openable(d)'
  BY <1>3, LifecycleAssumption DEF Drivers, Functions, OfDriver, Phases,
              RegionOf, HasRegion, Allocated, HasNumbers, HasMemory, Openable, Stuck
<1>4. OfHandler'
  BY LifecycleAssumption DEF Drivers, Functions, OfDriver, Phases, OfHandler
<1>5. OfBuffers'
  BY <1>0 DEF OfDriver, Allocated, HasMemory, OfBuffers, buffers
<1> QED
  BY <1>1, <1>2, <1>3, <1>4, <1>5 DEF OfDriver

(* The queues of seri grow with its loop counter. *)
LEMMA KeepSeriSetup ==
  ASSUME LifeInv, SeriSetup
  PROVE  LifeInv'
<1> USE DEF LifeInv, SeriSetup, AddCdev, NextDev,
        Become, Goto, At, Live, InitLabels, ExitLabels, States, taken
<1>0. "seri" \in Drivers /\ "serp" \in Drivers
  BY DEF Drivers
<1>1. Functions'
  BY <1>0 DEF Functions
<1>2. ASSUME NEW d \in Drivers PROVE Phases(d)' /\ RegionOf(d)' /\ Programmed(d)'
  BY <1>2, LifecycleAssumption DEF Drivers, NoDriver, Functions, OfDriver,
              Phases, RegionOf, HasRegion, Programmed
<1>3. ASSUME NEW d \in Drivers PROVE Allocated(d)' /\ Openable(d)'
  BY <1>3, LifecycleAssumption DEF Drivers, Functions, OfDriver, Phases,
              RegionOf, HasRegion, Allocated, HasNumbers, HasMemory, Openable, Stuck
<1>4. OfHandler'
  BY LifecycleAssumption DEF Drivers, Functions, OfDriver, Phases, OfHandler
<1>5. OfBuffers'
  BY <1>0 DEF OfDriver, Allocated, HasMemory, OfBuffers, buffers
<1> QED
  BY <1>1, <1>2, <1>3, <1>4, <1>5 DEF OfDriver

(* A failure here leaves serp stuck, with the region. *)
LEMMA KeepSerpSetup ==
  ASSUME LifeInv, SerpSetup
  PROVE  LifeInv'
<1> USE DEF LifeInv, SerpSetup, AddCdev, NextDev, LoadFailed,
        Become, Goto, At, Live, InitLabels, ExitLabels, States, taken
<1>0. "seri" \in Drivers /\ "serp" \in Drivers
  BY DEF Drivers
<1>1. Functions'
  BY <1>0 DEF Functions
<1>2. ASSUME NEW d \in Drivers PROVE Phases(d)' /\ RegionOf(d)' /\ Programmed(d)'
  BY <1>2, LifecycleAssumption DEF Drivers, NoDriver, Functions, OfDriver,
              Phases, RegionOf, HasRegion, Programmed
<1>3. ASSUME NEW d \in Drivers PROVE Allocated(d)' /\ Openable(d)'
  BY <1>3, LifecycleAssumption DEF Drivers, Functions, OfDriver, Phases,
              RegionOf, HasRegion, Allocated, HasNumbers, HasMemory, Openable, Stuck
<1>4. OfHandler'
  BY LifecycleAssumption DEF Drivers, Functions, OfDriver, Phases, OfHandler
<1>5. OfBuffers'
  BY <1>0 DEF OfDriver, Allocated, HasMemory, OfBuffers, buffers
<1> QED
  BY <1>1, <1>2, <1>3, <1>4, <1>5 DEF OfDriver

(* Only the owner of the region programs the chip. *)
LEMMA KeepConfigure ==
  ASSUME LifeInv, NEW e \in Drivers, Configure(e)
  PROVE  LifeInv'
<1> USE DEF LifeInv, Configure,
        Become, Goto, At, Live, InitLabels, ExitLabels, States, taken
<1>0. "seri" \in Drivers /\ "serp" \in Drivers
  BY DEF Drivers
<1>1. Functions'
  BY <1>0 DEF Functions
<1>2. ASSUME NEW d \in Drivers PROVE Phases(d)' /\ RegionOf(d)' /\ Programmed(d)'
  BY <1>2, LifecycleAssumption DEF Drivers, NoDriver, Functions, OfDriver,
              Phases, RegionOf, HasRegion, Programmed
<1>3. ASSUME NEW d \in Drivers PROVE Allocated(d)' /\ Openable(d)'
  BY <1>3, LifecycleAssumption DEF Drivers, Functions, OfDriver, Phases,
              RegionOf, HasRegion, Allocated, HasNumbers, HasMemory, Openable, Stuck
<1>4. OfHandler'
  BY LifecycleAssumption DEF Drivers, Functions, OfDriver, Phases, OfHandler
<1>5. OfBuffers'
  BY <1>0 DEF OfDriver, Allocated, HasMemory, OfBuffers, buffers
<1> QED
  BY <1>1, <1>2, <1>3, <1>4, <1>5 DEF OfDriver

(* serp_init returns 0. *)
LEMMA KeepSerpGreet ==
  ASSUME LifeInv, SerpGreet
  PROVE  LifeInv'
<1> USE DEF LifeInv, SerpGreet, Loaded,
        Become, Goto, At, Live, InitLabels, ExitLabels, States, taken
<1>0. "seri" \in Drivers /\ "serp" \in Drivers
  BY DEF Drivers
<1>1. Functions'
  BY <1>0 DEF Functions
<1>2. ASSUME NEW d \in Drivers PROVE Phases(d)' /\ RegionOf(d)' /\ Programmed(d)'
  BY <1>2, LifecycleAssumption DEF Drivers, NoDriver, Functions, OfDriver,
              Phases, RegionOf, HasRegion, Programmed
<1>3. ASSUME NEW d \in Drivers PROVE Allocated(d)' /\ Openable(d)'
  BY <1>3, LifecycleAssumption DEF Drivers, Functions, OfDriver, Phases,
              RegionOf, HasRegion, Allocated, HasNumbers, HasMemory, Openable, Stuck
<1>4. OfHandler'
  BY LifecycleAssumption DEF Drivers, Functions, OfDriver, Phases, OfHandler
<1>5. OfBuffers'
  BY <1>0 DEF OfDriver, Allocated, HasMemory, OfBuffers, buffers
<1> QED
  BY <1>1, <1>2, <1>3, <1>4, <1>5 DEF OfDriver

(* seri_init returns 0, with the interrupt or without. *)
LEMMA KeepRequestIrq ==
  ASSUME LifeInv, RequestIrq
  PROVE  LifeInv'
<1> USE DEF LifeInv, RequestIrq, Loaded,
        Become, Goto, At, Live, InitLabels, ExitLabels, States, taken
<1>0. "seri" \in Drivers /\ "serp" \in Drivers
  BY DEF Drivers
<1>1. Functions'
  BY <1>0 DEF Functions
<1>2. ASSUME NEW d \in Drivers PROVE Phases(d)' /\ RegionOf(d)' /\ Programmed(d)'
  BY <1>2, LifecycleAssumption DEF Drivers, NoDriver, Functions, OfDriver,
              Phases, RegionOf, HasRegion, Programmed
<1>3. ASSUME NEW d \in Drivers PROVE Allocated(d)' /\ Openable(d)'
  BY <1>3, LifecycleAssumption DEF Drivers, Functions, OfDriver, Phases,
              RegionOf, HasRegion, Allocated, HasNumbers, HasMemory, Openable, Stuck
<1>4. OfHandler'
  BY LifecycleAssumption DEF Drivers, Functions, OfDriver, Phases, OfHandler
<1>5. OfBuffers'
  BY <1>0 DEF OfDriver, Allocated, HasMemory, OfBuffers, buffers
<1> QED
  BY <1>1, <1>2, <1>3, <1>4, <1>5 DEF OfDriver

(* The other driver may go on from here. *)
LEMMA KeepReleaseRegion ==
  ASSUME LifeInv, NEW e \in Drivers, ReleaseRegion(e)
  PROVE  LifeInv'
<1> USE DEF LifeInv, ReleaseRegion,
        Become, Goto, At, Live, InitLabels, ExitLabels, States, taken
<1>0. "seri" \in Drivers /\ "serp" \in Drivers
  BY DEF Drivers
<1>1. Functions'
  BY <1>0 DEF Functions
<1>2. ASSUME NEW d \in Drivers PROVE Phases(d)' /\ RegionOf(d)' /\ Programmed(d)'
  BY <1>2, LifecycleAssumption DEF Drivers, NoDriver, Functions, OfDriver,
              Phases, RegionOf, HasRegion, Programmed
<1>3. ASSUME NEW d \in Drivers PROVE Allocated(d)' /\ Openable(d)'
  BY <1>3, LifecycleAssumption DEF Drivers, Functions, OfDriver, Phases,
              RegionOf, HasRegion, Allocated, HasNumbers, HasMemory, Openable, Stuck
<1>4. OfHandler'
  BY LifecycleAssumption DEF Drivers, Functions, OfDriver, Phases, OfHandler
<1>5. OfBuffers'
  BY <1>0 DEF OfDriver, Allocated, HasMemory, OfBuffers, buffers
<1> QED
  BY <1>1, <1>2, <1>3, <1>4, <1>5 DEF OfDriver

(* The queues and devices left are those from the loop counter on. *)
LEMMA KeepRemoveDevice ==
  ASSUME LifeInv, NEW e \in Drivers, RemoveDevice(e)
  PROVE  LifeInv'
<1> USE DEF LifeInv, RemoveDevice, NextDev,
        Become, Goto, At, Live, InitLabels, ExitLabels, States, taken
<1>0. "seri" \in Drivers /\ "serp" \in Drivers
  BY DEF Drivers
<1>1. Functions'
  BY <1>0 DEF Functions
<1>2. ASSUME NEW d \in Drivers PROVE Phases(d)' /\ RegionOf(d)' /\ Programmed(d)'
  BY <1>2, LifecycleAssumption DEF Drivers, NoDriver, Functions, OfDriver,
              Phases, RegionOf, HasRegion, Programmed
<1>3. ASSUME NEW d \in Drivers PROVE Allocated(d)' /\ Openable(d)'
  BY <1>3, LifecycleAssumption DEF Drivers, Functions, OfDriver, Phases,
              RegionOf, HasRegion, Allocated, HasNumbers, HasMemory, Openable, Stuck
<1>4. OfHandler'
  <2>1. CASE e = "serp"
    BY <2>1, <1>0 DEF Functions, OfHandler
  <2>2. CASE e = "seri"
    <3>1. k["seri"] \in Nat /\ k["seri"] < Devs /\ k'["seri"] = k["seri"] + 1
      BY <2>2, <1>0 DEF Functions
    <3>2. pc["seri"] = "x_devices" /\ module["seri"] = "going"
      BY <2>2, <1>0 DEF OfDriver, Phases
    <3>3. queues = k["seri"] .. Devs - 1
      BY <3>2 DEF OfHandler
    <3>4. queues' = k'["seri"] .. Devs - 1
      BY <2>2, <3>1, <3>3, LifecycleAssumption
    <3> QED
      BY <3>2, <3>4 DEF OfHandler
  <2> QED
    BY <2>1, <2>2 DEF Drivers
<1>5. OfBuffers'
  BY <1>0 DEF OfDriver, Allocated, HasMemory, OfBuffers, buffers
<1> QED
  BY <1>1, <1>2, <1>3, <1>4, <1>5 DEF OfDriver

(* After the loop no queue and no device is left. *)
LEMMA KeepFreeIrq ==
  ASSUME LifeInv, FreeIrq
  PROVE  LifeInv'
<1> USE DEF LifeInv, FreeIrq,
        Become, Goto, At, Live, InitLabels, ExitLabels, States, taken
<1>0. "seri" \in Drivers /\ "serp" \in Drivers
  BY DEF Drivers
<1>1. Functions'
  BY <1>0 DEF Functions
<1>2. ASSUME NEW d \in Drivers PROVE Phases(d)' /\ RegionOf(d)' /\ Programmed(d)'
  BY <1>2, LifecycleAssumption DEF Drivers, NoDriver, Functions, OfDriver,
              Phases, RegionOf, HasRegion, Programmed
<1>3. ASSUME NEW d \in Drivers PROVE Allocated(d)' /\ Openable(d)'
  BY <1>3, LifecycleAssumption DEF Drivers, Functions, OfDriver, Phases,
              RegionOf, HasRegion, Allocated, HasNumbers, HasMemory, Openable, Stuck
<1>4. OfHandler'
  <2>1. pc["seri"] = "x_devices" /\ module["seri"] = "going"
    BY <1>0 DEF OfDriver, Phases
  <2>2. queues = Devs .. Devs - 1
    BY <2>1 DEF OfHandler
  <2>3. queues = {}
    BY <2>2, LifecycleAssumption
  <2>4. pc'["seri"] = "x_memory" /\ module'["seri"] # "live"
    BY <1>0, <2>1 DEF Functions
  <2> QED
    BY <2>3, <2>4 DEF OfHandler
<1>5. OfBuffers'
  BY <1>0 DEF OfDriver, Allocated, HasMemory, OfBuffers, buffers
<1> QED
  BY <1>1, <1>2, <1>3, <1>4, <1>5 DEF OfDriver

(* kfree of the array. *)
LEMMA KeepFreeDevices ==
  ASSUME LifeInv, NEW e \in Drivers, FreeDevices(e)
  PROVE  LifeInv'
<1> USE DEF LifeInv, FreeDevices,
        Become, Goto, At, Live, InitLabels, ExitLabels, States, taken
<1>0. "seri" \in Drivers /\ "serp" \in Drivers
  BY DEF Drivers
<1>1. Functions'
  BY <1>0 DEF Functions
<1>2. ASSUME NEW d \in Drivers PROVE Phases(d)' /\ RegionOf(d)' /\ Programmed(d)'
  BY <1>2, LifecycleAssumption DEF Drivers, NoDriver, Functions, OfDriver,
              Phases, RegionOf, HasRegion, Programmed
<1>3. ASSUME NEW d \in Drivers PROVE Allocated(d)' /\ Openable(d)'
  BY <1>3, LifecycleAssumption DEF Drivers, Functions, OfDriver, Phases,
              RegionOf, HasRegion, Allocated, HasNumbers, HasMemory, Openable, Stuck
<1>4. OfHandler'
  BY LifecycleAssumption DEF Drivers, Functions, OfDriver, Phases, OfHandler
<1>5. OfBuffers'
  BY <1>0 DEF OfDriver, Allocated, HasMemory, OfBuffers, buffers
<1> QED
  BY <1>1, <1>2, <1>3, <1>4, <1>5 DEF OfDriver

(* The numbers go back, and seri is out. *)
LEMMA KeepFreeNumbers ==
  ASSUME LifeInv, NEW e \in Drivers, FreeNumbers(e)
  PROVE  LifeInv'
<1> USE DEF LifeInv, FreeNumbers, Unloaded,
        Become, Goto, At, Live, InitLabels, ExitLabels, States, taken
<1>0. "seri" \in Drivers /\ "serp" \in Drivers
  BY DEF Drivers
<1>1. Functions'
  BY <1>0 DEF Functions
<1>2. ASSUME NEW d \in Drivers PROVE Phases(d)' /\ RegionOf(d)' /\ Programmed(d)'
  BY <1>2, LifecycleAssumption DEF Drivers, NoDriver, Functions, OfDriver,
              Phases, RegionOf, HasRegion, Programmed
<1>3. ASSUME NEW d \in Drivers PROVE Allocated(d)' /\ Openable(d)'
  BY <1>3, LifecycleAssumption DEF Drivers, Functions, OfDriver, Phases,
              RegionOf, HasRegion, Allocated, HasNumbers, HasMemory, Openable, Stuck
<1>4. OfHandler'
  BY LifecycleAssumption DEF Drivers, Functions, OfDriver, Phases, OfHandler
<1>5. OfBuffers'
  BY <1>0 DEF OfDriver, Allocated, HasMemory, OfBuffers, buffers
<1> QED
  BY <1>1, <1>2, <1>3, <1>4, <1>5 DEF OfDriver

(* serp is out. *)
LEMMA KeepSerpBye ==
  ASSUME LifeInv, SerpBye
  PROVE  LifeInv'
<1> USE DEF LifeInv, SerpBye, Unloaded,
        Become, Goto, At, Live, InitLabels, ExitLabels, States, taken
<1>0. "seri" \in Drivers /\ "serp" \in Drivers
  BY DEF Drivers
<1>1. Functions'
  BY <1>0 DEF Functions
<1>2. ASSUME NEW d \in Drivers PROVE Phases(d)' /\ RegionOf(d)' /\ Programmed(d)'
  BY <1>2, LifecycleAssumption DEF Drivers, NoDriver, Functions, OfDriver,
              Phases, RegionOf, HasRegion, Programmed
<1>3. ASSUME NEW d \in Drivers PROVE Allocated(d)' /\ Openable(d)'
  BY <1>3, LifecycleAssumption DEF Drivers, Functions, OfDriver, Phases,
              RegionOf, HasRegion, Allocated, HasNumbers, HasMemory, Openable, Stuck
<1>4. OfHandler'
  BY LifecycleAssumption DEF Drivers, Functions, OfDriver, Phases, OfHandler
<1>5. OfBuffers'
  BY <1>0 DEF OfDriver, Allocated, HasMemory, OfBuffers, buffers
<1> QED
  BY <1>1, <1>2, <1>3, <1>4, <1>5 DEF OfDriver

-----------------------------------------------------------------------------
(* Nothing is held before the first insmod.                                *)
LEMMA LifeStarts == ASSUME Init PROVE LifeInv
<1>1. Functions
  BY LifecycleAssumption DEF Init, Functions, Drivers, States
<1>2. ASSUME NEW d \in Drivers PROVE OfDriver(d)
  BY <1>2, LifecycleAssumption DEF Init, Drivers, NoDriver, OfDriver, Phases,
     RegionOf, HasRegion, Programmed, Allocated, HasNumbers, HasMemory, Openable,
     Stuck, Live, States, InitLabels, ExitLabels
<1>3. OfHandler
  BY DEF Init, OfHandler, Drivers, Live
<1>4. OfBuffers
  BY DEF Init, OfBuffers
<1> QED
  BY <1>1, <1>2, <1>3, <1>4 DEF LifeInv

(* Every step of the kernel's, of an init or of an exit keeps LifeInv.     *)
LEMMA LifeStep == ASSUME LifeInv, [Next]_vars PROVE LifeInv'
<1>1. ASSUME NEW d \in Drivers,
             Insmod(d) \/ Rmmod(d) \/ Open(d) \/ Close(d)
      PROVE  LifeInv'
  BY <1>1, KeepInsmod, KeepRmmod, KeepOpen, KeepClose
<1>2. ASSUME NEW d \in Drivers, load(d) PROVE LifeInv'
  BY <1>2, KeepRequestRegion, KeepAllocNumbers, KeepAllocDevices, KeepConfigure,
     KeepSeriSetup, KeepRequestIrq, KeepSerpSetup, KeepSerpGreet DEF load
<1>3. ASSUME NEW d \in Drivers, unload(d) PROVE LifeInv'
  BY <1>3, KeepReleaseRegion, KeepRemoveDevice, KeepFreeDevices, KeepFreeNumbers,
     KeepFreeIrq, KeepSerpBye DEF unload
<1>4. CASE UNCHANGED vars
  BY <1>4 DEF vars, taken, buffers, OfBuffers, LifeInv, Functions, OfDriver, Phases, RegionOf,
     HasRegion, Programmed, Allocated, HasNumbers, HasMemory, Openable, Stuck,
     Live, OfHandler
<1> QED
  BY <1>1, <1>2, <1>3, <1>4 DEF Next

(* What a driver holds at every step of its loading and unloading.         *)
THEOREM LifeInvariant == Spec => []LifeInv
  BY LifeStarts, LifeStep, PTL DEF Spec

(* seri and serp, sharing one UART and loaded and unloaded in any order,   *)
(* never have the UART programmed for the other while loaded.              *)
THEOREM OwnsChip == Spec => []LoadedOwnsChip
<1>1. LifeInv => LoadedOwnsChip
  BY DEF LifeInv, LoadedOwnsChip, OfDriver, RegionOf, HasRegion, Programmed,
     Allocated, HasNumbers, HasMemory, Live
<1> QED
  BY <1>1, LifeInvariant, PTL

(* seri_interrupt is registered only with its code and its array there, and*)
(* outside seri_exit with its queues.                                      *)
THEOREM HandlerComplete == Spec => []HandlerHasAll
<1>1. LifeInv => HandlerHasAll
  <2> SUFFICES ASSUME LifeInv, irq PROVE HandlerHasAll
    BY DEF HandlerHasAll
  <2>1. "seri" \in Drivers
    BY DEF Drivers
  <2>2. Phases("seri") /\ Allocated("seri")
    BY <2>1 DEF LifeInv, OfDriver
  <2>3. module["seri"] \in {"live", "going"} /\ "seri" \in memory
    BY <2>2 DEF LifeInv, OfHandler, Phases, Allocated, HasMemory, Live, ExitLabels
  <2>4. ASSUME module["seri"] = "live" PROVE 0 \in queues
    <3>1. queues = 0 .. Devs - 1
      BY <2>2, <2>4 DEF LifeInv, OfHandler, Phases, Live, InitLabels, ExitLabels
    <3> QED
      BY <3>1, LifecycleAssumption
  <2> QED
    BY <2>3, <2>4 DEF HandlerHasAll
<1> QED
  BY <1>1, LifeInvariant, PTL

(* A driver whose loads were complete or refused leaves nothing behind,    *)
(* but for serp's receive buffers, all of which it leaves behind.          *)
THEOREM UnloadIsClean == Spec => []CleanUnload
<1>1. LifeInv => CleanUnload
  <2> SUFFICES ASSUME LifeInv, NEW d \in Drivers, module[d] = "absent",
                      d \notin failed
               PROVE  ~ Holds(d) /\ (d = "serp" => lost = given)
    BY DEF CleanUnload
  <2>1. pc[d] = "idle" /\ ~ Live(d)
    BY DEF LifeInv, OfDriver, Phases, Live
  <2>2. region # d /\ d \notin numbers /\ d \notin memory /\ cdevs[d] = {}
    BY <2>1 DEF LifeInv, OfDriver, RegionOf, HasRegion, Allocated, HasNumbers,
       HasMemory, Openable, Stuck
  <2>3. d = "seri" => queues = {} /\ ~ irq
    BY <2>1 DEF LifeInv, OfHandler
  <2>4. d = "serp" => lost = given
    BY <2>2 DEF LifeInv, OfBuffers
  <2> QED
    BY <2>2, <2>3, <2>4 DEF Holds
<1> QED
  BY <1>1, LifeInvariant, PTL

(* Whichever call of seri_init fails, seri leaves at most the region.      *)
THEOREM SeriFailsSafe == Spec => []SeriLeavesOnlyRegion
<1>1. LifeInv => SeriLeavesOnlyRegion
  <2> SUFFICES ASSUME LifeInv, module["seri"] = "absent"
               PROVE  SeriLeavesOnlyRegion
    BY DEF SeriLeavesOnlyRegion
  <2>1. OfDriver("seri")
    BY DEF LifeInv, Drivers
  <2>2. pc["seri"] = "idle" /\ ~ Live("seri")
    BY <2>1 DEF OfDriver, Phases, Live
  <2>3. "seri" \notin numbers \cup memory /\ cdevs["seri"] = {}
    BY <2>1, <2>2 DEF OfDriver, Allocated, HasNumbers, HasMemory, Openable, Stuck
  <2>4. queues = {} /\ ~ irq
    BY <2>2 DEF LifeInv, OfHandler
  <2> QED
    BY <2>3, <2>4 DEF SeriLeavesOnlyRegion
<1> QED
  BY <1>1, LifeInvariant, PTL

(* An open file has its driver's code behind it, also when it is opened    *)
(* before init has returned, except a serp whose load failed half-way.     *)
THEOREM OpenFilesServed == Spec => []OpenHasModule
<1>1. LifeInv => OpenHasModule
  <2> SUFFICES ASSUME LifeInv, NEW d \in Drivers, files[d] > 0
               PROVE  module[d] \in {"coming", "live"} \/ d \in failed \ {"seri"}
    BY DEF OpenHasModule
  <2> QED
    BY DEF LifeInv, OfDriver, Phases, Openable, Stuck, Live, InitLabels
<1> QED
  BY <1>1, LifeInvariant, PTL
=============================================================================
