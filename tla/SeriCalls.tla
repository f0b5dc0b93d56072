----------------------------- MODULE SeriCalls -----------------------------
(***************************************************************************)
(* Every system call of seri.c on one open file: the reads and writes of   *)
(* SeriDriver, beside processes that poll and configure the line as they   *)
(* please.  All meet in the mutex, in the queues and in the chip.          *)
(***************************************************************************)
EXTENDS SeriPoll, SeriIoctl

CallsInit == PollInit /\ IoctlInit

poll(p)  == (PollEnter(p) \/ seri_poll(p)) /\ UNCHANGED ioctlVars
ioctl(p) == (IoctlEnter(p) \/ seri_ioctl(p)) /\ UNCHANGED pollVars

CallsNext ==
    \/ Next /\ UNCHANGED <<pollVars, ioctlVars>>
    \/ \E p \in Others : poll(p) \/ ioctl(p)

allVars == <<vars, pollVars, ioctlVars>>

Alone(A) == A /\ UNCHANGED <<pollVars, ioctlVars>>

(* As in SeriDriver; and the scheduler some day runs a poller that is      *)
(* ready, though others take the CPU with a call each time it is free.     *)
CallsFairness ==
    /\ WF_allVars(Alone(seri_interrupt))
    /\ WF_allVars(Alone(LineLoad))
    /\ WF_allVars(Alone(LineShiftOut))
    /\ \A p \in Readers : WF_allVars(Alone(seri_read(p)))
    /\ \A p \in Writers : WF_allVars(Alone(seri_write(p)))
    /\ \A p \in Others :
          /\ SF_allVars(seri_poll(p) /\ UNCHANGED ioctlVars)
          /\ WF_allVars(seri_ioctl(p) /\ UNCHANGED pollVars)

CallsSpec == CallsInit /\ [][CallsNext]_allVars /\ CallsFairness
=============================================================================
