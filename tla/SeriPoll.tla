----------------------------- MODULE SeriPoll -----------------------------
(***************************************************************************)
(* SeriDriver with processes that wait in poll(2) on the same open file.   *)
(* Each pass of the kernel's do_poll makes the task interruptible, calls   *)
(* seri_poll, and sleeps if no event it asked for is reported and nothing  *)
(* has woken it meanwhile.                                                 *)
(***************************************************************************)
EXTENDS SeriDriver

CONSTANT Interests   \* the sets of events that polls ask for

Events == {"POLLIN", "POLLRDNORM", "POLLWRNORM"}

ASSUME InterestsAssumption == Interests \subseteq SUBSET Events

Pollers == Others

VARIABLES
    interest,   \* the events each poller is asking for
    revents     \* those of them that its last pass found

pollVars  == <<interest, revents>>
pollRest == <<hwVars, txVars, rxVars, fileVars, callVars, sigVars>>

PollInit ==
    /\ Init
    /\ interest = [p \in Pollers |-> {}]
    /\ revents = [p \in Pollers |-> {}]

PollEnter(p) ==
    /\ Awake(p, "user")
    /\ opens > 0
    /\ \E events \in Interests : interest' = [interest EXCEPT ![p] = events]
    /\ Down(p, "po_wait", "po_down")
    /\ UNCHANGED <<pollRest, rxwq, revents>>

(* down is not interruptible.  Having slept in it, the task is running, no *)
(* longer interruptible, so poll_wait does not make it a sleeper.          *)
PollDown(p) ==
    /\ DownGranted(p, "po_down", "po_test")
    /\ UNCHANGED <<pollRest, rxwq, pollVars>>

(* poll_wait on rxwq.  Nothing in seri.c ever wakes txwq, so being on that *)
(* queue makes no difference.                                              *)
PollWait(p) ==
    /\ Runs(p, "po_wait")
    /\ rxwq' = rxwq \cup {p}
    /\ Goto(p, "po_test")
    /\ UNCHANGED <<pollRest, sem, pollVars>>

Mask ==
    (IF rxfifo # <<>> THEN {"POLLIN", "POLLRDNORM"} ELSE {})
    \cup (IF Len(txfifo) < FifoSize THEN {"POLLIN", "POLLWRNORM"} ELSE {})

(* Mutant: the mutex is not released. *)
PollTestKeepsMutex(p) ==
    /\ Runs(p, "po_test")
    /\ revents' = [revents EXCEPT ![p] = interest[p] \cap Mask]
    /\ Goto(p, "po_ret")
    /\ UNCHANGED <<pollRest, rxwq, sem, interest>>

PollTest(p) ==
    /\ Runs(p, "po_test")
    /\ revents' = [revents EXCEPT ![p] = interest[p] \cap Mask]
    /\ Up
    /\ Goto(p, "po_ret")
    /\ UNCHANGED <<pollRest, rxwq, interest>>

PollReturn(p) ==
    /\ Runs(p, "po_ret")
    /\ revents[p] # {}
    /\ Return(p, "ok", 0)
    /\ rxwq' = rxwq \ {p}
    /\ interest' = [interest EXCEPT ![p] = {}]
    /\ revents' = [revents EXCEPT ![p] = {}]
    /\ UNCHANGED <<hwVars, txVars, rxVars, fileVars, count, byte, nsig, sem>>

(* Mutant: p joins the queue only when it goes to sleep, after its test. *)
PollSleepJoinsLate(p) ==
    /\ Runs(p, "po_ret")
    /\ revents[p] = {}
    /\ Sleep(p, "po_sleep")
    /\ rxwq' = rxwq \cup {p}
    /\ UNCHANGED <<pollRest, sem, pollVars>>

PollSleep(p) ==
    /\ Runs(p, "po_ret")
    /\ revents[p] = {}
    /\ p \in rxwq
    /\ Sleep(p, "po_sleep")
    /\ UNCHANGED <<pollRest, rxwq, sem, pollVars>>

(* The next pass: nothing to sleep for, or woken.                          *)
PollAgain(p) ==
    /\ \/ Runs(p, "po_ret") /\ revents[p] = {}
       \/ Awake(p, "po_sleep")
    /\ p \notin rxwq
    /\ Down(p, "po_wait", "po_down")
    /\ UNCHANGED <<pollRest, rxwq, pollVars>>

seri_poll(p) ==
    \/ PollDown(p) \/ PollWait(p) \/ PollTest(p)
    \/ PollReturn(p) \/ PollSleep(p) \/ PollAgain(p)

-----------------------------------------------------------------------------
Dozing(p) == pc[p] = "po_sleep" /\ p \in rxwq

(* No process sleeps in poll for input while input is queued: the handler  *)
(* may run between any two steps of its pass, and other processes may hold *)
(* the mutex at its beginning.                                             *)
NoLostPoll == \A p \in Pollers :
    Dozing(p) /\ "POLLIN" \in interest[p] => rxfifo = <<>>

(* A reader sleeps with the mutex for a queue of exactly count bytes.      *)
ReaderHoldsOn ==
    \E r \in Readers : InMutex(r) /\ Len(rxfifo) # count[r]

(* A poll for input returns when there is input, unless somebody reads it  *)
(* first, or a reader keeps the mutex for good: one that asked for another *)
(* number of bytes than are queued sleeps on with it, and the poller waits *)
(* in down, where no signal and no input reaches it.  Nothing else holds a *)
(* poller up: not the handler, another poller, or a read that ends.        *)
PollReturns == \A p \in Pollers :
    pc[p] # "user" /\ "POLLIN" \in interest[p] /\ rxfifo # <<>>
        ~> \/ pc[p] = "user"
           \/ rxfifo = <<>>
           \/ []ReaderHoldsOn
=============================================================================
