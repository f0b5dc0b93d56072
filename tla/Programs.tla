------------------------------ MODULE Programs ------------------------------
(***************************************************************************)
(* The programs of the problem sets and of seri/test that run by           *)
(* themselves: the shell runs one of them, on some input, to its end.      *)
(***************************************************************************)
EXTENDS SmallThreads, Processes, FileCopies, StudentRecords, SeriTests

allVars == <<command, main, threadVars, procVars, copyVars, recordVars, testVars>>

ProgramsInit ==
    /\ command \in ThreadCommands \cup ProcessCommands \cup CopyCommands
                       \cup RecordCommands \cup TestCommands
    /\ main = "start"
    /\ ThreadsInit /\ ProcessesInit /\ CopiesInit /\ RecordsInit /\ TestsInit

Threads(A)  == A /\ UNCHANGED <<command, procVars, copyVars, recordVars, testVars>>
Procs(A)    == A /\ UNCHANGED <<command, threadVars, copyVars, recordVars, testVars>>
Copies(A)   == A /\ UNCHANGED <<command, threadVars, procVars, recordVars, testVars>>
Records(A)  == A /\ UNCHANGED <<command, threadVars, procVars, copyVars, testVars>>
Tests(A)    == A /\ UNCHANGED <<command, threadVars, procVars, copyVars, recordVars>>

(* main has ended, or been killed; a child it did not wait for may go on.  *)
Terminating == main \in {"end", "killed"} /\ UNCHANGED allVars

ProgramsNext ==
    \/ Threads(ThreadsNext)
    \/ Procs(ProcessesNext)
    \/ Copies(CopiesNext)
    \/ Records(RecordsNext)
    \/ Tests(TestsNext)
    \/ Terminating

(* The scheduler runs whatever thread or process can run.                  *)
ProgramsFairness ==
    /\ WF_allVars(Threads(threadsMain))
    /\ \A t \in Tids : WF_allVars(Threads(threadFunction(t)))
    /\ WF_allVars(Procs(ProcessBegin))
    /\ \A p \in Family : WF_allVars(Procs(process(p)))
    /\ WF_allVars(Copies(CopiesNext))
    /\ WF_allVars(Records(RecordsNext))
    /\ WF_allVars(Tests(TestsMain))

ProgramsSpec == ProgramsInit /\ [][ProgramsNext]_allVars /\ ProgramsFairness

-----------------------------------------------------------------------------
(* Every program comes to its end, with whatever its threads, processes and*)
(* partial reads do; but once a read has failed, the loops of ex1.c and    *)
(* ex5.c of Problem_Set_2 do not (while ((b = read(...)) != 0)).           *)
ProgramsEnd == <>(main \in {"end", "killed"} \/ b = -1)
=============================================================================
