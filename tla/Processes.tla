----------------------------- MODULE Processes -----------------------------
(***************************************************************************)
(* The programs of Problem_Set_3 that create processes:                    *)
(*   family    ex2.c: parent and child each write PATH to a file           *)
(*   tree      ex3.c: parent, child and grandchild, with exit codes        *)
(*   exec      ex4.c: the child becomes gcc, the parent waits              *)
(*   replace   ex5.c: the program itself becomes gcc                       *)
(* fork, open, write and execv may fail, and no program looks.             *)
(***************************************************************************)
EXTENDS CommandLine, Integers

CONSTANTS
    PathLength,    \* length of the value of PATH
    OldLengths,    \* lengths of the files that family finds
    GccCodes       \* exit codes of gcc

ASSUME ProcessesAssumption ==
    /\ PathLength \in Nat \ {0} /\ OldLengths \subseteq Nat
    /\ GccCodes \subseteq 0 .. 255

Family    == {"P", "C", "GC"}
ChildOf   == [P |-> "C", C |-> "GC"]
Unset     == -1               \* an uninitialised int stat

ProcessCommands ==
    [name : {"tree", "exec", "replace"}]
        \cup [name : {"family"}, old : [{"P", "C"} -> OldLengths]]

ProcessPrograms == {"tree", "exec", "replace", "family"}

VARIABLES
    proc,    \* where each process is; "none" before, "gone" after its life
    status,  \* the exit code of a process that has ended
    stat,    \* the exit code that its variable stat holds
    opened,  \* its open succeeded
    file     \* of family, per process: bytes of PATH, and of the old content

procVars == <<proc, status, stat, opened, file>>

ProcessesInit ==
    /\ proc = [p \in Family |-> "none"]
    /\ status = [p \in Family |-> 0]
    /\ stat = [p \in Family |-> Unset]
    /\ opened = [p \in Family |-> FALSE]
    /\ file = [p \in Family |-> [path |-> 0, old |-> 0]]

-----------------------------------------------------------------------------
At(p, at) == command.name \in ProcessPrograms /\ proc[p] = at

(* Where a process begins, as main or as the child branch of a fork.       *)
First(p) == CASE command.name = "replace"              -> "exec"
              [] command.name # "replace" /\ p = "P"  -> "fork"
              [] command.name = "tree" /\ p = "C"     -> "fork"
              [] command.name = "tree" /\ p = "GC"    -> "exit"
              [] command.name = "exec" /\ p # "P"     -> "exec"
              [] command.name = "family" /\ p # "P"   -> "open"

Code(p) == CASE command.name = "tree" /\ p = "C"  -> 2
             [] command.name = "tree" /\ p = "GC" -> 3
             [] OTHER                             -> 0

ProcessBegin ==
    /\ Runs(ProcessPrograms) /\ main = "start"
    /\ main' = "run"
    /\ proc' = [proc EXCEPT !["P"] = First("P")]
    /\ file' = IF command.name # "family" THEN file
               ELSE [p \in Family |->
                       [path |-> 0,
                        old |-> IF p = "GC" THEN 0 ELSE command.old[p]]]
    /\ UNCHANGED <<status, stat, opened>>

(* The parent goes on to its else branch, also when fork has failed.       *)
Fork(p) ==
    /\ At(p, "fork")
    /\ LET c == ChildOf[p]
           parent == [proc EXCEPT ![p] = IF command.name = "family"
                                         THEN "open" ELSE "wait"]
       IN  proc' \in {parent, [parent EXCEPT ![c] = First(c)]}
    /\ UNCHANGED <<main, status, stat, opened, file>>

(* Mutant: a wait that does not wait. *)
WaitNoHang(p) ==
    /\ At(p, "wait")
    /\ LET c == ChildOf[p]
       IN  IF proc[c] = "zombie"
           THEN /\ stat' = [stat EXCEPT ![p] = status[c]]
                /\ proc' = [proc EXCEPT ![p] = "exit", ![c] = "gone"]
           ELSE /\ proc' = [proc EXCEPT ![p] = "exit"]
                /\ UNCHANGED stat
    /\ UNCHANGED <<main, status, opened, file>>

(* wait: until the child has ended; without a child it fails, and stat     *)
(* keeps what it had.                                                      *)
Wait(p) ==
    /\ At(p, "wait")
    /\ LET c == ChildOf[p]
       IN  \/ /\ proc[c] = "zombie"
              /\ stat' = [stat EXCEPT ![p] = status[c]]
              /\ proc' = [proc EXCEPT ![p] = "exit", ![c] = "gone"]
           \/ /\ proc[c] = "none"
              /\ proc' = [proc EXCEPT ![p] = "exit"]
              /\ UNCHANGED stat
    /\ UNCHANGED <<main, status, opened, file>>

(* A process ends: init inherits its child, and is its parent if its own   *)
(* has ended.  The shell waits for the first one.                          *)
End(p, code) ==
    /\ status' = [status EXCEPT ![p] = code]
    /\ proc' = [q \in Family |->
                  IF q = p
                  THEN IF \E r \in DOMAIN ChildOf :
                            ChildOf[r] = p /\ proc[r] # "gone"
                       THEN "zombie" ELSE "gone"
                  ELSE IF p \in DOMAIN ChildOf /\ q = ChildOf[p]
                          /\ proc[q] = "zombie"
                  THEN "gone" ELSE proc[q]]
    /\ main' = IF p = "P" THEN "end" ELSE main
    /\ UNCHANGED <<stat, opened, file>>

Exit(p) == At(p, "exit") /\ End(p, Code(p))

(* gcc ends with some code; an execv that fails comes back, to return 0.   *)
Exec(p) == At(p, "exec") /\ \E code \in GccCodes \cup {0} : End(p, code)

(* family: the open, and the child's waitpid for its parent, which is not  *)
(* its child: it fails at once.                                            *)
OpenFile(p) ==
    /\ At(p, "open")
    /\ opened' \in {opened, [opened EXCEPT ![p] = TRUE]}
    /\ proc' = [proc EXCEPT ![p] = "write"]
    /\ UNCHANGED <<main, status, stat, file>>

(* The file is not truncated: what is longer than PATH stays behind it.    *)
WriteFile(p) ==
    /\ At(p, "write")
    /\ \/ opened[p] /\ file' = [file EXCEPT ![p] =
             [path |-> PathLength,
              old |-> IF @.old > PathLength THEN @.old - PathLength ELSE 0]]
       \/ UNCHANGED file
    /\ proc' = [proc EXCEPT ![p] = "exit"]
    /\ UNCHANGED <<main, status, stat, opened>>

process(p) ==
    \/ p \in DOMAIN ChildOf /\ (Fork(p) \/ Wait(p))
    \/ Exec(p) \/ OpenFile(p) \/ WriteFile(p) \/ Exit(p)

ProcessesNext ==
    /\ ProcessBegin \/ \E p \in Family : process(p)
    /\ UNCHANGED command

-----------------------------------------------------------------------------
(* What the members of a family learn and leave behind.  In ex3.c and      *)
(* ex4.c whoever waits gets the code of the child it has (2 and 3 in ex3,  *)
(* gcc's in ex4), and main ends last, with no zombie or orphan, whichever  *)
(* fork failed.  In ex2.c the files of parent and child, if they were equal*)
(* and could be written, are equal at the end ("Sao iguais :)", ex2.c:9),  *)
(* though neither process waits for the other.                             *)
FamilyResults ==
    /\ command.name \in {"tree", "exec"} =>
          /\ \A p \in DOMAIN ChildOf : proc[p] = "exit" =>
                stat[p] = IF proc[ChildOf[p]] = "gone"
                          THEN status[ChildOf[p]] ELSE Unset
          /\ MainAt("tree", "end") =>
                stat["P"] \in {2, Unset} /\ stat["C"] \in {3, Unset}
          /\ main = "end" => \A p \in Family : proc[p] \in {"none", "gone"}
    /\ (/\ command.name = "family" /\ command.old["P"] = command.old["C"]
        /\ \A p \in {"P", "C"} : proc[p] = "gone" /\ file[p].path > 0)
       => file["P"] = file["C"]
=============================================================================
