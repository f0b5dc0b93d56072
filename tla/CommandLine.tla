---------------------------- MODULE CommandLine ----------------------------
(***************************************************************************)
(* What the programs of the problem sets have in common: a command, with   *)
(* the arguments and the files it is run on, and a function main.          *)
(***************************************************************************)
VARIABLES
    command,  \* the program that the shell runs, and what it is run on
    main      \* where its main is: "start", ..., "end", or "killed"

Runs(names)      == command.name \in names /\ main \notin {"end", "killed"}
MainAt(name, at) == command.name = name /\ main = at
=============================================================================
