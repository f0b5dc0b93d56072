-------------------------- MODULE StudentRecords --------------------------
(***************************************************************************)
(* Problem_Set_2/ex3.c and ex3b.c.  ex3 appends one student to a file, each*)
(* character of the name and each of three grades as the first two bytes of*)
(* its "%x"; ex3b reads the file two bytes at a time.  The command "grades"*)
(* is ex3 once for each student and then ex3b.                             *)
(* A byte of the file is a hexadecimal digit, 0 .. 15, or NL or NUL.       *)
(***************************************************************************)
EXTENDS CommandLine, Integers, Sequences

CONSTANTS
    Classes,   \* lists of students, each a record of st and grades
    StackBytes \* what buffer[2] of ex3b may hold before it is set

NL  == 16
NUL == 17

(* ASCII names that fit in name[30], and grades of at most two digits.     *)
Students == [st : Seq(1 .. 127), grades : [1 .. 3 -> 0 .. 255]]

ASSUME RecordsAssumption ==
    /\ Classes \subseteq Seq(Students) \ {<<>>}
    /\ \A c \in Classes : \A n \in 1 .. Len(c) : Len(c[n].st) <= 29
    /\ StackBytes \subseteq 0 .. NUL

RecordCommands == [name : {"grades"}, students : Classes, junk : StackBytes]

RecordPrograms == {"grades"}

VARIABLES
    written,  \* how many students ex3 has appended
    data,     \* the file
    at,       \* the position of ex3b in it
    buffer,   \* its buffer[3]
    letters,  \* what it has put in name, i characters
    shown     \* history: the records it has printed

recordVars == <<written, data, at, buffer, letters, shown>>

RecordsInit ==
    /\ written = 0 /\ data = <<>>
    /\ at = 0 /\ letters = <<>> /\ shown = <<>>
    /\ buffer = <<NUL, NUL, NUL>>

-----------------------------------------------------------------------------
(* Mutant: "%d". *)
HexDecimal(v) == IF v < 10 THEN <<v, NUL>> ELSE <<v \div 10, v % 10>>

(* The two bytes of sprintf(buff, "%x", v) that are written.               *)
Hex(v) == IF v < 16 THEN <<v, NUL>> ELSE <<v \div 16, v % 16>>

HexAll(s) == [n \in 1 .. 2 * Len(s) |-> Hex(s[(n + 1) \div 2])[2 - (n % 2)]]

WriteRecord ==   \* a run of ex3
    /\ Runs(RecordPrograms) /\ main = "start"
    /\ LET student == command.students[written + 1]
       IN  data' = data \o HexAll(student.st) \o <<NL>>
                        \o HexAll(student.grades) \o <<NL>>
    /\ written' = written + 1
    /\ IF written' = Len(command.students)
       THEN main' = "read" /\ buffer' = <<NUL, NUL, command.junk>>
       ELSE UNCHANGED <<main, buffer>>
    /\ UNCHANGED <<at, letters, shown>>

-----------------------------------------------------------------------------
(* read(file, &buf[from], n): the bytes that it finds replace those in buf.*)
ReadInto(buf, from, pos, n) ==
    [c \in 1 .. 3 |-> IF c \in from .. from + n - 1 /\ pos + c - from < Len(data)
                      THEN data[pos + 1 + c - from] ELSE buf[c]]

(* strtol(buf, NULL, 16): the digits up to the first byte that is not one. *)
Strtol(buf) ==
    IF buf[1] >= NL THEN 0
    ELSE IF buf[2] >= NL THEN buf[1]
    ELSE IF buf[3] >= NL THEN 16 * buf[1] + buf[2]
    ELSE 256 * buf[1] + 16 * buf[2] + buf[3]

Zeros == <<NUL, NUL, NUL>>

(* Two more bytes: a character of the name ...                             *)
ReadLetter ==
    /\ Runs(RecordPrograms) /\ main = "read" /\ at < Len(data)
    /\ LET buf == ReadInto(buffer, 1, at, 2)
       IN  /\ buf[1] # NL /\ Len(letters) < 30
           /\ letters' = Append(letters, Strtol(buf) % 256)
           /\ buffer' = buf
    /\ at' = at + 2
    /\ UNCHANGED <<main, written, data, shown>>

(* name is uninitialised until it is first cleared: puts goes on to a NUL. *)
Behind == IF shown = <<>> THEN {<<>>, <<255>>} ELSE {<<>>}

(* Mutant: the grades begin after the two bytes that hold the newline. *)
ReadGradesFromNext ==
    /\ Runs(RecordPrograms) /\ main = "read" /\ at < Len(data)
    /\ LET buf == ReadInto(buffer, 1, at, 2)
           first == ReadInto(Zeros, 1, at + 2, 2)
       IN  /\ buf[1] = NL \/ Len(letters) >= 30
           /\ \E tail \in Behind : shown' = Append(shown,
               [st |-> letters \o tail, grades |->
                <<Strtol(first), Strtol(ReadInto(Zeros, 1, at + 4, 2)),
                  Strtol(ReadInto(Zeros, 1, at + 6, 2))>>])
    /\ letters' = <<>> /\ buffer' = Zeros
    /\ at' = at + 9
    /\ UNCHANGED <<main, written, data>>

(* ... or the newline after it, and the first byte of the grades, which    *)
(* follow; the name is printed and cleared, and the buffer for each grade. *)
ReadGrades ==
    /\ Runs(RecordPrograms) /\ main = "read" /\ at < Len(data)
    /\ LET buf == ReadInto(buffer, 1, at, 2)
           first == ReadInto([buf EXCEPT ![1] = buf[2]], 2, at + 2, 1)
       IN  /\ buf[1] = NL \/ Len(letters) >= 30
           /\ \E tail \in Behind : shown' = Append(shown,
               [st |-> letters \o tail, grades |->
                <<Strtol(first), Strtol(ReadInto(Zeros, 1, at + 3, 2)),
                  Strtol(ReadInto(Zeros, 1, at + 5, 2))>>])
    /\ letters' = <<>>
    /\ buffer' = ReadInto(Zeros, 1, at + 7, 1)
    /\ at' = at + 8
    /\ UNCHANGED <<main, written, data>>

ReadEnd ==
    /\ Runs(RecordPrograms) /\ main = "read" /\ at >= Len(data)
    /\ main' = "end"
    /\ UNCHANGED recordVars

RecordsNext ==
    /\ WriteRecord \/ ReadLetter \/ ReadGrades \/ ReadEnd
    /\ UNCHANGED command

-----------------------------------------------------------------------------
(* What ex3 wrote, ex3b shows, student after student, for grades and       *)
(* characters of one digit and of two.  The first student's name is at     *)
(* least the beginning of what is shown, and only the last two grades are  *)
(* sure: until the buffer is cleared, after the first grade, a hexadecimal *)
(* digit in the byte behind the two that are read is taken for a third.    *)
RecordsRead ==
    MainAt("grades", "end") =>
        /\ Len(shown) = Len(command.students)
        /\ \A n \in 2 .. Len(shown) : shown[n] = command.students[n]
        /\ \A g \in {2, 3} : shown[1].grades[g] = command.students[1].grades[g]
        /\ command.junk >= NL =>
              /\ shown[1].grades = command.students[1].grades
              /\ \A c \in DOMAIN command.students[1].st :
                    shown[1].st[c] = command.students[1].st[c]
=============================================================================
