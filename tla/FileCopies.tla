---------------------------- MODULE FileCopies ----------------------------
(***************************************************************************)
(* The programs of Problem_Set_2 that copy bytes from file to file:        *)
(*   copy       ex1.c: a file to a new file                                *)
(*   redirect   ex5.c: a file to standard output, or to a new file that    *)
(*              standard output is redirected to                           *)
(*   merge      ex2.c: the files split/xaa, split/xab, ... to x.mrg        *)
(*   sample     ex4.c: a tenth of a file, from an offset on, to file.smp   *)
(* A byte is <<file, position>>.  read may return fewer bytes than it is   *)
(* asked for, and write may write fewer; a directory opens but is not read.*)
(***************************************************************************)
EXTENDS CommandLine, Integers, Sequences

CONSTANTS
    BUFFERSIZE,   \* 64 in the code
    Letters,      \* number of letters of the alphabet, 26 in the code
    CopySizes,    \* sizes of the files of copy and redirect
    PartSizes,    \* sizes of the parts of merge
    SampleSizes,  \* sizes of the files of sample
    Offsets       \* where samples start

ASSUME CopiesAssumption ==
    /\ BUFFERSIZE \in Nat \ {0} /\ Letters \in Nat \ {0}
    /\ (CopySizes \cup PartSizes \cup SampleSizes) \subseteq Nat
    /\ Offsets \subseteq Int

Missing == -1                         \* the size of a file that is not there
Parts   == (0 .. Letters - 1) \X (0 .. Letters - 1)
Input   == <<0, 0>>                   \* the file of the other programs
JunkByte == <<Input, 0>>              \* a byte as malloc left it
Report  == <<Input, -1>>              \* "Read n bytes."

CopyCommands ==
    [name : {"copy", "redirect"}, kind : {"file", "missing", "directory"},
     size : CopySizes, toFile : BOOLEAN, exists : BOOLEAN]
        \cup [name : {"merge"}, parts : [Parts -> PartSizes \cup {Missing}]]
        \cup [name : {"sample"}, length : SampleSizes, offset : Offsets]

CopyPrograms == {"copy", "redirect", "merge", "sample"}

VARIABLES
    part,    \* merge: <<append1, append2>> of the file that is read
    rpos,    \* the position in the file that is read
    b,       \* what the last read returned
    out,     \* the output file, or standard output of redirect without one
    short    \* history: a write came short

copyVars == <<part, rpos, b, out, short>>

CopiesInit ==
    part = Input /\ rpos = 0 /\ b = 0 /\ out = <<>> /\ short = FALSE

-----------------------------------------------------------------------------
Smaller(m, n) == IF m < n THEN m ELSE n

Bytes(file, from, to) == [n \in 1 .. (to - from) |-> <<file, from + n>>]

InSize == IF command.name = "merge" THEN command.parts[part] ELSE command.size

Readable == command.name = "merge" \/ command.kind = "file"

(* copy opens its input and does not look at the result; redirect does.    *)
(* O_EXCL: an output that exists is not touched.                           *)
CopyOpen ==
    /\ Runs({"copy", "redirect"}) /\ main = "start"
    /\ main' = IF \/ command.name = "redirect" /\ command.kind = "missing"
                  \/ command.exists
                     /\ (command.name = "redirect" => command.toFile)
               THEN "end" ELSE "read"
    /\ UNCHANGED copyVars

(* merge ends at the first part that is not there.                         *)
MergeOpen ==
    /\ Runs({"merge"}) /\ main = "start"
    /\ main' = IF InSize = Missing THEN "end" ELSE "read"
    /\ rpos' = 0
    /\ UNCHANGED <<part, b, out, short>>

(* The loops of all three read until 0; those of copy and redirect go on   *)
(* after -1, and on.                                                       *)
Read ==
    /\ Runs({"copy", "redirect", "merge"}) /\ main = "read"
    /\ LET left == Smaller(BUFFERSIZE, InSize - rpos)
       IN  b' \in IF ~ Readable THEN {-1}
                  ELSE IF left = 0 THEN {0} ELSE 1 .. left
    /\ rpos' = IF Readable THEN rpos + b' ELSE rpos
    /\ main' = IF b' = 0 THEN "close" ELSE "write"
    /\ UNCHANGED <<part, out, short>>

(* Mutant: the whole buffer is written, however much was read. *)
WriteBuffer ==
    /\ Runs({"copy", "redirect", "merge"}) /\ main = "write"
    /\ out' = out \o Bytes(part, rpos - b, rpos - b + BUFFERSIZE)
    /\ main' = "read"
    /\ UNCHANGED <<part, rpos, b, short>>

(* write(..., b), with a result that nobody looks at: with -1 it fails.    *)
Write ==
    /\ Runs({"copy", "redirect", "merge"}) /\ main = "write"
    /\ \E w \in 0 .. (IF b > 0 THEN b ELSE 0) :
          /\ out' = out \o Bytes(part, rpos - b, rpos - b + w)
          /\ short' = (short \/ w < b)
    /\ main' = "read"
    /\ UNCHANGED <<part, rpos, b>>

(* ex5.c means to give standard output back, but std is what dup2 returned,*)
(* STDOUT_FILENO itself: the report goes to the output file.  Without an   *)
(* output file std is uninitialised, and dup2 fails ("Error." is printed), *)
(* or moves standard output to some open file, or to itself.               *)
CopyClose ==
    /\ Runs({"copy", "redirect"}) /\ main = "close"
    /\ out' \in IF command.name = "copy" THEN {out}
                ELSE IF command.toFile THEN {Append(out, Report)}
                ELSE {out, Append(out, Report)}
    /\ main' = "end"
    /\ UNCHANGED <<part, rpos, b, short>>

(* Mutant: the first letter moves on and the second stays where it was. *)
NextPartNoReset ==
    /\ Runs({"merge"}) /\ main = "close"
    /\ part' = IF part[2] + 1 < Letters THEN <<part[1], part[2] + 1>>
                                        ELSE <<part[1] + 1, part[2]>>
    /\ main' = IF part'[1] < Letters THEN "start" ELSE "end"
    /\ UNCHANGED <<rpos, b, out, short>>

(* The next part: xab after xaa, xba after xaz, and none after xzz.        *)
NextPart ==
    /\ Runs({"merge"}) /\ main = "close"
    /\ part' = IF part[2] + 1 < Letters THEN <<part[1], part[2] + 1>>
                                        ELSE <<part[1] + 1, 0>>
    /\ main' = IF part'[1] < Letters THEN "start" ELSE "end"
    /\ UNCHANGED <<rpos, b, out, short>>

(* A negative offset fails in lseek, and one beyond the end makes sampleSize*)
(* negative, so that malloc and read fail; the output has been truncated.  *)
(* Of read only -1 is looked at, and sampleSize bytes are written: if it   *)
(* came short, the rest of the sample is what malloc left in the buffer.   *)
Sample ==
    /\ Runs({"sample"}) /\ main = "start"
    /\ LET sampleSize ==
               Smaller(command.length - command.offset, command.length \div 10)
       IN  IF command.offset < 0 \/ sampleSize < 0
           THEN UNCHANGED <<b, out, short>>
           ELSE \E r \in Smaller(1, sampleSize) .. sampleSize,
                   w \in 0 .. sampleSize :
                  /\ b' = r
                  /\ out' = SubSeq(Bytes(Input, command.offset,
                                         command.offset + r)
                                   \o [n \in 1 .. sampleSize - r |-> JunkByte],
                                   1, w)
                  /\ short' = (w < sampleSize)
    /\ main' = "end"
    /\ UNCHANGED <<part, rpos>>

CopiesNext ==
    /\ \/ CopyOpen \/ MergeOpen \/ Read \/ Write
       \/ CopyClose \/ NextPart \/ Sample
    /\ UNCHANGED command

-----------------------------------------------------------------------------
(* xaa is before xab, and xaz before xba.                                  *)
Before(p, q) == p[1] < q[1] \/ (p[1] = q[1] /\ p[2] < q[2])

(* The parts up to the first one that is missing, and all their bytes.     *)
Present == {p \in Parts : \A q \in Parts :
                q = p \/ Before(q, p) => command.parts[q] # Missing}

PresentBytes == UNION {{<<p, n>> : n \in 1 .. command.parts[p]} : p \in Present}

(* Every such byte once: the parts in order, and each from its first byte. *)
InOrder(s) == \A m, n \in DOMAIN s : m < n =>
                  \/ Before(s[m][1], s[n][1])
                  \/ s[m][1] = s[n][1] /\ s[m][2] < s[n][2]

Merged == InOrder(out) /\ {out[n] : n \in DOMAIN out} = PresentBytes

(* However the reads are cut, and if no write came short, copy, redirect   *)
(* and merge end with what they are for: the whole input (followed by the  *)
(* report, for ex5.c), or the parts in order.  sample does not: its output *)
(* has the length it should, a tenth of the file or what is left of it, but*)
(* is the file's from the offset on only as far as its one read came, and  *)
(* what was in the memory that malloc returned from there on.              *)
CopiesWhole ==
    /\ (main = "end" /\ command.name \in {"copy", "redirect"} /\ ~ short) =>
          \/ out = <<>> /\ (command.exists \/ command.kind = "missing")
          \/ /\ command.kind = "file"
             /\ out \in {Bytes(Input, 0, command.size),
                         Append(Bytes(Input, 0, command.size), Report)}
    /\ (MainAt("merge", "end") /\ ~ short) => Merged
    /\ (MainAt("sample", "end") /\ ~ short) =>
          LET n == command.length
              from == command.offset
              size == Smaller(n - from, n \div 10)
          IN  IF from \notin 0 .. n THEN out = <<>>
              ELSE /\ Len(out) = size /\ b <= size
                   /\ \A m \in 1 .. size :
                         out[m] = IF m <= b THEN <<Input, from + m>> ELSE JunkByte
=============================================================================
