----------------------------- MODULE SeriTests -----------------------------
(***************************************************************************)
(* Two of the programs that try seri.c out, as its users:                  *)
(*   settings   ioctlTest SET with four settings, and then ioctlTest GET   *)
(*   nusers     nusersTest, while another process opens and closes the     *)
(*              device as it likes                                         *)
(* Here ioctl is one step, and its arguments are the 24 bits that they are *)
(* in the code; SeriIoctl has its steps, and the handler between them.     *)
(***************************************************************************)
EXTENDS CommandLine, Integers

Parities == {"None", "Odd", "Even", "1", "0"}

TestCommands ==
    [name : {"settings"}, bitrate : {1200, 9600}, char_width : 5 .. 8,
     stop_bits : {1, 2}, parity : Parities]
        \cup [name : {"nusers"}]

TestPrograms == {"settings", "nusers"}

VARIABLES
    lcr, divisor,  \* the line control register and the divisor's 16 bits
    display,       \* what ioctlTest GET has printed
    n_users,       \* of seri.c
    fds,           \* the descriptors of nusersTest that are open
    fd,            \* its variables fd0, fd1, fd2
    other,         \* the other process has the device open
    met            \* history: the opens of nusersTest that came while it had

testVars == <<lcr, divisor, display, n_users, fds, fd, other, met>>

Bits(v, lo, n) == (v \div lo) % n   \* n values from bit value lo on

(* What seri_init leaves: 8 bits, 2 stop bits, even parity, 1200 baud.     *)
TestsInit ==
    /\ lcr = 3 + 4 + 8 + 16 /\ divisor = 96
    /\ display = <<>>
    /\ n_users = 0 /\ fds = {} /\ fd = [f \in 0 .. 2 |-> -1] /\ other = FALSE
    /\ met = {}

-----------------------------------------------------------------------------
(* ioctlTest                                                               *)

create_config(bitrate, char_width, parity, stop_bits) ==
    LET div == IF bitrate = 9600 THEN 12 ELSE 96
        bits == (char_width - 5) + 4 * (stop_bits - 1) + 8 * parity
    IN  65536 * Bits(div, 256, 256) + 256 * Bits(div, 1, 256) + bits

(* The number that ioctlTest passes for a parity.                          *)
ParityBits(parity) == CASE parity = "None" -> 0
                        [] parity = "Odd"  -> 1
                        [] parity = "Even" -> 3
                        [] parity = "1"    -> 5
                        [] parity = "0"    -> 7

(* Mutant: the bits of the parity are taken to be two. *)
SetSeriTwoParityBits(config) ==
    /\ lcr' = Bits(config, 1, 16) + 16 * Bits(config, 16, 2)
    /\ divisor' = 256 * Bits(config, 65536, 256) + Bits(config, 256, 256)

(* SET_SERI: width, stop bits and parity, the low seven bits, and DLAB off.*)
SetSeri(config) ==
    /\ lcr' = Bits(config, 1, 4) + 4 * Bits(config, 4, 4) + 16 * Bits(config, 16, 8)
    /\ divisor' = 256 * Bits(config, 65536, 256) + Bits(config, 256, 256)

GetSeri == (lcr % 128) + 256 * (divisor % 256) + 65536 * (divisor \div 256)

display_config(config) ==
    LET div == 256 * Bits(config, 65536, 256) + Bits(config, 256, 256)
    IN  [ bitrate |-> 115200 \div div,
          char_width |-> Bits(config, 1, 4) + 5,
          stop_bits |-> Bits(config, 4, 2) + 1,
          parity |-> IF Bits(config, 8, 2) = 0 THEN "None"
                     ELSE <<"Odd", "Even", "1", "0">>[Bits(config, 16, 4) + 1] ]

IoctlTestSet ==
    /\ MainAt("settings", "start")
    /\ SetSeri(create_config(command.bitrate, command.char_width,
                             ParityBits(command.parity), command.stop_bits))
    /\ main' = "get"
    /\ UNCHANGED <<display, n_users, fds, fd, other, met>>

IoctlTestGet ==
    /\ MainAt("settings", "get")
    /\ display' = display_config(GetSeri)
    /\ main' = "end"
    /\ UNCHANGED <<lcr, divisor, n_users, fds, fd, other, met>>

-----------------------------------------------------------------------------
(* nusersTest: descriptors 3, 4, ... are free, and the lowest one is taken.*)

Lowest(s) == CHOOSE m \in s : \A n \in s : m <= n

(* Mutant: a failed open has counted its user. *)
OpenCountsFirst(f, to) ==
    /\ main' = to
    /\ n_users' = n_users + 1
    /\ IF n_users > 0
       THEN fd' = [fd EXCEPT ![f] = -1] /\ UNCHANGED fds
       ELSE LET d == Lowest((3 .. 5) \ fds)
            IN  fd' = [fd EXCEPT ![f] = d] /\ fds' = fds \cup {d}
    /\ met' = IF other THEN met \cup {f} ELSE met
    /\ UNCHANGED <<lcr, divisor, display, other>>

(* open("/dev/seri0"): -1 when there is a user.                            *)
Open(f, to) ==
    /\ main' = to
    /\ IF n_users > 0
       THEN fd' = [fd EXCEPT ![f] = -1] /\ UNCHANGED <<fds, n_users>>
       ELSE LET d == Lowest((3 .. 5) \ fds)
            IN  /\ fd' = [fd EXCEPT ![f] = d] /\ fds' = fds \cup {d}
                /\ n_users' = n_users + 1
    /\ met' = IF other THEN met \cup {f} ELSE met
    /\ UNCHANGED <<lcr, divisor, display, other>>

(* close(fd): EBADF, and no release, for a descriptor that is not open.    *)
Close(f, to) ==
    /\ main' = to
    /\ fds' = fds \ {fd[f]}
    /\ n_users' = IF fd[f] \in fds THEN n_users - 1 ELSE n_users
    /\ UNCHANGED <<lcr, divisor, display, fd, other, met>>

NusersTest ==
    \/ MainAt("nusers", "start") /\ Open(0, "opened0")
    \/ /\ MainAt("nusers", "opened0") /\ fd[0] = -1
       /\ main' = "end" /\ UNCHANGED testVars
    \/ MainAt("nusers", "opened0") /\ fd[0] # -1 /\ Open(1, "close")
    \/ MainAt("nusers", "close") /\ Close(0, "open2")
    \/ MainAt("nusers", "open2") /\ Open(2, "close0")
    \/ MainAt("nusers", "close0") /\ Close(0, "close1")
    \/ MainAt("nusers", "close1") /\ Close(1, "close2")
    \/ MainAt("nusers", "close2") /\ Close(2, "end")

OtherUser ==
    /\ command.name = "nusers"
    /\ IF other THEN n_users' = n_users - 1
                ELSE n_users = 0 /\ n_users' = n_users + 1
    /\ other' = ~ other
    /\ UNCHANGED <<main, lcr, divisor, display, fds, fd, met>>

TestsMain == IoctlTestSet \/ IoctlTestGet \/ NusersTest

TestsNext == (TestsMain \/ OtherUser) /\ UNCHANGED command

-----------------------------------------------------------------------------
(* ioctlTest GET shows the settings that ioctlTest SET was given: the three*)
(* layouts of the 24 bits, of create_config, seri_ioctl and display_config,*)
(* agree for every setting.  nusersTest is refused its first and its third *)
(* open exactly if the other process has the device at that moment, and its*)
(* second always, for it has it itself; and though it closes fd0 twice, and*)
(* by then may mean fd2 by it, it leaves no user behind, whenever the other*)
(* process comes, and never has two descriptors open.                      *)
TestsReport ==
    /\ MainAt("settings", "end") =>
          \A s \in DOMAIN display : display[s] = command[s]
    /\ MainAt("nusers", "end") =>
          /\ fds = {} /\ n_users = (IF other THEN 1 ELSE 0)
          /\ fd[0] = -1 <=> 0 \in met
          /\ fd[0] # -1 => fd[1] = -1 /\ (fd[2] = -1 <=> 2 \in met)
    /\ fds \subseteq {3}
=============================================================================
