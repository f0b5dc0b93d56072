----------------------------- MODULE MCPrograms -----------------------------
(* Model checking of Programs: two students, whose names and grades have   *)
(* values of one and of two hexadecimal digits.                            *)
EXTENDS Programs

MCStudents ==
    [st : {<<>>, <<97>>, <<9, 97>>}, grades : [1 .. 3 -> {7, 20}]]

MCOffsets == {-1, 0, 8, 24, 25, 26}

MCClasses == [1 .. 2 -> MCStudents]
=============================================================================
