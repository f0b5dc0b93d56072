---------------------------- MODULE MCSeriCalls ----------------------------
(* Model checking of SeriCalls: what polls may ask for, and SET_SERI       *)
(* programming another divisor.                                            *)
EXTENDS SeriCalls

MCInterests == {{"POLLIN"}}

OtherDivisor == {-2}
=============================================================================
