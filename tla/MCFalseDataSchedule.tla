-------------------------- MODULE MCFalseDataSchedule --------------------------
(* Small instances of FalseDataSchedule for TLC.                            *)
EXTENDS FalseDataSchedule

\* Disabled, both axes, alternating (8 is cut to 7).  -1 below is cut to 0.
GpsValues == {0, 6, 8}
ImuValues == {-1, 0, 1, 2}
OnlyDisabled == {0}
===============================================================================
