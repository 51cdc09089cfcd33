--------------------------- MODULE MCFusionMonitor ---------------------------
(* FusionMonitor with the values TLC uses. *)
EXTENDS FusionMonitor

Thresholds == <<2, 3, 3>>

\* -1 is stored as 255 and 7 is out of range: both select pure PID.
AllModeValues == {-1, 1, 2, 3, 4, 7}

\* A quiet frame, one below every threshold whose second occurrence crosses
\* that of roll, and one each with an ML command that is NaN or infinite.
Frames == {<<0, 0, 0>>, <<2, 0, 1>>, <<1, NaN, 2>>, <<0, Inf, 0>>}
===============================================================================
