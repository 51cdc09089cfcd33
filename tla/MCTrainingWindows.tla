-------------------------- MODULE MCTrainingWindows --------------------------
(* A small instance of TrainingWindows for TLC: flights that are too short   *)
(* to be split, without a window in one part or in both, and with several.   *)
EXTENDS TrainingWindows

SmallTables ==
    {t \in UNION {[1 .. n -> {1, 2, 4, 6, 7, 9}] : n \in 1 .. 2} : Total(t) <= 14}
        \cup {<<7, 5, 7>>, <<7, 4, 7>>, <<6, 2, 7>>, <<7, 2, 6, 4>>, <<4, 9, 4>>}
===============================================================================
