--------------------------- MODULE MCParallelRunner ---------------------------
(* ParallelRunner as TLC runs it: workers are model values of the .cfg.       *)
EXTENDS ParallelRunner
===============================================================================
