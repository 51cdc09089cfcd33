---------------------------- MODULE MCAttemptStore ----------------------------
(* Small instances of AttemptStore for TLC.                                 *)
EXTENDS AttemptStore

\* Plain reruns, --resume, --append-missing, and both.
AllFlags == Flags
===============================================================================
