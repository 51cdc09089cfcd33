---------------------------- MODULE MCFlightMonitor ----------------------------
(* FlightMonitor as TLC runs it: every bound is a number given in the .cfg.  *)
EXTENDS FlightMonitor
===============================================================================
