--------------------------- MODULE MCParamExchange ---------------------------
(* Small instances of ParamExchange for TLC: scenarios of 0 and 1 and a mode *)
(* with a range of 0 .. 1; the first plan sets the scenario to 0, later to  *)
(* 1, and the second one asks for a value the type cannot hold.             *)
EXTENDS ParamExchange

ParamNames == {"mode", "scn"}
Lowest == [n \in ParamNames |-> 0]
Highest == [n \in ParamNames |-> 1]

Set(n, v) == [name |-> n, value |-> v]

FlightPlans ==
    {<< <<Set("mode", 1), Set("scn", 0)>>, <<Set("scn", 1)>> >>,
     << <<Set("scn", 2), Set("mode", 1)>> >>}
===============================================================================
