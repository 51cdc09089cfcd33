---------------------------- MODULE ParamExchange ----------------------------
(***************************************************************************)
(* The MAVLink parameter exchange: set_param and the groups of calls in    *)
(* set_run_params and monitor_flight of                                    *)
(* Tools/autotest/run_pid_piper_mode_experiments.py on one side, the       *)
(* handlers of libraries/GCS_MAVLink/GCS_Param.cpp with the save queue of  *)
(* AP_Param.cpp on the other.                                              *)
(*                                                                         *)
(* The link (UDP and MAVProxy in between) may lose, delay, duplicate and   *)
(* reorder messages: it is the set of the messages that may yet arrive.    *)
(* So are the vehicle's queues, which other users fill as well and which   *)
(* drop what does not fit.                                                 *)
(***************************************************************************)
EXTENDS Integers, Sequences

CONSTANTS
    Names,          \* parameters
    Lo, Hi,         \* range of the integer type of each parameter
    Plans,          \* groups of assignments of a flight: launch, post-AUTO
    attempts        \* tries of set_param

Assignment == [name : Names, value : Int]

\* The lists name a parameter once; AP_Int8, AP_Int16 and AP_Int32 ranges.
ASSUME ExchangeAssumption ==
    /\ \A n \in Names : Lo[n] \in Int /\ Hi[n] \in Int /\ Lo[n] <= Hi[n]
    /\ \A p \in Plans :
         /\ p \in Seq(Seq(Assignment)) /\ p # <<>>
         /\ \A g \in 1 .. Len(p) :
              /\ p[g] # <<>>
              /\ \A i, j \in 1 .. Len(p[g]) : p[g][i].name = p[g][j].name => i = j
    /\ attempts \in Nat \ {0}

VARIABLES
    \* the vehicle
    value,          \* parameter values
    save_queue,     \* parameters to be saved and reported
    param_requests, param_replies,
    \* the link
    toVehicle, toRunner,
    \* the runner
    groups, group,  \* all groups, and the one under way
    item,           \* the assignment under way
    tries,          \* tries of set_param that have timed out
    failed,         \* failed_params
    pc

vehicle == <<value, save_queue, param_requests, param_replies>>
runner == <<groups, group, item, tries, failed, pc>>
vars == <<vehicle, toVehicle, toRunner, runner>>

\* What the parameters may hold.
Values == {v \in [Names -> UNION {Lo[n] .. Hi[n] : n \in Names}] :
               \A n \in Names : v[n] \in Lo[n] .. Hi[n]}

Params == groups[group]
name == Params[item].name
wanted == Params[item].value

PARAM_SET(n, v) == [kind |-> "set", name |-> n, value |-> v]
PARAM_REQUEST_READ(n) == [kind |-> "read", name |-> n]
PARAM_VALUE(n, v) == [name |-> n, value |-> v]

-------------------------------------------------------------------------------
(* set_param.                                                              *)

Send ==
    /\ pc = "send"
    /\ toVehicle' = toVehicle \cup {PARAM_SET(name, wanted)}
    /\ pc' = "wait"
    /\ UNCHANGED <<vehicle, toRunner, groups, group, item, tries, failed>>

\* Mutant: failures do not reach the caller.
EndItem_IgnoresFailure(f) ==
    /\ failed' = f /\ item' = item + 1 /\ tries' = 0
    /\ pc' = IF item < Len(Params) THEN "send" ELSE "between"

\* set_param has returned; its caller goes on with the next parameter, also
\* after a failure, and gives up at the end of the group.
EndItem(f) ==
    /\ failed' = f /\ item' = item + 1 /\ tries' = 0
    /\ pc' = IF item < Len(Params) THEN "send"
             ELSE IF f = {} THEN "between" ELSE "raised"

\* Mutant: the name is not compared.
Confirms_AnyName(m) == m.value = wanted

\* |got - value| < 0.01 is equality, the parameters being integers.
Confirms(m) == m.name = name /\ m.value = wanted

\* recv_match(type="PARAM_VALUE"); a message that does not match is dropped,
\* which Lose stands for.
Receive ==
    /\ pc = "wait"
    /\ \E m \in toRunner : Confirms(m) /\ toRunner' = toRunner \ {m}
    /\ EndItem(failed)
    /\ UNCHANGED <<vehicle, toVehicle, groups, group>>

\* Mutant: a new request starts the tries again.
Timeout_NotCounted ==
    /\ pc = "wait"
    /\ toVehicle' = toVehicle \cup {PARAM_REQUEST_READ(name)}
    /\ pc' = "send"
    /\ UNCHANGED <<vehicle, toRunner, groups, group, item, tries, failed>>

\* The time of one try is over: the value is requested, for the next try.
Timeout ==
    /\ pc = "wait"
    /\ toVehicle' = toVehicle \cup {PARAM_REQUEST_READ(name)}
    /\ IF tries + 1 < attempts
       THEN tries' = tries + 1 /\ pc' = "send" /\ UNCHANGED <<item, failed>>
       ELSE EndItem(failed \cup {name})
    /\ UNCHANGED <<vehicle, toRunner, groups, group>>

\* The next group of the flight.  In between are the GPS, arming and climb
\* loops, whose recv_match calls drop every PARAM_VALUE: by assumption they
\* last longer than any message of the last group is under way.
NextGroup ==
    /\ pc = "between" /\ group < Len(groups)
    /\ toVehicle = {} /\ toRunner = {} /\ save_queue = {}
    /\ param_requests = {} /\ param_replies = {}
    /\ group' = group + 1 /\ item' = 1 /\ tries' = 0 /\ failed' = {}
    /\ pc' = "send"
    /\ UNCHANGED <<vehicle, toVehicle, toRunner, groups>>

-------------------------------------------------------------------------------
(* The vehicle.                                                            *)

\* Mutant: no constrain_float.
set_float_Unbounded(n, v) == v

\* AP_Param::set_float
set_float(n, v) == IF v < Lo[n] THEN Lo[n] ELSE IF v > Hi[n] THEN Hi[n] ELSE v

\* The value changes at once; saving and reporting are left to the io thread,
\* or lost when its queue is full and the vehicle armed (AP_Param::save).
handle_param_set ==
    \E m \in toVehicle :
        /\ m.kind = "set"
        /\ value' = [value EXCEPT ![m.name] = set_float(m.name, m.value)]
        /\ save_queue' \in {save_queue, save_queue \cup {m.name}}
        /\ UNCHANGED <<param_requests, param_replies, toVehicle, toRunner, runner>>

\* Sends the value of now, not the one that was set.
save_sync ==
    \E n \in save_queue :
        /\ save_queue' = save_queue \ {n}
        /\ toRunner' = toRunner \cup {PARAM_VALUE(n, value[n])}
        /\ UNCHANGED <<value, param_requests, param_replies, toVehicle, runner>>

handle_param_request_read ==
    \E m \in toVehicle :
        /\ m.kind = "read"
        /\ param_requests' = param_requests \cup {m.name}
        /\ UNCHANGED <<value, save_queue, param_replies, toVehicle, toRunner, runner>>

\* The io thread reads the value, the main thread sends it later.
param_io_timer ==
    \E n \in param_requests :
        /\ param_requests' = param_requests \ {n}
        /\ param_replies' = param_replies \cup {PARAM_VALUE(n, value[n])}
        /\ UNCHANGED <<value, save_queue, toVehicle, toRunner, runner>>

send_parameter_reply ==
    \E r \in param_replies :
        /\ param_replies' = param_replies \ {r}
        /\ toRunner' = toRunner \cup {r}
        /\ UNCHANGED <<value, save_queue, param_requests, toVehicle, runner>>

\* A parameter download of MAVProxy is under way.
queued_param_send ==
    \E n \in Names :
        /\ toRunner' = toRunner \cup {PARAM_VALUE(n, value[n])}
        /\ UNCHANGED <<vehicle, toVehicle, runner>>

\* A message has arrived for the last time, is lost or is dropped by a loop
\* that looks for another one.
Lose ==
    /\ \/ \E m \in toVehicle : toVehicle' = toVehicle \ {m} /\ UNCHANGED toRunner
       \/ \E m \in toRunner : toRunner' = toRunner \ {m} /\ UNCHANGED toVehicle
    /\ UNCHANGED <<vehicle, runner>>

Init ==
    /\ value \in Values
    /\ save_queue = {} /\ param_requests = {} /\ param_replies = {}
    /\ toVehicle = {} /\ toRunner = {}
    /\ groups \in Plans /\ group = 1 /\ item = 1
    /\ tries = 0 /\ failed = {} /\ pc = "send"

Runner == Send \/ Receive \/ Timeout \/ NextGroup

Vehicle ==
    \/ handle_param_set \/ save_sync
    \/ handle_param_request_read \/ param_io_timer \/ send_parameter_reply
    \/ queued_param_send

Next == Runner \/ Vehicle \/ Lose

Spec == Init /\ [][Next]_vars

\* set_param runs on its own clock, whatever arrives.
FairSpec == Spec /\ WF_vars(Send) /\ WF_vars(Timeout)

-------------------------------------------------------------------------------
(* Properties.                                                             *)

Reports == [name : Names, value : Int]

\* Type correctness: a parameter never leaves the range of its type, whatever
\* values the command line asks for.
TypeOK ==
    /\ value \in Values
    /\ save_queue \subseteq Names /\ param_requests \subseteq Names
    /\ param_replies \subseteq Reports /\ toRunner \subseteq Reports
    /\ toVehicle \subseteq [kind : {"set"}, name : Names, value : Int]
                         \cup [kind : {"read"}, name : Names]
    /\ groups \in Plans /\ group \in 1 .. Len(groups)
    /\ pc \in {"send", "wait", "between", "raised"}
    /\ item \in 1 .. Len(Params) + 1
    /\ pc \in {"send", "wait"} <=> item <= Len(Params)
    /\ tries \in 0 .. attempts - 1
    /\ failed \subseteq Names

\* A parameter whose set_param returned True holds the requested value in the
\* vehicle, from then until the next group: no stale report of an earlier
\* value, reply to an old read request, download of MAVProxy or late second
\* PARAM_SET can make it untrue.
ConfirmedIsSet ==
    \A j \in 1 .. Len(Params) :
        j < item /\ Params[j].name \notin failed =>
            value[Params[j].name] = Params[j].value

phase == CASE pc \in {"send", "wait"} -> "active"
           [] pc = "between" -> "applied"
           [] pc = "raised" -> "failed"

\* The exchange implements the groups FlightMonitor assumes: set_run_params and
\* the post-takeoff and post-AUTO loops report success only when the vehicle
\* has every value of the group.
Groups == INSTANCE ParamGroups
ImplementsGroups == Groups!Spec

\* Every group of set_param calls returns, even if the link loses everything or
\* the vehicle never stops sending PARAM_VALUE messages.
GroupReturns == pc = "send" ~> pc \in {"between", "raised"}
===============================================================================
