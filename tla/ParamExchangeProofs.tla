------------------------- MODULE ParamExchangeProofs -------------------------
(***************************************************************************)
(* Proofs about ParamExchange, for every set of parameters, every plan of  *)
(* groups and every number of tries: confirmed values are in the vehicle,  *)
(* and the exchange implements the groups of ParamGroups.                  *)
(*                                                                         *)
(* The invariant is about messages: a PARAM_SET under way belongs to the   *)
(* current group, and a report under way that would confirm an assignment  *)
(* of the current group tells the truth.  The second part holds because a  *)
(* group starts with an empty link and within a group the only value a     *)
(* parameter can change to is the wanted one.                              *)
(***************************************************************************)
EXTENDS ParamExchange, TLAPS

\* PARAM_SET messages under way are of the current group.
SetsAreCurrent ==
    \A m \in toVehicle :
        m.kind = "set" =>
            \E j \in 1 .. Len(Params) : /\ m.name = Params[j].name
                                        /\ m.value = Params[j].value

\* Reports under way that could confirm are true.
ReportsAreTrue ==
    \A r \in toRunner \cup param_replies :
        \A j \in 1 .. Len(Params) :
            r.name = Params[j].name /\ r.value = Params[j].value =>
                value[r.name] = r.value

\* The inductive invariant.
Inv ==
    /\ TypeOK /\ SetsAreCurrent /\ ReportsAreTrue /\ ConfirmedIsSet
    /\ pc = "between" => failed = {}

\* The group under way is a list of assignments that names no parameter twice.
LEMMA CurrentGroup ==
    ASSUME TypeOK
    PROVE  /\ Params \in Seq(Assignment) /\ Len(Params) \in Nat \ {0}
           /\ \A j \in 1 .. Len(Params) :
                 Params[j].name \in Names /\ Params[j].value \in Int
           /\ \A i, j \in 1 .. Len(Params) : Params[i].name = Params[j].name => i = j
  <1>1. /\ groups \in Seq(Seq(Assignment))
        /\ group \in 1 .. Len(groups)
        /\ Params # <<>>
        /\ \A i, j \in 1 .. Len(Params) : Params[i].name = Params[j].name => i = j
    BY ExchangeAssumption DEF TypeOK, Params
  <1>2. Params \in Seq(Assignment)
    BY <1>1 DEF Params
  <1>3. \A j \in 1 .. Len(Params) : Params[j] \in Assignment
    BY <1>2
  <1>4. \A j \in 1 .. Len(Params) :
           Params[j].name \in Names /\ Params[j].value \in Int
    BY <1>3 DEF Assignment
  <1>5. Len(Params) \in Nat \ {0}
    BY <1>1, <1>2
  <1> QED  BY <1>1, <1>2, <1>4, <1>5

\* set_float keeps a parameter in its range, and keeps a value that is in it.
LEMMA SetFloatInRange ==
    ASSUME NEW n \in Names, NEW v \in Int
    PROVE  /\ set_float(n, v) \in Lo[n] .. Hi[n]
           /\ v \in Lo[n] .. Hi[n] => set_float(n, v) = v
  BY ExchangeAssumption DEF set_float

\* What the type invariant says of one parameter.
LEMMA ValueInRange ==
    ASSUME value \in Values, NEW n \in Names
    PROVE  value[n] \in Lo[n] .. Hi[n] /\ value[n] \in Int
  BY ExchangeAssumption DEF Values

\* Setting one parameter within its range keeps the type.
LEMMA ValuesExcept ==
    ASSUME value \in Values, NEW n \in Names, NEW v \in Lo[n] .. Hi[n]
    PROVE  [value EXCEPT ![n] = v] \in Values
  BY DEF Values

\* The inductive invariant holds initially.
LEMMA InitInv == Init => Inv
  <1> SUFFICES ASSUME Init PROVE Inv
    OBVIOUS
  <1>1. /\ groups \in Plans /\ groups # <<>> /\ groups \in Seq(Seq(Assignment))
        /\ group = 1 /\ 1 \in 1 .. Len(groups)
    BY ExchangeAssumption DEF Init
  <1>2. Params \in Seq(Assignment) /\ Params # <<>>
    BY <1>1, ExchangeAssumption DEF Params
  <1>3. Len(Params) \in Nat \ {0}
    BY <1>2
  <1>4. TypeOK
    BY <1>1, <1>3, ExchangeAssumption DEF Init, TypeOK
  <1>5. SetsAreCurrent /\ ReportsAreTrue
    BY DEF Init, SetsAreCurrent, ReportsAreTrue
  <1>6. ConfirmedIsSet
    BY <1>3 DEF Init, ConfirmedIsSet
  <1> QED  BY <1>4, <1>5, <1>6 DEF Inv, Init

\* The runner sends or waits in vain: only messages of the current assignment
\* are added.
LEMMA SendInv == Inv /\ Send => Inv'
  <1> SUFFICES ASSUME Inv, Send PROVE Inv'
    OBVIOUS
  <1> USE DEF Inv
  <1>1. Params' = Params /\ item \in 1 .. Len(Params)
    BY DEF Send, Params, TypeOK
  <1>2. name \in Names /\ wanted \in Int
    BY <1>1, CurrentGroup DEF name, wanted
  <1>3. TypeOK'
    BY <1>1, <1>2 DEF Send, TypeOK, PARAM_SET, vehicle
  <1>4. SetsAreCurrent'
    BY <1>1 DEF Send, SetsAreCurrent, PARAM_SET, name, wanted
  <1>5. ReportsAreTrue' /\ ConfirmedIsSet'
    BY <1>1 DEF Send, vehicle, ReportsAreTrue, ConfirmedIsSet
  <1> QED  BY <1>3, <1>4, <1>5 DEF Send

\* A confirmation is a true report, so its parameter may be counted.
LEMMA ReceiveInv == Inv /\ Receive => Inv'
  <1> SUFFICES ASSUME Inv, Receive PROVE Inv'
    OBVIOUS
  <1> USE DEF Inv
  <1>1. /\ Params' = Params /\ item \in 1 .. Len(Params)
        /\ failed' = failed /\ item' = item + 1 /\ tries' = 0
        /\ UNCHANGED <<vehicle, toVehicle, groups, group>>
        /\ pc' = IF item < Len(Params) THEN "send"
                 ELSE IF failed = {} THEN "between" ELSE "raised"
    BY DEF Receive, EndItem, Params, TypeOK
  <1>2. Len(Params) \in Nat \ {0}
    BY CurrentGroup
  <1>3. PICK m \in toRunner : Confirms(m) /\ toRunner' = toRunner \ {m}
    BY DEF Receive
  <1>4. TypeOK'
    BY <1>1, <1>2, <1>3, ExchangeAssumption DEF TypeOK, vehicle
  <1>5. SetsAreCurrent'
    BY <1>1 DEF SetsAreCurrent
  <1>6. ReportsAreTrue'
    BY <1>1, <1>3 DEF ReportsAreTrue, vehicle
  <1>7. value[Params[item].name] = Params[item].value
    BY <1>1, <1>3 DEF ReportsAreTrue, Confirms, name, wanted
  <1>8. ConfirmedIsSet'
    BY <1>1, <1>2, <1>7 DEF ConfirmedIsSet, vehicle
  <1> QED  BY <1>1, <1>4, <1>5, <1>6, <1>8

\* A parameter that was not confirmed is among the failed ones.
LEMMA TimeoutInv == Inv /\ Timeout => Inv'
  <1> SUFFICES ASSUME Inv, Timeout PROVE Inv'
    OBVIOUS
  <1> USE DEF Inv
  <1>1. /\ Params' = Params /\ item \in 1 .. Len(Params)
        /\ UNCHANGED <<value, save_queue, param_requests, param_replies,
                       toRunner, groups, group>>
        /\ toVehicle' = toVehicle \cup {PARAM_REQUEST_READ(name)}
    BY DEF Timeout, Params, TypeOK, vehicle
  <1>2. Len(Params) \in Nat \ {0} /\ name \in Names
    BY <1>1, CurrentGroup DEF name
  <1>3. \/ /\ tries + 1 < attempts /\ tries' = tries + 1
           /\ pc' = "send" /\ item' = item /\ failed' = failed
        \/ /\ failed' = failed \cup {name} /\ item' = item + 1 /\ tries' = 0
           /\ pc' = IF item < Len(Params) THEN "send" ELSE "raised"
    BY DEF Timeout, EndItem
  <1>4. TypeOK'
    BY <1>1, <1>2, <1>3, ExchangeAssumption DEF TypeOK, PARAM_REQUEST_READ
  <1>5. SetsAreCurrent'
    BY <1>1 DEF SetsAreCurrent, PARAM_REQUEST_READ
  <1>6. ReportsAreTrue'
    BY <1>1 DEF ReportsAreTrue
  <1>7. ConfirmedIsSet'
    BY <1>1, <1>2, <1>3 DEF ConfirmedIsSet, name
  <1> QED  BY <1>3, <1>4, <1>5, <1>6, <1>7

\* A group starts with nothing under way.
LEMMA NextGroupInv == Inv /\ NextGroup => Inv'
  <1> SUFFICES ASSUME Inv, NextGroup PROVE Inv'
    OBVIOUS
  <1> USE DEF Inv
  <1>1. /\ groups' = groups /\ groups \in Plans
        /\ group' \in 1 .. Len(groups)
        /\ groups \in Seq(Seq(Assignment))
    BY ExchangeAssumption DEF NextGroup, TypeOK
  <1>2. Params' \in Seq(Assignment) /\ Params' # <<>>
    BY <1>1, ExchangeAssumption DEF Params
  <1>3. Len(Params') \in Nat \ {0}
    BY <1>2
  <1>4. TypeOK'
    BY <1>1, <1>3, ExchangeAssumption DEF NextGroup, TypeOK, vehicle
  <1>5. SetsAreCurrent' /\ ReportsAreTrue'
    BY DEF NextGroup, vehicle, SetsAreCurrent, ReportsAreTrue
  <1>6. ConfirmedIsSet'
    BY <1>3 DEF NextGroup, ConfirmedIsSet
  <1> QED  BY <1>4, <1>5, <1>6 DEF NextGroup

\* A PARAM_SET of the current group changes no parameter that already has its
\* wanted value.
LEMMA SetKeepsWanted ==
    ASSUME Inv, NEW i \in 1 .. Len(Params), NEW j \in 1 .. Len(Params),
           value' = [value EXCEPT ![Params[i].name] =
                        set_float(Params[i].name, Params[i].value)],
           value[Params[j].name] = Params[j].value
    PROVE  value'[Params[j].name] = Params[j].value
  <1>1. /\ Params[i].name \in Names /\ Params[i].value \in Int
        /\ Params[j].name \in Names /\ Params[j].value \in Int
        /\ Params[i].name = Params[j].name => i = j
    BY CurrentGroup DEF Inv
  <1>2. value \in Values
    BY DEF Inv, TypeOK
  <1>3. value \in [Names -> UNION {Lo[n] .. Hi[n] : n \in Names}]
    BY <1>2 DEF Values
  <1>4. CASE i = j
    <2>1. Params[i].value \in Lo[Params[i].name] .. Hi[Params[i].name]
      BY <1>1, <1>2, <1>4, ValueInRange
    <2>2. set_float(Params[i].name, Params[i].value) = Params[i].value
      BY <1>1, <2>1, SetFloatInRange
    <2> QED  BY <1>1, <1>3, <1>4, <2>2
  <1>5. CASE i # j
    BY <1>1, <1>3, <1>5
  <1> QED  BY <1>4, <1>5

\* The vehicle takes a PARAM_SET.
LEMMA SetInv == Inv /\ handle_param_set => Inv'
  <1> SUFFICES ASSUME Inv, handle_param_set PROVE Inv'
    OBVIOUS
  <1>1. PICK m \in toVehicle :
            /\ m.kind = "set"
            /\ value' = [value EXCEPT ![m.name] = set_float(m.name, m.value)]
            /\ save_queue' \in {save_queue, save_queue \cup {m.name}}
            /\ UNCHANGED <<param_requests, param_replies, toVehicle, toRunner, runner>>
    BY DEF handle_param_set
  <1>2. PICK i \in 1 .. Len(Params) :
            m.name = Params[i].name /\ m.value = Params[i].value
    BY <1>1 DEF Inv, SetsAreCurrent
  <1>3. Params[i].name \in Names /\ Params[i].value \in Int
    BY CurrentGroup DEF Inv
  <1>4. Params' = Params /\ UNCHANGED <<groups, group, item, tries, failed, pc>>
    BY <1>1 DEF Params, runner
  <1>5. \A j \in 1 .. Len(Params) : value[Params[j].name] = Params[j].value =>
                                      value'[Params[j].name] = Params[j].value
    BY <1>1, <1>2, SetKeepsWanted
  <1>6. value' \in Values
    BY <1>1, <1>2, <1>3, SetFloatInRange, ValuesExcept DEF Inv, TypeOK
  <1>7. TypeOK'
    BY <1>1, <1>2, <1>3, <1>4, <1>6 DEF Inv, TypeOK
  <1>8. SetsAreCurrent'
    BY <1>1, <1>4 DEF Inv, SetsAreCurrent
  <1>9. ReportsAreTrue'
    BY <1>1, <1>4, <1>5 DEF Inv, ReportsAreTrue
  <1>10. ConfirmedIsSet'
    BY <1>4, <1>5 DEF Inv, ConfirmedIsSet
  <1> QED  BY <1>4, <1>7, <1>8, <1>9, <1>10 DEF Inv

\* Reports carry the value of now, replies the value they were read with.
LEMMA ReportInv ==
    Inv /\ (\/ save_sync \/ handle_param_request_read \/ param_io_timer
            \/ send_parameter_reply \/ queued_param_send \/ Lose) => Inv'
  <1> SUFFICES ASSUME Inv,
                      \/ save_sync \/ handle_param_request_read \/ param_io_timer
                      \/ send_parameter_reply \/ queued_param_send \/ Lose
               PROVE  Inv'
    OBVIOUS
  <1>1. /\ value' = value /\ UNCHANGED <<groups, group, item, tries, failed, pc>>
        /\ toVehicle' \subseteq toVehicle
        /\ save_queue' \subseteq save_queue
    BY DEF save_sync, handle_param_request_read, param_io_timer,
           send_parameter_reply, queued_param_send, Lose, runner, vehicle
  <1>2. param_requests' \subseteq Names
    BY DEF Inv, TypeOK, save_sync, handle_param_request_read, param_io_timer,
           send_parameter_reply, queued_param_send, Lose, vehicle
  <1>3. \A r \in toRunner' \cup param_replies' :
           \/ r \in toRunner \cup param_replies
           \/ \E n \in Names : r = PARAM_VALUE(n, value[n])
    BY DEF Inv, TypeOK, save_sync, handle_param_request_read, param_io_timer,
           send_parameter_reply, queued_param_send, Lose, vehicle
  <1>4. \A n \in Names : PARAM_VALUE(n, value[n]) \in Reports
    BY ValueInRange DEF Inv, TypeOK, PARAM_VALUE, Reports
  <1>5. Params' = Params
    BY <1>1 DEF Params
  <1>6. TypeOK'
    BY <1>1, <1>2, <1>3, <1>4, <1>5 DEF Inv, TypeOK
  <1>7. SetsAreCurrent' /\ ConfirmedIsSet'
    BY <1>1, <1>5 DEF Inv, SetsAreCurrent, ConfirmedIsSet
  <1>8. ReportsAreTrue'
    BY <1>1, <1>3, <1>5 DEF Inv, ReportsAreTrue, PARAM_VALUE
  <1> QED  BY <1>1, <1>6, <1>7, <1>8 DEF Inv

\* The inductive invariant is kept by every step.
LEMMA NextInv == Inv /\ [Next]_vars => Inv'
  <1>1. Inv /\ UNCHANGED vars => Inv'
    BY DEF Inv, TypeOK, SetsAreCurrent, ReportsAreTrue, ConfirmedIsSet, Params,
           vars, vehicle, runner
  <1> QED  BY <1>1, SendInv, ReceiveInv, TimeoutInv, NextGroupInv, SetInv, ReportInv
           DEF Next, Runner, Vehicle

\* The inductive invariant of the exchange: sets under way are of the current
\* group, reports that could confirm are true.
THEOREM ExchangeInductive == Spec => []Inv
  BY InitInv, NextInv, PTL DEF Spec

\* Parameters stay in the range of their types, for every value asked for.
THEOREM ExchangeTypeCorrect == Spec => []TypeOK
  <1>1. Inv => TypeOK  BY DEF Inv
  <1> QED  BY <1>1, ExchangeInductive, PTL

\* set_param returns True only if the vehicle has the value, and the value
\* stays until the next group.
THEOREM ConfirmedParametersAreSet == Spec => []ConfirmedIsSet
  <1>1. Inv => ConfirmedIsSet  BY DEF Inv
  <1> QED  BY <1>1, ExchangeInductive, PTL

\* The end of a group: all parameters confirmed, so the abstract group is
\* applied; or some failed.
LEMMA EndOfGroup ==
    ASSUME Inv, Inv', Receive \/ Timeout
    PROVE  [Groups!Next]_(<<groups, value, group, phase>>)
  <1>1. /\ UNCHANGED <<groups, group, value>> /\ Params' = Params
        /\ phase = "active"
        /\ pc' \in {"send", "between", "raised"}
    BY DEF Receive, Timeout, EndItem, Params, vehicle, phase
  <1>2. CASE pc' = "send"
    BY <1>1, <1>2 DEF phase
  <1>3. CASE pc' = "between"
    <2>1. phase' = "applied" /\ failed' = {} /\ item' > Len(Params)
      BY <1>1, <1>3, CurrentGroup DEF phase, Inv, TypeOK
    <2>2. \A j \in 1 .. Len(Params) : value[Params[j].name] = Params[j].value
      BY <1>1, <2>1, CurrentGroup DEF Inv, ConfirmedIsSet, TypeOK
    <2>3. Groups!Applied
      BY <1>1, <2>1, <2>2 DEF Groups!Applied, Groups!Wanted, Params
    <2> QED  BY <2>3 DEF Groups!Next
  <1>4. CASE pc' = "raised"
    BY <1>1, <1>4 DEF phase, Groups!Next, Groups!Failed
  <1> QED  BY <1>1, <1>2, <1>3, <1>4

\* Every step of the exchange is a step of the groups or changes nothing there.
LEMMA StepSimulates ==
    ASSUME Inv, Inv', [Next]_vars
    PROVE  [Groups!Next]_(<<groups, value, group, phase>>)
  <1>1. CASE Send
    BY <1>1 DEF Send, vehicle, phase
  <1>2. CASE Receive \/ Timeout
    BY <1>2, EndOfGroup
  <1>3. CASE NextGroup
    BY <1>3 DEF NextGroup, vehicle, phase, Groups!Next, Groups!NextGroup
  <1>4. CASE handle_param_set
    <2>1. PICK m \in toVehicle :
              /\ m.kind = "set"
              /\ value' = [value EXCEPT ![m.name] = set_float(m.name, m.value)]
              /\ UNCHANGED runner
      BY <1>4 DEF handle_param_set
    <2>2. PICK j \in 1 .. Len(Params) :
              m.name = Params[j].name /\ m.value = Params[j].value
      BY <2>1 DEF Inv, SetsAreCurrent
    <2>3. UNCHANGED <<groups, group, phase>>
      BY <2>1 DEF runner, phase
    <2>4. Groups!Apply
      BY <2>1, <2>2, <2>3
      DEF Groups!Apply, Groups!Wanted, Groups!InRange, set_float, Params
    <2> QED  BY <2>4 DEF Groups!Next
  <1>5. CASE \/ save_sync \/ handle_param_request_read \/ param_io_timer
             \/ send_parameter_reply \/ queued_param_send \/ Lose
    BY <1>5 DEF save_sync, handle_param_request_read, param_io_timer,
                send_parameter_reply, queued_param_send, Lose, runner, vehicle, phase
  <1>6. CASE UNCHANGED vars
    BY <1>6 DEF vars, vehicle, runner, phase
  <1> QED  BY <1>1, <1>2, <1>3, <1>4, <1>5, <1>6 DEF Next, Runner, Vehicle

\* The message exchange implements the groups that FlightMonitor takes one step
\* for: success of a group means that the vehicle has every value of it.
THEOREM ExchangeImplementsGroups == Spec => ImplementsGroups
  <1>1. Init => Groups!Init
    BY DEF Init, Groups!Init, phase
  <1>2. Inv /\ Inv' /\ [Next]_vars => [Groups!Next]_(<<groups, value, group, phase>>)
    BY StepSimulates
  <1> QED  BY <1>1, <1>2, ExchangeInductive, PTL DEF Spec, ImplementsGroups, Groups!Spec
===============================================================================
