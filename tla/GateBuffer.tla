------------------------------ MODULE GateBuffer ------------------------------
(***************************************************************************)
(* The 100-row sequence buffer that feeds the LSTM gate of mode 4          *)
(* (struct GateSequenceBuffer, libraries/PID_Piper/PID_Piper.cpp).  A row  *)
(* is the normalised feature vector of one control frame; here it is the   *)
(* number of that frame, so that a window tells which frames it holds.     *)
(* Row 0 stands for the zero-initialised array element.                    *)
(***************************************************************************)
EXTENDS Integers, Sequences

CONSTANT SeqLen          \* kMode4GateSequenceLength

ASSUME SeqLenAssumption == SeqLen \in Nat \ {0}

Slots == 0 .. SeqLen - 1

GateSequenceBuffer == [rows : [Slots -> Nat], count : 0 .. SeqLen, next : Slots]

NewBuffer == [rows |-> [i \in Slots |-> 0], count |-> 0, next |-> 0]

\* Mutant: clear() forgets the row counter.
clear_KeepsCount(b) == [rows |-> b.rows, count |-> b.count, next |-> 0]

\* clear() leaves the rows in place: only the two indices are reset.
clear(b) == [rows |-> b.rows, count |-> 0, next |-> 0]

\* Mutant: the write index is not wrapped.
push_NoWrap(b, row) ==
    [rows  |-> [b.rows EXCEPT ![b.next] = row],
     count |-> IF b.count < SeqLen THEN b.count + 1 ELSE b.count,
     next  |-> b.next + 1]

push(b, row) ==
    [rows  |-> [b.rows EXCEPT ![b.next] = row],
     count |-> IF b.count < SeqLen THEN b.count + 1 ELSE b.count,
     next  |-> (b.next + 1) % SeqLen]

\* Mutant: ready one row too early.
ready_OffByOne(b) == b.count >= SeqLen - 1

ready(b) == b.count >= SeqLen

\* Mutant: the rows in storage order instead of age order.
to_tensor_values_Unrotated(b) == [step \in 1 .. SeqLen |-> b.rows[step - 1]]

\* The tensor handed to the model: SeqLen rows, the oldest one first.
to_tensor_values(b) ==
    LET start == IF b.count < SeqLen THEN 0 ELSE b.next
    IN  [step \in 1 .. SeqLen |-> b.rows[(start + step - 1) % SeqLen]]

\* The rows pushed since the last clear that the buffer still holds, oldest
\* first: the abstract value the buffer represents.
Contents(b) == [k \in 1 .. b.count |-> to_tensor_values(b)[k]]
===============================================================================
