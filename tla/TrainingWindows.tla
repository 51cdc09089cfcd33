--------------------------- MODULE TrainingWindows ---------------------------
(***************************************************************************)
(* Training one LSTM gate in train_pid_piper_fusion.py: the usable rows of *)
(* every flight are split into training and validation rows, two           *)
(* LstmWindowSequence objects cut them into windows, hand them to Keras in *)
(* batches over several epochs, and the predictions for the validation     *)
(* windows are compared with the rows in endpoints.                        *)
(*                                                                         *)
(* A row is its flight and its place in it.  The table is what the filters *)
(* of train_for_angle leave, sorted by flight and time, with mission_id.   *)
(***************************************************************************)
EXTENDS Integers, Sequences, SequencesExt, FiniteSetsExt, Bags

CONSTANTS
    Tables,             \* numbers of rows of the flights
    sequence_length, batch_size, epochs_gate,
    ValParts, Parts,    \* val_fraction is ValParts / Parts
    MinGroup,           \* least rows of a flight (20 in the code)
    MinRows             \* least rows of the table (200 in the code)

ASSUME TrainingAssumption ==
    /\ Tables \subseteq Seq(Nat \ {0})
    /\ sequence_length \in Nat /\ sequence_length >= 2
    /\ batch_size \in Nat \ {0} /\ epochs_gate \in Nat \ {0}
    /\ Parts \in Nat /\ ValParts \in 1 .. Parts - 1
    /\ MinGroup \in Nat /\ MinGroup >= 2 /\ MinRows \in Nat

VARIABLES
    table,      \* numbers of rows of the flights
    pc,
    scaled,     \* rows the scaler was fitted on
    train_sequence, val_sequence,
    epoch,
    todo,       \* batches of the epoch that Keras has not fetched yet
    fitted,     \* history: the samples of this epoch's batches
    predicted   \* the windows predicted for, in order

vars == <<table, pc, scaled, train_sequence, val_sequence, epoch, todo, fitted, predicted>>

-------------------------------------------------------------------------------
(* Splitting.                                                              *)

Rows(f) == [i \in 1 .. table[f] |-> <<f, i>>]

\* int((1.0 - val_fraction) * n), where a product that is a whole number may
\* come out just below it, then limited to 1 .. n - 1.
SplitIndices(n) ==
    LET p == (Parts - ValParts) * n
        raw == {p \div Parts} \cup (IF p % Parts = 0 THEN {p \div Parts - 1} ELSE {})
    IN  {Min({Max({s, 1}), n - 1}) : s \in raw}

\* Mutant: the split row goes to both parts.
time_split_Overlap(rows, split_idx) ==
    [train |-> SubSeq(rows, 1, split_idx), val |-> SubSeq(rows, split_idx, Len(rows))]

time_split(rows, split_idx) ==
    [train |-> SubSeq(rows, 1, split_idx), val |-> SubSeq(rows, split_idx + 1, Len(rows))]

\* Flight by flight, each at its own index.
split_gate_dataframe(at) ==
    LET Part(p) == [f \in DOMAIN table |-> time_split(Rows(f), at[f])[p]]
    IN  [train |-> Part("train"), val |-> Part("val")]

-------------------------------------------------------------------------------
(* LstmWindowSequence.                                                     *)

\* The parts with a window; the loop passes over the others.
groups(parts) ==
    FlattenSeq([f \in DOMAIN parts |->
        IF Len(parts[f]) >= sequence_length THEN <<parts[f]>> ELSE <<>>])

window_counts(gs) == [g \in DOMAIN gs |-> Len(gs[g]) - sequence_length + 1]

\* np.cumsum([0] + counts)
cumsum(counts) ==
    LET sum[k \in 0 .. Len(counts)] == IF k = 0 THEN 0 ELSE sum[k - 1] + counts[k]
    IN  sum

Total(counts) == cumsum(counts)[Len(counts)]
total_windows(gs) == Total(window_counts(gs))

\* The number of a group's first window, from 0.
group_starts(gs) == [g \in DOMAIN gs |-> cumsum(window_counts(gs))[g - 1]]

endpoints(gs) ==
    FlattenSeq([g \in DOMAIN gs |-> SubSeq(gs[g], sequence_length, Len(gs[g]))])

\* Mutant: every sequence is shuffled.
on_epoch_end_Always(sequence) == SetToSeqs(Range(sequence.order))

\* The orders in which the windows may be left.
on_epoch_end(sequence) ==
    IF sequence.shuffle THEN SetToSeqs(Range(sequence.order)) ELSE {sequence.order}

\* The new objects: __init__ ends with on_epoch_end.
LstmWindowSequence(parts, shuffle) ==
    LET gs == groups(parts)
        new == [groups |-> gs, shuffle |-> shuffle,
                order |-> [k \in 1 .. total_windows(gs) |-> k - 1]]
    IN  {[new EXCEPT !.order = o] : o \in on_epoch_end(new)}

\* Mutant: only full batches.
__len___Floor(sequence) == Len(sequence.order) \div batch_size

__len__(sequence) == (Len(sequence.order) + batch_size - 1) \div batch_size

\* Mutant: the number is used as the place in the joined rows of all flights.
Sample_Joined(gs, number) ==
    [x |-> SubSeq(FlattenSeq(gs), number + 1, number + sequence_length),
     y |-> FlattenSeq(gs)[number + sequence_length]]

\* The window of one number: np.searchsorted(side="right") - 1 is the last
\* group that starts at or before it.
Sample(gs, number) ==
    LET group_id == Cardinality({g \in DOMAIN gs : group_starts(gs)[g] <= number})
        local_start == number - group_starts(gs)[group_id]
    IN  [x |-> SubSeq(gs[group_id], local_start + 1, local_start + sequence_length),
         y |-> gs[group_id][local_start + sequence_length]]

__getitem__(sequence, index) ==
    LET start == index * batch_size
        end == Min({start + batch_size, Len(sequence.order)})
    IN  [k \in 1 .. end - start |-> Sample(sequence.groups, sequence.order[start + k])]

Batches(sequence) == 0 .. __len__(sequence) - 1

-------------------------------------------------------------------------------
(* train_for_angle.                                                        *)

Empty == [groups |-> <<>>, shuffle |-> FALSE, order |-> <<>>]

\* A short table, or one short flight, ends the training with a ValueError.
Splits == Total(table) >= MinRows /\ \A f \in DOMAIN table : table[f] >= MinGroup

SplitFails ==
    /\ pc = "split" /\ ~Splits
    /\ pc' = "raised"
    /\ UNCHANGED <<table, scaled, train_sequence, val_sequence, epoch, todo, fitted, predicted>>

\* split_gate_dataframe, the scaler, and the two sequences; a part without a
\* single window is a ValueError, too.
Prepare ==
    /\ pc = "split" /\ Splits
    /\ \E at \in [DOMAIN table -> UNION {SplitIndices(table[f]) : f \in DOMAIN table}] :
        /\ \A f \in DOMAIN table : at[f] \in SplitIndices(table[f])
        /\ LET gate_df == split_gate_dataframe(at)
           IN  /\ scaled' = Range(FlattenSeq(gate_df.train))
               /\ train_sequence' \in LstmWindowSequence(gate_df.train, TRUE)
               /\ val_sequence' \in LstmWindowSequence(gate_df.val, FALSE)
    /\ pc' = IF <<>> \in {train_sequence'.groups, val_sequence'.groups}
             THEN "raised" ELSE "fit"
    /\ todo' = Batches(train_sequence')
    /\ UNCHANGED <<table, epoch, fitted, predicted>>

\* gate_model.fit fetches the batches one after the other (workers=0), in an
\* order that Keras draws anew in every epoch.
Fit ==
    /\ pc = "fit"
    /\ \E index \in todo :
        /\ todo' = todo \ {index}
        /\ fitted' = fitted (+) ToBag(__getitem__(train_sequence, index))
    /\ UNCHANGED <<table, pc, scaled, train_sequence, val_sequence, epoch, predicted>>

\* The epoch ends with a pass over val_sequence; both sequences are told.
EndEpoch ==
    /\ pc = "fit" /\ todo = {}
    /\ \E o \in on_epoch_end(train_sequence) : train_sequence' = [train_sequence EXCEPT !.order = o]
    /\ \E o \in on_epoch_end(val_sequence) : val_sequence' = [val_sequence EXCEPT !.order = o]
    /\ epoch' = epoch + 1 /\ fitted' = EmptyBag
    /\ IF epoch < epochs_gate
       THEN pc' = "fit" /\ todo' = Batches(train_sequence)
       ELSE pc' = "predict" /\ todo' = Batches(val_sequence)
    /\ UNCHANGED <<table, scaled, predicted>>

\* gate_model.predict(val_sequence), in order.
Predict ==
    /\ pc = "predict" /\ todo # {}
    /\ todo' = todo \ {Min(todo)}
    /\ predicted' = predicted \o __getitem__(val_sequence, Min(todo))
    /\ UNCHANGED <<table, pc, scaled, train_sequence, val_sequence, epoch, fitted>>

Evaluate ==
    /\ pc = "predict" /\ todo = {}
    /\ pc' = "done"
    /\ UNCHANGED <<table, scaled, train_sequence, val_sequence, epoch, todo, fitted, predicted>>

Init ==
    /\ table \in Tables
    /\ pc = "split" /\ scaled = {}
    /\ train_sequence = Empty /\ val_sequence = Empty
    /\ epoch = 1 /\ todo = {} /\ fitted = EmptyBag /\ predicted = <<>>

Next == SplitFails \/ Prepare \/ Fit \/ EndEpoch \/ Predict \/ Evaluate

Spec == Init /\ [][Next]_vars

-------------------------------------------------------------------------------
(* Properties.                                                             *)

\* The windows and targets of one part of the table, cut in one go.
make_lstm_windows(parts) ==
    LET gs == groups(parts)
    IN  FlattenSeq([g \in DOMAIN gs |->
            [i \in 1 .. window_counts(gs)[g] |->
                [x |-> [k \in 1 .. sequence_length |-> gs[g][i + k - 1]],
                 y |-> gs[g][i + sequence_length - 1]]]])

\* Every epoch trains on every window of make_lstm_windows exactly once,
\* whatever the shuffled order, the order of the batches and the size of the
\* last one (LstmWindowSequence.__getitem__, __len__).  The reference is cut from
\* the groups that the sequence was built with.
EpochIsAllWindows ==
    pc = "fit" /\ todo = {} =>
        fitted = ToBag(make_lstm_windows(train_sequence.groups))

\* A window the gate is trained on or evaluated on holds consecutive rows of
\* one flight and has the target of its last row (__getitem__); flights whose part is too short for a window, also in the
\* middle of the table, do not shift the others.
WindowsStayInFlight ==
    \A w \in BagToSet(fitted) \cup Range(predicted) :
        /\ w.y = w.x[sequence_length]
        /\ \A k \in 1 .. sequence_length - 1 :
              w.x[k + 1] = <<w.x[k][1], w.x[k][2] + 1>>

\* No validation row is in a training window or in the data of the scaler.
ValidationUnseen ==
    LET val == Range(FlattenSeq(val_sequence.groups))
    IN  /\ scaled \cap val = {}
        /\ \A w \in BagToSet(fitted) : Range(w.x) \cap val = {}

\* The k-th prediction is for the k-th row of endpoints, with which
\* train_for_angle combines it into y_fused and the metrics, after any number
\* of epochs.
PredictionsMatchEndpoints ==
    pc = "done" =>
        [k \in DOMAIN predicted |-> predicted[k].y] = endpoints(val_sequence.groups)
===============================================================================
