----------------------------- MODULE SlidingWindow -----------------------------
(***************************************************************************)
(* What the three mode-4 gate buffers promise to the LSTM gates: per axis, *)
(* the most recent frames (at most SeqLen of them) of the current stretch  *)
(* of mode-4 control, oldest first.  A frame outside mode 4 empties all    *)
(* windows; a frame in mode 4 enters the windows of a prefix of the axes   *)
(* roll, pitch, yaw (a failing gate ends the frame for the axes after it). *)
(***************************************************************************)
EXTENDS Integers, Sequences

CONSTANTS SeqLen, Axes

VARIABLES window, frame

Slide(w, row) ==
    IF Len(w) < SeqLen THEN Append(w, row) ELSE Append(Tail(w), row)

Init == /\ window = [a \in Axes |-> << >>]
        /\ frame = 0

Empty == window' = [a \in Axes |-> << >>]

Enter == \E reached \in SUBSET Axes :
            /\ \A a \in reached, b \in Axes : b < a => b \in reached
            /\ window' = [a \in Axes |-> IF a \in reached
                                         THEN Slide(window[a], frame')
                                         ELSE window[a]]

Next == /\ frame' = frame + 1
        /\ Empty \/ Enter

Spec == Init /\ [][Next]_<<window, frame>>
===============================================================================
