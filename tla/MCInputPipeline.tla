--------------------------- MODULE MCInputPipeline ---------------------------
(***************************************************************************)
(* An instance of InputPipeline for TLC: one device, whose right edge      *)
(* leads to its only peer, with a chord of two keys.                       *)
(***************************************************************************)
EXTENDS InputPipeline

CONSTANTS a, b, ctrl, esc, x

RightToPeer ==
    [d \in {a, b} |-> [e \in {"Right"} |-> IF d = a THEN b ELSE NoDevice]]

Chord == [d \in {a, b} |-> {ctrl, esc}]

(* x and ctrl are the two Control keys of a Mac. *)
TwoControls == [k \in {ctrl, esc, x} |-> {ctrl, x} \ {k, esc}]

=============================================================================
