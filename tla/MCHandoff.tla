------------------------------ MODULE MCHandoff ------------------------------
(***************************************************************************)
(* Instances of Handoff for TLC: two devices side by side, and a hub       *)
(* between two others (docs/user-guide.md, "Multiple computers").          *)
(***************************************************************************)
EXTENDS Handoff

CONSTANTS a, b, c, esc

(* a's right edge borders b's left edge. *)
PairLayout ==
    [d \in {a, b} |-> [e \in {"Left", "Right"} |->
        CASE d = a /\ e = "Right" -> b
          [] d = b /\ e = "Left" -> a
          [] OTHER -> NoDevice]]

(* a sits between b, on its right, and c, on its left. *)
HubLayout ==
    [d \in {a, b, c} |-> [e \in {"Left", "Right"} |->
        CASE d = a /\ e = "Right" -> b
          [] d = a /\ e = "Left" -> c
          [] d = b /\ e = "Left" -> a
          [] d = c /\ e = "Right" -> a
          [] OTHER -> NoDevice]]

PairChord == [d \in {a, b} |-> {esc}]

HubChord == [d \in {a, b, c} |-> {esc}]

=============================================================================
