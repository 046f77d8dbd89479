--------------------------- MODULE MCCursorTravel ---------------------------
(***************************************************************************)
(* Instances of CursorTravel for TLC: two screens side by side, wide       *)
(* enough for the pointer to be at neither end of a row.                   *)
(***************************************************************************)
EXTENDS CursorTravel

CONSTANTS a, b

(* b is on the left of a. *)
SideBySide ==
    [d \in {a, b} |-> [e \in ScreenEdge |->
        CASE d = a /\ e = "Left" -> b
          [] d = b /\ e = "Right" -> a
          [] OTHER -> NoDevice]]

NoChord == [d \in {a, b} |-> {}]

Widths == [d \in {a, b} |-> 6]

Heights == [d \in {a, b} |-> IF d = a THEN 6 ELSE 5]

Middle == [d \in {a, b} |-> <<2, 2>>]

Movements == {<<-2, 0>>, <<2, 0>>, <<0, 1>>}

Homewards == [d \in {a, b} |-> IF d = a THEN {<<2, 0>>} ELSE {<<-2, 0>>}]

=============================================================================
