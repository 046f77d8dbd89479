---------------------------- MODULE MCPeerSessions ----------------------------
(***************************************************************************)
(* Instances of PeerSessions for TLC: two devices side by side that may    *)
(* open two or three connections to each other.                            *)
(***************************************************************************)
EXTENDS PeerSessions

CONSTANTS a, b, c1, c2, c3

PairLayout ==
    [d \in {a, b} |-> [e \in {"Left", "Right"} |->
        CASE d = a /\ e = "Right" -> b
          [] d = b /\ e = "Left" -> a
          [] OTHER -> NoDevice]]

NoChord == [d \in {a, b} |-> {}]

=============================================================================
