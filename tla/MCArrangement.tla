---------------------------- MODULE MCArrangement ----------------------------
(***************************************************************************)
(* Instances of Arrangement for TLC: one device with two peers, or two     *)
(* devices side by side.                                                   *)
(***************************************************************************)
EXTENDS Arrangement

CONSTANTS a, b, c

=============================================================================
