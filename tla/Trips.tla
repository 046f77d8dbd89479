-------------------------------- MODULE Trips --------------------------------
(***************************************************************************)
(* What a hand-off promises to the people in front of the screens, with no *)
(* messages: the pointer of a device makes trips.  It leaves for a peer,   *)
(* is let in or refused, and comes home; or the connection is cut and it   *)
(* comes home from wherever it is.  A device is visited by one pointer at  *)
(* a time, and only while its own is at home.                              *)
(*                                                                         *)
(* Handoff, where each of these steps is a message that may be overtaken   *)
(* by others or by the loss of the connection, implements this             *)
(* specification (Handoff!MakesTrips) as long as nobody presses the        *)
(* emergency chord, which ends a trip at one of its two ends only.         *)
(***************************************************************************)
CONSTANTS Device, NoDevice

VARIABLES
    trip,     \* trip[d]: where the pointer of d is on its trip
    visitor   \* visitor[p]: the device whose pointer p has let in

vars == <<trip, visitor>>

Home == [leg |-> "home", to |-> NoDevice]

On(leg, p) == [leg |-> leg, to |-> p]

Asking(p) == On("asking", p)

There(p) == On("there", p)

Returning(p) == On("returning", p)

(* There is no connection to p, or there was none to ask over. *)
Cut(p) == On("cut", p)

Free(d) == trip[d] = Home /\ visitor[d] = NoDevice

(* Nobody waits for the pointer of d at p any more. *)
OutOfTouch(d, p) == trip[d] \notin {Asking(p), There(p), Returning(p)}

Init ==
    /\ trip = [d \in Device |-> Home]
    /\ visitor = [d \in Device |-> NoDevice]

Leave(d, p) ==
    /\ Free(d)
    /\ p # d
    /\ \E leg \in {Asking(p), Cut(p)} : trip' = [trip EXCEPT ![d] = leg]
    /\ UNCHANGED visitor

LetIn(d, p) ==
    /\ trip[d] = Asking(p)
    /\ Free(p)
    /\ trip' = [trip EXCEPT ![d] = There(p)]
    /\ visitor' = [visitor EXCEPT ![p] = d]

Refuse(d, p) ==
    /\ trip[d] = Asking(p)
    /\ ~ Free(p)
    /\ trip' = [trip EXCEPT ![d] = Returning(p)]
    /\ UNCHANGED visitor

SendBack(d, p) ==
    /\ trip[d] = There(p)
    /\ trip' = [trip EXCEPT ![d] = Returning(p)]
    /\ visitor' = [visitor EXCEPT ![p] = NoDevice]

ComeHome(d, p) ==
    /\ trip[d] \in {Returning(p), Cut(p)}
    /\ trip' = [trip EXCEPT ![d] = Home]
    /\ UNCHANGED visitor

(* p reads what d had asked before they lost touch ... *)
LetInLate(d, p) ==
    /\ OutOfTouch(d, p)
    /\ Free(p)
    /\ p # d
    /\ visitor' = [visitor EXCEPT ![p] = d]
    /\ UNCHANGED trip

(* ... and ends a visit that the visitor no longer knows of. *)
Dismiss(d, p) ==
    /\ visitor[p] = d
    /\ OutOfTouch(d, p)
    /\ visitor' = [visitor EXCEPT ![p] = NoDevice]
    /\ UNCHANGED trip

(* Between d and p the connection is lost: neither is on its way to the other. *)
LoseTouch(d, p) ==
    /\ trip' = [x \in Device |->
                   IF {x, trip[x].to} = {d, p} THEN Cut(trip[x].to) ELSE trip[x]]
    /\ UNCHANGED visitor

StartAgain(d) ==
    /\ trip' = [x \in Device |->
                   IF x = d THEN Home ELSE IF trip[x].to = d THEN Cut(d) ELSE trip[x]]
    /\ visitor' = [visitor EXCEPT ![d] = NoDevice]

Next ==
    \E d \in Device :
        \/ StartAgain(d)
        \/ \E p \in Device :
              \/ Leave(d, p)
              \/ LetIn(d, p)
              \/ Refuse(d, p)
              \/ SendBack(d, p)
              \/ ComeHome(d, p)
              \/ LetInLate(d, p)
              \/ Dismiss(d, p)
              \/ LoseTouch(d, p)

Spec == Init /\ [][Next]_vars

=============================================================================
