---------------------------- MODULE CursorTravel ----------------------------
(***************************************************************************)
(* The mouse pointer on its way from screen to screen.                     *)
(*                                                                         *)
(* A movement is shown to the capture thread of the device it happens on,  *)
(* whether the user's mouse or the daemon's injector made it.  The thread  *)
(* reports the movement and, while the pointer is at an edge, the edge to  *)
(* the event task, and lets the pointer move if pass-through is on         *)
(* (ms-input-windows and ms-input-macos, capture.rs, raw_input.rs and      *)
(* screen.rs).  The event task takes reports and the peer's messages from  *)
(* one channel; it warps the pointer when a peer enters and injects the    *)
(* movements the peer forwards (ms-core-service/src/service.rs:86-124).    *)
(*                                                                         *)
(* The pointer is in a column and a row of pixels, (0, 0) at the top left. *)
(* Links take whole edges, connections do not break, and a warp is not     *)
(* shown to the capture thread.  The thread reports and decides in one     *)
(* step; InputPipeline has what may come in between.                       *)
(***************************************************************************)
EXTENDS EdgeStateMachine, Integers, Sequences, Functions

CONSTANTS
    Width,      \* Width[d], Height[d]: the virtual screen of d, in pixels
    Height,
    Mac,        \* the devices that run macOS; the others run Windows
    User,       \* the devices whose mouse is used
    Movement,   \* the movements a user makes, as <<dx, dy>>
    Homeward,   \* Homeward[d]: those of the user of d on the way home
    Start,      \* Start[d]: where the pointer of d is at first
    MaxMoves,   \* bound: movements of users before one goes home
    MaxFlight   \* bound: events and messages under way when a user moves

ASSUME TravelAssumption ==
    /\ ScreenEdge = {"Left", "Right", "Top", "Bottom"}
    /\ Width \in [Device -> Nat \ {0}]
    /\ Height \in [Device -> Nat \ {0}]
    /\ Mac \subseteq Device
    /\ User \subseteq Device
    /\ Movement \subseteq (Int \X Int) \ {<<0, 0>>}
    /\ Homeward \in [Device -> SUBSET Movement]
    /\ Start \in [Device -> Nat \X Nat]
    /\ \A d \in Device : Start[d][1] < Width[d] /\ Start[d][2] < Height[d]
    /\ MaxMoves \in Nat
    /\ MaxFlight \in Nat

VARIABLES
    cursor,       \* where the pointer of each device is
    posted,       \* movements injected and not yet shown to the capture thread
    channel,      \* the event channel of each daemon
    net,          \* messages on their way, per ordered pair
    state,        \* EdgeStateMachine.state
    passThrough,  \* HookState.pass_through
    homing,       \* the user who goes home, while the others rest; or NoDevice
    moves         \* movements made before that

vars == <<cursor, posted, channel, net, state, passThrough, homing, moves>>

Pair == {dp \in Device \X Device : dp[1] # dp[2]}

(* The edge a link made by link_edges enters through. *)
Opposite ==
    [e \in ScreenEdge |->
        CASE e = "Left" -> "Right" [] e = "Right" -> "Left"
          [] e = "Top" -> "Bottom" [] e = "Bottom" -> "Top"]

-----------------------------------------------------------------------------
(* Geometry *)

Least(i, j) == IF i <= j THEN i ELSE j

Greatest(i, j) == IF i >= j THEN i ELSE j

Clamp(i, n) == IF i < 0 THEN 0 ELSE Least(i, n - 1)

(* The operating system keeps the pointer on the screen. *)
OnScreen(d, at) == <<Clamp(at[1], Width[d]), Clamp(at[2], Height[d])>>

Moved(at, by) == <<at[1] + by[1], at[2] + by[2]>>

(***************************************************************************)
(* How far an edge of n pixels extends, for detect_edge: Windows counts to *)
(* the last pixel, macOS to the end of it.                                 *)
(***************************************************************************)
Extent(d, n) == IF d \in Mac THEN n ELSE n - 1

(* A position along an edge, 0.0 to 1.0, is a fraction. *)
Fraction(i, extent) == [over |-> Least(i, extent), under |-> IF extent > 1 THEN extent ELSE 1]

NoEdge == "None"

EDGE_MARGIN_PX == 1

(* Mutant: there is no slack at the end of an edge. *)
DetectEdgeExactly(d, at) ==
    LET right == Extent(d, Width[d])
        bottom == Extent(d, Height[d])
    IN  IF at[1] <= 0 THEN "Left"
        ELSE IF at[1] >= right THEN "Right"
        ELSE IF at[2] <= 0 THEN "Top"
        ELSE IF at[2] >= bottom THEN "Bottom"
        ELSE NoEdge

(* detect_edge; in a corner, Left and Right come before Top and Bottom. *)
DetectEdge(d, at) ==
    LET right == Extent(d, Width[d])
        bottom == Extent(d, Height[d])
    IN  IF at[1] <= EDGE_MARGIN_PX THEN "Left"
        ELSE IF at[1] >= right - EDGE_MARGIN_PX THEN "Right"
        ELSE IF at[2] <= EDGE_MARGIN_PX THEN "Top"
        ELSE IF at[2] >= bottom - EDGE_MARGIN_PX THEN "Bottom"
        ELSE NoEdge

Sideways(e) == e \in {"Left", "Right"}

Position(d, e, at) ==
    IF Sideways(e) THEN Fraction(at[2], Extent(d, Height[d]))
                   ELSE Fraction(at[1], Extent(d, Width[d]))

(* The pixel at a fraction of n pixels: SetCursorPos is given a rounded one. *)
Scaled(d, f, n) ==
    IF d \in Mac THEN (f.over * n) \div f.under
                 ELSE (2 * f.over * n + f.under) \div (2 * f.under)

(* Mutant: the pointer enters at the edge it left by. *)
EntryPointBehind(d, e, f) ==
    OnScreen(d, CASE e = "Left"   -> <<Width[d], Scaled(d, f, Height[d])>>
                  [] e = "Right"  -> <<0, Scaled(d, f, Height[d])>>
                  [] e = "Top"    -> <<Scaled(d, f, Width[d]), Height[d]>>
                  [] e = "Bottom" -> <<Scaled(d, f, Width[d]), 0>>)

(* edge_entry_x and edge_entry_y, scaled to the screen by CoreService. *)
EntryPoint(d, e, f) ==
    OnScreen(d, CASE e = "Left"   -> <<0, Scaled(d, f, Height[d])>>
                  [] e = "Right"  -> <<Width[d], Scaled(d, f, Height[d])>>
                  [] e = "Top"    -> <<Scaled(d, f, Width[d]), 0>>
                  [] e = "Bottom" -> <<Scaled(d, f, Width[d]), Height[d]>>)

-----------------------------------------------------------------------------
(* Events; `own` and `from`, marks of the model, say whether the user made *)
(* the movement, and where the pointer was on the screen it left.          *)

MouseMove(by) == [kind |-> "LocalMouseMove", by |-> by]

CursorAtEdge(edge, position, from, own) ==
    [kind |-> "LocalCursorAtEdge", edge |-> edge, position |-> position, from |-> from, own |-> own]

Answer(body, p) == [kind |-> body, from |-> p]

EdgeEnter(p, edge, position, from) ==
    [kind |-> "EdgeEnter", from |-> p, edge |-> edge, position |-> position, left |-> from]

Input(p, by) == [kind |-> "Input", from |-> p, by |-> by]

(* On Windows the movement itself comes through another message. *)
Reports(d, by, at, own) ==
    LET edge == DetectEdge(d, at)
        move == <<MouseMove(by)>>
        crossing == <<CursorAtEdge(edge, Position(d, edge, at), at, own)>>
    IN  IF edge = NoEdge THEN {move}
        ELSE {move \o crossing} \cup IF d \in Mac THEN {} ELSE {crossing \o move}

(* The capture callback: the movement `by` is about to end at `at`. *)
Capture(d, by, at, own) ==
    /\ \E reports \in Reports(d, by, at, own) :
          channel' = [channel EXCEPT ![d] = @ \o reports]
    /\ cursor' = IF passThrough[d] THEN [cursor EXCEPT ![d] = at] ELSE cursor
    /\ UNCHANGED <<net, state, passThrough>>

Init ==
    /\ cursor = Start
    /\ posted = [d \in Device |-> <<>>]
    /\ channel = [d \in Device |-> <<>>]
    /\ net = [dp \in Pair |-> <<>>]
    /\ state = [d \in Device |-> Idle]
    /\ passThrough = [d \in Device |-> TRUE]
    /\ homing = NoDevice
    /\ moves = 0

-----------------------------------------------------------------------------
(* Users and operating systems *)

Lengths(f) == FoldFunction(LAMBDA q, n : Len(q) + n, 0, f)

UnderWay == Lengths(channel) + Lengths(posted) + Lengths(net)

MoveMouse(d, by) ==
    /\ UnderWay < MaxFlight
    /\ Capture(d, by, OnScreen(d, Moved(cursor[d], by)), TRUE)
    /\ \/ homing = d /\ by \in Homeward[d] /\ UNCHANGED moves
       \/ homing = NoDevice /\ moves < MaxMoves /\ moves' = moves + 1
    /\ UNCHANGED <<posted, homing>>

TurnBack(d) ==
    /\ homing = NoDevice
    /\ homing' = d
    /\ UNCHANGED <<cursor, posted, channel, net, state, passThrough, moves>>

(***************************************************************************)
(* The capture thread is shown an injected movement.  Windows moves the    *)
(* pointer from where it is; on macOS move_relative has computed where to. *)
(***************************************************************************)
CaptureInjected(d) ==
    LET move == Head(posted[d])
        from == IF d \in Mac THEN move.from ELSE cursor[d]
    IN  /\ posted[d] # <<>>
        /\ posted' = [posted EXCEPT ![d] = Tail(@)]
        /\ Capture(d, move.by, OnScreen(d, Moved(from, move.by)), FALSE)
        /\ UNCHANGED <<homing, moves>>

(* The session task of d reads a message of p. *)
Deliver(p, d) ==
    /\ net[<<p, d>>] # <<>>
    /\ channel' = [channel EXCEPT ![d] = Append(@, Head(net[<<p, d>>]))]
    /\ net' = [net EXCEPT ![<<p, d>>] = Tail(@)]
    /\ UNCHANGED <<cursor, posted, state, passThrough, homing, moves>>

-----------------------------------------------------------------------------
(* The event task *)

Arrives(d, kind) == channel[d] # <<>> /\ Head(channel[d]).kind = kind

(* CoreService::execute, but for what happens to the pointer. *)
Execute(d, r, message) ==
    /\ state' = [state EXCEPT ![d] = r.state]
    /\ passThrough' = [passThrough EXCEPT ![d] = (r.pass = "enable") \/ (@ /\ r.pass # "disable")]
    /\ net' = IF r.mail = NoMail THEN net ELSE [net EXCEPT ![<<d, r.mail.to>>] = Append(@, message)]
    /\ channel' = [channel EXCEPT ![d] = Tail(@)]
    /\ UNCHANGED <<homing, moves>>

HandleMouseMove(d) ==
    /\ Arrives(d, "LocalMouseMove")
    /\ Execute(d, ForwardIfControlling(state[d]), Input(d, Head(channel[d]).by))
    /\ UNCHANGED <<cursor, posted>>

HandleCursorAtEdge(d) ==
    LET e == Head(channel[d])
        r == OnLocalCursorAtEdge(d, state[d], e.edge)
    IN  /\ Arrives(d, "LocalCursorAtEdge")
        /\ Execute(d, r, IF r.mail.body = "EdgeEnter"
                         THEN EdgeEnter(d, Opposite[e.edge], e.position, e.from)
                         ELSE Answer(r.mail.body, d))
        /\ UNCHANGED <<cursor, posted>>

HandleEdgeEnter(d) ==
    LET e == Head(channel[d])
        r == OnPeerEdgeEnter(state[d], e.from)
    IN  /\ Arrives(d, "EdgeEnter")
        /\ Execute(d, r, Answer(r.mail.body, d))
        /\ cursor' = IF r.local = "warp"
                     THEN [cursor EXCEPT ![d] = EntryPoint(d, e.edge, e.position)]
                     ELSE cursor
        /\ UNCHANGED posted

HandleAnswer(d) ==
    LET from == Head(channel[d]).from
    IN  /\ \/ Arrives(d, "EdgeRelease") /\ Execute(d, OnPeerEdgeRelease(state[d], from), {})
           \/ Arrives(d, "EdgeEnterRejected")
              /\ Execute(d, OnPeerEdgeEnterRejected(state[d], from), {})
        /\ UNCHANGED <<cursor, posted>>

HandleInput(d) ==
    LET e == Head(channel[d])
        r == OnPeerInputMessage(state[d], e.from)
    IN  /\ Arrives(d, "Input")
        /\ Execute(d, r, {})
        /\ posted' = IF r.local = "inject"
                     THEN [posted EXCEPT ![d] = Append(@, [by |-> e.by, from |-> cursor[d]])]
                     ELSE posted
        /\ UNCHANGED cursor

Handle(d) ==
    \/ HandleMouseMove(d)
    \/ HandleCursorAtEdge(d)
    \/ HandleEdgeEnter(d)
    \/ HandleAnswer(d)
    \/ HandleInput(d)

Next ==
    \/ \E d \in User, by \in Movement : MoveMouse(d, by)
    \/ \E d \in User : TurnBack(d)
    \/ \E d \in Device : CaptureInjected(d)
    \/ \E dp \in Pair : Deliver(dp[1], dp[2])
    \/ \E d \in Device : Handle(d)

Spec == Init /\ [][Next]_vars

(* The event tasks, the session tasks and the operating systems go on. *)
FairSpec ==
    /\ Spec
    /\ \A d \in Device : WF_vars(Handle(d)) /\ WF_vars(CaptureInjected(d))
    /\ \A dp \in Pair : WF_vars(Deliver(dp[1], dp[2]))

-----------------------------------------------------------------------------
(* Properties *)

Along == [over : Nat, under : Nat \ {0}]

Point == Nat \X Nat

Mail ==
    [kind : {"EdgeEnter"}, from : Device, edge : ScreenEdge, position : Along, left : Point]
        \cup [kind : {"EdgeRelease", "EdgeEnterRejected"}, from : Device]
        \cup [kind : {"Input"}, from : Device, by : Movement]

Event ==
    Mail
        \cup [kind : {"LocalMouseMove"}, by : Movement]
        \cup [kind : {"LocalCursorAtEdge"}, edge : ScreenEdge, position : Along, from : Point,
              own : BOOLEAN]

Screen(d) == (0 .. Width[d] - 1) \X (0 .. Height[d] - 1)

TypeOK ==
    /\ cursor \in [Device -> Point]
    /\ \A d \in Device : cursor[d] \in Screen(d)
    /\ posted \in [Device -> Seq([by : Movement, from : Point])]
    /\ channel \in [Device -> Seq(Event)]
    /\ net \in [Pair -> Seq(Mail)]
    /\ state \in [Device -> LocalState]
    /\ passThrough \in [Device -> BOOLEAN]
    /\ homing \in User \cup {NoDevice}
    /\ moves \in 0 .. MaxMoves

(* In this step, d begins to be controlled by p. *)
Enters(d, p) == state[d] # BeingControlled(p) /\ state'[d] = BeingControlled(p)

OnEdge(d, e, at) ==
    CASE e = "Left"   -> at[1] = 0
      [] e = "Right"  -> at[1] = Width[d] - 1
      [] e = "Top"    -> at[2] = 0
      [] e = "Bottom" -> at[2] = Height[d] - 1

(***************************************************************************)
(* Pixel i of m pixels and pixel j of the n pixels of d are equally far    *)
(* along, but for a pixel, or for one and a half where SetCursorPos rounds *)
(* a fraction of n pixels, of which the last one is at n - 1.              *)
(***************************************************************************)
InLine(i, m, d, j, n) ==
    LET apart == i * (n - 1) - j * (m - 1)
        slack == (IF d \in Mac THEN 2 ELSE 3) * Greatest(m, n)
    IN  - slack <= 2 * apart /\ 2 * apart <= slack

(***************************************************************************)
(* When control crosses, the pointer appears on the edge that leads back,  *)
(* where it crossed the other screen's (docs/e2e-test-plan.md:55), though  *)
(* the screens differ in size and the two systems count pixels             *)
(* differently, and wherever the pointer has gone since.                   *)
(***************************************************************************)
EntersInLine ==
    [][\A d, p \in Device :
          Enters(d, p) =>
              LET left == Head(channel[d]).left
                  at == cursor'[d]
              IN  \E e \in ScreenEdge :
                      /\ Resolve[d][e] = p
                      /\ OnEdge(d, e, at)
                      /\ IF Sideways(e) THEN InLine(left[2], Height[p], d, at[2], Height[d])
                                        ELSE InLine(left[1], Width[p], d, at[1], Width[d])]_vars

(***************************************************************************)
(* The pointer of a controller stays where it was left until control is    *)
(* back (docs/e2e-test-plan.md:64), whatever its user moves, whatever is   *)
(* still being injected and whoever asks to enter.                         *)
(***************************************************************************)
PointerStays ==
    [][\A d \in Device : state[d].role = "Controlling" => cursor'[d] = cursor[d]]_vars

(***************************************************************************)
(* A user who keeps moving back gets control back for good                 *)
(* (docs/user-guide.md:93).  It takes movements of more than the margin    *)
(* of an edge: by single pixels, reports of the edge that the parked       *)
(* pointer has not left may forever arrive just behind the EdgeRelease.    *)
(***************************************************************************)
GoesHome ==
    \A u \in User :
        (<>(homing = u) /\ []<><<\E by \in Movement : MoveMouse(u, by)>>_vars)
            => <>[](state[u].role # "Controlling")

(***************************************************************************)
(* state_machine.rs:114-121: that the injected cursor reaches an edge is   *)
(* handled in the BeingControlled arm.  So only movements of its own mouse *)
(* make a device Controlling.                                              *)
(***************************************************************************)
OnlyItsUserTakesControl ==
    [][\A d \in Device :
          state[d] = Idle /\ state'[d].role = "Controlling" => Head(channel[d]).own]_vars

=============================================================================
