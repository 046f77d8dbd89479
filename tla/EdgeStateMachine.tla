-------------------------- MODULE EdgeStateMachine --------------------------
(***************************************************************************)
(* The transition table of crates/ms-input-core/src/state_machine.rs.      *)
(*                                                                         *)
(* EdgeStateMachine::handle takes an event and returns the actions that    *)
(* CoreService must carry out; it performs no I/O.  Here every handler is  *)
(* an operator from the current LocalState (and the event's parameters) to *)
(* an Outcome: the next state and the actions, of which a handler returns  *)
(* at most one of each kind:                                               *)
(*   pass  - Enable/DisableLocalPassThrough, or "keep"                     *)
(*   mail  - SendMessage{to, message}, or NoMail                           *)
(*   local - InjectLocally ("inject"), WarpLocalCursor ("warp"), "none"    *)
(* Every system module of this project that contains a device uses these   *)
(* operators, so there is one translation of the table.                    *)
(*                                                                         *)
(* A "Mutant" comment introduces a faulty variant of the operator that     *)
(* follows it.  No specification uses the variants: each run's properties  *)
(* are tried against the one that PROJECT.json pairs them with, to see     *)
(* that they notice.                                                       *)
(***************************************************************************)
EXTENDS Naturals

CONSTANTS
    Device,          \* device ids
    NoDevice,        \* the absent device
    ScreenEdge,      \* the edges of a screen
    LogicalKey,      \* the keys of a keyboard
    Resolve,         \* Resolve[d][e]: where d's own layout leads from edge e
    EmergencyHotkey  \* EmergencyHotkey[d]: the keys of d's configured chord

(***************************************************************************)
(* A layout never links a device to itself (LayoutError::SelfLink).  The   *)
(* two ends of a link are configured on the two devices separately, so     *)
(* nothing says that Resolve is symmetric.                                 *)
(***************************************************************************)
ASSUME DeviceAssumption ==
    /\ NoDevice \notin Device
    /\ Resolve \in [Device -> [ScreenEdge -> Device \cup {NoDevice}]]
    /\ \A d \in Device : \A e \in ScreenEdge : Resolve[d][e] # d
    /\ EmergencyHotkey \in [Device -> SUBSET LogicalKey]

-----------------------------------------------------------------------------
(* enum LocalState *)

Idle == [role |-> "Idle", peer |-> NoDevice]

Controlling(target) == [role |-> "Controlling", peer |-> target]

BeingControlled(source) == [role |-> "BeingControlled", peer |-> source]

LocalState ==
    {Idle} \cup {Controlling(d) : d \in Device} \cup {BeingControlled(d) : d \in Device}

(***************************************************************************)
(* The messages the state machine sends.  "Input" stands for the four      *)
(* forwarded kinds MouseMove, MouseButton, MouseWheel and KeyEvent, which  *)
(* are all treated alike.                                                  *)
(***************************************************************************)
Body == {"EdgeEnter", "EdgeRelease", "EdgeEnterRejected", "Input"}

NoMail == [to |-> NoDevice, body |-> "None"]

SendMessage(to, body) == [to |-> to, body |-> body]

Outcome(state, pass, mail, local) ==
    [state |-> state, pass |-> pass, mail |-> mail, local |-> local]

(* `vec![]` with the state left alone. *)
Ignored(s) == Outcome(s, "keep", NoMail, "none")

-----------------------------------------------------------------------------
(* Local events *)

ForwardIfControlling(s) ==
    IF s.role = "Controlling"
    THEN Outcome(s, "keep", SendMessage(s.peer, "Input"), "none")
    ELSE Ignored(s)

(* Mutant: a controller that reaches the edge again enters again. *)
OnLocalCursorAtEdgeAgain(d, s, e) ==
    LET to == Resolve[d][e]
    IN  IF to = NoDevice
        THEN Ignored(s)
        ELSE IF s = BeingControlled(to)
             THEN Outcome(Idle, "keep", SendMessage(to, "EdgeRelease"), "none")
             ELSE Outcome(Controlling(to), "disable", SendMessage(to, "EdgeEnter"), "none")

OnLocalCursorAtEdge(d, s, e) ==
    LET to == Resolve[d][e]
    IN  IF to = NoDevice
        THEN Ignored(s)
        ELSE IF s = Idle
             THEN Outcome(Controlling(to), "disable", SendMessage(to, "EdgeEnter"), "none")
             ELSE IF s = BeingControlled(to)
                  THEN Outcome(Idle, "keep", SendMessage(to, "EdgeRelease"), "none")
                  ELSE Ignored(s)

(* Mutant: the chord releases the peer but not the local input. *)
ForceReleaseKeeps(s) ==
    IF s.role = "Controlling"
    THEN Outcome(Idle, "keep", SendMessage(s.peer, "EdgeRelease"), "none")
    ELSE Outcome(Idle, "keep", NoMail, "none")

ForceRelease(s) ==
    IF s.role = "Controlling"
    THEN Outcome(Idle, "enable", SendMessage(s.peer, "EdgeRelease"), "none")
    ELSE Outcome(Idle, "keep", NoMail, "none")

(* A chord with no keys is contained in every held set: any press fires it. *)
CompletesChord(d, pressed, held) == pressed /\ EmergencyHotkey[d] \subseteq held

(* Mutant: a release is not forwarded. *)
OnLocalKeyEventPressesOnly(d, s, pressed, held) ==
    IF CompletesChord(d, pressed, held)
    THEN ForceRelease(s)
    ELSE IF pressed THEN ForwardIfControlling(s) ELSE Ignored(s)

OnLocalKeyEvent(d, s, pressed, held) ==
    IF CompletesChord(d, pressed, held) THEN ForceRelease(s) ELSE ForwardIfControlling(s)

-----------------------------------------------------------------------------
(* Events from a peer, and the loss of its connection *)

(* Mutant: a busy device drops the EdgeEnter without an answer. *)
OnPeerEdgeEnterSilent(s, from) ==
    IF s # Idle THEN Ignored(s) ELSE Outcome(BeingControlled(from), "keep", NoMail, "warp")

(* Mutant: a controller yields to the peer that crosses to it. *)
OnPeerEdgeEnterYields(s, from) ==
    IF s.role = "BeingControlled"
    THEN Outcome(s, "keep", SendMessage(from, "EdgeEnterRejected"), "none")
    ELSE Outcome(BeingControlled(from), "enable", NoMail, "warp")

(* Mutant: the latest peer to cross wins. *)
OnPeerEdgeEnterSteals(s, from) ==
    IF s.role = "Controlling"
    THEN Outcome(s, "keep", SendMessage(from, "EdgeEnterRejected"), "none")
    ELSE Outcome(BeingControlled(from), "keep", NoMail, "warp")

(* Mutant: the device does not record who controls it. *)
OnPeerEdgeEnterForgets(s, from) ==
    IF s # Idle
    THEN Outcome(s, "keep", SendMessage(from, "EdgeEnterRejected"), "none")
    ELSE Outcome(BeingControlled(NoDevice), "keep", NoMail, "warp")

OnPeerEdgeEnter(s, from) ==
    IF s # Idle
    THEN Outcome(s, "keep", SendMessage(from, "EdgeEnterRejected"), "none")
    ELSE Outcome(BeingControlled(from), "keep", NoMail, "warp")

OnPeerEdgeEnterRejected(s, from) ==
    IF s = Controlling(from) THEN Outcome(Idle, "enable", NoMail, "none") ELSE Ignored(s)

OnPeerEdgeRelease(s, from) ==
    IF s = Controlling(from) THEN Outcome(Idle, "enable", NoMail, "none") ELSE Ignored(s)

(* Mutant: input is injected unless the device is Controlling. *)
OnPeerInputMessageWhenIdle(s, from) ==
    IF s.role # "Controlling" THEN Outcome(s, "keep", NoMail, "inject") ELSE Ignored(s)

(* Mutant: input is injected whoever the controller is. *)
OnPeerInputMessageFromAnyone(s, from) ==
    IF s.role = "BeingControlled" THEN Outcome(s, "keep", NoMail, "inject") ELSE Ignored(s)

OnPeerInputMessage(s, from) ==
    IF s = BeingControlled(from) THEN Outcome(s, "keep", NoMail, "inject") ELSE Ignored(s)

(* Mutant: a controlled device does not care about the connection. *)
OnConnectionLostOfTarget(s, device) ==
    IF s = Controlling(device) THEN Outcome(Idle, "enable", NoMail, "none") ELSE Ignored(s)

(* Mutant: the loss of any connection ends any hand-off. *)
OnConnectionLostOfAnyone(s, device) ==
    IF s.role = "Controlling"
    THEN Outcome(Idle, "enable", NoMail, "none")
    ELSE IF s.role = "BeingControlled"
         THEN Outcome(Idle, "keep", NoMail, "none")
         ELSE Ignored(s)

OnConnectionLost(s, device) ==
    IF s = Controlling(device)
    THEN Outcome(Idle, "enable", NoMail, "none")
    ELSE IF s = BeingControlled(device)
         THEN Outcome(Idle, "keep", NoMail, "none")
         ELSE Ignored(s)

=============================================================================
