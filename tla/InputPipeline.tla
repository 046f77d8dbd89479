---------------------------- MODULE InputPipeline ----------------------------
(***************************************************************************)
(* The way of a key event through the daemon of one device, Here.          *)
(*                                                                         *)
(* The capture thread is called by the operating system for every event,   *)
(* physical or injected, one at a time.  It records the event in the held  *)
(* set, sends it to the event task, and then reads the pass-through switch *)
(* to decide whether local applications get the event too                  *)
(* (ms-input-windows/src/capture.rs:133-197, ms-input-macos/src/           *)
(* capture.rs:97-197, ms-daemon/src/input.rs).  The event task takes the   *)
(* events of the capture thread and of the sessions from one channel and   *)
(* moves the switch (ms-core-service/src/service.rs, state_machine.rs), so *)
(* it may do that before, between or after the two steps of the capture    *)
(* thread.                                                                 *)
(*                                                                         *)
(* Mouse events take the same way but for the held set; movements are in   *)
(* CursorTravel.                                                           *)
(***************************************************************************)
EXTENDS EdgeStateMachine, Sequences, FiniteSets

CONSTANTS
    Here,      \* the device
    Twin,      \* Twin[k]: the keys that share k's modifier flag on macOS
    PeerKeys,  \* the keys that a controlling peer types
    MaxQueue,  \* bound: events on the channel
    MaxTyped   \* bound: events of the peer's keys on the channel or injected

ASSUME PipelineAssumption ==
    /\ Here \in Device
    /\ Twin \in [LogicalKey -> SUBSET LogicalKey]
    /\ PeerKeys \subseteq LogicalKey
    /\ MaxQueue \in Nat
    /\ MaxTyped \in Nat

VARIABLES
    down,         \* the keys that are physically down
    held,         \* CaptureAdapter.held
    injecting,    \* injected key events the capture thread has not been shown
    hook,         \* the event that awaits the decision of the capture thread
    queue,        \* the event channel
    state,        \* EdgeStateMachine.state
    passThrough,  \* HookState.pass_through
    \* History variables: no guard depends on them.
    forwarded,    \* keys forwarded as pressed, and not as released, in this hand-off
    fate          \* where the key event completed last went

vars == <<down, held, injecting, hook, queue, state, passThrough, forwarded, fate>>

Peer == Device \ {Here}

(***************************************************************************)
(* Events on the channel.  Those of a key carry the held set at capture,   *)
(* and two marks of the model: what the capture thread decided ("apps"),   *)
(* and whether the role has changed since capture ("switched").            *)
(***************************************************************************)
KeyEvent(key, pressed, heldThen) ==
    [kind |-> "LocalKeyEvent", key |-> key, pressed |-> pressed, held |-> heldThen,
     apps |-> "undecided", switched |-> FALSE]

CursorAtEdge(edge) == [kind |-> "LocalCursorAtEdge", edge |-> edge]

PeerEvent(kind, from) == [kind |-> kind, from |-> from]

PeerInput(from, key, pressed) ==
    [kind |-> "PeerInputMessage", from |-> from, key |-> key, pressed |-> pressed]

Signals == {"PeerEdgeEnter", "PeerEdgeRelease", "PeerEdgeEnterRejected", "ConnectionLost"}

LocalKeyEvent ==
    [kind : {"LocalKeyEvent"}, key : LogicalKey, pressed : BOOLEAN, held : SUBSET LogicalKey,
     apps : {"undecided", "yes", "no"}, switched : BOOLEAN]

Event ==
    LocalKeyEvent
        \cup [kind : {"LocalCursorAtEdge"}, edge : ScreenEdge]
        \cup [kind : Signals, from : Device]
        \cup [kind : {"PeerInputMessage"}, from : Device, key : LogicalKey, pressed : BOOLEAN]

(***************************************************************************)
(* The capture thread waits for an event; or its event is on the channel;  *)
(* or the event task has handled it already.                               *)
(***************************************************************************)
Waiting == [phase |-> "waiting"]

Sent == [phase |-> "sent"]

Handled(peer, switched) == [phase |-> "handled", peer |-> peer, switched |-> switched]

Hook == {Waiting, Sent} \cup {Handled(p, s) : p \in BOOLEAN, s \in BOOLEAN}

(* An event went to the local applications, to the peer, to both or to none. *)
Fate(apps, peer, switched) == [apps |-> apps, peer |-> peer, switched |-> switched]

IsKey(e) == e.kind = "LocalKeyEvent"

Init ==
    /\ down = {}
    /\ held = {}
    /\ injecting = <<>>
    /\ hook = Waiting
    /\ queue = <<>>
    /\ state = Idle
    /\ passThrough = TRUE
    /\ forwarded = {}
    /\ fate = Fate(TRUE, FALSE, FALSE)

-----------------------------------------------------------------------------
(* The capture thread *)

(* Mutant: the snapshot is taken before the event is recorded. *)
CaptureKeyLate(key, pressed) ==
    /\ hook = Waiting
    /\ Len(queue) < MaxQueue
    /\ held' = IF pressed THEN held \cup {key} ELSE held \ {key}
    /\ queue' = Append(queue, KeyEvent(key, pressed, held))
    /\ hook' = Sent
    /\ UNCHANGED <<state, passThrough, forwarded, fate>>

(* CaptureAdapter::on_key_event *)
CaptureKey(key, pressed) ==
    /\ hook = Waiting
    /\ Len(queue) < MaxQueue
    /\ held' = IF pressed THEN held \cup {key} ELSE held \ {key}
    /\ queue' = Append(queue, KeyEvent(key, pressed, held'))
    /\ hook' = Sent
    /\ UNCHANGED <<state, passThrough, forwarded, fate>>

PressKey(key) ==
    /\ key \notin down
    /\ down' = down \cup {key}
    /\ CaptureKey(key, TRUE)
    /\ UNCHANGED injecting

(***************************************************************************)
(* macOS reports a modifier as a change of its flag, from which the        *)
(* capture thread infers a press while another key keeps the flag set.     *)
(***************************************************************************)
ReleaseKey(key) ==
    /\ key \in down
    /\ down' = down \ {key}
    /\ CaptureKey(key, Twin[key] \cap down # {})
    /\ UNCHANGED injecting

(* The operating system shows the capture thread what the daemon injected. *)
CaptureInjected ==
    /\ injecting # <<>>
    /\ CaptureKey(Head(injecting).key, Head(injecting).pressed)
    /\ injecting' = Tail(injecting)
    /\ UNCHANGED down

(* The undecided event, if it is on the channel, is decided. *)
Decided(q) ==
    [i \in DOMAIN q |->
        IF IsKey(q[i]) /\ q[i].apps = "undecided"
        THEN [q[i] EXCEPT !.apps = IF passThrough THEN "yes" ELSE "no"]
        ELSE q[i]]

(* The end of the capture callback: CallNextHookEx or not, Keep or Drop. *)
Decide ==
    /\ hook # Waiting
    /\ hook' = Waiting
    /\ queue' = Decided(queue)
    /\ fate' = IF hook.phase = "handled" THEN Fate(passThrough, hook.peer, hook.switched) ELSE fate
    /\ UNCHANGED <<down, held, injecting, state, passThrough, forwarded>>

(* A movement, physical or injected, that ends on an edge of the screen. *)
CaptureCursorAtEdge(edge) ==
    /\ hook = Waiting
    /\ Len(queue) < MaxQueue
    /\ queue' = Append(queue, CursorAtEdge(edge))
    /\ UNCHANGED <<down, held, injecting, hook, state, passThrough, forwarded, fate>>

(* The session tasks *)
SessionEvent(e) ==
    /\ Len(queue) < MaxQueue
    /\ queue' = Append(queue, e)
    /\ UNCHANGED <<down, held, injecting, hook, state, passThrough, forwarded, fate>>

Typed == {i \in DOMAIN queue : queue[i].kind = "PeerInputMessage"}

PeerTypes(from, key, pressed) ==
    /\ Cardinality(Typed) + Len(injecting) < MaxTyped
    /\ SessionEvent(PeerInput(from, key, pressed))

-----------------------------------------------------------------------------
(* The event task *)

(* What is captured and not complete learns that the role has changed. *)
Marked(q, switched) ==
    [i \in DOMAIN q |->
        IF IsKey(q[i]) THEN [q[i] EXCEPT !.switched = @ \/ switched] ELSE q[i]]

MarkedHook(h, switched) ==
    IF h.phase = "handled" THEN Handled(h.peer, h.switched \/ switched) ELSE h

(* CoreService::handle executes r, the outcome of the event at the head. *)
Execute(r) ==
    /\ state' = r.state
    /\ passThrough' = ((r.pass = "enable") \/ (passThrough /\ r.pass # "disable"))
    /\ queue' = Marked(Tail(queue), r.state # state)
    /\ UNCHANGED <<down, held>>

Arrives(kind) == queue # <<>> /\ Head(queue).kind = kind

HandleLocalKeyEvent ==
    LET e == Head(queue)
        r == OnLocalKeyEvent(Here, state, e.pressed, e.held)
        peer == r.mail.body = "Input"
        switched == e.switched \/ r.state # state
    IN  /\ Arrives("LocalKeyEvent")
        /\ Execute(r)
        /\ forwarded' = IF ~ peer THEN forwarded
                        ELSE IF e.pressed THEN forwarded \cup {e.key} ELSE forwarded \ {e.key}
        /\ IF e.apps = "undecided"
           THEN hook' = Handled(peer, switched) /\ UNCHANGED fate
           ELSE /\ hook' = MarkedHook(hook, r.state # state)
                /\ fate' = Fate(e.apps = "yes", peer, switched)
        /\ UNCHANGED injecting

HandleLocalCursorAtEdge ==
    LET r == OnLocalCursorAtEdge(Here, state, Head(queue).edge)
    IN  /\ Arrives("LocalCursorAtEdge")
        /\ Execute(r)
        /\ hook' = MarkedHook(hook, r.state # state)
        /\ forwarded' = IF r.mail.body = "EdgeEnter" THEN {} ELSE forwarded
        /\ UNCHANGED <<injecting, fate>>

(* The outcome of what a session task reports, but for input. *)
OnSignal(kind, from) ==
    CASE kind = "PeerEdgeEnter" -> OnPeerEdgeEnter(state, from)
      [] kind = "PeerEdgeRelease" -> OnPeerEdgeRelease(state, from)
      [] kind = "PeerEdgeEnterRejected" -> OnPeerEdgeEnterRejected(state, from)
      [] kind = "ConnectionLost" -> OnConnectionLost(state, from)

HandleSignal(kind) ==
    LET r == OnSignal(kind, Head(queue).from)
    IN  /\ Arrives(kind)
        /\ Execute(r)
        /\ hook' = MarkedHook(hook, r.state # state)
        /\ UNCHANGED <<injecting, forwarded, fate>>

HandlePeerInput ==
    LET e == Head(queue)
        r == OnPeerInputMessage(state, e.from)
    IN  /\ Arrives("PeerInputMessage")
        /\ Execute(r)
        /\ injecting' = IF r.local = "inject"
                        THEN Append(injecting, [key |-> e.key, pressed |-> e.pressed])
                        ELSE injecting
        /\ UNCHANGED <<hook, forwarded, fate>>

Handle ==
    \/ HandleLocalKeyEvent
    \/ HandleLocalCursorAtEdge
    \/ \E kind \in Signals : HandleSignal(kind)
    \/ HandlePeerInput

Next ==
    \/ \E key \in LogicalKey : PressKey(key) \/ ReleaseKey(key)
    \/ CaptureInjected
    \/ Decide
    \/ \E edge \in ScreenEdge : CaptureCursorAtEdge(edge)
    \/ \E p \in Peer :
          \/ \E kind \in Signals : SessionEvent(PeerEvent(kind, p))
          \/ \E key \in PeerKeys, pressed \in BOOLEAN : PeerTypes(p, key, pressed)
    \/ Handle

Spec == Init /\ [][Next]_vars

(* The event task takes every event that is on the channel. *)
FairSpec == Spec /\ WF_vars(Handle)

-----------------------------------------------------------------------------
(* Properties *)

TypeOK ==
    /\ down \subseteq LogicalKey
    /\ held \subseteq LogicalKey
    /\ injecting \in Seq([key : LogicalKey, pressed : BOOLEAN])
    /\ hook \in Hook
    /\ queue \in Seq(Event)
    /\ state \in LocalState
    /\ passThrough \in BOOLEAN
    /\ forwarded \subseteq LogicalKey
    /\ fate \in [apps : BOOLEAN, peer : BOOLEAN, switched : BOOLEAN]

(***************************************************************************)
(* An event goes to the local applications or to the peer, never to both   *)
(* and never to neither, unless the role changed between its capture and   *)
(* its handling (ms-input-core/src/capture.rs:40-44): the read of the      *)
(* switch by one thread agrees with the role that the other is in.         *)
(***************************************************************************)
OneDestination == fate.switched \/ fate.apps # fate.peer

(* The last event of key on the channel is number i. *)
LastOf(key, i) ==
    /\ i \in DOMAIN queue /\ IsKey(queue[i]) /\ queue[i].key = key
    /\ \A j \in DOMAIN queue : IsKey(queue[j]) /\ queue[j].key = key => j <= i

(* The channel ends with a release of key, as far as key is concerned. *)
ReleaseComing(key) == \E i \in DOMAIN queue : LastOf(key, i) /\ ~ queue[i].pressed

(***************************************************************************)
(* While a hand-off lasts, no key stays down on the peer that the capture  *)
(* layer has seen go up, but for the time its release is on the channel.   *)
(***************************************************************************)
ForwardedKeysAreHeld ==
    state.role = "Controlling" => \A key \in forwarded \ held : ReleaseComing(key)

(* A press of a chord key is on the channel while the whole chord is down. *)
ChordPressed ==
    /\ EmergencyHotkey[Here] \subseteq down
    /\ \E i \in DOMAIN queue :
          IsKey(queue[i]) /\ queue[i].pressed /\ queue[i].key \in EmergencyHotkey[Here]

(***************************************************************************)
(* Once all its keys are down, the chord gives local input back, whatever  *)
(* else is on the channel (state_machine.rs:31-33, "the escape hatch must  *)
(* work no matter what").  It takes that the keys the peer types are not   *)
(* in the chord: an injected release takes a key out of the held set that  *)
(* is physically down.                                                     *)
(***************************************************************************)
ChordFreesInput == ChordPressed ~> passThrough

=============================================================================
