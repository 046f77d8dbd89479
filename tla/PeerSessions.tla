----------------------------- MODULE PeerSessions -----------------------------
(***************************************************************************)
(* The session tasks of ms-daemon: run_session at both ends of every       *)
(* connection, the registry of outbound channels they share with the event *)
(* task, the mesh-connect loop that dials, and the event task itself.      *)
(*                                                                         *)
(* Handoff takes sessions for granted.  Here they are as the code runs     *)
(* them: two daemons may dial each other at once, or one may dial again    *)
(* while a dial is under way; a new session overwrites the registry entry  *)
(* of an older one; the watchdog gives a session up without stopping its   *)
(* read loop; and the end of a session removes whatever entry its peer     *)
(* has, be it its own or not.                                              *)
(*                                                                         *)
(* Forwarded input and the emergency chord are left to Handoff: the former *)
(* moves no state here, the latter sends the same EdgeRelease.             *)
(***************************************************************************)
EXTENDS EdgeStateMachine, Sequences, FiniteSets

CONSTANTS
    Conn,         \* connections that may be opened, over all pairs
    NoConn,       \* the absent connection
    MaxHandoffs,  \* bound: hand-offs each device starts
    MaxFaults     \* bound: broken connections, heartbeat timeouts and restarts

ASSUME SessionAssumption ==
    /\ NoConn \notin Conn
    /\ MaxHandoffs \in Nat
    /\ MaxFaults \in Nat

VARIABLES
    ends,      \* ends[c]: the two devices of c, or {} before c is dialed
    session,   \* session[c][d]: how far run_session of d's end of c is
    wire,      \* wire[c][d]: what d has still to read from c
    broken,    \* connections on which nothing gets through any more
    registry,  \* registry[d][p]: the session d's messages for p go to
    events,    \* events[d]: the event channel of d's CoreService
    state,     \* EdgeStateMachine.state
    handoffs,  \* hand-offs each device started
    faults     \* faults so far

vars == <<ends, session, wire, broken, registry, events, state, handoffs, faults>>

(***************************************************************************)
(* "handshake" - TCP, TLS or Hello/HelloAck under way                      *)
(* "running"   - registered, reading, and trusted by its watchdog          *)
(* "timedOut"  - the watchdog has given the session up; it reads on        *)
(* "ended"     - run_session has returned and closed the connection        *)
(***************************************************************************)
Phase == {"none", "handshake", "running", "timedOut", "ended"}

Reading == {"running", "timedOut"}

Kind == {"EdgeEnter", "EdgeEnterRejected", "EdgeRelease", "ConnectionLost"}

Event == [kind : Kind, from : Device]

Lost(p) == [kind |-> "ConnectionLost", from |-> p]

Other(c, d) == CHOOSE p \in ends[c] : p # d

(* d's sessions with p *)
SessionsWith(d, p) == {c \in Conn : ends[c] = {d, p}}

Unused == {c \in Conn : ends[c] = {}}

Init ==
    /\ ends = [c \in Conn |-> {}]
    /\ session = [c \in Conn |-> [d \in Device |-> "none"]]
    /\ wire = [c \in Conn |-> [d \in Device |-> <<>>]]
    /\ broken = {}
    /\ registry = [d \in Device |-> [p \in Device |-> NoConn]]
    /\ events = [d \in Device |-> <<>>]
    /\ state = [d \in Device |-> Idle]
    /\ handoffs = [d \in Device |-> 0]
    /\ faults = 0

-----------------------------------------------------------------------------
(* ChannelNetworkSender *)

Register(d, p, c) == registry' = [registry EXCEPT ![d][p] = c]

Unregister(d, p) == registry' = [registry EXCEPT ![d][p] = NoConn]

IsConnected(d, p) == registry[d][p] # NoConn

(* A writer whose connection is gone drops what it is given. *)
Send(d, mail) ==
    LET p == mail.to
        c == registry[d][p]
    IN  wire' = IF /\ p \in Device
                   /\ IsConnected(d, p)
                   /\ c \notin broken
                   /\ session[c][p] # "ended"
                THEN [wire EXCEPT ![c][p] = Append(@, mail.body)]
                ELSE wire

-----------------------------------------------------------------------------
(* run_session at d's end of connection c *)

(***************************************************************************)
(* A tick of mesh_connect_loop that finds no session with p.  The dial     *)
(* runs in a task of its own, so that the next tick does not know of it.   *)
(***************************************************************************)
Dial(d, p) ==
    /\ d # p
    /\ ~ IsConnected(d, p)
    /\ Unused # {}
    /\ LET c == CHOOSE c \in Unused : TRUE
       IN  /\ ends' = [ends EXCEPT ![c] = {d, p}]
           /\ session' = [session EXCEPT ![c][d] = "handshake", ![c][p] = "handshake"]
    /\ UNCHANGED <<wire, broken, registry, events, state, handoffs, faults>>

(* The two ends of a handshake complete it one after the other. *)
Establish(c, d) ==
    /\ session[c][d] = "handshake"
    /\ c \notin broken
    /\ session' = [session EXCEPT ![c][d] = "running"]
    /\ Register(d, Other(c, d), c)
    /\ UNCHANGED <<ends, wire, broken, events, state, handoffs, faults>>

(* Nothing gets through, or the other end has closed the connection. *)
Closed(c, d) == c \in broken \/ session[c][Other(c, d)] = "ended"

HandshakeFails(c, d) ==
    /\ session[c][d] = "handshake"
    /\ Closed(c, d)
    /\ session' = [session EXCEPT ![c][d] = "ended"]
    /\ UNCHANGED <<ends, wire, broken, registry, events, state, handoffs, faults>>

(* The read loop turns a message into an event. *)
Read(c, d) ==
    /\ session[c][d] \in Reading
    /\ wire[c][d] # <<>>
    /\ events' = [events EXCEPT ![d] =
                     Append(@, [kind |-> Head(wire[c][d]), from |-> Other(c, d)])]
    /\ wire' = [wire EXCEPT ![c][d] = Tail(@)]
    /\ UNCHANGED <<ends, session, broken, registry, state, handoffs, faults>>

(* Mutant: the watchdog leaves the entry to the session it has given up. *)
WatchdogKeepsEntry(c, d) ==
    /\ session[c][d] = "running"
    /\ faults < MaxFaults
    /\ session' = [session EXCEPT ![c][d] = "timedOut"]
    /\ events' = [events EXCEPT ![d] = Append(@, Lost(Other(c, d)))]
    /\ faults' = faults + 1
    /\ UNCHANGED <<ends, wire, broken, registry, state, handoffs>>

(* No heartbeat for three intervals. *)
WatchdogFires(c, d) ==
    /\ session[c][d] = "running"
    /\ faults < MaxFaults
    /\ session' = [session EXCEPT ![c][d] = "timedOut"]
    /\ Unregister(d, Other(c, d))
    /\ events' = [events EXCEPT ![d] = Append(@, Lost(Other(c, d)))]
    /\ faults' = faults + 1
    /\ UNCHANGED <<ends, wire, broken, state, handoffs>>

(* Mutant: a session whose peer closes ends without ConnectionLost. *)
SessionEndsSilently(c, d) ==
    /\ session[c][d] \in Reading
    /\ Closed(c, d)
    /\ session' = [session EXCEPT ![c][d] = "ended"]
    /\ wire' = [wire EXCEPT ![c][d] = <<>>]
    /\ Unregister(d, Other(c, d))
    /\ UNCHANGED <<ends, broken, events, state, handoffs, faults>>

(* The read loop meets the end of the stream; what it has not read is lost. *)
SessionEnds(c, d) ==
    /\ session[c][d] \in Reading
    /\ Closed(c, d)
    /\ session' = [session EXCEPT ![c][d] = "ended"]
    /\ wire' = [wire EXCEPT ![c][d] = <<>>]
    /\ Unregister(d, Other(c, d))
    /\ events' = [events EXCEPT ![d] = Append(@, Lost(Other(c, d)))]
    /\ UNCHANGED <<ends, broken, state, handoffs, faults>>

-----------------------------------------------------------------------------
(* CoreService at d *)

Outcomes(d, event) ==
    CASE event.kind = "EdgeEnter" -> OnPeerEdgeEnter(state[d], event.from)
      [] event.kind = "EdgeEnterRejected" -> OnPeerEdgeEnterRejected(state[d], event.from)
      [] event.kind = "EdgeRelease" -> OnPeerEdgeRelease(state[d], event.from)
      [] event.kind = "ConnectionLost" -> OnConnectionLost(state[d], event.from)

HandleEvent(d) ==
    LET r == Outcomes(d, Head(events[d]))
    IN  /\ events[d] # <<>>
        /\ events' = [events EXCEPT ![d] = Tail(@)]
        /\ state' = [state EXCEPT ![d] = r.state]
        /\ Send(d, r.mail)
        /\ UNCHANGED <<ends, session, broken, registry, handoffs, faults>>

CursorAtEdge(d, e) ==
    LET r == OnLocalCursorAtEdge(d, state[d], e)
    IN  /\ IF r.mail.body = "EdgeEnter"
           THEN /\ handoffs[d] < MaxHandoffs
                /\ handoffs' = [handoffs EXCEPT ![d] = @ + 1]
           ELSE UNCHANGED handoffs
        /\ state' = [state EXCEPT ![d] = r.state]
        /\ Send(d, r.mail)
        /\ UNCHANGED <<ends, session, broken, registry, events, faults>>

-----------------------------------------------------------------------------
(* Faults *)

Break(c) ==
    /\ ends[c] # {}
    /\ c \notin broken
    /\ faults < MaxFaults
    /\ broken' = broken \cup {c}
    /\ faults' = faults + 1
    /\ UNCHANGED <<ends, session, wire, registry, events, state, handoffs>>

(* The daemon of d stops, without a word to its peers, and starts again. *)
Restart(d) ==
    /\ faults < MaxFaults
    /\ faults' = faults + 1
    /\ session' = [c \in Conn |-> IF d \in ends[c] THEN [session[c] EXCEPT ![d] = "ended"]
                                                   ELSE session[c]]
    /\ wire' = [c \in Conn |-> [wire[c] EXCEPT ![d] = <<>>]]
    /\ registry' = [registry EXCEPT ![d] = [p \in Device |-> NoConn]]
    /\ events' = [events EXCEPT ![d] = <<>>]
    /\ state' = [state EXCEPT ![d] = Idle]
    /\ UNCHANGED <<ends, broken, handoffs>>

Next ==
    \/ \E d, p \in Device : Dial(d, p)
    \/ \E c \in Conn, d \in Device :
          \/ Establish(c, d)
          \/ HandshakeFails(c, d)
          \/ Read(c, d)
          \/ WatchdogFires(c, d)
          \/ SessionEnds(c, d)
    \/ \E d \in Device :
          \/ HandleEvent(d)
          \/ \E e \in ScreenEdge : CursorAtEdge(d, e)
          \/ Restart(d)
    \/ \E c \in Conn : Break(c)

Spec == Init /\ [][Next]_vars

(***************************************************************************)
(* Read loops and event tasks are tokio tasks that run when there is       *)
(* something to read or to handle; a handshake is not waited for by any    *)
(* timeout, and a fault or a crossing never has to happen.                 *)
(***************************************************************************)
Fairness ==
    /\ \A d \in Device : WF_vars(HandleEvent(d))
    /\ \A c \in Conn, d \in Device : WF_vars(Read(c, d)) /\ WF_vars(SessionEnds(c, d))

FairSpec == Spec /\ Fairness

-----------------------------------------------------------------------------
(* Properties *)

TypeOK ==
    /\ ends \in [Conn -> SUBSET Device]
    /\ session \in [Conn -> [Device -> Phase]]
    /\ wire \in [Conn -> [Device -> Seq(Kind \ {"ConnectionLost"})]]
    /\ broken \subseteq Conn
    /\ registry \in [Device -> [Device -> Conn \cup {NoConn}]]
    /\ events \in [Device -> Seq(Event)]
    /\ state \in [Device -> LocalState]
    /\ handoffs \in [Device -> Nat]
    /\ faults \in Nat

(***************************************************************************)
(* Whatever sessions overwrite, outlive or remove each other's entries, an *)
(* entry of the registry leads to a session with that very peer which has  *)
(* neither ended nor been given up by its watchdog.                        *)
(***************************************************************************)
RegistryIsLive ==
    \A d, p \in Device : IsConnected(d, p) =>
        /\ ends[registry[d][p]] = {d, p}
        /\ session[registry[d][p]][d] = "running"

(* ConnectionLost for p is in d's event channel behind its first i events. *)
LossBehind(d, p, i) == \E j \in DOMAIN events[d] : j > i /\ events[d][j] = Lost(p)

Served(d, p) == \E c \in SessionsWith(d, p) : session[c][d] \in Reading

(***************************************************************************)
(* A device is under p's control only while it reads from p or has still   *)
(* to handle the loss of p, and the same goes for the EdgeEnter it is yet  *)
(* to handle: no order in which sessions end strands a controlled device.  *)
(***************************************************************************)
ControlledIsServed ==
    \A d, p \in Device :
        /\ state[d] = BeingControlled(p) => Served(d, p) \/ LossBehind(d, p, 0)
        /\ \A i \in DOMAIN events[d] :
              events[d][i] = [kind |-> "EdgeEnter", from |-> p] =>
                  Served(d, p) \/ LossBehind(d, p, i)

(***************************************************************************)
(* When a connection breaks, both its ends stop controlling and being      *)
(* controlled over it, whatever other sessions they have                   *)
(* (state_machine.rs:52-56: "control must return to local").               *)
(***************************************************************************)
BreakReleases ==
    \A d, p \in Device :
        (\E c \in SessionsWith(d, p) : c \in broken /\ session[c][d] \in Reading)
            ~> state[d] \notin {Controlling(p), BeingControlled(p)}

=============================================================================
