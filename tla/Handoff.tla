------------------------------- MODULE Handoff -------------------------------
(***************************************************************************)
(* Several devices handing the shared mouse and keyboard to one another.   *)
(*                                                                         *)
(* Each device is the event task of ms-daemon: CoreService::handle runs    *)
(* EdgeStateMachine::handle on one event at a time and executes the        *)
(* returned actions before it takes the next event, so that a handler is   *)
(* one action here.  net[<<p, d>>] is what p has sent to d and d has not   *)
(* handled yet: p's outbound channel, the TLS stream and p's share of d's  *)
(* event channel, which are all first-in first-out.  "ConnectionLost" is   *)
(* the event the session task of d posts behind the last message it read.  *)
(*                                                                         *)
(* This module assumes what docs/protocol-spec.md says of sessions: there  *)
(* is at most one connection per pair of devices at a time, and the loss   *)
(* of one has been handled on both ends before the next one is set up.     *)
(* PeerSessions models the session tasks, which do not guarantee that.     *)
(***************************************************************************)
EXTENDS EdgeStateMachine, Sequences

CONSTANTS
    ChordUsers,   \* devices at which someone may press the emergency chord
    MaxHandoffs,  \* bound: hand-offs each device starts
    MaxWaiting,   \* bound: messages waiting on a link that takes more input
    MaxFaults     \* bound: lost connections and restarts

ASSUME HandoffAssumption ==
    /\ ChordUsers \subseteq Device
    /\ MaxHandoffs \in Nat
    /\ MaxWaiting \in Nat
    /\ MaxFaults \in Nat

VARIABLES
    state,        \* EdgeStateMachine.state
    passThrough,  \* the capture layer: does local input reach local applications?
    net,          \* messages and loss events on their way, per ordered pair
    connected,    \* ChannelNetworkSender.peers: <<d, p>> when d can send to p
    faults,       \* connections lost and restarts so far
    \* History variables: no guard depends on them but for the bound on handoff.
    handoff,      \* handoff[d]: how many hand-offs d has started
    accepted,     \* accepted[d]: which hand-off of its source d last accepted
    announced,    \* announced[d]: was the EdgeEnter of d's latest hand-off sent?
    injected      \* injected[d]: the origin of the input d injected last

vars == <<state, passThrough, net, connected, faults, handoff, accepted, announced, injected>>

history == <<handoff, accepted, announced, injected>>

Pair == {dp \in Device \X Device : dp[1] # dp[2]}

(***************************************************************************)
(* n is the hand-off a message belongs to: the one an EdgeEnter starts,    *)
(* the one an input event is forwarded under, the one that an EdgeRelease  *)
(* or EdgeEnterRejected of the entered device ends.                        *)
(***************************************************************************)
Lost == [body |-> "ConnectionLost", n |-> 0]

Message == [body : Body \cup {"ConnectionLost"}, n : Nat]

NoInput == [from |-> NoDevice, n |-> 0]

(* Some message of q is of one of the kinds in bodies. *)
Has(q, bodies) == \E i \in DOMAIN q : q[i].body \in bodies

(* At most one message of q is. *)
AtMostOne(q, bodies) ==
    \A i, j \in DOMAIN q : q[i].body \in bodies /\ q[j].body \in bodies => i = j

(* All messages of q of these kinds belong to hand-off n. *)
Tagged(q, bodies, n) == \A i \in DOMAIN q : q[i].body \in bodies => q[i].n = n

Enters == {"EdgeEnter"}

Answers == {"EdgeRelease", "EdgeEnterRejected"}

Inputs == {"Input"}

Losses == {"ConnectionLost"}

Init ==
    /\ state = [d \in Device |-> Idle]
    /\ passThrough = [d \in Device |-> TRUE]
    /\ net = [dp \in Pair |-> <<>>]
    /\ connected = Pair
    /\ faults = 0
    /\ handoff = [d \in Device |-> 0]
    /\ accepted = [d \in Device |-> 0]
    /\ announced = [d \in Device |-> FALSE]
    /\ injected = [d \in Device |-> NoInput]

-----------------------------------------------------------------------------
(* CoreService::execute *)

SetPassThrough(d, pass) ==
    passThrough' = [passThrough EXCEPT ![d] = (pass = "enable") \/ (@ /\ pass # "disable")]

(* ChannelNetworkSender::send drops the message when no session is registered. *)
Transmit(queues, d, mail, n) ==
    IF <<d, mail.to>> \in connected
    THEN [queues EXCEPT ![<<d, mail.to>>] = Append(@, [body |-> mail.body, n |-> n])]
    ELSE queues

(* d carries out the outcome r; what it sends belongs to hand-off n. *)
Execute(d, r, queues, n) ==
    /\ state' = [state EXCEPT ![d] = r.state]
    /\ SetPassThrough(d, r.pass)
    /\ net' = Transmit(queues, d, r.mail, n)
    /\ UNCHANGED <<connected, faults>>

-----------------------------------------------------------------------------
(* Local events of device d *)

CursorAtEdge(d, e) ==
    LET r == OnLocalCursorAtEdge(d, state[d], e)
    IN  IF r.mail.body = "EdgeEnter"
        THEN /\ handoff[d] < MaxHandoffs
             /\ Execute(d, r, net, handoff[d] + 1)
             /\ handoff' = [handoff EXCEPT ![d] = @ + 1]
             /\ announced' = [announced EXCEPT ![d] = <<d, r.mail.to>> \in connected]
             /\ UNCHANGED <<accepted, injected>>
        ELSE Execute(d, r, net, accepted[d]) /\ UNCHANGED history

(* The bound on the input that waits on a link. *)
RoomFor(d, r) ==
    (<<d, r.mail.to>> \in connected /\ r.mail.body = "Input") =>
        Len(net[<<d, r.mail.to>>]) < MaxWaiting

(* Mouse movement, button and wheel. *)
LocalMouseEvent(d) ==
    LET r == ForwardIfControlling(state[d])
    IN  /\ RoomFor(d, r)
        /\ Execute(d, r, net, handoff[d])
        /\ UNCHANGED history

LocalKeyEvent(d, pressed, held) ==
    LET r == OnLocalKeyEvent(d, state[d], pressed, held)
    IN  /\ CompletesChord(d, pressed, held) => d \in ChordUsers
        /\ RoomFor(d, r)
        /\ Execute(d, r, net, handoff[d])
        /\ UNCHANGED history

-----------------------------------------------------------------------------
(* Events from peer p, taken from the head of their queue *)

Arrives(d, p, body) == net[<<p, d>>] # <<>> /\ Head(net[<<p, d>>]).body = body

Tag(d, p) == Head(net[<<p, d>>]).n

Rest(d, p) == [net EXCEPT ![<<p, d>>] = Tail(@)]

PeerEdgeEnter(d, p) ==
    LET r == OnPeerEdgeEnter(state[d], p)
    IN  /\ Arrives(d, p, "EdgeEnter")
        /\ Execute(d, r, Rest(d, p), Tag(d, p))
        /\ accepted' = IF r.local = "warp" THEN [accepted EXCEPT ![d] = Tag(d, p)] ELSE accepted
        /\ UNCHANGED <<handoff, announced, injected>>

PeerEdgeEnterRejected(d, p) ==
    /\ Arrives(d, p, "EdgeEnterRejected")
    /\ Execute(d, OnPeerEdgeEnterRejected(state[d], p), Rest(d, p), 0)
    /\ UNCHANGED history

PeerEdgeRelease(d, p) ==
    /\ Arrives(d, p, "EdgeRelease")
    /\ Execute(d, OnPeerEdgeRelease(state[d], p), Rest(d, p), 0)
    /\ UNCHANGED history

PeerInputMessage(d, p) ==
    LET r == OnPeerInputMessage(state[d], p)
    IN  /\ Arrives(d, p, "Input")
        /\ Execute(d, r, Rest(d, p), 0)
        /\ injected' = IF r.local = "inject"
                       THEN [injected EXCEPT ![d] = [from |-> p, n |-> Tag(d, p)]]
                       ELSE injected
        /\ UNCHANGED <<handoff, accepted, announced>>

ConnectionLost(d, p) ==
    /\ Arrives(d, p, "ConnectionLost")
    /\ Execute(d, OnConnectionLost(state[d], p), Rest(d, p), 0)
    /\ UNCHANGED history

Receive(d, p) ==
    \/ PeerEdgeEnter(d, p)
    \/ PeerEdgeEnterRejected(d, p)
    \/ PeerEdgeRelease(d, p)
    \/ PeerInputMessage(d, p)
    \/ ConnectionLost(d, p)

-----------------------------------------------------------------------------
(* Faults *)

(* Mutant: the session ends without posting ConnectionLost. *)
BrokenSilently(q) ==
    {SubSeq(q, 1, k) : k \in 0 .. Len(q)}

(***************************************************************************)
(* What may become of a queue when its connection breaks: the reader gets  *)
(* some first part of it and then posts ConnectionLost.                    *)
(***************************************************************************)
Broken(q) ==
    {Append(SubSeq(q, 1, k), Lost) : k \in 0 .. Len(q)}

LoseConnection(d, p) ==
    /\ <<d, p>> \in connected
    /\ faults < MaxFaults
    /\ \E there \in Broken(net[<<d, p>>]), back \in Broken(net[<<p, d>>]) :
           net' = [net EXCEPT ![<<d, p>>] = there, ![<<p, d>>] = back]
    /\ connected' = connected \ {<<d, p>>, <<p, d>>}
    /\ faults' = faults + 1
    /\ UNCHANGED <<state, passThrough, history>>

(* d has still to handle the loss of its connection to p. *)
LossPending(p, d) == Has(net[<<p, d>>], Losses)

Reconnect(d, p) ==
    /\ <<d, p>> \notin connected
    /\ ~ LossPending(d, p)
    /\ ~ LossPending(p, d)
    /\ connected' = connected \cup {<<d, p>>, <<p, d>>}
    /\ UNCHANGED <<state, passThrough, net, faults, history>>

(***************************************************************************)
(* The daemon of d stops, taking its event channel and its input hooks     *)
(* with it, and starts again; its peers' sessions with it end.             *)
(***************************************************************************)
Restart(d) ==
    LET Peers == Device \ {d}
        Outcomes(p) == IF <<d, p>> \in connected THEN Broken(net[<<d, p>>]) ELSE {net[<<d, p>>]}
    IN  /\ faults < MaxFaults
        /\ \E left \in [Peers -> UNION {Outcomes(p) : p \in Peers}] :
              /\ \A p \in Peers : left[p] \in Outcomes(p)
              /\ net' = [dp \in Pair |-> IF dp[1] = d THEN left[dp[2]]
                                         ELSE IF dp[2] = d THEN <<>> ELSE net[dp]]
        /\ state' = [state EXCEPT ![d] = Idle]
        /\ passThrough' = [passThrough EXCEPT ![d] = TRUE]
        /\ connected' = {dp \in connected : d \notin {dp[1], dp[2]}}
        /\ faults' = faults + 1
        /\ UNCHANGED history

Next ==
    \/ \E d \in Device :
          \/ \E e \in ScreenEdge : CursorAtEdge(d, e)
          \/ LocalMouseEvent(d)
          \/ \E pressed \in BOOLEAN, held \in SUBSET LogicalKey : LocalKeyEvent(d, pressed, held)
          \/ Restart(d)
    \/ \E dp \in Pair :
          \/ Receive(dp[1], dp[2])
          \/ LoseConnection(dp[1], dp[2])
          \/ Reconnect(dp[1], dp[2])

Spec == Init /\ [][Next]_vars

(***************************************************************************)
(* The event task takes every event it is sent, and TCP delivers what the  *)
(* connection does not lose.  Nothing obliges a user to move the mouse, to *)
(* press the chord, or a connection to come back.                          *)
(***************************************************************************)
FairSpec == Spec /\ \A dp \in Pair : WF_vars(Receive(dp[1], dp[2]))

-----------------------------------------------------------------------------
(* Properties *)

TypeOK ==
    /\ state \in [Device -> LocalState]
    /\ passThrough \in [Device -> BOOLEAN]
    /\ net \in [Pair -> Seq(Message)]
    /\ connected \subseteq Pair
    /\ faults \in Nat
    /\ handoff \in [Device -> Nat]
    /\ accepted \in [Device -> Nat]
    /\ announced \in [Device -> BOOLEAN]
    /\ injected \in [Device -> [from : Device \cup {NoDevice}, n : Nat]]

(***************************************************************************)
(* Local input is withheld from local applications exactly while it is     *)
(* being forwarded: whatever ends a hand-off, the chord, an answer, a loss *)
(* or a restart, gives the user the mouse back, and nothing else ever      *)
(* takes it away (state_machine.rs:223, "never leave the user without      *)
(* their own mouse/keyboard").                                             *)
(***************************************************************************)
PassThroughMatchesRole ==
    \A d \in Device : passThrough[d] <=> state[d].role # "Controlling"

(* A message of one of these kinds, of hand-off n, is on its way from p to d. *)
OnTheWay(p, d, bodies, n) ==
    \E i \in DOMAIN net[<<p, d>>] : net[<<p, d>>][i].body \in bodies /\ net[<<p, d>>][i].n = n

(***************************************************************************)
(* A controller whose EdgeEnter was sent is never left hanging: the        *)
(* EdgeEnter is on its way, the target is controlled by it, the answer     *)
(* that will end the hand-off is on its way, or the loss of the connection *)
(* is about to be handled.                                                 *)
(***************************************************************************)
ControllerIsServed ==
    \A dp \in Pair :
        LET d == dp[1]  p == dp[2]
        IN  (state[d] = Controlling(p) /\ announced[d]) =>
                \/ OnTheWay(d, p, Enters, handoff[d])
                \/ state[p] = BeingControlled(d) /\ accepted[p] = handoff[d]
                \/ OnTheWay(p, d, Answers, handoff[d])
                \/ LossPending(p, d)

(***************************************************************************)
(* A controlled device has a controller that forwards its input to it in   *)
(* the very hand-off it accepted, or it is about to learn that the         *)
(* connection is gone.                                                     *)
(***************************************************************************)
TargetIsDriven ==
    \A dp \in Pair :
        LET d == dp[1]  p == dp[2]
        IN  state[d] = BeingControlled(p) =>
                \/ state[p] = Controlling(d) /\ accepted[d] = handoff[p]
                \/ LossPending(p, d)

(***************************************************************************)
(* The EdgeRelease or EdgeEnterRejected that ends a hand-off answers that  *)
(* hand-off and not an earlier one (state_machine.rs:41-46: "a             *)
(* stale/duplicate delivery is ignored").                                  *)
(***************************************************************************)
AnswersAreCurrent ==
    \A dp \in Pair :
        LET d == dp[1]  p == dp[2]
        IN  (state[d] = Controlling(p) /\ net[<<p, d>>] # <<>> /\ Head(net[<<p, d>>]).body \in Answers)
                => Tag(d, p) = handoff[d]

(***************************************************************************)
(* Input is injected only into the session it was forwarded for: from the  *)
(* device's present controller, and of the hand-off it accepted.           *)
(***************************************************************************)
InjectsOnlyItsHandoff ==
    [][\A d \in Device : injected'[d] # injected[d] =>
          /\ state[d] = BeingControlled(injected'[d].from)
          /\ accepted[d] = injected'[d].n]_vars

(***************************************************************************)
(* A device engaged with a peer is never handed to another one, nor turned *)
(* from target to controller, in one step: every change goes through Idle. *)
(***************************************************************************)
RolesChangeThroughIdle ==
    [][\A d \in Device : state[d] # Idle => state'[d] \in {Idle, state[d]}]_state

-----------------------------------------------------------------------------
(***************************************************************************)
(* The inductive form of the three invariants above.  A hand-off from d to *)
(* p has one token: the EdgeEnter on its way, then p being controlled by   *)
(* d, then the answer on its way back.  The token belongs to the hand-off  *)
(* d is in, unless the loss of the connection is still ahead of p.         *)
(***************************************************************************)

(* d is in a hand-off to p over the present connection. *)
Live(d, p) == <<d, p>> \in connected /\ state[d] = Controlling(p) /\ announced[d]

LinkInv(d, p) ==
    /\ <<d, p>> \in connected => <<p, d>> \in connected /\ ~ LossPending(d, p)
    /\ \A i \in DOMAIN net[<<d, p>>] : net[<<d, p>>][i].body \in Losses => i = Len(net[<<d, p>>])
    /\ AtMostOne(net[<<d, p>>], Enters)
    /\ AtMostOne(net[<<d, p>>], Answers)

EnterInv(d, p) ==
    Has(net[<<d, p>>], Enters) =>
        /\ LossPending(d, p) \/ (Live(d, p) /\ Tagged(net[<<d, p>>], Enters, handoff[d]))
        /\ state[p] # BeingControlled(d)
        /\ ~ Has(net[<<p, d>>], Answers)

TargetInv(d, p) ==
    state[p] = BeingControlled(d) =>
        /\ LossPending(d, p) \/ (Live(d, p) /\ accepted[p] = handoff[d])
        /\ ~ Has(net[<<p, d>>], Answers)

AnswerInv(d, p) ==
    Has(net[<<p, d>>], Answers) =>
        /\ state[d] = Controlling(p) /\ announced[d]
        /\ Tagged(net[<<p, d>>], Answers, handoff[d])

ControllerInv(d, p) ==
    (state[d] = Controlling(p) /\ announced[d]) =>
        IF <<d, p>> \in connected
        THEN \/ Has(net[<<d, p>>], Enters)
             \/ state[p] = BeingControlled(d)
             \/ Has(net[<<p, d>>], Answers)
        ELSE LossPending(p, d)

(* What p still has to read from d after it accepted, or after an EdgeEnter. *)
InputInv(d, p) ==
    /\ state[p] = BeingControlled(d) => Tagged(net[<<d, p>>], Inputs, accepted[p])
    /\ \A i, j \in DOMAIN net[<<d, p>>] :
          (i < j /\ net[<<d, p>>][i].body \in Enters /\ net[<<d, p>>][j].body \in Inputs)
              => net[<<d, p>>][j].n = net[<<d, p>>][i].n

Conversation(d, p) ==
    /\ LinkInv(d, p)
    /\ EnterInv(d, p)
    /\ TargetInv(d, p)
    /\ AnswerInv(d, p)
    /\ ControllerInv(d, p)
    /\ InputInv(d, p)

(***************************************************************************)
(* Every pair of devices keeps to the conversation, in both directions at  *)
(* once: no crossing, rejection, release, loss or restart leaves a second  *)
(* token of a hand-off, or none where the controller waits for one.        *)
(***************************************************************************)
ConversationInv == \A dp \in Pair : Conversation(dp[1], dp[2])

-----------------------------------------------------------------------------
(***************************************************************************)
(* The trips that the devices' pointers are on: where d's is follows from  *)
(* what d and its target know and from the answer on its way between them. *)
(***************************************************************************)
Leg(d, p) ==
    IF ~ Live(d, p) THEN "cut"
    ELSE IF Has(net[<<p, d>>], Answers) THEN "returning"
    ELSE IF state[p] = BeingControlled(d) THEN "there"
    ELSE "asking"

Trip ==
    [d \in Device |->
        LET p == state[d].peer
        IN  IF state[d].role = "Controlling"
            THEN [leg |-> Leg(d, p), to |-> p]
            ELSE [leg |-> "home", to |-> NoDevice]]

Visitor ==
    [p \in Device |-> IF state[p].role = "BeingControlled" THEN state[p].peer ELSE NoDevice]

Journey == INSTANCE Trips WITH trip <- Trip, visitor <- Visitor

(***************************************************************************)
(* The messages between the daemons, whatever they cross, overtake or lose,*)
(* add up to trips: a pointer that left is let in or refused once, comes   *)
(* home once, and no device lets one in while its own is away              *)
(* (state_machine.rs:8-16).                                                *)
(***************************************************************************)
MakesTrips == Journey!Spec

-----------------------------------------------------------------------------
(***************************************************************************)
(* A controller whose EdgeEnter was sent comes to drive its target or gets *)
(* its own input back.                                                     *)
(***************************************************************************)
AnnouncedControllerSettles ==
    \A dp \in Pair :
        (state[dp[1]] = Controlling(dp[2]) /\ announced[dp[1]])
            ~> (state[dp[2]] = BeingControlled(dp[1]) \/ state[dp[1]] # Controlling(dp[2]))

(***************************************************************************)
(* When a connection is lost, both its ends come to rest                   *)
(* (state_machine.rs:52-55: control must return to local).                 *)
(***************************************************************************)
LossReleases ==
    \A dp \in Pair :
        LossPending(dp[2], dp[1]) ~> state[dp[1]] \notin {Controlling(dp[2]), BeingControlled(dp[2])}

(***************************************************************************)
(* What the code's comments claim of every controller: it does not stay    *)
(* stuck Controlling with local input disabled, waiting for an answer that *)
(* will never come (state_machine.rs:168-170).                             *)
(***************************************************************************)
ControllerSettles ==
    \A dp \in Pair :
        state[dp[1]] = Controlling(dp[2])
            ~> (state[dp[2]] = BeingControlled(dp[1]) \/ state[dp[1]] # Controlling(dp[2]))

=============================================================================
