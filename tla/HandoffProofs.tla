---------------------------- MODULE HandoffProofs ----------------------------
(***************************************************************************)
(* Proofs about Handoff, for any set of devices, any layouts, any bounds   *)
(* and any number of lost connections and restarts: type correctness, what *)
(* holds also when the emergency chord is pressed, the conversation of any *)
(* two devices where nobody presses it, and that Handoff implements Trips. *)
(***************************************************************************)
EXTENDS Handoff, SequenceTheorems, TLAPS

-----------------------------------------------------------------------------
(* Local states and outcomes *)

LEMMA LocalStateCases ==
    ASSUME NEW s \in LocalState
    PROVE  \/ s = Idle
           \/ s.role = "Controlling" /\ s.peer \in Device /\ s = Controlling(s.peer)
           \/ s.role = "BeingControlled" /\ s.peer \in Device /\ s = BeingControlled(s.peer)
BY DEF LocalState, Idle, Controlling, BeingControlled

LEMMA LocalStateDistinct ==
    ASSUME NEW d, NEW p
    PROVE  /\ Idle.role = "Idle" /\ Idle # Controlling(d) /\ Idle # BeingControlled(d)
           /\ Controlling(d).role = "Controlling" /\ Controlling(d).peer = d
           /\ BeingControlled(d).role = "BeingControlled" /\ BeingControlled(d).peer = d
           /\ Controlling(d) # BeingControlled(p)
           /\ Controlling(d) = Controlling(p) => d = p
           /\ BeingControlled(d) = BeingControlled(p) => d = p
<1>1. /\ Idle.role = "Idle"
      /\ Controlling(d).role = "Controlling" /\ Controlling(d).peer = d
      /\ Controlling(p).peer = p
      /\ BeingControlled(d).role = "BeingControlled" /\ BeingControlled(d).peer = d
      /\ BeingControlled(p).role = "BeingControlled" /\ BeingControlled(p).peer = p
  BY DEF Idle, Controlling, BeingControlled
<1>2. QED
  BY <1>1

(* What every handler returns: a state, and mail for a device or none. *)
OutcomeOK(r) ==
    /\ r.state \in LocalState
    /\ r.mail.to \in Device => r.mail.body \in Body

LEMMA HandlersTyped ==
    ASSUME NEW s \in LocalState, NEW d \in Device, NEW p \in Device
    PROVE  /\ \A e \in ScreenEdge : OutcomeOK(OnLocalCursorAtEdge(d, s, e))
           /\ OutcomeOK(ForwardIfControlling(s))
           /\ \A pressed, held : OutcomeOK(OnLocalKeyEvent(d, s, pressed, held))
           /\ OutcomeOK(OnPeerEdgeEnter(s, p))
           /\ OutcomeOK(OnPeerEdgeEnterRejected(s, p))
           /\ OutcomeOK(OnPeerEdgeRelease(s, p))
           /\ OutcomeOK(OnPeerInputMessage(s, p))
           /\ OutcomeOK(OnConnectionLost(s, p))
<1> USE DeviceAssumption DEF OutcomeOK, Outcome, Ignored, NoMail, SendMessage, Body
<1>1. Idle \in LocalState /\ Controlling(p) \in LocalState /\ BeingControlled(p) \in LocalState
  BY DEF LocalState
<1>2. OutcomeOK(Ignored(s)) /\ OutcomeOK(ForwardIfControlling(s))
  BY DEF ForwardIfControlling
<1>3. ASSUME NEW e \in ScreenEdge
      PROVE  OutcomeOK(OnLocalCursorAtEdge(d, s, e))
  <2>1. Resolve[d][e] \in Device \cup {NoDevice}
    OBVIOUS
  <2>2. Resolve[d][e] \in Device => Controlling(Resolve[d][e]) \in LocalState
    BY DEF LocalState
  <2>3. QED
    BY <1>1, <2>1, <2>2 DEF OnLocalCursorAtEdge
<1>4. OutcomeOK(ForceRelease(s))
  BY <1>1 DEF ForceRelease
<1>5. \A pressed, held : OutcomeOK(OnLocalKeyEvent(d, s, pressed, held))
  BY <1>2, <1>4 DEF OnLocalKeyEvent
<1>6. OutcomeOK(OnPeerEdgeEnter(s, p))
  BY <1>1 DEF OnPeerEdgeEnter
<1>7. OutcomeOK(OnPeerEdgeEnterRejected(s, p)) /\ OutcomeOK(OnPeerEdgeRelease(s, p))
  BY <1>1 DEF OnPeerEdgeEnterRejected, OnPeerEdgeRelease
<1>8. OutcomeOK(OnPeerInputMessage(s, p)) /\ OutcomeOK(OnConnectionLost(s, p))
  BY <1>1 DEF OnPeerInputMessage, OnConnectionLost
<1>9. QED
  BY <1>2, <1>3, <1>5, <1>6, <1>7, <1>8

-----------------------------------------------------------------------------
(* Type correctness *)

LEMMA PairFacts ==
    ASSUME NEW d \in Device, NEW p \in Device
    PROVE  /\ <<d, p>> \in Pair <=> d # p
           /\ <<d, p>>[1] = d /\ <<d, p>>[2] = p
BY DEF Pair

LEMMA LostIsMessage == Lost \in Message
BY DEF Lost, Message

LEMMA BrokenTyped ==
    ASSUME NEW q \in Seq(Message), NEW b \in Broken(q)
    PROVE  b \in Seq(Message)
<1>1. PICK k \in 0 .. Len(q) : b = Append(SubSeq(q, 1, k), Lost)
  BY DEF Broken
<1>2. SubSeq(q, 1, k) \in Seq(Message)
  <2>1. \A i \in 1 .. k : q[i] \in Message
    BY ElementOfSeq
  <2>2. QED
    BY <2>1, SubSeqProperties
<1>3. QED
  BY <1>1, <1>2, LostIsMessage, AppendProperties

LEMMA ExecuteTyped ==
    ASSUME TypeOK, NEW d \in Device, NEW r, OutcomeOK(r), NEW n \in Nat,
           NEW queues \in [Pair -> Seq(Message)],
           Execute(d, r, queues, n)
    PROVE  /\ state' \in [Device -> LocalState]
           /\ passThrough' \in [Device -> BOOLEAN]
           /\ net' \in [Pair -> Seq(Message)]
           /\ connected' \subseteq Pair
           /\ faults' \in Nat
<1>1. state' \in [Device -> LocalState]
  BY DEF TypeOK, Execute, OutcomeOK
<1>2. passThrough' \in [Device -> BOOLEAN]
  BY DEF TypeOK, Execute, SetPassThrough
<1>3. net' \in [Pair -> Seq(Message)]
  <2>1. CASE <<d, r.mail.to>> \in connected
    <3>1. <<d, r.mail.to>> \in Pair /\ r.mail.to \in Device
      BY <2>1 DEF TypeOK, Pair
    <3>2. [body |-> r.mail.body, n |-> n] \in Message
      BY <3>1 DEF Message, OutcomeOK
    <3>3. Append(queues[<<d, r.mail.to>>], [body |-> r.mail.body, n |-> n]) \in Seq(Message)
      BY <3>1, <3>2, AppendProperties
    <3>4. QED
      BY <2>1, <3>1, <3>3 DEF Execute, Transmit
  <2>2. CASE <<d, r.mail.to>> \notin connected
    BY <2>2 DEF Execute, Transmit
  <2>3. QED
    BY <2>1, <2>2
<1>4. QED
  BY <1>1, <1>2, <1>3 DEF TypeOK, Execute

LEMMA RestTyped ==
    ASSUME TypeOK, NEW d \in Device, NEW p \in Device, d # p, net[<<p, d>>] # <<>>
    PROVE  /\ Rest(d, p) \in [Pair -> Seq(Message)]
           /\ Tag(d, p) \in Nat
           /\ Head(net[<<p, d>>]) \in Message
<1>1. <<p, d>> \in Pair /\ net[<<p, d>>] \in Seq(Message)
  BY PairFacts DEF TypeOK
<1>2. Head(net[<<p, d>>]) \in Message /\ Tail(net[<<p, d>>]) \in Seq(Message)
  BY <1>1, HeadTailProperties
<1>3. Head(net[<<p, d>>]).n \in Nat
  BY <1>2 DEF Message
<1>4. QED
  BY <1>1, <1>2, <1>3 DEF TypeOK, Rest, Tag

(***************************************************************************)
(* Every state is one the program can be in: each device is Idle, or       *)
(* engaged with a device of the group, and every queue holds messages.     *)
(***************************************************************************)
THEOREM TypeCorrect == Spec => []TypeOK
<1>1. Init => TypeOK
  <2>1. Idle \in LocalState
    BY DEF LocalState
  <2>2. <<>> \in Seq(Message)
    BY EmptySeq
  <2>3. QED
    BY <2>1, <2>2 DEF Init, TypeOK, NoInput
<1>2. TypeOK /\ [Next]_vars => TypeOK'
  <2> SUFFICES ASSUME TypeOK, [Next]_vars
               PROVE  TypeOK'
    OBVIOUS
  <2>1. ASSUME NEW d \in Device, NEW e \in ScreenEdge, CursorAtEdge(d, e)
        PROVE  TypeOK'
    <3> DEFINE r == OnLocalCursorAtEdge(d, state[d], e)
    <3>1. OutcomeOK(r)
      BY HandlersTyped DEF TypeOK
    <3>2. CASE r.mail.body = "EdgeEnter"
      <4>1. /\ Execute(d, r, net, handoff[d] + 1)
            /\ handoff' = [handoff EXCEPT ![d] = handoff[d] + 1]
            /\ announced' = [announced EXCEPT ![d] = <<d, r.mail.to>> \in connected]
            /\ UNCHANGED <<accepted, injected>>
        BY <2>1, <3>2, Zenon DEF CursorAtEdge
      <4> HIDE DEF r
      <4>2. handoff[d] + 1 \in Nat /\ handoff' \in [Device -> Nat]
        BY <4>1 DEF TypeOK
      <4>3. announced' \in [Device -> BOOLEAN]
        BY <4>1 DEF TypeOK
      <4>4. QED
        BY <3>1, <4>1, <4>2, <4>3, ExecuteTyped DEF TypeOK
    <3>3. CASE r.mail.body # "EdgeEnter"
      <4>1. Execute(d, r, net, accepted[d]) /\ UNCHANGED history
        BY <2>1, <3>3 DEF CursorAtEdge
      <4> HIDE DEF r
      <4>2. QED
        BY <3>1, <4>1, ExecuteTyped DEF TypeOK, history
    <3>4. QED
      BY <3>2, <3>3
  <2>2. ASSUME NEW d \in Device, LocalMouseEvent(d)
        PROVE  TypeOK'
    BY <2>2, HandlersTyped, ExecuteTyped DEF LocalMouseEvent, TypeOK, history
  <2>3. ASSUME NEW d \in Device, NEW pressed, NEW held, LocalKeyEvent(d, pressed, held)
        PROVE  TypeOK'
    BY <2>3, HandlersTyped, ExecuteTyped DEF LocalKeyEvent, TypeOK, history
  <2>4. ASSUME NEW d \in Device, NEW p \in Device, d # p, Receive(d, p)
        PROVE  TypeOK'
    <3>0. state[d] \in LocalState
      BY DEF TypeOK
    <3>1. net[<<p, d>>] # <<>>
      BY <2>4 DEF Receive, PeerEdgeEnter, PeerEdgeEnterRejected, PeerEdgeRelease,
                  PeerInputMessage, ConnectionLost, Arrives
    <3>2. Rest(d, p) \in [Pair -> Seq(Message)] /\ Tag(d, p) \in Nat
      BY <2>4, <3>1, RestTyped
    <3>3. CASE PeerEdgeEnter(d, p)
      <4>1. accepted' \in [Device -> Nat]
        BY <3>2, <3>3 DEF PeerEdgeEnter, TypeOK
      <4>2. QED
        BY <3>0, <3>2, <3>3, <4>1, HandlersTyped, ExecuteTyped DEF PeerEdgeEnter, TypeOK
    <3>4. CASE PeerEdgeEnterRejected(d, p)
      BY <3>0, <3>2, <3>4, HandlersTyped, ExecuteTyped DEF PeerEdgeEnterRejected, TypeOK, history
    <3>5. CASE PeerEdgeRelease(d, p)
      BY <3>0, <3>2, <3>5, HandlersTyped, ExecuteTyped DEF PeerEdgeRelease, TypeOK, history
    <3>6. CASE PeerInputMessage(d, p)
      <4>1. injected' \in [Device -> [from : Device \cup {NoDevice}, n : Nat]]
        BY <3>2, <3>6 DEF PeerInputMessage, TypeOK
      <4>2. QED
        BY <3>0, <3>2, <3>6, <4>1, HandlersTyped, ExecuteTyped DEF PeerInputMessage, TypeOK
    <3>7. CASE ConnectionLost(d, p)
      BY <3>0, <3>2, <3>7, HandlersTyped, ExecuteTyped DEF ConnectionLost, TypeOK, history
    <3>8. QED
      BY <2>4, <3>3, <3>4, <3>5, <3>6, <3>7 DEF Receive
  <2>5. ASSUME NEW d \in Device, NEW p \in Device, d # p, LoseConnection(d, p)
        PROVE  TypeOK'
    <3>1. <<d, p>> \in Pair /\ <<p, d>> \in Pair
      BY <2>5, PairFacts
    <3>2. PICK there \in Broken(net[<<d, p>>]), back \in Broken(net[<<p, d>>]) :
             net' = [net EXCEPT ![<<d, p>>] = there, ![<<p, d>>] = back]
      BY <2>5 DEF LoseConnection
    <3>3. there \in Seq(Message) /\ back \in Seq(Message)
      BY <3>1, BrokenTyped DEF TypeOK
    <3>4. net' \in [Pair -> Seq(Message)]
      BY <3>1, <3>2, <3>3 DEF TypeOK
    <3>5. connected' \subseteq Pair /\ faults' \in Nat
      BY <2>5 DEF LoseConnection, TypeOK
    <3>6. UNCHANGED <<state, passThrough>> /\ UNCHANGED <<handoff, accepted, announced, injected>>
      BY <2>5 DEF LoseConnection, history
    <3>7. QED
      BY <3>4, <3>5, <3>6 DEF TypeOK
  <2>6. ASSUME NEW d \in Device, NEW p \in Device, d # p, Reconnect(d, p)
        PROVE  TypeOK'
    BY <2>6, PairFacts DEF Reconnect, TypeOK, history
  <2>7. ASSUME NEW d \in Device, Restart(d)
        PROVE  TypeOK'
    <3> DEFINE Outcomes(p) == IF <<d, p>> \in connected THEN Broken(net[<<d, p>>]) ELSE {net[<<d, p>>]}
    <3>1. PICK left : /\ \A p \in Device \ {d} : left[p] \in Outcomes(p)
                      /\ net' = [dp \in Pair |-> IF dp[1] = d THEN left[dp[2]]
                                                 ELSE IF dp[2] = d THEN <<>> ELSE net[dp]]
      BY <2>7 DEF Restart
    <3>2. ASSUME NEW p \in Device \ {d} PROVE left[p] \in Seq(Message)
      <4>1. net[<<d, p>>] \in Seq(Message)
        BY PairFacts DEF TypeOK
      <4>2. QED
        BY <3>1, <4>1, BrokenTyped
    <3>3. ASSUME NEW dp \in Pair PROVE net'[dp] \in Seq(Message)
      <4>1. dp[1] \in Device /\ dp[2] \in Device /\ dp[1] # dp[2]
        BY DEF Pair
      <4>2. <<>> \in Seq(Message)
        BY EmptySeq
      <4>3. QED
        BY <3>1, <3>2, <4>1, <4>2 DEF TypeOK
    <3>4. net' \in [Pair -> Seq(Message)]
      BY <3>1, <3>3
    <3>5. state' \in [Device -> LocalState] /\ passThrough' \in [Device -> BOOLEAN]
      BY <2>7 DEF Restart, TypeOK, LocalState
    <3>6. connected' \subseteq Pair /\ faults' \in Nat
      BY <2>7 DEF Restart, TypeOK
    <3>7. QED
      BY <2>7, <3>4, <3>5, <3>6 DEF Restart, TypeOK, history
  <2>8. CASE UNCHANGED vars
    BY <2>8 DEF vars, TypeOK
  <2>9. QED
    BY <2>1, <2>2, <2>3, <2>4, <2>5, <2>6, <2>7, <2>8 DEF Next, Pair
<1>3. QED
  BY <1>1, <1>2, PTL DEF Spec

-----------------------------------------------------------------------------
(* Who has the local input, and how roles change *)

(* A handler toggles pass-through exactly when it starts or ends a hand-off. *)
KeepsPassThrough(s, r) ==
    /\ r.pass \in {"keep", "enable", "disable"}
    /\ r.pass = "enable" => r.state.role # "Controlling"
    /\ r.pass = "disable" => r.state.role = "Controlling"
    /\ r.pass = "keep" => (r.state.role = "Controlling" <=> s.role = "Controlling")

KeepsRole(s, r) == s # Idle => r.state \in {Idle, s}

Keeps(s, r) == KeepsPassThrough(s, r) /\ KeepsRole(s, r)

LEMMA HandlersKeep ==
    ASSUME NEW s \in LocalState, NEW d \in Device, NEW p \in Device
    PROVE  /\ \A e \in ScreenEdge : Keeps(s, OnLocalCursorAtEdge(d, s, e))
           /\ Keeps(s, ForwardIfControlling(s))
           /\ \A pressed, held : Keeps(s, OnLocalKeyEvent(d, s, pressed, held))
           /\ Keeps(s, OnPeerEdgeEnter(s, p))
           /\ Keeps(s, OnPeerEdgeEnterRejected(s, p))
           /\ Keeps(s, OnPeerEdgeRelease(s, p))
           /\ Keeps(s, OnPeerInputMessage(s, p))
           /\ Keeps(s, OnConnectionLost(s, p))
<1> USE DEF Keeps, KeepsPassThrough, KeepsRole, Outcome, Ignored, NoMail, SendMessage
<1>1. /\ Idle.role = "Idle"
      /\ \A q : Controlling(q).role = "Controlling" /\ BeingControlled(q).role = "BeingControlled"
  BY DEF Idle, Controlling, BeingControlled
<1>2. Keeps(s, Ignored(s)) /\ Keeps(s, ForwardIfControlling(s))
  BY DEF ForwardIfControlling
<1>3. \A e \in ScreenEdge : Keeps(s, OnLocalCursorAtEdge(d, s, e))
  BY <1>1 DEF OnLocalCursorAtEdge
<1>4. Keeps(s, ForceRelease(s))
  BY <1>1 DEF ForceRelease
<1>5. \A pressed, held : Keeps(s, OnLocalKeyEvent(d, s, pressed, held))
  BY <1>2, <1>4 DEF OnLocalKeyEvent
<1>6. Keeps(s, OnPeerEdgeEnter(s, p))
  BY <1>1 DEF OnPeerEdgeEnter
<1>7. Keeps(s, OnPeerEdgeEnterRejected(s, p)) /\ Keeps(s, OnPeerEdgeRelease(s, p))
  BY <1>1 DEF OnPeerEdgeEnterRejected, OnPeerEdgeRelease
<1>8. Keeps(s, OnPeerInputMessage(s, p)) /\ Keeps(s, OnConnectionLost(s, p))
  BY <1>1 DEF OnPeerInputMessage, OnConnectionLost
<1>9. QED
  BY <1>2, <1>3, <1>5, <1>6, <1>7, <1>8

(***************************************************************************)
(* Every step leaves the local state of all devices alone, executes a      *)
(* handler's outcome on one of them, or restarts one.                      *)
(***************************************************************************)
LEMMA StepKinds ==
    ASSUME TypeOK, [Next]_vars
    PROVE  \/ UNCHANGED <<state, passThrough>>
           \/ \E d \in Device : \E r :
                 /\ Keeps(state[d], r)
                 /\ state' = [state EXCEPT ![d] = r.state]
                 /\ SetPassThrough(d, r.pass)
           \/ \E d \in Device :
                 /\ state' = [state EXCEPT ![d] = Idle]
                 /\ passThrough' = [passThrough EXCEPT ![d] = TRUE]
<1>1. ASSUME NEW d \in Device, NEW r, Keeps(state[d], r),
             \E queues, n : Execute(d, r, queues, n)
      PROVE  \E e \in Device : \E q :
                 /\ Keeps(state[e], q)
                 /\ state' = [state EXCEPT ![e] = q.state]
                 /\ SetPassThrough(e, q.pass)
  BY <1>1, Zenon DEF Execute
<1>2. \A d \in Device : state[d] \in LocalState
  BY DEF TypeOK
<1>3. ASSUME NEW d \in Device, NEW e \in ScreenEdge, CursorAtEdge(d, e)
      PROVE  \E queues, n : Execute(d, OnLocalCursorAtEdge(d, state[d], e), queues, n)
  BY <1>3, Zenon DEF CursorAtEdge
<1>4. ASSUME NEW d \in Device, LocalMouseEvent(d)
      PROVE  \E queues, n : Execute(d, ForwardIfControlling(state[d]), queues, n)
  BY <1>4, Zenon DEF LocalMouseEvent
<1>5. ASSUME NEW d \in Device, NEW pressed, NEW held, LocalKeyEvent(d, pressed, held)
      PROVE  \E queues, n : Execute(d, OnLocalKeyEvent(d, state[d], pressed, held), queues, n)
  BY <1>5, Zenon DEF LocalKeyEvent
<1>6. ASSUME NEW d \in Device, NEW p \in Device, Receive(d, p)
      PROVE  \E r : Keeps(state[d], r) /\ \E queues, n : Execute(d, r, queues, n)
  <2>1. CASE PeerEdgeEnter(d, p)
    BY <1>2, <2>1, HandlersKeep, Zenon DEF PeerEdgeEnter
  <2>2. CASE PeerEdgeEnterRejected(d, p)
    BY <1>2, <2>2, HandlersKeep, Zenon DEF PeerEdgeEnterRejected
  <2>3. CASE PeerEdgeRelease(d, p)
    BY <1>2, <2>3, HandlersKeep, Zenon DEF PeerEdgeRelease
  <2>4. CASE PeerInputMessage(d, p)
    BY <1>2, <2>4, HandlersKeep, Zenon DEF PeerInputMessage
  <2>5. CASE ConnectionLost(d, p)
    BY <1>2, <2>5, HandlersKeep, Zenon DEF ConnectionLost
  <2>6. QED
    BY <1>6, <2>1, <2>2, <2>3, <2>4, <2>5 DEF Receive
<1>7. ASSUME NEW d, NEW p, LoseConnection(d, p) \/ Reconnect(d, p)
      PROVE  UNCHANGED <<state, passThrough>>
  BY <1>7 DEF LoseConnection, Reconnect
<1>8. ASSUME NEW d \in Device, Restart(d)
      PROVE  /\ state' = [state EXCEPT ![d] = Idle]
             /\ passThrough' = [passThrough EXCEPT ![d] = TRUE]
  BY <1>8 DEF Restart
<1>9. CASE UNCHANGED vars
  BY <1>9 DEF vars
<1>10. CASE \E d \in Device : \E e \in ScreenEdge : CursorAtEdge(d, e)
  BY <1>1, <1>2, <1>3, <1>10, HandlersKeep
<1>11. CASE \E d \in Device : LocalMouseEvent(d)
  BY <1>1, <1>2, <1>4, <1>11, HandlersKeep
<1>12. CASE \E d \in Device : \E pressed \in BOOLEAN, held \in SUBSET LogicalKey :
                LocalKeyEvent(d, pressed, held)
  BY <1>1, <1>2, <1>5, <1>12, HandlersKeep
<1>13. CASE \E dp \in Pair : Receive(dp[1], dp[2])
  BY <1>1, <1>6, <1>13 DEF Pair
<1>14. CASE \E d \in Device : Restart(d)
  BY <1>8, <1>14
<1>15. CASE \E dp \in Pair : LoseConnection(dp[1], dp[2]) \/ Reconnect(dp[1], dp[2])
  BY <1>7, <1>15
<1>16. QED
  BY <1>9, <1>10, <1>11, <1>12, <1>13, <1>14, <1>15 DEF Next

LEMMA PassThroughStep ==
    ASSUME TypeOK, PassThroughMatchesRole, [Next]_vars
    PROVE  PassThroughMatchesRole'
<1>1. CASE UNCHANGED <<state, passThrough>>
  BY <1>1 DEF PassThroughMatchesRole
<1>2. ASSUME NEW d \in Device, NEW r, Keeps(state[d], r),
             state' = [state EXCEPT ![d] = r.state], SetPassThrough(d, r.pass)
      PROVE  PassThroughMatchesRole'
  BY <1>2 DEF TypeOK, PassThroughMatchesRole, SetPassThrough, Keeps, KeepsPassThrough
<1>3. ASSUME NEW d \in Device, state' = [state EXCEPT ![d] = Idle],
             passThrough' = [passThrough EXCEPT ![d] = TRUE]
      PROVE  PassThroughMatchesRole'
  BY <1>3 DEF TypeOK, PassThroughMatchesRole, Idle
<1>4. QED
  BY <1>1, <1>2, <1>3, StepKinds

(***************************************************************************)
(* Whatever the layouts, the chords, the losses and the restarts, a device *)
(* withholds local input exactly while it is Controlling.                  *)
(***************************************************************************)
THEOREM PassThroughCorrect == Spec => []PassThroughMatchesRole
<1>1. Init => PassThroughMatchesRole
  <2>1. Idle.role # "Controlling"
    BY DEF Idle
  <2>2. QED
    BY <2>1 DEF Init, PassThroughMatchesRole
<1>2. QED
  BY <1>1, PassThroughStep, TypeCorrect, PTL DEF Spec

(***************************************************************************)
(* No device goes from one engagement to another without being Idle in     *)
(* between, whoever sends what and whenever.                               *)
(***************************************************************************)
THEOREM RolesCorrect == Spec => RolesChangeThroughIdle
<1>1. ASSUME TypeOK, [Next]_vars
      PROVE  [\A d \in Device : state[d] # Idle => state'[d] \in {Idle, state[d]}]_state
  <2>1. ASSUME NEW d \in Device, NEW r, Keeps(state[d], r),
               state' = [state EXCEPT ![d] = r.state]
        PROVE  \A e \in Device : state[e] # Idle => state'[e] \in {Idle, state[e]}
    BY <1>1, <2>1 DEF TypeOK, Keeps, KeepsRole
  <2>2. ASSUME NEW d \in Device, state' = [state EXCEPT ![d] = Idle]
        PROVE  \A e \in Device : state[e] # Idle => state'[e] \in {Idle, state[e]}
    BY <1>1, <2>2 DEF TypeOK
  <2>3. QED
    BY <1>1, <2>1, <2>2, StepKinds
<1>2. QED
  BY <1>1, TypeCorrect, PTL DEF Spec, RolesChangeThroughIdle

-----------------------------------------------------------------------------
(***************************************************************************)
(* The conversation of two devices, d that may control p.                  *)
(*                                                                         *)
(* Talk states ConversationInv over what the pair can see: the two queues, *)
(* whether d is in an announced hand-off to p (k), whether p is controlled *)
(* by d (e), whether they are connected (c), the number of d's hand-off    *)
(* (h) and of the one p accepted (acc).  The Talk lemmas are the moves of  *)
(* that small protocol.                                                    *)
(***************************************************************************)

-----------------------------------------------------------------------------
(* What appending to a queue and taking its head does to it *)

LossLast(q) == \A i \in DOMAIN q : q[i].body \in Losses => i = Len(q)

InputOrder(q) ==
    \A i, j \in DOMAIN q :
        (i < j /\ q[i].body \in Enters /\ q[j].body \in Inputs) => q[j].n = q[i].n

LEMMA AppendIndex ==
    ASSUME NEW q \in Seq(Message), NEW m \in Message
    PROVE  /\ DOMAIN q = 1 .. Len(q) /\ Len(q) \in Nat
           /\ Append(q, m) \in Seq(Message)
           /\ DOMAIN Append(q, m) = 1 .. Len(q) + 1
           /\ Len(Append(q, m)) = Len(q) + 1
           /\ \A i \in DOMAIN q : Append(q, m)[i] = q[i]
           /\ Append(q, m)[Len(q) + 1] = m
BY AppendProperties, LenProperties

LEMMA HasAppend ==
    ASSUME NEW q \in Seq(Message), NEW m \in Message, NEW B
    PROVE  Has(Append(q, m), B) <=> Has(q, B) \/ m.body \in B
BY AppendIndex DEF Has

LEMMA OnceAppend ==
    ASSUME NEW q \in Seq(Message), NEW m \in Message, NEW B,
           AtMostOne(q, B), m.body \notin B \/ ~ Has(q, B)
    PROVE  AtMostOne(Append(q, m), B)
BY AppendIndex DEF Has, AtMostOne

LEMMA TaggedAppend ==
    ASSUME NEW q \in Seq(Message), NEW m \in Message, NEW B, NEW n,
           Tagged(q, B, n), m.body \in B => m.n = n
    PROVE  Tagged(Append(q, m), B, n)
BY AppendIndex DEF Tagged

LEMMA LastAppend ==
    ASSUME NEW q \in Seq(Message), NEW m \in Message, ~ Has(q, Losses)
    PROVE  LossLast(Append(q, m))
BY AppendIndex DEF Has, LossLast

LEMMA OrderAppend ==
    ASSUME NEW q \in Seq(Message), NEW m \in Message,
           InputOrder(q), m.body \in Inputs => Tagged(q, Enters, m.n)
    PROVE  InputOrder(Append(q, m))
BY AppendIndex DEF InputOrder, Tagged, Enters, Inputs

LEMMA TailIndex ==
    ASSUME NEW q \in Seq(Message), q # <<>>
    PROVE  /\ DOMAIN q = 1 .. Len(q) /\ Len(q) \in Nat \ {0}
           /\ Tail(q) \in Seq(Message)
           /\ DOMAIN Tail(q) = 1 .. Len(q) - 1
           /\ Len(Tail(q)) = Len(q) - 1
           /\ \A i \in DOMAIN Tail(q) : Tail(q)[i] = q[i + 1]
           /\ Head(q) = q[1] /\ Head(q) \in Message
BY HeadTailProperties, LenProperties, EmptySeq

LEMMA HasTail ==
    ASSUME NEW q \in Seq(Message), q # <<>>, NEW B
    PROVE  /\ Has(Tail(q), B) => Has(q, B)
           /\ Has(q, B) => Head(q).body \in B \/ Has(Tail(q), B)
           /\ Head(q).body \in B => Has(q, B)
<1>1. ASSUME NEW i \in DOMAIN q, q[i].body \in B
      PROVE  Head(q).body \in B \/ Has(Tail(q), B)
  <2>1. CASE i = 1
    BY <1>1, <2>1, TailIndex
  <2>2. CASE i # 1
    <3>1. i - 1 \in DOMAIN Tail(q) /\ Tail(q)[i - 1] = q[i]
      BY <2>2, TailIndex
    <3>2. QED
      BY <1>1, <3>1 DEF Has
  <2>3. QED
    BY <2>1, <2>2
<1>2. Has(Tail(q), B) => Has(q, B)
  BY TailIndex DEF Has
<1>3. Head(q).body \in B => Has(q, B)
  BY TailIndex DEF Has
<1>4. QED
  BY <1>1, <1>2, <1>3 DEF Has

LEMMA OnceTail ==
    ASSUME NEW q \in Seq(Message), q # <<>>, NEW B, AtMostOne(q, B)
    PROVE  /\ AtMostOne(Tail(q), B)
           /\ Head(q).body \in B => ~ Has(Tail(q), B)
<1>1. ASSUME NEW i \in DOMAIN Tail(q), NEW j \in DOMAIN Tail(q),
             Tail(q)[i].body \in B, Tail(q)[j].body \in B
      PROVE  i = j
  <2>1. i + 1 \in DOMAIN q /\ j + 1 \in DOMAIN q
    BY TailIndex
  <2>2. i + 1 = j + 1
    BY <1>1, <2>1, TailIndex DEF AtMostOne
  <2>3. QED
    BY <2>2, TailIndex
<1>2. ASSUME NEW i \in DOMAIN Tail(q), Tail(q)[i].body \in B, Head(q).body \in B
      PROVE  FALSE
  <2>1. i + 1 \in DOMAIN q /\ 1 \in DOMAIN q /\ i + 1 # 1
    BY TailIndex
  <2>2. QED
    BY <1>2, <2>1, TailIndex DEF AtMostOne
<1>3. QED
  BY <1>1, <1>2 DEF AtMostOne, Has

LEMMA TaggedTail ==
    ASSUME NEW q \in Seq(Message), q # <<>>, NEW B, NEW n, Tagged(q, B, n)
    PROVE  /\ Tagged(Tail(q), B, n)
           /\ Head(q).body \in B => Head(q).n = n
BY TailIndex DEF Tagged

LEMMA LastTail ==
    ASSUME NEW q \in Seq(Message), q # <<>>, LossLast(q)
    PROVE  /\ LossLast(Tail(q))
           /\ Head(q).body \in Losses => \A B : ~ Has(Tail(q), B)
<1>1. LossLast(Tail(q))
  <2>1. ASSUME NEW i \in DOMAIN Tail(q), Tail(q)[i].body \in Losses
        PROVE  i = Len(Tail(q))
    <3>1. i + 1 \in DOMAIN q /\ q[i + 1].body \in Losses
      BY <2>1, TailIndex
    <3>2. i + 1 = Len(q)
      BY <3>1 DEF LossLast
    <3>3. QED
      BY <3>2, TailIndex
  <2>2. QED
    BY <2>1 DEF LossLast
<1>2. Head(q).body \in Losses => \A B : ~ Has(Tail(q), B)
  BY TailIndex DEF LossLast, Has
<1>3. QED
  BY <1>1, <1>2

LEMMA OrderTail ==
    ASSUME NEW q \in Seq(Message), q # <<>>, InputOrder(q)
    PROVE  /\ InputOrder(Tail(q))
           /\ Head(q).body \in Enters => Tagged(Tail(q), Inputs, Head(q).n)
<1>1. ASSUME NEW i \in DOMAIN Tail(q), NEW j \in DOMAIN Tail(q), i < j,
             Tail(q)[i].body \in Enters, Tail(q)[j].body \in Inputs
      PROVE  Tail(q)[j].n = Tail(q)[i].n
  <2>1. i + 1 \in DOMAIN q /\ j + 1 \in DOMAIN q /\ i + 1 < j + 1
    BY <1>1, TailIndex
  <2>2. QED
    BY <1>1, <2>1, TailIndex DEF InputOrder
<1>2. ASSUME NEW j \in DOMAIN Tail(q), Head(q).body \in Enters, Tail(q)[j].body \in Inputs
      PROVE  Tail(q)[j].n = Head(q).n
  <2>1. 1 \in DOMAIN q /\ j + 1 \in DOMAIN q /\ 1 < j + 1
    BY TailIndex
  <2>2. QED
    BY <1>2, <2>1, TailIndex DEF InputOrder
<1>3. QED
  BY <1>1, <1>2 DEF InputOrder, Tagged

LEMMA BrokenFacts ==
    ASSUME NEW q \in Seq(Message), NEW b \in Broken(q)
    PROVE  /\ b \in Seq(Message)
           /\ Has(b, Losses)
           /\ \A B : "ConnectionLost" \notin B =>
                 /\ Has(b, B) => Has(q, B)
                 /\ AtMostOne(q, B) => AtMostOne(b, B)
                 /\ \A n : Tagged(q, B, n) => Tagged(b, B, n)
           /\ ~ Has(q, Losses) => LossLast(b)
           /\ InputOrder(q) => InputOrder(b)
<1>1. PICK k \in 0 .. Len(q) : b = Append(SubSeq(q, 1, k), Lost)
  BY DEF Broken
<1> DEFINE s == SubSeq(q, 1, k)
<1>2. /\ s \in Seq(Message)
      /\ DOMAIN s = 1 .. k
      /\ DOMAIN q = 1 .. Len(q) /\ Len(q) \in Nat
      /\ \A i \in DOMAIN s : i \in DOMAIN q /\ s[i] = q[i]
  <2>1. Len(q) \in Nat /\ DOMAIN q = 1 .. Len(q)
    BY LenProperties
  <2>2. \A i \in 1 .. k : q[i] \in Message
    BY <2>1, ElementOfSeq
  <2>3. s \in Seq(Message) /\ Len(s) = k /\ \A i \in 1 .. k : s[i] = q[i]
    BY <2>1, <2>2, SubSeqProperties
  <2>4. DOMAIN s = 1 .. Len(s)
    BY <2>3, LenProperties
  <2>5. QED
    BY <2>1, <2>3, <2>4
<1> HIDE DEF s
<1>3. b = Append(s, Lost) /\ Lost \in Message /\ Lost.body = "ConnectionLost"
  BY <1>1, LostIsMessage DEF s, Lost
<1>4. Has(b, Losses)
  BY <1>2, <1>3, HasAppend DEF Losses
<1>5. ASSUME NEW B, "ConnectionLost" \notin B
      PROVE  /\ Has(b, B) => Has(q, B)
             /\ AtMostOne(q, B) => AtMostOne(b, B)
             /\ \A n : Tagged(q, B, n) => Tagged(b, B, n)
  <2>1. Has(b, B) => Has(q, B)
    BY <1>2, <1>3, <1>5, HasAppend DEF Has
  <2>2. AtMostOne(q, B) => AtMostOne(b, B)
    <3>1. AtMostOne(q, B) => AtMostOne(s, B)
      BY <1>2 DEF AtMostOne
    <3>2. QED
      BY <1>2, <1>3, <1>5, <3>1, OnceAppend
  <2>3. ASSUME NEW n PROVE Tagged(q, B, n) => Tagged(b, B, n)
    <3>1. Tagged(q, B, n) => Tagged(s, B, n)
      BY <1>2 DEF Tagged
    <3>2. QED
      BY <1>2, <1>3, <1>5, <3>1, TaggedAppend
  <2>4. QED
    BY <2>1, <2>2, <2>3
<1>6. ~ Has(q, Losses) => LossLast(b)
  <2>1. ~ Has(q, Losses) => ~ Has(s, Losses)
    BY <1>2 DEF Has
  <2>2. QED
    BY <1>2, <1>3, <2>1, LastAppend
<1>7. InputOrder(q) => InputOrder(b)
  <2>1. InputOrder(q) => InputOrder(s)
    BY <1>2 DEF InputOrder
  <2>2. Lost.body \notin Inputs
    BY <1>3 DEF Inputs
  <2>3. QED
    BY <1>2, <1>3, <2>1, <2>2, OrderAppend
<1>8. b \in Seq(Message)
  BY BrokenTyped
<1>9. QED
  BY <1>4, <1>5, <1>6, <1>7, <1>8

LEMMA Kinds ==
    /\ Enters \cap Answers = {} /\ Enters \cap Inputs = {} /\ Enters \cap Losses = {}
    /\ Answers \cap Inputs = {} /\ Answers \cap Losses = {} /\ Inputs \cap Losses = {}
    /\ "ConnectionLost" \notin Enters /\ "ConnectionLost" \notin Answers
    /\ "ConnectionLost" \notin Inputs
BY DEF Enters, Answers, Inputs, Losses

LEMMA EmptyQueue ==
    /\ \A B : ~ Has(<<>>, B) /\ AtMostOne(<<>>, B) /\ \A n : Tagged(<<>>, B, n)
    /\ LossLast(<<>>) /\ InputOrder(<<>>)
BY DEF Has, AtMostOne, Tagged, LossLast, InputOrder

-----------------------------------------------------------------------------
(* One queue: at most one token of each kind, and a loss only at the end *)

Queue(q, c) ==
    /\ c => ~ Has(q, Losses)
    /\ LossLast(q)
    /\ AtMostOne(q, Enters)
    /\ AtMostOne(q, Answers)

LEMMA QueueAppend ==
    ASSUME NEW q \in Seq(Message), NEW m \in Message, Queue(q, TRUE),
           m.body \notin Losses,
           m.body \in Enters => ~ Has(q, Enters),
           m.body \in Answers => ~ Has(q, Answers)
    PROVE  Queue(Append(q, m), TRUE)
BY HasAppend, LastAppend, OnceAppend DEF Queue

LEMMA QueueTail ==
    ASSUME NEW q \in Seq(Message), q # <<>>, NEW c, Queue(q, c)
    PROVE  Queue(Tail(q), c)
BY HasTail, LastTail, OnceTail DEF Queue

LEMMA QueueBroken ==
    ASSUME NEW q \in Seq(Message), NEW b \in Broken(q), Queue(q, TRUE)
    PROVE  Queue(b, FALSE)
BY BrokenFacts, Kinds DEF Queue

-----------------------------------------------------------------------------
(* The moves of the conversation between d and p *)

Talk(out, back, k, e, c, h, acc) ==
    /\ Has(out, Enters) =>
          /\ Has(out, Losses) \/ (c /\ k /\ Tagged(out, Enters, h))
          /\ ~ e
          /\ ~ Has(back, Answers)
    /\ e => /\ Has(out, Losses) \/ (c /\ k /\ acc = h)
            /\ ~ Has(back, Answers)
    /\ Has(back, Answers) => k /\ Tagged(back, Answers, h)
    /\ k => IF c THEN Has(out, Enters) \/ e \/ Has(back, Answers) ELSE Has(back, Losses)
    /\ e => Tagged(out, Inputs, acc)
    /\ InputOrder(out)

(* Neither end of the hand-off moves: other hand-offs may be counted. *)
LEMMA TalkFrame ==
    ASSUME NEW out, NEW back, NEW k, NEW e, NEW c, NEW h, NEW acc, NEW h2, NEW acc2,
           Talk(out, back, k, e, c, h, acc), k => h2 = h, e => acc2 = acc
    PROVE  Talk(out, back, k, e, c, h2, acc2)
BY DEF Talk

(* d crosses to p. *)
LEMMA TalkEnter ==
    ASSUME NEW out \in Seq(Message), NEW back, NEW e, NEW h, NEW acc, NEW m \in Message,
           Talk(out, back, FALSE, e, TRUE, h, acc), ~ Has(out, Losses), m.body \in Enters
    PROVE  /\ ~ Has(out, Enters)
           /\ Talk(Append(out, m), back, TRUE, e, TRUE, m.n, acc)
<1>1. ~ Has(out, Enters) /\ ~ e /\ ~ Has(back, Answers) /\ InputOrder(out)
  BY DEF Talk
<1>2. Has(Append(out, m), Enters)
  BY HasAppend
<1>3. Tagged(Append(out, m), Enters, m.n)
  <2>1. Tagged(out, Enters, m.n)
    BY <1>1 DEF Tagged, Has
  <2>2. QED
    BY <2>1, TaggedAppend
<1>4. InputOrder(Append(out, m))
  BY <1>1, OrderAppend, Kinds
<1>5. QED
  BY <1>1, <1>2, <1>3, <1>4 DEF Talk

(* d sends p something that does not start a hand-off. *)
LEMMA TalkSend ==
    ASSUME NEW out \in Seq(Message), NEW back, NEW k, NEW e, NEW h, NEW acc, NEW m \in Message,
           Talk(out, back, k, e, TRUE, h, acc), ~ Has(out, Losses),
           m.body \notin Enters, m.body \notin Losses, m.body \in Inputs => m.n = h
    PROVE  Talk(Append(out, m), back, k, e, TRUE, h, acc)
<1>1. /\ Has(Append(out, m), Enters) <=> Has(out, Enters)
      /\ Has(Append(out, m), Losses) <=> Has(out, Losses)
  BY HasAppend
<1>2. Has(out, Enters) => Tagged(out, Enters, h)
  BY DEF Talk
<1>3. ~ Has(out, Enters) => Tagged(out, Enters, h)
  BY DEF Tagged, Has
<1>4. Tagged(Append(out, m), Enters, h)
  BY <1>2, <1>3, TaggedAppend
<1>5. e => Tagged(Append(out, m), Inputs, acc)
  BY TaggedAppend DEF Talk
<1>6. InputOrder(Append(out, m))
  BY <1>2, <1>3, OrderAppend DEF Talk
<1>7. QED
  BY <1>1, <1>4, <1>5, <1>6 DEF Talk

(* p sends d something that is no answer. *)
LEMMA TalkBack ==
    ASSUME NEW out, NEW back \in Seq(Message), NEW k, NEW e, NEW c, NEW h, NEW acc,
           NEW m \in Message,
           Talk(out, back, k, e, c, h, acc), m.body \notin Answers, m.body \notin Losses
    PROVE  Talk(out, Append(back, m), k, e, c, h, acc)
<1>1. /\ Has(Append(back, m), Answers) <=> Has(back, Answers)
      /\ Has(Append(back, m), Losses) <=> Has(back, Losses)
  BY HasAppend
<1>2. Tagged(back, Answers, h) => Tagged(Append(back, m), Answers, h)
  BY TaggedAppend
<1>3. QED
  BY <1>1, <1>2 DEF Talk

(* d takes something that is neither an answer nor a loss. *)
LEMMA TalkRead ==
    ASSUME NEW out, NEW back \in Seq(Message), NEW k, NEW e, NEW c, NEW h, NEW acc,
           Talk(out, back, k, e, c, h, acc), back # <<>>,
           Head(back).body \notin Answers, Head(back).body \notin Losses
    PROVE  Talk(out, Tail(back), k, e, c, h, acc)
<1>1. /\ Has(Tail(back), Answers) <=> Has(back, Answers)
      /\ Has(Tail(back), Losses) <=> Has(back, Losses)
  BY HasTail
<1>2. Tagged(back, Answers, h) => Tagged(Tail(back), Answers, h)
  BY TaggedTail
<1>3. QED
  BY <1>1, <1>2 DEF Talk

(* d takes the answer, which ends its hand-off. *)
LEMMA TalkAnswered ==
    ASSUME NEW out, NEW back \in Seq(Message), NEW k, NEW e, NEW c, NEW h, NEW acc,
           Talk(out, back, k, e, c, h, acc), back # <<>>,
           AtMostOne(back, Answers), Head(back).body \in Answers
    PROVE  /\ k /\ Head(back).n = h
           /\ Talk(out, Tail(back), FALSE, e, c, h, acc)
<1>1. Has(back, Answers) /\ ~ Has(Tail(back), Answers)
  BY HasTail, OnceTail
<1>2. k /\ Head(back).n = h
  BY <1>1, TaggedTail DEF Talk
<1>3. QED
  BY <1>1, <1>2 DEF Talk

(* d learns of the loss. *)
LEMMA TalkLossRead ==
    ASSUME NEW out, NEW back \in Seq(Message), NEW k, NEW e, NEW h, NEW acc,
           Talk(out, back, k, e, FALSE, h, acc), back # <<>>,
           LossLast(back), Head(back).body \in Losses
    PROVE  Talk(out, Tail(back), FALSE, e, FALSE, h, acc)
BY LastTail DEF Talk

(* p takes something that neither starts a hand-off nor is a loss. *)
LEMMA TalkTake ==
    ASSUME NEW out \in Seq(Message), NEW back, NEW k, NEW e, NEW c, NEW h, NEW acc,
           Talk(out, back, k, e, c, h, acc), out # <<>>,
           Head(out).body \notin Enters, Head(out).body \notin Losses
    PROVE  Talk(Tail(out), back, k, e, c, h, acc)
<1>1. /\ Has(Tail(out), Enters) <=> Has(out, Enters)
      /\ Has(Tail(out), Losses) <=> Has(out, Losses)
  BY HasTail
<1>2. /\ Tagged(out, Enters, h) => Tagged(Tail(out), Enters, h)
      /\ Tagged(out, Inputs, acc) => Tagged(Tail(out), Inputs, acc)
      /\ InputOrder(out) => InputOrder(Tail(out))
  BY TaggedTail, OrderTail
<1>3. QED
  BY <1>1, <1>2 DEF Talk

(* p takes the EdgeEnter and is controlled from now on. *)
LEMMA TalkAccept ==
    ASSUME NEW out \in Seq(Message), NEW back, NEW k, NEW e, NEW c, NEW h, NEW acc,
           Talk(out, back, k, e, c, h, acc), out # <<>>,
           AtMostOne(out, Enters), Head(out).body \in Enters
    PROVE  Talk(Tail(out), back, k, TRUE, c, h, Head(out).n)
<1>1. Has(out, Enters) /\ ~ Has(Tail(out), Enters)
  BY HasTail, OnceTail
<1>2. Has(Tail(out), Losses) <=> Has(out, Losses)
  BY HasTail, Kinds
<1>3. Tagged(out, Enters, h) => Head(out).n = h
  BY TaggedTail
<1>4. Tagged(Tail(out), Inputs, Head(out).n) /\ InputOrder(Tail(out))
  BY OrderTail DEF Talk
<1>5. QED
  BY <1>1, <1>2, <1>3, <1>4 DEF Talk

(* p takes the EdgeEnter and refuses it. *)
LEMMA TalkReject ==
    ASSUME NEW out \in Seq(Message), NEW back \in Seq(Message), NEW k, NEW e, NEW h, NEW acc,
           NEW m \in Message, out # <<>>,
           AtMostOne(out, Enters), Head(out).body \in Enters,
           m.body \in Answers, m.n = Head(out).n
    PROVE  /\ (Talk(out, back, k, e, TRUE, h, acc) /\ ~ Has(out, Losses)) =>
                 /\ ~ Has(back, Answers)
                 /\ Talk(Tail(out), Append(back, m), k, e, TRUE, h, acc)
           /\ Talk(out, back, k, e, FALSE, h, acc) =>
                 Talk(Tail(out), back, k, e, FALSE, h, acc)
<1>1. Has(out, Enters) /\ ~ Has(Tail(out), Enters)
  BY HasTail, OnceTail
<1>2. Has(Tail(out), Losses) <=> Has(out, Losses)
  BY HasTail, Kinds
<1>3. InputOrder(out) => InputOrder(Tail(out))
  BY OrderTail
<1>4. ASSUME Talk(out, back, k, e, TRUE, h, acc), ~ Has(out, Losses)
      PROVE  ~ Has(back, Answers) /\ Talk(Tail(out), Append(back, m), k, e, TRUE, h, acc)
  <2>1. k /\ ~ e /\ ~ Has(back, Answers) /\ m.n = h
    BY <1>1, <1>4, TaggedTail DEF Talk
  <2>2. Has(Append(back, m), Answers)
    BY HasAppend
  <2>3. Tagged(Append(back, m), Answers, h)
    <3>1. Tagged(back, Answers, h)
      BY <2>1 DEF Tagged, Has
    <3>2. QED
      BY <2>1, <3>1, TaggedAppend
  <2>4. QED
    BY <1>1, <1>3, <1>4, <2>1, <2>2, <2>3 DEF Talk
<1>5. ASSUME Talk(out, back, k, e, FALSE, h, acc)
      PROVE  Talk(Tail(out), back, k, e, FALSE, h, acc)
  BY <1>1, <1>3, <1>5 DEF Talk
<1>6. QED
  BY <1>4, <1>5

(* p learns of the loss. *)
LEMMA TalkLossTake ==
    ASSUME NEW out \in Seq(Message), NEW back, NEW k, NEW e, NEW h, NEW acc,
           Talk(out, back, k, e, FALSE, h, acc), out # <<>>,
           LossLast(out), Head(out).body \in Losses
    PROVE  Talk(Tail(out), back, k, FALSE, FALSE, h, acc)
BY LastTail, OrderTail DEF Talk

(* p releases control, having reached the edge that leads back to d. *)
LEMMA TalkRelease ==
    ASSUME NEW out, NEW back \in Seq(Message), NEW k, NEW h, NEW acc, NEW m \in Message,
           m.body \in Answers, m.n = acc
    PROVE  /\ (Talk(out, back, k, TRUE, TRUE, h, acc) /\ ~ Has(out, Losses)) =>
                 /\ ~ Has(back, Answers)
                 /\ Talk(out, Append(back, m), k, FALSE, TRUE, h, acc)
           /\ Talk(out, back, k, TRUE, FALSE, h, acc) =>
                 Talk(out, back, k, FALSE, FALSE, h, acc)
<1>1. ASSUME Talk(out, back, k, TRUE, TRUE, h, acc), ~ Has(out, Losses)
      PROVE  ~ Has(back, Answers) /\ Talk(out, Append(back, m), k, FALSE, TRUE, h, acc)
  <2>1. k /\ acc = h /\ ~ Has(out, Enters) /\ ~ Has(back, Answers)
    BY <1>1 DEF Talk
  <2>2. Has(Append(back, m), Answers)
    BY HasAppend
  <2>3. Tagged(Append(back, m), Answers, h)
    <3>1. Tagged(back, Answers, h)
      BY <2>1 DEF Tagged, Has
    <3>2. QED
      BY <2>1, <3>1, TaggedAppend
  <2>4. QED
    BY <1>1, <2>1, <2>2, <2>3 DEF Talk
<1>2. Talk(out, back, k, TRUE, FALSE, h, acc) => Talk(out, back, k, FALSE, FALSE, h, acc)
  BY DEF Talk
<1>3. QED
  BY <1>1, <1>2

(* The connection breaks. *)
LEMMA TalkBroken ==
    ASSUME NEW out \in Seq(Message), NEW back \in Seq(Message), NEW k, NEW e, NEW c, NEW h,
           NEW acc, NEW out2 \in Broken(out), NEW back2 \in Broken(back),
           Talk(out, back, k, e, c, h, acc)
    PROVE  Talk(out2, back2, k, e, FALSE, h, acc)
BY BrokenFacts, Kinds DEF Talk

(* The connection comes back, the loss having been handled at both ends. *)
LEMMA TalkReconnect ==
    ASSUME NEW out, NEW back, NEW k, NEW e, NEW h, NEW acc,
           Talk(out, back, k, e, FALSE, h, acc), ~ Has(out, Losses), ~ Has(back, Losses)
    PROVE  Talk(out, back, k, e, TRUE, h, acc)
BY DEF Talk

(* d restarts. *)
LEMMA TalkRestartController ==
    ASSUME NEW out \in Seq(Message), NEW back, NEW k, NEW e, NEW h, NEW acc
    PROVE  /\ Talk(out, back, k, e, TRUE, h, acc) =>
                 \A out2 \in Broken(out) : Talk(out2, <<>>, FALSE, e, FALSE, h, acc)
           /\ Talk(out, back, k, e, FALSE, h, acc) => Talk(out, <<>>, FALSE, e, FALSE, h, acc)
<1>1. ASSUME Talk(out, back, k, e, TRUE, h, acc), NEW out2 \in Broken(out)
      PROVE  Talk(out2, <<>>, FALSE, e, FALSE, h, acc)
  BY <1>1, BrokenFacts, Kinds, EmptyQueue DEF Talk
<1>2. Talk(out, back, k, e, FALSE, h, acc) => Talk(out, <<>>, FALSE, e, FALSE, h, acc)
  BY EmptyQueue DEF Talk
<1>3. QED
  BY <1>1, <1>2

(* p restarts. *)
LEMMA TalkRestartTarget ==
    ASSUME NEW out, NEW back \in Seq(Message), NEW k, NEW e, NEW h, NEW acc
    PROVE  /\ Talk(out, back, k, e, TRUE, h, acc) =>
                 \A back2 \in Broken(back) : Talk(<<>>, back2, k, FALSE, FALSE, h, acc)
           /\ Talk(out, back, k, e, FALSE, h, acc) => Talk(<<>>, back, k, FALSE, FALSE, h, acc)
<1>1. ASSUME Talk(out, back, k, e, TRUE, h, acc), NEW back2 \in Broken(back)
      PROVE  Talk(<<>>, back2, k, FALSE, FALSE, h, acc)
  BY <1>1, BrokenFacts, Kinds, EmptyQueue DEF Talk
<1>2. Talk(out, back, k, e, FALSE, h, acc) => Talk(<<>>, back, k, FALSE, FALSE, h, acc)
  BY EmptyQueue DEF Talk
<1>3. QED
  BY <1>1, <1>2

-----------------------------------------------------------------------------
(***************************************************************************)
(* The conversation of two devices.  Every action of Handoff is, for every *)
(* ordered pair of devices, one of the moves of the conversation; so       *)
(* ConversationInv holds of every behaviour in which nobody presses the    *)
(* emergency chord, and with it what the two ends of a hand-off rely on.   *)
(***************************************************************************)

(* What the pair sees of the state. *)
Holds(x, y) == state[x] = Controlling(y) /\ announced[x]

Entered(x, y) == state[y] = BeingControlled(x)

Linked(x, y) == <<x, y>> \in connected

Good(x, y) ==
    /\ Linked(x, y) => Linked(y, x)
    /\ Queue(net[<<x, y>>], Linked(x, y))
    /\ Talk(net[<<x, y>>], net[<<y, x>>],
            Holds(x, y), Entered(x, y), Linked(x, y), handoff[x], accepted[y])

Agree == \A x, y \in Device : x # y => Good(x, y)

LEMMA GoodIsConversation ==
    ASSUME NEW x \in Device, NEW y \in Device
    PROVE  Good(x, y) <=> Conversation(x, y)
BY DEF Good, Holds, Entered, Linked, Queue, Talk, LossLast, InputOrder,
       Conversation, LinkInv, EnterInv, TargetInv, AnswerInv, ControllerInv, InputInv,
       LossPending, Live

LEMMA AgreeIsConversation == Agree <=> ConversationInv
<1>1. ASSUME Agree, NEW dp \in Pair PROVE Conversation(dp[1], dp[2])
  BY <1>1, GoodIsConversation DEF Agree, Pair
<1>2. ASSUME ConversationInv, NEW x \in Device, NEW y \in Device, x # y PROVE Good(x, y)
  <2>1. <<x, y>> \in Pair /\ <<x, y>>[1] = x /\ <<x, y>>[2] = y
    BY <1>2, PairFacts
  <2>2. Conversation(x, y)
    BY <1>2, <2>1 DEF ConversationInv
  <2>3. QED
    BY <2>2, GoodIsConversation
<1>3. QED
  BY <1>1, <1>2 DEF Agree, ConversationInv

-----------------------------------------------------------------------------
(* What one step does to what a pair sees *)

LEMMA Bystander ==
    ASSUME NEW x \in Device, NEW y \in Device, Good(x, y),
           net'[<<x, y>>] = net[<<x, y>>], net'[<<y, x>>] = net[<<y, x>>],
           Holds(x, y)' <=> Holds(x, y), Entered(x, y)' <=> Entered(x, y),
           Linked(x, y)' <=> Linked(x, y), Linked(y, x)' <=> Linked(y, x),
           Holds(x, y) => handoff'[x] = handoff[x],
           Entered(x, y) => accepted'[y] = accepted[y]
    PROVE  Good(x, y)'
BY TalkFrame DEF Good, Talk, Queue

LEMMA Executed ==
    ASSUME TypeOK, NEW d \in Device, NEW r, NEW n,
           NEW queues \in [Pair -> Seq(Message)],
           Execute(d, r, queues, n)
    PROVE  /\ state'[d] = r.state
           /\ \A z \in Device \ {d} : state'[z] = state[z]
           /\ connected' = connected
           /\ \A x, y \in Device : x # y =>
                 net'[<<x, y>>] =
                    IF x = d /\ y = r.mail.to /\ <<x, y>> \in connected
                    THEN Append(queues[<<x, y>>], [body |-> r.mail.body, n |-> n])
                    ELSE queues[<<x, y>>]
<1>1. state'[d] = r.state /\ \A z \in Device \ {d} : state'[z] = state[z]
  BY DEF TypeOK, Execute
<1>2. ASSUME NEW x \in Device, NEW y \in Device, x # y
      PROVE  net'[<<x, y>>] =
                IF x = d /\ y = r.mail.to /\ <<x, y>> \in connected
                THEN Append(queues[<<x, y>>], [body |-> r.mail.body, n |-> n])
                ELSE queues[<<x, y>>]
  <2>1. <<x, y>> \in Pair
    BY <1>2, PairFacts
  <2>2. <<x, y>> = <<d, r.mail.to>> <=> x = d /\ y = r.mail.to
    OBVIOUS
  <2>3. QED
    BY <2>1, <2>2 DEF Execute, Transmit
<1>3. QED
  BY <1>1, <1>2 DEF Execute

LEMMA Sends ==
    ASSUME TypeOK, NEW d \in Device, NEW r, NEW n,
           NEW queues \in [Pair -> Seq(Message)],
           Execute(d, r, queues, n),
           NEW p, r.mail.to = p, NEW m, [body |-> r.mail.body, n |-> n] = m
    PROVE  /\ state'[d] = r.state
           /\ \A z \in Device \ {d} : state'[z] = state[z]
           /\ connected' = connected
           /\ \A x, y \in Device : x # y =>
                 net'[<<x, y>>] = IF x = d /\ y = p /\ <<x, y>> \in connected
                                  THEN Append(queues[<<x, y>>], m)
                                  ELSE queues[<<x, y>>]
<1>1. state'[d] = r.state /\ \A z \in Device \ {d} : state'[z] = state[z]
  BY DEF TypeOK, Execute
<1>2. net' = IF <<d, p>> \in connected
             THEN [queues EXCEPT ![<<d, p>>] = Append(@, m)]
             ELSE queues
  BY DEF Execute, Transmit
<1>3. ASSUME NEW x \in Device, NEW y \in Device, x # y
      PROVE  net'[<<x, y>>] = IF x = d /\ y = p /\ <<x, y>> \in connected
                              THEN Append(queues[<<x, y>>], m)
                              ELSE queues[<<x, y>>]
  <2>1. <<x, y>> \in Pair
    BY <1>3, PairFacts
  <2>2. <<x, y>> = <<d, p>> <=> x = d /\ y = p
    OBVIOUS
  <2>3. QED
    BY <1>2, <2>1, <2>2
<1>4. QED
  BY <1>1, <1>3 DEF Execute

LEMMA Silent ==
    ASSUME TypeOK, NEW d \in Device, NEW r, NEW n,
           NEW queues \in [Pair -> Seq(Message)],
           Execute(d, r, queues, n), r.mail.to \notin Device
    PROVE  /\ state'[d] = r.state
           /\ \A z \in Device \ {d} : state'[z] = state[z]
           /\ connected' = connected
           /\ \A x, y \in Device : x # y => net'[<<x, y>>] = queues[<<x, y>>]
<1>1. /\ state'[d] = r.state
      /\ \A z \in Device \ {d} : state'[z] = state[z]
      /\ connected' = connected
      /\ \A x, y \in Device : x # y =>
            net'[<<x, y>>] =
               IF x = d /\ y = r.mail.to /\ <<x, y>> \in connected
               THEN Append(queues[<<x, y>>], [body |-> r.mail.body, n |-> n])
               ELSE queues[<<x, y>>]
  BY Executed
<1>2. ASSUME NEW x \in Device, NEW y \in Device, x # y
      PROVE  net'[<<x, y>>] = queues[<<x, y>>]
  BY <1>1, <1>2
<1>3. QED
  BY <1>1, <1>2

LEMMA Resting ==
    ASSUME TypeOK, NEW d \in Device, NEW p \in Device, d # p, net[<<p, d>>] # <<>>
    PROVE  /\ Rest(d, p) \in [Pair -> Seq(Message)]
           /\ Rest(d, p)[<<p, d>>] = Tail(net[<<p, d>>])
           /\ \A x, y \in Device : (x # y /\ ~ (x = p /\ y = d)) =>
                 Rest(d, p)[<<x, y>>] = net[<<x, y>>]
<1>1. Rest(d, p) \in [Pair -> Seq(Message)]
  BY RestTyped
<1>2. \A x, y \in Device : x # y => <<x, y>> \in Pair
  BY PairFacts
<1>3. QED
  BY <1>1, <1>2 DEF Rest, TypeOK

LEMMA PairTyped ==
    ASSUME TypeOK, NEW x \in Device, NEW y \in Device, x # y
    PROVE  /\ net[<<x, y>>] \in Seq(Message)
           /\ handoff[x] \in Nat /\ accepted[x] \in Nat
           /\ state[x] \in LocalState
BY PairFacts DEF TypeOK

-----------------------------------------------------------------------------
(* Local events *)

(* What a pair sees of the roles of its devices, one of which just moved. *)
LEMMA Others ==
    ASSUME TypeOK, Agree, NEW d \in Device,
           \A z \in Device \ {d} : state'[z] = state[z],
           connected' = connected,
           \A z \in Device \ {d} : handoff'[z] = handoff[z] /\ announced'[z] = announced[z],
           \A z \in Device \ {d} : accepted'[z] = accepted[z],
           NEW x \in Device, NEW y \in Device, x # y, x # d, y # d,
           net'[<<x, y>>] = net[<<x, y>>], net'[<<y, x>>] = net[<<y, x>>]
    PROVE  Good(x, y)'
<1>1. Good(x, y)
  BY DEF Agree
<1>2. /\ Holds(x, y)' <=> Holds(x, y)
      /\ Entered(x, y)' <=> Entered(x, y)
      /\ Linked(x, y)' <=> Linked(x, y)
      /\ Linked(y, x)' <=> Linked(y, x)
  BY DEF Holds, Entered, Linked
<1>3. QED
  BY <1>1, <1>2, Bystander

(* d forwards its input to the device it controls, or does nothing. *)
LEMMA ForwardAgrees ==
    ASSUME TypeOK, Agree, NEW d \in Device,
           Execute(d, ForwardIfControlling(state[d]), net, handoff[d]), UNCHANGED history
    PROVE  Agree'
<1> DEFINE r == ForwardIfControlling(state[d])
           p == state[d].peer
           m == [body |-> "Input", n |-> handoff[d]]
<1>1. state[d] \in LocalState /\ net \in [Pair -> Seq(Message)] /\ handoff[d] \in Nat
  BY DEF TypeOK
<1>2. /\ state'[d] = r.state
      /\ \A z \in Device \ {d} : state'[z] = state[z]
      /\ connected' = connected
      /\ \A x, y \in Device : x # y =>
            net'[<<x, y>>] =
               IF x = d /\ y = r.mail.to /\ <<x, y>> \in connected
               THEN Append(net[<<x, y>>], [body |-> r.mail.body, n |-> handoff[d]])
               ELSE net[<<x, y>>]
  <2> HIDE DEF r
  <2>1. Execute(d, r, net, handoff[d])
    BY DEF r
  <2>2. QED
    BY <1>1, <2>1, Executed
<1>3. /\ r.state = state[d]
      /\ state[d].role = "Controlling" => r.mail.to = p /\ r.mail.body = "Input"
      /\ state[d].role # "Controlling" => r.mail = NoMail
  BY DEF ForwardIfControlling, Outcome, Ignored, SendMessage
<1>4. NoMail.to \notin Device
  BY DeviceAssumption DEF NoMail
<1>5. /\ m \in Message /\ m.body \in Inputs /\ m.body \notin Enters
      /\ m.body \notin Losses /\ m.body \notin Answers /\ m.n = handoff[d]
  BY <1>1 DEF Message, Body, Inputs, Enters, Losses, Answers
<1> HIDE DEF r, p, m
<1>6. state' = state /\ handoff' = handoff /\ accepted' = accepted /\ announced' = announced
  BY <1>2, <1>3 DEF TypeOK, history, Execute
<1>7. SUFFICES ASSUME NEW x \in Device, NEW y \in Device, x # y PROVE Good(x, y)'
  BY DEF Agree
<1>8. /\ Holds(x, y)' <=> Holds(x, y)
      /\ Entered(x, y)' <=> Entered(x, y)
      /\ Linked(x, y)' <=> Linked(x, y)
      /\ Linked(y, x)' <=> Linked(y, x)
  BY <1>2, <1>6 DEF Holds, Entered, Linked
<1>9. Good(x, y)
  BY <1>7 DEF Agree
<1>10. CASE x = d /\ y = p /\ Linked(x, y) /\ state[d].role = "Controlling"
  <2>1. net'[<<x, y>>] = Append(net[<<x, y>>], m) /\ net'[<<y, x>>] = net[<<y, x>>]
    <3>1. [body |-> r.mail.body, n |-> handoff[d]] = m
      BY <1>3, <1>10 DEF m
    <3>2. QED
      BY <1>2, <1>3, <1>7, <1>10, <3>1 DEF Linked
  <2>2. ~ Has(net[<<x, y>>], Losses) /\ Queue(net[<<x, y>>], TRUE)
    BY <1>9, <1>10 DEF Good, Queue
  <2>3. Queue(Append(net[<<x, y>>], m), TRUE)
    BY <1>5, <1>7, <2>2, QueueAppend, PairTyped
  <2>4. Talk(Append(net[<<x, y>>], m), net[<<y, x>>], Holds(x, y), Entered(x, y), TRUE,
             handoff[x], accepted[y])
    <3>1. Talk(net[<<x, y>>], net[<<y, x>>], Holds(x, y), Entered(x, y), TRUE,
               handoff[x], accepted[y])
      BY <1>9, <1>10 DEF Good, Talk
    <3>2. QED
      BY <1>5, <1>7, <1>10, <2>2, <3>1, TalkSend, PairTyped
  <2>5. QED
    BY <1>6, <1>8, <1>9, <1>10, <2>1, <2>3, <2>4 DEF Good, Queue, Talk
<1>11. CASE y = d /\ x = p /\ Linked(y, x) /\ state[d].role = "Controlling"
  <2>1. net'[<<y, x>>] = Append(net[<<y, x>>], m) /\ net'[<<x, y>>] = net[<<x, y>>]
    <3>1. [body |-> r.mail.body, n |-> handoff[d]] = m
      BY <1>3, <1>11 DEF m
    <3>2. QED
      BY <1>2, <1>3, <1>7, <1>11, <3>1 DEF Linked
  <2>2. Talk(net[<<x, y>>], Append(net[<<y, x>>], m), Holds(x, y), Entered(x, y), Linked(x, y),
             handoff[x], accepted[y])
    BY <1>5, <1>7, <1>9, TalkBack, PairTyped DEF Good
  <2>3. QED
    BY <1>6, <1>8, <1>9, <2>1, <2>2 DEF Good, Queue, Talk
<1>12. CASE /\ ~ (x = d /\ y = p /\ Linked(x, y) /\ state[d].role = "Controlling")
            /\ ~ (y = d /\ x = p /\ Linked(y, x) /\ state[d].role = "Controlling")
  <2>1. net'[<<x, y>>] = net[<<x, y>>] /\ net'[<<y, x>>] = net[<<y, x>>]
    BY <1>2, <1>3, <1>4, <1>7, <1>12 DEF Linked
  <2>2. QED
    BY <1>6, <1>8, <1>9, <2>1, Bystander
<1>13. QED
  BY <1>10, <1>11, <1>12

(* d starts a hand-off to p. *)
LEMMA CrossAgrees ==
    ASSUME TypeOK, Agree, NEW d \in Device, NEW p \in Device, d # p, state[d] = Idle,
           Execute(d, Outcome(Controlling(p), "disable", SendMessage(p, "EdgeEnter"), "none"),
                   net, handoff[d] + 1),
           handoff' = [handoff EXCEPT ![d] = @ + 1],
           announced' = [announced EXCEPT ![d] = <<d, p>> \in connected],
           accepted' = accepted
    PROVE  Agree'
<1> DEFINE r == Outcome(Controlling(p), "disable", SendMessage(p, "EdgeEnter"), "none")
           m == [body |-> "EdgeEnter", n |-> handoff[d] + 1]
<1>1. net \in [Pair -> Seq(Message)] /\ handoff[d] \in Nat
  BY DEF TypeOK
<1>2. r.state = Controlling(p) /\ r.mail.to = p /\ r.mail.body = "EdgeEnter"
  BY DEF Outcome, SendMessage
<1>3. /\ m \in Message /\ m.body \in Enters /\ m.body \notin Inputs
      /\ m.body \notin Losses /\ m.body \notin Answers /\ m.n = handoff[d] + 1
      /\ [body |-> r.mail.body, n |-> handoff[d] + 1] = m
  BY <1>1, <1>2 DEF Message, Body, Inputs, Enters, Losses, Answers
<1> HIDE DEF r, m
<1>4. /\ state'[d] = Controlling(p)
      /\ \A z \in Device \ {d} : state'[z] = state[z]
      /\ connected' = connected
      /\ \A x, y \in Device : x # y =>
            net'[<<x, y>>] = IF x = d /\ y = p /\ <<x, y>> \in connected
                             THEN Append(net[<<x, y>>], m)
                             ELSE net[<<x, y>>]
  <2>1. Execute(d, r, net, handoff[d] + 1)
    BY DEF r
  <2>2. QED
    BY <1>1, <1>2, <1>3, <2>1, Sends
<1>5. /\ handoff'[d] = m.n /\ announced'[d] = (<<d, p>> \in connected)
      /\ \A z \in Device \ {d} : handoff'[z] = handoff[z] /\ announced'[z] = announced[z]
      /\ accepted' = accepted
  BY <1>3 DEF TypeOK
<1>6. ASSUME NEW y \in Device, y # d PROVE Good(d, y)'
  <2>1. Good(d, y) /\ ~ Holds(d, y) /\ net'[<<y, d>>] = net[<<y, d>>]
    BY <1>4, <1>6, LocalStateDistinct DEF Agree, Holds
  <2>2. Holds(d, y)' <=> (y = p /\ Linked(d, p))
    <3>1. state'[d] = Controlling(y) <=> y = p
      BY <1>4, LocalStateDistinct
    <3>2. QED
      BY <1>5, <3>1 DEF Holds, Linked
  <2>3. /\ Entered(d, y)' <=> Entered(d, y)
        /\ Linked(d, y)' <=> Linked(d, y)
        /\ Linked(y, d)' <=> Linked(y, d)
    BY <1>4, <1>6 DEF Entered, Linked
  <2>4. CASE y = p /\ Linked(d, p)
    <3>1. net'[<<d, y>>] = Append(net[<<d, y>>], m)
      BY <1>4, <1>6, <2>4 DEF Linked
    <3>2. ~ Has(net[<<d, y>>], Losses) /\ Queue(net[<<d, y>>], TRUE)
      BY <2>1, <2>4 DEF Good, Queue
    <3>3. Talk(net[<<d, y>>], net[<<y, d>>], FALSE, Entered(d, y), TRUE, handoff[d], accepted[y])
      BY <2>1, <2>4 DEF Good, Talk
    <3>4. /\ ~ Has(net[<<d, y>>], Enters)
          /\ Talk(Append(net[<<d, y>>], m), net[<<y, d>>], TRUE, Entered(d, y), TRUE,
                  m.n, accepted[y])
      BY <1>3, <1>6, <3>2, <3>3, TalkEnter, PairTyped
    <3>5. Queue(Append(net[<<d, y>>], m), TRUE)
      BY <1>3, <1>6, <3>2, <3>4, QueueAppend, PairTyped
    <3>6. QED
      BY <1>5, <2>1, <2>2, <2>3, <2>4, <3>1, <3>4, <3>5 DEF Good, Queue, Talk
  <2>5. CASE ~ (y = p /\ Linked(d, p))
    <3>1. net'[<<d, y>>] = net[<<d, y>>]
      BY <1>4, <1>6, <2>5 DEF Linked
    <3>2. QED
      BY <1>5, <1>6, <2>1, <2>2, <2>3, <2>5, <3>1, Bystander
  <2>6. QED
    BY <2>4, <2>5
<1>7. ASSUME NEW x \in Device, x # d PROVE Good(x, d)'
  <2>1. Good(x, d) /\ ~ Entered(x, d) /\ net'[<<x, d>>] = net[<<x, d>>]
    BY <1>4, <1>7, LocalStateDistinct DEF Agree, Entered
  <2>2. /\ Holds(x, d)' <=> Holds(x, d)
        /\ Entered(x, d)' <=> Entered(x, d)
        /\ Linked(d, x)' <=> Linked(d, x)
        /\ Linked(x, d)' <=> Linked(x, d)
    BY <1>4, <1>5, <1>7, <2>1, LocalStateDistinct DEF Holds, Entered, Linked
  <2>3. CASE x = p /\ Linked(d, p)
    <3>1. net'[<<d, x>>] = Append(net[<<d, x>>], m)
      BY <1>4, <1>7, <2>3 DEF Linked
    <3>2. Talk(net[<<x, d>>], Append(net[<<d, x>>], m), Holds(x, d), Entered(x, d), Linked(x, d),
               handoff[x], accepted[d])
      BY <1>3, <1>7, <2>1, TalkBack, PairTyped DEF Good
    <3>3. QED
      BY <1>5, <1>7, <2>1, <2>2, <3>1, <3>2 DEF Good, Queue, Talk
  <2>4. CASE ~ (x = p /\ Linked(d, p))
    <3>1. net'[<<d, x>>] = net[<<d, x>>]
      BY <1>4, <1>7, <2>4 DEF Linked
    <3>2. QED
      BY <1>5, <1>7, <2>1, <2>2, <3>1, Bystander
  <2>5. QED
    BY <2>3, <2>4
<1>8. ASSUME NEW x \in Device, NEW y \in Device, x # y, x # d, y # d PROVE Good(x, y)'
  BY <1>4, <1>5, <1>8, Others
<1>9. QED
  BY <1>6, <1>7, <1>8 DEF Agree

(* d, controlled by p, reaches the edge that leads back to it. *)
LEMMA ReleaseAgrees ==
    ASSUME TypeOK, Agree, NEW d \in Device, NEW p \in Device, d # p,
           state[d] = BeingControlled(p),
           Execute(d, Outcome(Idle, "keep", SendMessage(p, "EdgeRelease"), "none"),
                   net, accepted[d]),
           UNCHANGED history
    PROVE  Agree'
<1> DEFINE r == Outcome(Idle, "keep", SendMessage(p, "EdgeRelease"), "none")
           m == [body |-> "EdgeRelease", n |-> accepted[d]]
<1>1. net \in [Pair -> Seq(Message)] /\ accepted[d] \in Nat
  BY DEF TypeOK
<1>2. r.state = Idle /\ r.mail.to = p /\ r.mail.body = "EdgeRelease"
  BY DEF Outcome, SendMessage
<1>3. /\ m \in Message /\ m.body \in Answers /\ m.body \notin Inputs
      /\ m.body \notin Losses /\ m.body \notin Enters /\ m.n = accepted[d]
      /\ [body |-> r.mail.body, n |-> accepted[d]] = m
  BY <1>1, <1>2 DEF Message, Body, Inputs, Enters, Losses, Answers
<1> HIDE DEF r, m
<1>4. /\ state'[d] = Idle
      /\ \A z \in Device \ {d} : state'[z] = state[z]
      /\ connected' = connected
      /\ \A x, y \in Device : x # y =>
            net'[<<x, y>>] = IF x = d /\ y = p /\ <<x, y>> \in connected
                             THEN Append(net[<<x, y>>], m)
                             ELSE net[<<x, y>>]
  <2>1. Execute(d, r, net, accepted[d])
    BY DEF r
  <2>2. QED
    BY <1>1, <1>2, <1>3, <2>1, Sends
<1>5. handoff' = handoff /\ accepted' = accepted /\ announced' = announced
  BY DEF history
<1>6. ASSUME NEW y \in Device, y # d PROVE Good(d, y)'
  <2>1. Good(d, y) /\ ~ Holds(d, y) /\ net'[<<y, d>>] = net[<<y, d>>]
    BY <1>4, <1>6, LocalStateDistinct DEF Agree, Holds
  <2>2. /\ Holds(d, y)' <=> Holds(d, y)
        /\ Entered(d, y)' <=> Entered(d, y)
        /\ Linked(d, y)' <=> Linked(d, y)
        /\ Linked(y, d)' <=> Linked(y, d)
    BY <1>4, <1>5, <1>6, <2>1, LocalStateDistinct DEF Holds, Entered, Linked
  <2>3. CASE y = p /\ Linked(d, p)
    <3>1. net'[<<d, y>>] = Append(net[<<d, y>>], m)
      BY <1>4, <1>6, <2>3 DEF Linked
    <3>2. /\ ~ Has(net[<<d, y>>], Losses) /\ Queue(net[<<d, y>>], TRUE)
          /\ Talk(net[<<d, y>>], net[<<y, d>>], Holds(d, y), Entered(d, y), TRUE,
                  handoff[d], accepted[y])
      BY <2>1, <2>3 DEF Good, Queue, Talk
    <3>3. Talk(Append(net[<<d, y>>], m), net[<<y, d>>], Holds(d, y), Entered(d, y), TRUE,
               handoff[d], accepted[y])
      BY <1>3, <1>6, <3>2, TalkSend, PairTyped
    <3>4. ~ Has(net[<<d, y>>], Answers)
      <4>1. Good(y, d) /\ Entered(y, d) /\ Linked(y, d)
        BY <1>6, <2>1, <2>3 DEF Agree, Entered, Good
      <4>2. ~ Has(net[<<y, d>>], Losses)
        BY <4>1 DEF Good, Queue
      <4>3. QED
        BY <4>1, <4>2 DEF Good, Talk
    <3>5. Queue(Append(net[<<d, y>>], m), TRUE)
      BY <1>3, <1>6, <3>2, <3>4, QueueAppend, PairTyped
    <3>6. QED
      BY <1>5, <2>1, <2>2, <2>3, <3>1, <3>3, <3>5 DEF Good, Queue, Talk
  <2>4. CASE ~ (y = p /\ Linked(d, p))
    <3>1. net'[<<d, y>>] = net[<<d, y>>]
      BY <1>4, <1>6, <2>4 DEF Linked
    <3>2. QED
      BY <1>5, <1>6, <2>1, <2>2, <3>1, Bystander
  <2>5. QED
    BY <2>3, <2>4
<1>7. ASSUME NEW x \in Device, x # d PROVE Good(x, d)'
  <2>1. Good(x, d) /\ net'[<<x, d>>] = net[<<x, d>>] /\ ~ Entered(x, d)'
    BY <1>4, <1>7, LocalStateDistinct DEF Agree, Entered
  <2>2. /\ Holds(x, d)' <=> Holds(x, d)
        /\ Linked(d, x)' <=> Linked(d, x)
        /\ Linked(x, d)' <=> Linked(x, d)
        /\ Linked(x, d) => Linked(d, x)
    BY <1>4, <1>5, <1>7, <2>1 DEF Holds, Linked, Good
  <2>3. Linked(d, x) => Linked(x, d)
    BY <1>7 DEF Agree, Good
  <2>4. CASE x = p
    <3>1. Entered(x, d)
      BY <2>4 DEF Entered
    <3>2. CASE Linked(x, d)
      <4>1. net'[<<d, x>>] = Append(net[<<d, x>>], m)
        BY <1>4, <1>7, <2>2, <2>4, <3>2 DEF Linked
      <4>2. /\ ~ Has(net[<<x, d>>], Losses)
            /\ Talk(net[<<x, d>>], net[<<d, x>>], Holds(x, d), TRUE, TRUE, handoff[x], accepted[d])
        BY <2>1, <3>1, <3>2 DEF Good, Queue, Talk
      <4>3. Talk(net[<<x, d>>], Append(net[<<d, x>>], m), Holds(x, d), FALSE, TRUE,
                 handoff[x], accepted[d])
        BY <1>3, <1>7, <4>2, TalkRelease, PairTyped
      <4>4. QED
        BY <1>5, <2>1, <2>2, <3>2, <4>1, <4>3 DEF Good, Queue, Talk
    <3>3. CASE ~ Linked(x, d)
      <4>1. net'[<<d, x>>] = net[<<d, x>>]
        BY <1>4, <1>7, <2>3, <3>3 DEF Linked
      <4>2. Talk(net[<<x, d>>], net[<<d, x>>], Holds(x, d), TRUE, FALSE, handoff[x], accepted[d])
        BY <2>1, <3>1, <3>3 DEF Good, Talk
      <4>3. Talk(net[<<x, d>>], net[<<d, x>>], Holds(x, d), FALSE, FALSE, handoff[x], accepted[d])
        BY <4>2 DEF Talk
      <4>4. QED
        BY <1>5, <2>1, <2>2, <3>3, <4>1, <4>3 DEF Good, Queue, Talk
    <3>4. QED
      BY <3>2, <3>3
  <2>5. CASE x # p
    <3>1. ~ Entered(x, d) /\ net'[<<d, x>>] = net[<<d, x>>]
      BY <1>4, <1>7, <2>5, LocalStateDistinct DEF Entered
    <3>2. QED
      BY <1>5, <1>7, <2>1, <2>2, <3>1, Bystander
  <2>6. QED
    BY <2>4, <2>5
<1>8. ASSUME NEW x \in Device, NEW y \in Device, x # y, x # d, y # d PROVE Good(x, y)'
  BY <1>4, <1>5, <1>8, Others
<1>9. QED
  BY <1>6, <1>7, <1>8 DEF Agree

(* d leaves its state and its peers alone. *)
LEMMA IgnoredAgrees ==
    ASSUME TypeOK, Agree, NEW d \in Device, NEW n,
           Execute(d, Ignored(state[d]), net, n), UNCHANGED history
    PROVE  Agree'
<1>1. /\ Ignored(state[d]).state = state[d]
      /\ Ignored(state[d]).mail.to = NoDevice /\ NoDevice \notin Device
  BY DeviceAssumption DEF Ignored, Outcome, NoMail
<1>2. net \in [Pair -> Seq(Message)]
  BY DEF TypeOK
<1>3. /\ \A z \in Device : state'[z] = state[z]
      /\ connected' = connected
      /\ \A x, y \in Device : x # y => net'[<<x, y>>] = net[<<x, y>>]
  BY <1>1, <1>2, Silent
<1>4. handoff' = handoff /\ accepted' = accepted /\ announced' = announced
  BY DEF history
<1>5. ASSUME NEW x \in Device, NEW y \in Device, x # y PROVE Good(x, y)'
  BY <1>3, <1>4, <1>5, Bystander DEF Agree, Holds, Entered, Linked
<1>6. QED
  BY <1>5 DEF Agree

LEMMA CursorAtEdgeAgrees ==
    ASSUME TypeOK, Agree, NEW d \in Device, NEW e \in ScreenEdge, CursorAtEdge(d, e)
    PROVE  Agree'
<1> DEFINE p == Resolve[d][e]
           r == OnLocalCursorAtEdge(d, state[d], e)
<1>1. p \in Device \cup {NoDevice} /\ p # d
  BY DeviceAssumption
<1>2. Idle # BeingControlled(p)
  BY LocalStateDistinct
<1> HIDE DEF p
<1>3. CASE p # NoDevice /\ state[d] = Idle
  <2>1. r = Outcome(Controlling(p), "disable", SendMessage(p, "EdgeEnter"), "none")
    BY <1>3 DEF OnLocalCursorAtEdge, p
  <2>2. r.mail.body = "EdgeEnter" /\ r.mail.to = p
    BY <2>1 DEF Outcome, SendMessage
  <2> HIDE DEF r
  <2>3. /\ Execute(d, r, net, handoff[d] + 1)
        /\ handoff' = [handoff EXCEPT ![d] = @ + 1]
        /\ announced' = [announced EXCEPT ![d] = <<d, r.mail.to>> \in connected]
        /\ accepted' = accepted
    BY <2>2 DEF CursorAtEdge, r
  <2>4. QED
    BY <1>1, <1>3, <2>1, <2>2, <2>3, CrossAgrees
<1>4. CASE p # NoDevice /\ state[d] = BeingControlled(p)
  <2>1. r = Outcome(Idle, "keep", SendMessage(p, "EdgeRelease"), "none")
    BY <1>2, <1>4 DEF OnLocalCursorAtEdge, p
  <2>2. r.mail.body # "EdgeEnter"
    BY <2>1 DEF Outcome, SendMessage
  <2> HIDE DEF r
  <2>3. Execute(d, r, net, accepted[d]) /\ UNCHANGED history
    BY <2>2 DEF CursorAtEdge, r
  <2>4. QED
    BY <1>1, <1>4, <2>1, <2>3, ReleaseAgrees
<1>5. CASE p = NoDevice \/ (state[d] # Idle /\ state[d] # BeingControlled(p))
  <2>1. r = Ignored(state[d])
    BY <1>5 DEF OnLocalCursorAtEdge, p
  <2>2. r.mail.body # "EdgeEnter"
    BY <2>1 DEF Ignored, Outcome, NoMail
  <2> HIDE DEF r
  <2>3. Execute(d, r, net, accepted[d]) /\ UNCHANGED history
    BY <2>2 DEF CursorAtEdge, r
  <2>4. QED
    BY <2>1, <2>3, IgnoredAgrees
<1>6. QED
  BY <1>3, <1>4, <1>5

-----------------------------------------------------------------------------
(* Events from a peer *)

(* d takes the head of p's queue to it and sends nothing. *)
LEMMA Takes ==
    ASSUME TypeOK, NEW d \in Device, NEW p \in Device, d # p, net[<<p, d>>] # <<>>,
           NEW r, NEW n, Execute(d, r, Rest(d, p), n), r.mail.to \notin Device
    PROVE  /\ state'[d] = r.state
           /\ \A z \in Device \ {d} : state'[z] = state[z]
           /\ connected' = connected
           /\ net'[<<p, d>>] = Tail(net[<<p, d>>])
           /\ net'[<<d, p>>] = net[<<d, p>>]
           /\ \A x, y \in Device : (x # y /\ ~ (x = p /\ y = d)) => net'[<<x, y>>] = net[<<x, y>>]
<1>1. Rest(d, p) \in [Pair -> Seq(Message)]
  BY Resting
<1>2. /\ state'[d] = r.state
      /\ \A z \in Device \ {d} : state'[z] = state[z]
      /\ connected' = connected
      /\ \A x, y \in Device : x # y => net'[<<x, y>>] = Rest(d, p)[<<x, y>>]
  BY <1>1, Silent
<1>3. QED
  BY <1>2, Resting

(* What d's queue from p has at its head. *)
LEMMA HeadBodies ==
    ASSUME NEW d \in Device, NEW p \in Device, NEW body, Arrives(d, p, body)
    PROVE  /\ net[<<p, d>>] # <<>> /\ Head(net[<<p, d>>]).body = body
           /\ Head(net[<<p, d>>]).n = Tag(d, p)
           /\ body \in Enters <=> body = "EdgeEnter"
           /\ body \in Answers <=> body = "EdgeRelease" \/ body = "EdgeEnterRejected"
           /\ body \in Inputs <=> body = "Input"
           /\ body \in Losses <=> body = "ConnectionLost"
BY DEF Arrives, Tag, Enters, Answers, Inputs, Losses

LEMMA AcceptAgrees ==
    ASSUME TypeOK, Agree, NEW d \in Device, NEW p \in Device, d # p, state[d] = Idle,
           Arrives(d, p, "EdgeEnter"),
           Execute(d, Outcome(BeingControlled(p), "keep", NoMail, "warp"), Rest(d, p), Tag(d, p)),
           accepted' = [accepted EXCEPT ![d] = Tag(d, p)],
           handoff' = handoff, announced' = announced
    PROVE  Agree'
<1> DEFINE r == Outcome(BeingControlled(p), "keep", NoMail, "warp")
<1>1. /\ net[<<p, d>>] # <<>> /\ Head(net[<<p, d>>]).body \in Enters
      /\ Head(net[<<p, d>>]).n = Tag(d, p)
      /\ Head(net[<<p, d>>]).body \notin Answers /\ Head(net[<<p, d>>]).body \notin Losses
  BY HeadBodies
<1>2. r.state = BeingControlled(p) /\ r.mail.to \notin Device
  BY DeviceAssumption DEF Outcome, NoMail
<1> HIDE DEF r
<1>3. /\ state'[d] = BeingControlled(p)
      /\ \A z \in Device \ {d} : state'[z] = state[z]
      /\ connected' = connected
      /\ net'[<<p, d>>] = Tail(net[<<p, d>>])
      /\ net'[<<d, p>>] = net[<<d, p>>]
      /\ \A x, y \in Device : (x # y /\ ~ (x = p /\ y = d)) => net'[<<x, y>>] = net[<<x, y>>]
  <2>1. Execute(d, r, Rest(d, p), Tag(d, p))
    BY DEF r
  <2>2. QED
    BY <1>1, <1>2, <2>1, Takes
<1>4. accepted'[d] = Tag(d, p) /\ \A z \in Device \ {d} : accepted'[z] = accepted[z]
  BY DEF TypeOK
<1>5. ASSUME NEW y \in Device, y # d PROVE Good(d, y)'
  <2>1. Good(d, y) /\ ~ Holds(d, y)
    BY <1>5, LocalStateDistinct DEF Agree, Holds
  <2>2. /\ Holds(d, y)' <=> Holds(d, y)
        /\ Entered(d, y)' <=> Entered(d, y)
        /\ Linked(d, y)' <=> Linked(d, y)
        /\ Linked(y, d)' <=> Linked(y, d)
        /\ accepted'[y] = accepted[y]
    BY <1>3, <1>4, <1>5, <2>1, LocalStateDistinct DEF Holds, Entered, Linked
  <2>3. CASE y = p
    <3>1. Talk(net[<<d, y>>], Tail(net[<<y, d>>]), Holds(d, y), Entered(d, y), Linked(d, y),
               handoff[d], accepted[y])
      BY <1>1, <1>5, <2>1, <2>3, TalkRead, PairTyped DEF Good
    <3>2. QED
      BY <1>3, <2>1, <2>2, <2>3, <3>1 DEF Good, Queue, Talk
  <2>4. CASE y # p
    BY <1>3, <1>5, <2>1, <2>2, <2>4, Bystander
  <2>5. QED
    BY <2>3, <2>4
<1>6. ASSUME NEW x \in Device, x # d PROVE Good(x, d)'
  <2>1. Good(x, d) /\ ~ Entered(x, d)
    BY <1>6, LocalStateDistinct DEF Agree, Entered
  <2>2. /\ Holds(x, d)' <=> Holds(x, d)
        /\ Linked(x, d)' <=> Linked(x, d)
        /\ Linked(d, x)' <=> Linked(d, x)
    BY <1>3, <1>6 DEF Holds, Linked
  <2>3. CASE x = p
    <3>1. Entered(x, d)'
      BY <1>3, <2>3 DEF Entered
    <3>2. AtMostOne(net[<<x, d>>], Enters) /\ Queue(Tail(net[<<x, d>>]), Linked(x, d))
      BY <1>1, <1>6, <2>1, <2>3, QueueTail, PairTyped DEF Good, Queue
    <3>3. Talk(Tail(net[<<x, d>>]), net[<<d, x>>], Holds(x, d), TRUE, Linked(x, d),
               handoff[x], Tag(d, p))
      BY <1>1, <1>6, <2>1, <2>3, <3>2, TalkAccept, PairTyped DEF Good
    <3>4. QED
      BY <1>3, <1>4, <2>1, <2>2, <2>3, <3>1, <3>2, <3>3 DEF Good, Queue, Talk
  <2>4. CASE x # p
    <3>1. Entered(x, d)' <=> Entered(x, d)
      BY <1>3, <2>1, <2>4, LocalStateDistinct DEF Entered
    <3>2. QED
      BY <1>3, <1>6, <2>1, <2>2, <2>4, <3>1, Bystander
  <2>5. QED
    BY <2>3, <2>4
<1>7. ASSUME NEW x \in Device, NEW y \in Device, x # y, x # d, y # d PROVE Good(x, y)'
  BY <1>3, <1>4, <1>7, Others
<1>8. QED
  BY <1>5, <1>6, <1>7 DEF Agree

LEMMA RejectAgrees ==
    ASSUME TypeOK, Agree, NEW d \in Device, NEW p \in Device, d # p,
           Arrives(d, p, "EdgeEnter"),
           Execute(d, Outcome(state[d], "keep", SendMessage(p, "EdgeEnterRejected"), "none"),
                   Rest(d, p), Tag(d, p)),
           accepted' = accepted, handoff' = handoff, announced' = announced
    PROVE  Agree'
<1> DEFINE r == Outcome(state[d], "keep", SendMessage(p, "EdgeEnterRejected"), "none")
           m == [body |-> "EdgeEnterRejected", n |-> Tag(d, p)]
<1>1. /\ net[<<p, d>>] # <<>> /\ Head(net[<<p, d>>]).body \in Enters
      /\ Head(net[<<p, d>>]).n = Tag(d, p)
      /\ Head(net[<<p, d>>]).body \notin Answers /\ Head(net[<<p, d>>]).body \notin Losses
  BY HeadBodies
<1>2. /\ r.state = state[d] /\ r.mail.to = p
      /\ [body |-> r.mail.body, n |-> Tag(d, p)] = m
  BY DEF Outcome, SendMessage
<1>3. /\ m \in Message /\ m.body \in Answers /\ m.body \notin Inputs
      /\ m.body \notin Losses /\ m.body \notin Enters /\ m.n = Tag(d, p)
  <2>1. Tag(d, p) \in Nat
    BY <1>1, RestTyped
  <2>2. QED
    BY <2>1 DEF Message, Body, Inputs, Enters, Losses, Answers
<1> HIDE DEF r, m
<1>4. /\ \A z \in Device : state'[z] = state[z]
      /\ connected' = connected
      /\ net'[<<p, d>>] = Tail(net[<<p, d>>])
      /\ net'[<<d, p>>] = IF <<d, p>> \in connected THEN Append(net[<<d, p>>], m)
                                                    ELSE net[<<d, p>>]
      /\ \A x, y \in Device : (x # y /\ {x, y} # {d, p}) => net'[<<x, y>>] = net[<<x, y>>]
  <2>1. Execute(d, r, Rest(d, p), Tag(d, p)) /\ Rest(d, p) \in [Pair -> Seq(Message)]
    BY <1>1, Resting DEF r
  <2>2. /\ state'[d] = r.state
        /\ \A z \in Device \ {d} : state'[z] = state[z]
        /\ connected' = connected
        /\ \A x, y \in Device : x # y =>
              net'[<<x, y>>] = IF x = d /\ y = p /\ <<x, y>> \in connected
                               THEN Append(Rest(d, p)[<<x, y>>], m)
                               ELSE Rest(d, p)[<<x, y>>]
    BY <1>2, <2>1, Sends
  <2>3. QED
    BY <1>1, <1>2, <2>2, Resting
<1>5. SUFFICES ASSUME NEW x \in Device, NEW y \in Device, x # y PROVE Good(x, y)'
  BY DEF Agree
<1>6. /\ Holds(x, y)' <=> Holds(x, y)
      /\ Entered(x, y)' <=> Entered(x, y)
      /\ Linked(x, y)' <=> Linked(x, y)
      /\ Linked(y, x)' <=> Linked(y, x)
  BY <1>4 DEF Holds, Entered, Linked
<1>7. Good(x, y) /\ Good(y, x)
  BY <1>5 DEF Agree
<1>8. Linked(x, y) <=> Linked(y, x)
  BY <1>7 DEF Good
<1>9. CASE x = p /\ y = d
  <2>1. AtMostOne(net[<<x, y>>], Enters) /\ Queue(Tail(net[<<x, y>>]), Linked(x, y))
    BY <1>1, <1>5, <1>7, <1>9, QueueTail, PairTyped DEF Good, Queue
  <2>2. CASE Linked(x, y)
    <3>1. /\ ~ Has(net[<<x, y>>], Losses)
          /\ Talk(net[<<x, y>>], net[<<y, x>>], Holds(x, y), Entered(x, y), TRUE,
                  handoff[x], accepted[y])
      BY <1>7, <2>2 DEF Good, Queue, Talk
    <3>2. Talk(Tail(net[<<x, y>>]), Append(net[<<y, x>>], m), Holds(x, y), Entered(x, y), TRUE,
               handoff[x], accepted[y])
      BY <1>1, <1>3, <1>5, <1>9, <2>1, <3>1, TalkReject, PairTyped
    <3>3. QED
      BY <1>4, <1>6, <1>7, <1>8, <1>9, <2>1, <2>2, <3>2 DEF Good, Queue, Talk, Linked
  <2>3. CASE ~ Linked(x, y)
    <3>1. Talk(net[<<x, y>>], net[<<y, x>>], Holds(x, y), Entered(x, y), FALSE,
               handoff[x], accepted[y])
      BY <1>7, <2>3 DEF Good, Talk
    <3>2. Talk(Tail(net[<<x, y>>]), net[<<y, x>>], Holds(x, y), Entered(x, y), FALSE,
               handoff[x], accepted[y])
      BY <1>1, <1>3, <1>5, <1>9, <2>1, <3>1, TalkReject, PairTyped
    <3>3. QED
      BY <1>4, <1>6, <1>7, <1>8, <1>9, <2>1, <2>3, <3>2 DEF Good, Queue, Talk, Linked
  <2>4. QED
    BY <2>2, <2>3
<1>10. CASE x = d /\ y = p
  <2>1. Talk(net[<<x, y>>], Tail(net[<<y, x>>]), Holds(x, y), Entered(x, y), Linked(x, y),
             handoff[x], accepted[y])
    BY <1>1, <1>5, <1>7, <1>10, TalkRead, PairTyped DEF Good
  <2>2. CASE Linked(x, y)
    <3>1. /\ ~ Has(net[<<x, y>>], Losses) /\ Queue(net[<<x, y>>], TRUE)
          /\ ~ Has(net[<<y, x>>], Losses)
          /\ Talk(net[<<y, x>>], net[<<x, y>>], Holds(y, x), Entered(y, x), TRUE,
                  handoff[y], accepted[x])
          /\ Talk(net[<<x, y>>], Tail(net[<<y, x>>]), Holds(x, y), Entered(x, y), TRUE,
                  handoff[x], accepted[y])
          /\ AtMostOne(net[<<y, x>>], Enters)
      BY <1>7, <1>8, <2>1, <2>2 DEF Good, Queue, Talk
    <3>2. ~ Has(net[<<x, y>>], Answers)
      BY <1>1, <1>3, <1>5, <1>10, <3>1, TalkReject, PairTyped
    <3>3. Queue(Append(net[<<x, y>>], m), TRUE)
      BY <1>3, <1>5, <3>1, <3>2, QueueAppend, PairTyped
    <3>4. Talk(Append(net[<<x, y>>], m), Tail(net[<<y, x>>]), Holds(x, y), Entered(x, y), TRUE,
               handoff[x], accepted[y])
      BY <1>3, <1>5, <3>1, TalkSend, PairTyped
    <3>5. QED
      BY <1>4, <1>6, <1>7, <1>10, <2>2, <3>3, <3>4 DEF Good, Queue, Talk, Linked
  <2>3. CASE ~ Linked(x, y)
    BY <1>4, <1>6, <1>7, <1>10, <2>1, <2>3 DEF Good, Queue, Talk, Linked
  <2>4. QED
    BY <2>2, <2>3
<1>11. CASE {x, y} # {d, p}
  <2>1. net'[<<x, y>>] = net[<<x, y>>] /\ net'[<<y, x>>] = net[<<y, x>>]
    BY <1>4, <1>5, <1>11
  <2>2. QED
    BY <1>6, <1>7, <2>1, Bystander
<1>12. QED
  BY <1>5, <1>9, <1>10, <1>11

(* d takes the answer to its hand-off to p. *)
LEMMA AnsweredAgrees ==
    ASSUME TypeOK, Agree, NEW d \in Device, NEW p \in Device, d # p,
           Arrives(d, p, "EdgeRelease") \/ Arrives(d, p, "EdgeEnterRejected"),
           NEW r, r.mail.to \notin Device, r.state # Controlling(p),
           state[d] = Controlling(p) => r.state = Idle,
           NEW n, Execute(d, r, Rest(d, p), n), UNCHANGED history
    PROVE  Agree'
<1>1. /\ net[<<p, d>>] # <<>> /\ Head(net[<<p, d>>]).body \in Answers
      /\ Head(net[<<p, d>>]).body \notin Enters /\ Head(net[<<p, d>>]).body \notin Losses
  BY HeadBodies
<1>2. /\ state'[d] = r.state
      /\ \A z \in Device \ {d} : state'[z] = state[z]
      /\ connected' = connected
      /\ net'[<<p, d>>] = Tail(net[<<p, d>>])
      /\ net'[<<d, p>>] = net[<<d, p>>]
      /\ \A x, y \in Device : (x # y /\ ~ (x = p /\ y = d)) => net'[<<x, y>>] = net[<<x, y>>]
  BY <1>1, Takes
<1>3. handoff' = handoff /\ accepted' = accepted /\ announced' = announced
  BY DEF history
<1>4. /\ state[d] = Controlling(p)
      /\ Talk(net[<<d, p>>], Tail(net[<<p, d>>]), FALSE, Entered(d, p), Linked(d, p),
              handoff[d], accepted[p])
  <2>1. Good(d, p) /\ Good(p, d)
    BY DEF Agree
  <2>2. AtMostOne(net[<<p, d>>], Answers)
    BY <2>1 DEF Good, Queue
  <2>3. /\ Holds(d, p)
        /\ Talk(net[<<d, p>>], Tail(net[<<p, d>>]), FALSE, Entered(d, p), Linked(d, p),
                handoff[d], accepted[p])
    BY <1>1, <2>1, <2>2, TalkAnswered, PairTyped DEF Good
  <2>4. QED
    BY <2>3 DEF Holds
<1>5. state'[d] = Idle
  BY <1>2, <1>4
<1>6. ASSUME NEW y \in Device, y # d PROVE Good(d, y)'
  <2>1. Good(d, y) /\ ~ Holds(d, y)'
    BY <1>5, <1>6, LocalStateDistinct DEF Agree, Holds
  <2>2. /\ Entered(d, y)' <=> Entered(d, y)
        /\ Linked(d, y)' <=> Linked(d, y)
        /\ Linked(y, d)' <=> Linked(y, d)
    BY <1>2, <1>6 DEF Entered, Linked
  <2>3. CASE y = p
    BY <1>2, <1>3, <1>4, <2>1, <2>2, <2>3 DEF Good, Queue, Talk
  <2>4. CASE y # p
    <3>1. ~ Holds(d, y)
      BY <1>4, <2>4, LocalStateDistinct DEF Holds
    <3>2. QED
      BY <1>2, <1>3, <1>6, <2>1, <2>2, <2>4, <3>1, Bystander
  <2>5. QED
    BY <2>3, <2>4
<1>7. ASSUME NEW x \in Device, x # d PROVE Good(x, d)'
  <2>1. Good(x, d) /\ ~ Entered(x, d) /\ ~ Entered(x, d)'
    BY <1>4, <1>5, <1>7, LocalStateDistinct DEF Agree, Entered
  <2>2. /\ Holds(x, d)' <=> Holds(x, d)
        /\ Linked(x, d)' <=> Linked(x, d)
        /\ Linked(d, x)' <=> Linked(d, x)
    BY <1>2, <1>3, <1>7 DEF Holds, Linked
  <2>3. CASE x = p
    <3>1. Queue(Tail(net[<<x, d>>]), Linked(x, d))
      BY <1>1, <1>7, <2>1, <2>3, QueueTail, PairTyped DEF Good
    <3>2. Talk(Tail(net[<<x, d>>]), net[<<d, x>>], Holds(x, d), Entered(x, d), Linked(x, d),
               handoff[x], accepted[d])
      BY <1>1, <1>7, <2>1, <2>3, TalkTake, PairTyped DEF Good
    <3>3. QED
      BY <1>2, <1>3, <2>1, <2>2, <2>3, <3>1, <3>2 DEF Good, Queue, Talk
  <2>4. CASE x # p
    BY <1>2, <1>3, <1>7, <2>1, <2>2, <2>4, Bystander
  <2>5. QED
    BY <2>3, <2>4
<1>8. ASSUME NEW x \in Device, NEW y \in Device, x # y, x # d, y # d PROVE Good(x, y)'
  BY <1>2, <1>3, <1>8, Others
<1>9. QED
  BY <1>6, <1>7, <1>8 DEF Agree

(* d takes an input message. *)
LEMMA InputAgrees ==
    ASSUME TypeOK, Agree, NEW d \in Device, NEW p \in Device, d # p,
           Arrives(d, p, "Input"),
           NEW r, r.mail.to \notin Device, r.state = state[d],
           NEW n, Execute(d, r, Rest(d, p), n),
           handoff' = handoff, accepted' = accepted, announced' = announced
    PROVE  Agree'
<1>1. /\ net[<<p, d>>] # <<>> /\ Head(net[<<p, d>>]).body \notin Answers
      /\ Head(net[<<p, d>>]).body \notin Enters /\ Head(net[<<p, d>>]).body \notin Losses
  BY HeadBodies
<1>2. /\ \A z \in Device : state'[z] = state[z]
      /\ connected' = connected
      /\ net'[<<p, d>>] = Tail(net[<<p, d>>])
      /\ \A x, y \in Device : (x # y /\ ~ (x = p /\ y = d)) => net'[<<x, y>>] = net[<<x, y>>]
  BY <1>1, Takes
<1>3. SUFFICES ASSUME NEW x \in Device, NEW y \in Device, x # y PROVE Good(x, y)'
  BY DEF Agree
<1>4. /\ Holds(x, y)' <=> Holds(x, y)
      /\ Entered(x, y)' <=> Entered(x, y)
      /\ Linked(x, y)' <=> Linked(x, y)
      /\ Linked(y, x)' <=> Linked(y, x)
  BY <1>2 DEF Holds, Entered, Linked
<1>5. Good(x, y)
  BY <1>3 DEF Agree
<1>6. CASE x = p /\ y = d
  <2>1. Queue(Tail(net[<<x, y>>]), Linked(x, y))
    BY <1>1, <1>3, <1>5, <1>6, QueueTail, PairTyped DEF Good
  <2>2. Talk(Tail(net[<<x, y>>]), net[<<y, x>>], Holds(x, y), Entered(x, y), Linked(x, y),
             handoff[x], accepted[y])
    BY <1>1, <1>3, <1>5, <1>6, TalkTake, PairTyped DEF Good
  <2>3. net'[<<y, x>>] = net[<<y, x>>]
    BY <1>2, <1>3, <1>6
  <2>4. QED
    BY <1>2, <1>4, <1>5, <1>6, <2>1, <2>2, <2>3 DEF Good, Queue, Talk
<1>7. CASE x = d /\ y = p
  <2>1. Talk(net[<<x, y>>], Tail(net[<<y, x>>]), Holds(x, y), Entered(x, y), Linked(x, y),
             handoff[x], accepted[y])
    BY <1>1, <1>3, <1>5, <1>7, TalkRead, PairTyped DEF Good
  <2>2. net'[<<x, y>>] = net[<<x, y>>]
    BY <1>2, <1>3, <1>7
  <2>3. QED
    BY <1>2, <1>4, <1>5, <1>7, <2>1, <2>2 DEF Good, Queue, Talk
<1>8. CASE ~ (x = p /\ y = d) /\ ~ (x = d /\ y = p)
  <2>1. net'[<<x, y>>] = net[<<x, y>>] /\ net'[<<y, x>>] = net[<<y, x>>]
    BY <1>2, <1>3, <1>8
  <2>2. QED
    BY <1>4, <1>5, <2>1, Bystander
<1>9. QED
  BY <1>3, <1>6, <1>7, <1>8

(* d takes the loss of its connection to p. *)
LEMMA LossAgrees ==
    ASSUME TypeOK, Agree, NEW d \in Device, NEW p \in Device, d # p,
           Arrives(d, p, "ConnectionLost"),
           NEW r, r.mail.to \notin Device,
           r.state = IF state[d] \in {Controlling(p), BeingControlled(p)} THEN Idle ELSE state[d],
           NEW n, Execute(d, r, Rest(d, p), n), UNCHANGED history
    PROVE  Agree'
<1>1. net[<<p, d>>] # <<>> /\ Head(net[<<p, d>>]).body \in Losses
  BY HeadBodies
<1>2. /\ state'[d] = r.state
      /\ \A z \in Device \ {d} : state'[z] = state[z]
      /\ connected' = connected
      /\ net'[<<p, d>>] = Tail(net[<<p, d>>])
      /\ net'[<<d, p>>] = net[<<d, p>>]
      /\ \A x, y \in Device : (x # y /\ ~ (x = p /\ y = d)) => net'[<<x, y>>] = net[<<x, y>>]
  BY <1>1, Takes
<1>3. handoff' = handoff /\ accepted' = accepted /\ announced' = announced
  BY DEF history
<1>4. ~ Linked(p, d) /\ ~ Linked(d, p) /\ LossLast(net[<<p, d>>])
  <2>1. Good(d, p) /\ Good(p, d) /\ net[<<p, d>>] \in Seq(Message)
    BY PairTyped DEF Agree
  <2>2. Has(net[<<p, d>>], Losses)
    BY <1>1, <2>1, HasTail
  <2>3. QED
    BY <2>1, <2>2 DEF Good, Queue
<1>5. /\ state'[d] # Controlling(p) /\ state'[d] # BeingControlled(p)
      /\ \A y \in Device \ {p} : /\ state'[d] = Controlling(y) <=> state[d] = Controlling(y)
                                 /\ state'[d] = BeingControlled(y) <=> state[d] = BeingControlled(y)
  <2>1. ASSUME NEW y \in Device
        PROVE  Idle # Controlling(y) /\ Idle # BeingControlled(y)
    BY LocalStateDistinct
  <2>2. ASSUME NEW y \in Device \ {p}
        PROVE  /\ Controlling(y) # Controlling(p) /\ BeingControlled(y) # BeingControlled(p)
               /\ Controlling(y) # BeingControlled(p) /\ BeingControlled(y) # Controlling(p)
    BY LocalStateDistinct
  <2>3. QED
    BY <1>2, <2>1, <2>2
<1>6. ASSUME NEW y \in Device, y # d PROVE Good(d, y)'
  <2>1. Good(d, y)
    BY <1>6 DEF Agree
  <2>2. /\ Entered(d, y)' <=> Entered(d, y)
        /\ Linked(d, y)' <=> Linked(d, y)
        /\ Linked(y, d)' <=> Linked(y, d)
    BY <1>2, <1>6 DEF Entered, Linked
  <2>3. CASE y = p
    <3>1. ~ Holds(d, y)'
      BY <1>5, <2>3 DEF Holds
    <3>2. Talk(net[<<d, y>>], net[<<y, d>>], Holds(d, y), Entered(d, y), FALSE,
               handoff[d], accepted[y])
      BY <1>4, <2>1, <2>3 DEF Good, Talk
    <3>3. Talk(net[<<d, y>>], Tail(net[<<y, d>>]), FALSE, Entered(d, y), FALSE,
               handoff[d], accepted[y])
      BY <1>1, <1>4, <1>6, <2>3, <3>2, TalkLossRead, PairTyped
    <3>4. QED
      BY <1>2, <1>3, <1>4, <2>1, <2>2, <2>3, <3>1, <3>3 DEF Good, Queue, Talk
  <2>4. CASE y # p
    <3>1. Holds(d, y)' <=> Holds(d, y)
      BY <1>3, <1>5, <2>4 DEF Holds
    <3>2. QED
      BY <1>2, <1>3, <1>6, <2>1, <2>2, <2>4, <3>1, Bystander
  <2>5. QED
    BY <2>3, <2>4
<1>7. ASSUME NEW x \in Device, x # d PROVE Good(x, d)'
  <2>1. Good(x, d)
    BY <1>7 DEF Agree
  <2>2. /\ Holds(x, d)' <=> Holds(x, d)
        /\ Linked(x, d)' <=> Linked(x, d)
        /\ Linked(d, x)' <=> Linked(d, x)
    BY <1>2, <1>3, <1>7 DEF Holds, Linked
  <2>3. CASE x = p
    <3>1. ~ Entered(x, d)'
      BY <1>5, <2>3 DEF Entered
    <3>2. Queue(Tail(net[<<x, d>>]), Linked(x, d))
      BY <1>1, <1>7, <2>1, <2>3, QueueTail, PairTyped DEF Good
    <3>3. Talk(net[<<x, d>>], net[<<d, x>>], Holds(x, d), Entered(x, d), FALSE,
               handoff[x], accepted[d])
      BY <1>4, <2>1, <2>3 DEF Good, Talk
    <3>4. Talk(Tail(net[<<x, d>>]), net[<<d, x>>], Holds(x, d), FALSE, FALSE,
               handoff[x], accepted[d])
      BY <1>1, <1>4, <1>7, <2>3, <3>3, TalkLossTake, PairTyped
    <3>5. QED
      BY <1>2, <1>3, <1>4, <2>1, <2>2, <2>3, <3>1, <3>2, <3>4 DEF Good, Queue, Talk
  <2>4. CASE x # p
    <3>1. Entered(x, d)' <=> Entered(x, d)
      BY <1>5, <2>4 DEF Entered
    <3>2. QED
      BY <1>2, <1>3, <1>7, <2>1, <2>2, <2>4, <3>1, Bystander
  <2>5. QED
    BY <2>3, <2>4
<1>8. ASSUME NEW x \in Device, NEW y \in Device, x # y, x # d, y # d PROVE Good(x, y)'
  BY <1>2, <1>3, <1>8, Others
<1>9. QED
  BY <1>6, <1>7, <1>8 DEF Agree

LEMMA ReceiveAgrees ==
    ASSUME TypeOK, Agree, NEW d \in Device, NEW p \in Device, d # p, Receive(d, p)
    PROVE  Agree'
<1> USE DEF history
<1>1. state[d] \in LocalState /\ NoMail.to \notin Device
  BY DeviceAssumption DEF TypeOK, NoMail
<1>2. CASE PeerEdgeEnter(d, p) /\ state[d] = Idle
  <2> DEFINE r == OnPeerEdgeEnter(state[d], p)
  <2>1. r = Outcome(BeingControlled(p), "keep", NoMail, "warp")
    BY <1>2 DEF OnPeerEdgeEnter
  <2>2. r.local = "warp"
    BY <2>1 DEF Outcome
  <2> HIDE DEF r
  <2>3. /\ Arrives(d, p, "EdgeEnter") /\ Execute(d, r, Rest(d, p), Tag(d, p))
        /\ accepted' = [accepted EXCEPT ![d] = Tag(d, p)]
        /\ handoff' = handoff /\ announced' = announced
    BY <1>2, <2>2 DEF PeerEdgeEnter, r
  <2>4. QED
    BY <1>2, <2>1, <2>3, AcceptAgrees
<1>3. CASE PeerEdgeEnter(d, p) /\ state[d] # Idle
  <2> DEFINE r == OnPeerEdgeEnter(state[d], p)
  <2>1. r = Outcome(state[d], "keep", SendMessage(p, "EdgeEnterRejected"), "none")
    BY <1>3 DEF OnPeerEdgeEnter
  <2>2. r.local # "warp"
    BY <2>1 DEF Outcome
  <2> HIDE DEF r
  <2>3. /\ Arrives(d, p, "EdgeEnter") /\ Execute(d, r, Rest(d, p), Tag(d, p))
        /\ accepted' = accepted /\ handoff' = handoff /\ announced' = announced
    BY <1>3, <2>2 DEF PeerEdgeEnter, r
  <2>4. QED
    BY <1>3, <2>1, <2>3, RejectAgrees
<1>4. CASE PeerEdgeEnterRejected(d, p)
  <2> DEFINE r == OnPeerEdgeEnterRejected(state[d], p)
  <2>1. /\ r.mail.to \notin Device /\ r.state # Controlling(p)
        /\ state[d] = Controlling(p) => r.state = Idle
    BY <1>1, LocalStateDistinct DEF OnPeerEdgeEnterRejected, Outcome, Ignored
  <2> HIDE DEF r
  <2>2. Arrives(d, p, "EdgeEnterRejected") /\ Execute(d, r, Rest(d, p), 0) /\ UNCHANGED history
    BY <1>4 DEF PeerEdgeEnterRejected, r
  <2>3. QED
    BY <2>1, <2>2, AnsweredAgrees
<1>5. CASE PeerEdgeRelease(d, p)
  <2> DEFINE r == OnPeerEdgeRelease(state[d], p)
  <2>1. /\ r.mail.to \notin Device /\ r.state # Controlling(p)
        /\ state[d] = Controlling(p) => r.state = Idle
    BY <1>1, LocalStateDistinct DEF OnPeerEdgeRelease, Outcome, Ignored
  <2> HIDE DEF r
  <2>2. Arrives(d, p, "EdgeRelease") /\ Execute(d, r, Rest(d, p), 0) /\ UNCHANGED history
    BY <1>5 DEF PeerEdgeRelease, r
  <2>3. QED
    BY <2>1, <2>2, AnsweredAgrees
<1>6. CASE PeerInputMessage(d, p)
  <2> DEFINE r == OnPeerInputMessage(state[d], p)
  <2>1. r.mail.to \notin Device /\ r.state = state[d]
    BY <1>1 DEF OnPeerInputMessage, Outcome, Ignored
  <2> HIDE DEF r
  <2>2. /\ Arrives(d, p, "Input") /\ Execute(d, r, Rest(d, p), 0)
        /\ handoff' = handoff /\ accepted' = accepted /\ announced' = announced
    BY <1>6 DEF PeerInputMessage, r
  <2>3. QED
    BY <2>1, <2>2, InputAgrees
<1>7. CASE ConnectionLost(d, p)
  <2> DEFINE r == OnConnectionLost(state[d], p)
  <2>1. /\ r.mail.to \notin Device
        /\ r.state = IF state[d] \in {Controlling(p), BeingControlled(p)} THEN Idle ELSE state[d]
    BY <1>1 DEF OnConnectionLost, Outcome, Ignored
  <2> HIDE DEF r
  <2>2. Arrives(d, p, "ConnectionLost") /\ Execute(d, r, Rest(d, p), 0) /\ UNCHANGED history
    BY <1>7 DEF ConnectionLost, r
  <2>3. QED
    BY <2>1, <2>2, LossAgrees
<1>8. QED
  BY <1>2, <1>3, <1>4, <1>5, <1>6, <1>7 DEF Receive

-----------------------------------------------------------------------------
(* Faults *)

LEMMA LoseConnectionAgrees ==
    ASSUME TypeOK, Agree, NEW d \in Device, NEW p \in Device, d # p, LoseConnection(d, p)
    PROVE  Agree'
<1>1. PICK there \in Broken(net[<<d, p>>]), back \in Broken(net[<<p, d>>]) :
          net' = [net EXCEPT ![<<d, p>>] = there, ![<<p, d>>] = back]
  BY DEF LoseConnection
<1>2. <<d, p>> \in Pair /\ <<p, d>> \in Pair /\ <<d, p>> # <<p, d>>
  BY PairFacts
<1>3. /\ net'[<<d, p>>] \in Broken(net[<<d, p>>])
      /\ net'[<<p, d>>] \in Broken(net[<<p, d>>])
      /\ \A x, y \in Device : (x # y /\ {x, y} # {d, p}) => net'[<<x, y>>] = net[<<x, y>>]
  <2>1. net'[<<d, p>>] = there /\ net'[<<p, d>>] = back
    BY <1>1, <1>2 DEF TypeOK
  <2>2. \A x, y \in Device : (x # y /\ {x, y} # {d, p}) => net'[<<x, y>>] = net[<<x, y>>]
    BY <1>1, PairFacts DEF TypeOK
  <2>3. QED
    BY <2>1, <2>2
<1>4. /\ connected' = connected \ {<<d, p>>, <<p, d>>} /\ <<d, p>> \in connected
      /\ state' = state /\ handoff' = handoff /\ accepted' = accepted /\ announced' = announced
  BY DEF LoseConnection, history
<1>5. SUFFICES ASSUME NEW x \in Device, NEW y \in Device, x # y PROVE Good(x, y)'
  BY DEF Agree
<1>6. Good(x, y) /\ (Holds(x, y)' <=> Holds(x, y)) /\ (Entered(x, y)' <=> Entered(x, y))
  BY <1>4, <1>5 DEF Agree, Holds, Entered
<1>7. CASE {x, y} = {d, p}
  <2>1. /\ net'[<<x, y>>] \in Broken(net[<<x, y>>]) /\ net'[<<y, x>>] \in Broken(net[<<y, x>>])
        /\ ~ Linked(x, y)' /\ ~ Linked(y, x)'
    BY <1>3, <1>4, <1>5, <1>7 DEF Linked
  <2>2. Linked(x, y)
    <3>1. Good(d, p) /\ Linked(d, p)
      BY <1>4 DEF Agree, Linked
    <3>2. QED
      BY <1>5, <1>7, <3>1 DEF Good
  <2>3. Queue(net'[<<x, y>>], FALSE)
    <3>1. Queue(net[<<x, y>>], TRUE)
      BY <1>6, <2>2 DEF Good, Queue
    <3>2. QED
      BY <1>5, <2>1, <3>1, QueueBroken, PairTyped
  <2>4. Talk(net'[<<x, y>>], net'[<<y, x>>], Holds(x, y), Entered(x, y), FALSE,
             handoff[x], accepted[y])
    BY <1>5, <1>6, <2>1, TalkBroken, PairTyped DEF Good
  <2>5. QED
    BY <1>4, <1>6, <2>1, <2>3, <2>4 DEF Good, Queue, Talk
<1>8. CASE {x, y} # {d, p}
  <2>1. /\ net'[<<x, y>>] = net[<<x, y>>] /\ net'[<<y, x>>] = net[<<y, x>>]
        /\ Linked(x, y)' <=> Linked(x, y)
        /\ Linked(y, x)' <=> Linked(y, x)
    BY <1>3, <1>4, <1>5, <1>8 DEF Linked
  <2>2. QED
    BY <1>4, <1>6, <2>1, Bystander
<1>9. QED
  BY <1>5, <1>7, <1>8

LEMMA ReconnectAgrees ==
    ASSUME TypeOK, Agree, NEW d \in Device, NEW p \in Device, d # p, Reconnect(d, p)
    PROVE  Agree'
<1>1. /\ connected' = connected \cup {<<d, p>>, <<p, d>>} /\ <<d, p>> \notin connected
      /\ ~ Has(net[<<d, p>>], Losses) /\ ~ Has(net[<<p, d>>], Losses)
      /\ net' = net /\ state' = state
      /\ handoff' = handoff /\ accepted' = accepted /\ announced' = announced
  BY DEF Reconnect, LossPending, history
<1>2. SUFFICES ASSUME NEW x \in Device, NEW y \in Device, x # y PROVE Good(x, y)'
  BY DEF Agree
<1>3. Good(x, y) /\ (Holds(x, y)' <=> Holds(x, y)) /\ (Entered(x, y)' <=> Entered(x, y))
  BY <1>1, <1>2 DEF Agree, Holds, Entered
<1>4. CASE {x, y} = {d, p}
  <2>1. Linked(x, y)' /\ Linked(y, x)'
    BY <1>1, <1>2, <1>4 DEF Linked
  <2>2. ~ Linked(x, y)
    <3>1. Good(p, d) /\ ~ Linked(d, p)
      BY <1>1 DEF Agree, Linked
    <3>2. QED
      BY <1>2, <1>4, <3>1 DEF Good
  <2>3. ~ Has(net[<<x, y>>], Losses) /\ ~ Has(net[<<y, x>>], Losses)
    BY <1>1, <1>2, <1>4
  <2>4. Talk(net[<<x, y>>], net[<<y, x>>], Holds(x, y), Entered(x, y), TRUE,
             handoff[x], accepted[y])
    <3>1. Talk(net[<<x, y>>], net[<<y, x>>], Holds(x, y), Entered(x, y), FALSE,
               handoff[x], accepted[y])
      BY <1>3, <2>2 DEF Good, Talk
    <3>2. QED
      BY <2>3, <3>1, TalkReconnect
  <2>5. QED
    BY <1>1, <1>3, <2>1, <2>3, <2>4 DEF Good, Queue, Talk
<1>5. CASE {x, y} # {d, p}
  <2>1. (Linked(x, y)' <=> Linked(x, y)) /\ (Linked(y, x)' <=> Linked(y, x))
    BY <1>1, <1>2, <1>5 DEF Linked
  <2>2. QED
    BY <1>1, <1>3, <2>1, Bystander
<1>6. QED
  BY <1>2, <1>4, <1>5

LEMMA RestartAgrees ==
    ASSUME TypeOK, Agree, NEW d \in Device, Restart(d)
    PROVE  Agree'
<1> DEFINE Outcomes(p) == IF <<d, p>> \in connected THEN Broken(net[<<d, p>>]) ELSE {net[<<d, p>>]}
<1>1. PICK left : /\ \A p \in Device \ {d} : left[p] \in Outcomes(p)
                  /\ net' = [dp \in Pair |-> IF dp[1] = d THEN left[dp[2]]
                                             ELSE IF dp[2] = d THEN <<>> ELSE net[dp]]
  BY DEF Restart
<1>2. /\ \A y \in Device \ {d} : net'[<<d, y>>] = left[y] /\ net'[<<y, d>>] = <<>>
      /\ \A x, y \in Device \ {d} : x # y => net'[<<x, y>>] = net[<<x, y>>]
  BY <1>1, PairFacts
<1>3. ASSUME NEW y \in Device \ {d}
      PROVE  /\ Linked(d, y) => net'[<<d, y>>] \in Broken(net[<<d, y>>])
             /\ ~ Linked(d, y) => net'[<<d, y>>] = net[<<d, y>>]
  BY <1>1, <1>2 DEF Linked
<1>4. /\ state'[d] = Idle /\ \A z \in Device \ {d} : state'[z] = state[z]
      /\ connected' = {dp \in connected : d \notin {dp[1], dp[2]}}
      /\ handoff' = handoff /\ accepted' = accepted /\ announced' = announced
  BY DEF Restart, history, TypeOK
<1> HIDE DEF Outcomes
<1>5. ASSUME NEW y \in Device, y # d PROVE Good(d, y)'
  <2>1. Good(d, y) /\ ~ Holds(d, y)' /\ ~ Linked(d, y)' /\ ~ Linked(y, d)'
    BY <1>4, <1>5, LocalStateDistinct DEF Agree, Holds, Linked
  <2>2. Entered(d, y)' <=> Entered(d, y)
    BY <1>4, <1>5 DEF Entered
  <2>3. CASE Linked(d, y)
    <3>1. /\ Queue(net[<<d, y>>], TRUE)
          /\ Talk(net[<<d, y>>], net[<<y, d>>], Holds(d, y), Entered(d, y), TRUE,
                  handoff[d], accepted[y])
      BY <2>1, <2>3 DEF Good, Queue, Talk
    <3>2. net'[<<d, y>>] \in Broken(net[<<d, y>>])
      BY <1>3, <1>5, <2>3
    <3>3. Queue(net'[<<d, y>>], FALSE)
      BY <1>5, <3>1, <3>2, QueueBroken, PairTyped
    <3>4. Talk(net'[<<d, y>>], <<>>, FALSE, Entered(d, y), FALSE, handoff[d], accepted[y])
      BY <1>5, <3>1, <3>2, TalkRestartController, PairTyped
    <3>5. QED
      BY <1>2, <1>4, <1>5, <2>1, <2>2, <3>3, <3>4 DEF Good, Queue, Talk
  <2>4. CASE ~ Linked(d, y)
    <3>1. Talk(net[<<d, y>>], net[<<y, d>>], Holds(d, y), Entered(d, y), FALSE,
               handoff[d], accepted[y])
      BY <2>1, <2>4 DEF Good, Talk
    <3>2. Talk(net[<<d, y>>], <<>>, FALSE, Entered(d, y), FALSE, handoff[d], accepted[y])
      BY <1>5, <3>1, TalkRestartController, PairTyped
    <3>3. QED
      BY <1>2, <1>3, <1>4, <1>5, <2>1, <2>2, <2>4, <3>2 DEF Good, Queue, Talk
  <2>5. QED
    BY <2>3, <2>4
<1>6. ASSUME NEW x \in Device, x # d PROVE Good(x, d)'
  <2>1. Good(x, d) /\ ~ Entered(x, d)' /\ ~ Linked(d, x)' /\ ~ Linked(x, d)'
    BY <1>4, <1>6, LocalStateDistinct DEF Agree, Entered, Linked
  <2>2. Holds(x, d)' <=> Holds(x, d)
    BY <1>4, <1>6 DEF Holds
  <2>3. Linked(d, x) <=> Linked(x, d)
    BY <1>6 DEF Agree, Good
  <2>4. CASE Linked(d, x)
    <3>1. Talk(net[<<x, d>>], net[<<d, x>>], Holds(x, d), Entered(x, d), TRUE,
               handoff[x], accepted[d])
      BY <2>1, <2>3, <2>4 DEF Good, Talk
    <3>2. net'[<<d, x>>] \in Broken(net[<<d, x>>])
      BY <1>3, <1>6, <2>4
    <3>3. Talk(<<>>, net'[<<d, x>>], Holds(x, d), FALSE, FALSE, handoff[x], accepted[d])
      BY <1>6, <3>1, <3>2, TalkRestartTarget, PairTyped
    <3>4. QED
      BY <1>2, <1>4, <1>6, <2>1, <2>2, <3>3, EmptyQueue DEF Good, Queue, Talk
  <2>5. CASE ~ Linked(d, x)
    <3>1. Talk(net[<<x, d>>], net[<<d, x>>], Holds(x, d), Entered(x, d), FALSE,
               handoff[x], accepted[d])
      BY <2>1, <2>3, <2>5 DEF Good, Talk
    <3>2. Talk(<<>>, net[<<d, x>>], Holds(x, d), FALSE, FALSE, handoff[x], accepted[d])
      BY <1>6, <3>1, TalkRestartTarget, PairTyped
    <3>3. QED
      BY <1>2, <1>3, <1>4, <1>6, <2>1, <2>2, <2>5, <3>2, EmptyQueue DEF Good, Queue, Talk
  <2>6. QED
    BY <2>4, <2>5
<1>7. ASSUME NEW x \in Device, NEW y \in Device, x # y, x # d, y # d PROVE Good(x, y)'
  <2>1. Good(x, y)
    BY <1>7 DEF Agree
  <2>2. /\ Holds(x, y)' <=> Holds(x, y)
        /\ Entered(x, y)' <=> Entered(x, y)
        /\ Linked(x, y)' <=> Linked(x, y)
        /\ Linked(y, x)' <=> Linked(y, x)
    BY <1>4, <1>7 DEF Holds, Entered, Linked
  <2>3. QED
    BY <1>2, <1>4, <1>7, <2>1, <2>2, Bystander
<1>8. QED
  BY <1>5, <1>6, <1>7 DEF Agree

-----------------------------------------------------------------------------
(* The theorems *)

LEMMA InitAgrees == Init => Agree
<1>1. ASSUME Init, NEW x \in Device, NEW y \in Device, x # y
      PROVE  Good(x, y)
  <2>1. <<x, y>> \in Pair /\ <<y, x>> \in Pair
    BY <1>1, PairFacts
  <2>2. net[<<x, y>>] = <<>> /\ net[<<y, x>>] = <<>> /\ Linked(x, y) /\ Linked(y, x)
    BY <1>1, <2>1 DEF Init, Linked
  <2>3. ~ Holds(x, y) /\ ~ Entered(x, y)
    BY <1>1, LocalStateDistinct DEF Init, Holds, Entered
  <2>4. QED
    BY <2>2, <2>3, EmptyQueue DEF Good, Queue, Talk
<1>2. QED
  BY <1>1 DEF Agree

LEMMA StepAgrees ==
    ASSUME ChordUsers = {}, TypeOK, Agree, [Next]_vars
    PROVE  Agree'
<1>1. ASSUME NEW d \in Device, NEW e \in ScreenEdge, CursorAtEdge(d, e)
      PROVE  Agree'
  BY <1>1, CursorAtEdgeAgrees
<1>2. ASSUME NEW d \in Device, LocalMouseEvent(d)
      PROVE  Agree'
  BY <1>2, ForwardAgrees DEF LocalMouseEvent
<1>3. ASSUME NEW d \in Device, NEW pressed, NEW held, LocalKeyEvent(d, pressed, held)
      PROVE  Agree'
  <2>1. OnLocalKeyEvent(d, state[d], pressed, held) = ForwardIfControlling(state[d])
    BY <1>3 DEF LocalKeyEvent, OnLocalKeyEvent
  <2>2. Execute(d, ForwardIfControlling(state[d]), net, handoff[d]) /\ UNCHANGED history
    BY <1>3, <2>1 DEF LocalKeyEvent
  <2>3. QED
    BY <2>2, ForwardAgrees
<1>4. ASSUME NEW d \in Device, Restart(d)
      PROVE  Agree'
  BY <1>4, RestartAgrees
<1>5. ASSUME NEW d \in Device, NEW p \in Device, d # p,
             Receive(d, p) \/ LoseConnection(d, p) \/ Reconnect(d, p)
      PROVE  Agree'
  BY <1>5, ReceiveAgrees, LoseConnectionAgrees, ReconnectAgrees
<1>6. CASE UNCHANGED vars
  BY <1>6 DEF vars, Agree, Good, Holds, Entered, Linked
<1>7. QED
  BY <1>1, <1>2, <1>3, <1>4, <1>5, <1>6 DEF Next, Pair

(***************************************************************************)
(* Where nobody presses the chord, every pair of devices keeps to the      *)
(* conversation: over any crossings, rejections, releases, lost            *)
(* connections and restarts a hand-off has one token, and it is current.   *)
(***************************************************************************)
THEOREM ConversationCorrect ==
    ASSUME ChordUsers = {}
    PROVE  Spec => []ConversationInv
<1>1. Init => Agree
  BY InitAgrees
<1>2. TypeOK /\ Agree /\ [Next]_vars => Agree'
  BY StepAgrees
<1>3. Spec => []Agree
  BY <1>1, <1>2, TypeCorrect, PTL DEF Spec
<1>4. QED
  BY <1>3, AgreeIsConversation, PTL

LEMMA AgreeServes ==
    ASSUME TypeOK, Agree
    PROVE  ControllerIsServed /\ TargetIsDriven /\ AnswersAreCurrent
<1>1. SUFFICES ASSUME NEW d \in Device, NEW p \in Device, d # p
      PROVE  /\ (state[d] = Controlling(p) /\ announced[d]) =>
                  \/ OnTheWay(d, p, Enters, handoff[d])
                  \/ state[p] = BeingControlled(d) /\ accepted[p] = handoff[d]
                  \/ OnTheWay(p, d, Answers, handoff[d])
                  \/ LossPending(p, d)
             /\ state[d] = BeingControlled(p) =>
                  \/ state[p] = Controlling(d) /\ accepted[d] = handoff[p]
                  \/ LossPending(p, d)
             /\ (state[d] = Controlling(p) /\ net[<<p, d>>] # <<>>
                   /\ Head(net[<<p, d>>]).body \in Answers) => Tag(d, p) = handoff[d]
  BY DEF Pair, ControllerIsServed, TargetIsDriven, AnswersAreCurrent
<1>2. Good(d, p) /\ Good(p, d) /\ net[<<p, d>>] \in Seq(Message)
  BY <1>1, PairTyped DEF Agree
<1>3. ASSUME NEW q, NEW B, NEW n, Has(q, B), Tagged(q, B, n)
      PROVE  \E i \in DOMAIN q : q[i].body \in B /\ q[i].n = n
  BY <1>3 DEF Has, Tagged
<1>4. ASSUME state[d] = Controlling(p), announced[d]
      PROVE  \/ OnTheWay(d, p, Enters, handoff[d])
             \/ state[p] = BeingControlled(d) /\ accepted[p] = handoff[d]
             \/ OnTheWay(p, d, Answers, handoff[d])
             \/ LossPending(p, d)
  <2>1. Holds(d, p)
    BY <1>4 DEF Holds
  <2>2. CASE ~ Linked(d, p)
    BY <1>2, <2>1, <2>2 DEF Good, Talk, LossPending
  <2>3. CASE Linked(d, p)
    <3>1. ~ Has(net[<<d, p>>], Losses)
      BY <1>2, <2>3 DEF Good, Queue
    <3>2. CASE Has(net[<<d, p>>], Enters)
      BY <1>2, <1>3, <3>1, <3>2 DEF Good, Talk, OnTheWay
    <3>3. CASE Entered(d, p)
      BY <1>2, <3>1, <3>3 DEF Good, Talk, Entered
    <3>4. CASE Has(net[<<p, d>>], Answers)
      BY <1>2, <1>3, <3>4 DEF Good, Talk, OnTheWay
    <3>5. QED
      BY <1>2, <2>1, <2>3, <3>2, <3>3, <3>4 DEF Good, Talk
  <2>4. QED
    BY <2>2, <2>3
<1>5. ASSUME state[d] = BeingControlled(p)
      PROVE  \/ state[p] = Controlling(d) /\ accepted[d] = handoff[p]
             \/ LossPending(p, d)
  BY <1>2, <1>5 DEF Good, Talk, Entered, Holds, LossPending
<1>6. ASSUME net[<<p, d>>] # <<>>, Head(net[<<p, d>>]).body \in Answers
      PROVE  Tag(d, p) = handoff[d]
  <2>1. Has(net[<<p, d>>], Answers)
    BY <1>2, <1>6, HasTail
  <2>2. Tagged(net[<<p, d>>], Answers, handoff[d])
    BY <1>2, <2>1 DEF Good, Talk
  <2>3. QED
    BY <1>2, <1>6, <2>2, TaggedTail DEF Tag
<1>7. QED
  BY <1>4, <1>5, <1>6

(* An announced controller is served, by its own hand-off, for any devices. *)
THEOREM ControllerServed ==
    ASSUME ChordUsers = {}
    PROVE  Spec => []ControllerIsServed
<1>1. Spec => []Agree
  BY ConversationCorrect, AgreeIsConversation, PTL
<1>2. QED
  BY <1>1, AgreeServes, TypeCorrect, PTL

(* A controlled device is driven by the peer it believes controls it. *)
THEOREM TargetDriven ==
    ASSUME ChordUsers = {}
    PROVE  Spec => []TargetIsDriven
<1>1. Spec => []Agree
  BY ConversationCorrect, AgreeIsConversation, PTL
<1>2. QED
  BY <1>1, AgreeServes, TypeCorrect, PTL

(* The answer a controller handles is the one to its present hand-off. *)
THEOREM AnswersCurrent ==
    ASSUME ChordUsers = {}
    PROVE  Spec => []AnswersAreCurrent
<1>1. Spec => []Agree
  BY ConversationCorrect, AgreeIsConversation, PTL
<1>2. QED
  BY <1>1, AgreeServes, TypeCorrect, PTL

(***************************************************************************)
(* No input reaches a device but from its controller and of the hand-off   *)
(* it accepted, however crossings, losses and restarts interleave.         *)
(***************************************************************************)
THEOREM InjectionCorrect ==
    ASSUME ChordUsers = {}
    PROVE  Spec => InjectsOnlyItsHandoff
<1> DEFINE Fits == \A d \in Device : injected'[d] # injected[d] =>
                       /\ state[d] = BeingControlled(injected'[d].from)
                       /\ accepted[d] = injected'[d].n
<1>1. ASSUME TypeOK, Agree, NEW d \in Device, NEW p \in Device, d # p, PeerInputMessage(d, p)
      PROVE  Fits
  <2> DEFINE r == OnPeerInputMessage(state[d], p)
  <2>1. r.local = "inject" => state[d] = BeingControlled(p)
    BY DEF OnPeerInputMessage, Outcome, Ignored
  <2> HIDE DEF r
  <2>2. /\ Arrives(d, p, "Input")
        /\ injected' = IF r.local = "inject"
                       THEN [injected EXCEPT ![d] = [from |-> p, n |-> Tag(d, p)]]
                       ELSE injected
    BY <1>1 DEF PeerInputMessage, r
  <2>3. CASE r.local = "inject"
    <3>1. /\ net[<<p, d>>] # <<>> /\ Head(net[<<p, d>>]).body \in Inputs
          /\ Head(net[<<p, d>>]).n = Tag(d, p)
      BY <2>2, HeadBodies
    <3>2. Good(p, d) /\ Entered(p, d) /\ net[<<p, d>>] \in Seq(Message)
      BY <1>1, <2>1, <2>3, PairTyped DEF Agree, Entered
    <3>3. Tagged(net[<<p, d>>], Inputs, accepted[d])
      BY <3>2 DEF Good, Talk
    <3>4. Tag(d, p) = accepted[d]
      BY <3>1, <3>2, <3>3, TaggedTail
    <3>5. QED
      BY <1>1, <2>1, <2>2, <2>3, <3>4 DEF TypeOK
  <2>4. CASE r.local # "inject"
    BY <2>2, <2>4
  <2>5. QED
    BY <2>3, <2>4
<1>2. ASSUME NEW d \in Device, NEW p \in Device,
             \/ PeerEdgeEnter(d, p) \/ PeerEdgeEnterRejected(d, p) \/ PeerEdgeRelease(d, p)
             \/ ConnectionLost(d, p) \/ LoseConnection(d, p) \/ Reconnect(d, p)
      PROVE  injected' = injected
  BY <1>2 DEF PeerEdgeEnter, PeerEdgeEnterRejected, PeerEdgeRelease, ConnectionLost,
              LoseConnection, Reconnect, history
<1>3. ASSUME NEW d \in Device,
             \/ \E e \in ScreenEdge : CursorAtEdge(d, e)
             \/ LocalMouseEvent(d)
             \/ \E pressed, held : LocalKeyEvent(d, pressed, held)
             \/ Restart(d)
      PROVE  injected' = injected
  BY <1>3, Zenon DEF CursorAtEdge, LocalMouseEvent, LocalKeyEvent, Restart, history
<1>4. ASSUME TypeOK, Agree, [Next]_vars
      PROVE  [Fits]_vars
  <2>1. CASE \E dp \in Pair : PeerInputMessage(dp[1], dp[2])
    BY <1>1, <1>4, <2>1 DEF Pair
  <2>2. CASE injected' = injected
    BY <2>2
  <2>3. CASE \E dp \in Pair : \/ Receive(dp[1], dp[2]) \/ LoseConnection(dp[1], dp[2])
                              \/ Reconnect(dp[1], dp[2])
    <3>1. PICK dp \in Pair : \/ Receive(dp[1], dp[2]) \/ LoseConnection(dp[1], dp[2])
                            \/ Reconnect(dp[1], dp[2])
      BY <2>3
    <3>2. dp[1] \in Device /\ dp[2] \in Device
      BY DEF Pair
    <3>3. PeerInputMessage(dp[1], dp[2]) \/ injected' = injected
      BY <1>2, <3>1, <3>2 DEF Receive
    <3>4. QED
      BY <2>1, <2>2, <3>3
  <2>4. CASE \E d \in Device :
                \/ \E e \in ScreenEdge : CursorAtEdge(d, e)
                \/ LocalMouseEvent(d)
                \/ \E pressed \in BOOLEAN, held \in SUBSET LogicalKey :
                       LocalKeyEvent(d, pressed, held)
                \/ Restart(d)
    <3>1. PICK d \in Device : \/ \E e \in ScreenEdge : CursorAtEdge(d, e)
                             \/ LocalMouseEvent(d)
                             \/ \E pressed, held : LocalKeyEvent(d, pressed, held)
                             \/ Restart(d)
      BY <2>4
    <3>2. injected' = injected
      BY <1>3, <3>1
    <3>3. QED
      BY <2>2, <3>2
  <2>5. QED
    BY <1>4, <2>3, <2>4 DEF Next
<1>5. Spec => []Agree
  BY ConversationCorrect, AgreeIsConversation, PTL
<1>6. QED
  BY <1>4, <1>5, TypeCorrect, PTL DEF Spec, InjectsOnlyItsHandoff

-----------------------------------------------------------------------------
(***************************************************************************)
(* Trips.  Handoff implements Trips where nobody presses the emergency     *)
(* chord: each handler, loss and restart is a step of a trip, or leaves all *)
(* trips where they are.                                                   *)
(***************************************************************************)

-----------------------------------------------------------------------------
(* No device is engaged with itself *)

Apart == \A d \in Device : state[d].peer # d

LEMMA PeersApart ==
    ASSUME NEW s, NEW d \in Device, NEW p \in Device, s.peer # d, d # p
    PROVE  /\ OnPeerEdgeEnter(s, p).state.peer # d
           /\ OnPeerEdgeEnterRejected(s, p).state.peer # d
           /\ OnPeerEdgeRelease(s, p).state.peer # d
           /\ OnPeerInputMessage(s, p).state.peer # d
           /\ OnConnectionLost(s, p).state.peer # d
BY DeviceAssumption DEF OnPeerEdgeEnter, OnPeerEdgeEnterRejected, OnPeerEdgeRelease,
       OnPeerInputMessage, OnConnectionLost, Outcome, Ignored, Idle, BeingControlled

LEMMA StepApart ==
    ASSUME TypeOK, Apart, [Next]_vars
    PROVE  Apart'
<1>1. ASSUME NEW d \in Device, NEW r, r.state.peer # d, \E queues, n : Execute(d, r, queues, n)
      PROVE  Apart'
  BY <1>1 DEF Execute, TypeOK, Apart
<1>2. \A d \in Device : state[d] \in LocalState /\ state[d].peer # d
  BY DEF TypeOK, Apart
<1>3. ASSUME NEW d \in Device, NEW e \in ScreenEdge, CursorAtEdge(d, e)
      PROVE  Apart'
  <2>1. \E queues, n : Execute(d, OnLocalCursorAtEdge(d, state[d], e), queues, n)
    BY <1>3, Zenon DEF CursorAtEdge
  <2>2. OnLocalCursorAtEdge(d, state[d], e).state.peer # d
    BY <1>2, DeviceAssumption DEF OnLocalCursorAtEdge, Outcome, Ignored, Idle, Controlling
  <2>3. QED
    BY <1>1, <2>1, <2>2
<1>4. ASSUME NEW d \in Device, LocalMouseEvent(d)
      PROVE  Apart'
  <2>1. \E queues, n : Execute(d, ForwardIfControlling(state[d]), queues, n)
    BY <1>4, Zenon DEF LocalMouseEvent
  <2>2. ForwardIfControlling(state[d]).state.peer # d
    BY <1>2 DEF ForwardIfControlling, Outcome, Ignored
  <2>3. QED
    BY <1>1, <2>1, <2>2
<1>5. ASSUME NEW d \in Device, NEW pressed, NEW held, LocalKeyEvent(d, pressed, held)
      PROVE  Apart'
  <2>1. \E queues, n : Execute(d, OnLocalKeyEvent(d, state[d], pressed, held), queues, n)
    BY <1>5, Zenon DEF LocalKeyEvent
  <2>2. OnLocalKeyEvent(d, state[d], pressed, held).state.peer # d
    BY <1>2, DeviceAssumption DEF OnLocalKeyEvent, ForceRelease, ForwardIfControlling,
                                  Outcome, Ignored, Idle
  <2>3. QED
    BY <1>1, <2>1, <2>2
<1>6. ASSUME NEW d \in Device, NEW p \in Device, d # p, Receive(d, p)
      PROVE  Apart'
  <2>1. \E r : r.state.peer # d /\ \E queues, n : Execute(d, r, queues, n)
    <3>1. CASE PeerEdgeEnter(d, p)
      BY <1>2, <1>6, <3>1, PeersApart, Zenon DEF PeerEdgeEnter
    <3>2. CASE PeerEdgeEnterRejected(d, p)
      BY <1>2, <1>6, <3>2, PeersApart, Zenon DEF PeerEdgeEnterRejected
    <3>3. CASE PeerEdgeRelease(d, p)
      BY <1>2, <1>6, <3>3, PeersApart, Zenon DEF PeerEdgeRelease
    <3>4. CASE PeerInputMessage(d, p)
      BY <1>2, <1>6, <3>4, PeersApart, Zenon DEF PeerInputMessage
    <3>5. CASE ConnectionLost(d, p)
      BY <1>2, <1>6, <3>5, PeersApart, Zenon DEF ConnectionLost
    <3>6. QED
      BY <1>6, <3>1, <3>2, <3>3, <3>4, <3>5 DEF Receive
  <2>2. QED
    BY <1>1, <2>1
<1>7. ASSUME NEW d \in Device, Restart(d)
      PROVE  Apart'
  BY <1>7, DeviceAssumption DEF Restart, TypeOK, Apart, Idle
<1>8. ASSUME NEW d, NEW p, LoseConnection(d, p) \/ Reconnect(d, p)
      PROVE  Apart'
  BY <1>8 DEF LoseConnection, Reconnect, Apart
<1>9. CASE UNCHANGED vars
  BY <1>9 DEF vars, Apart
<1>10. QED
  BY <1>3, <1>4, <1>5, <1>6, <1>7, <1>8, <1>9 DEF Next, Pair

LEMMA AlwaysApart == Spec => []Apart
<1>1. Init => Apart
  <2>1. Idle.peer = NoDevice /\ NoDevice \notin Device
    BY DeviceAssumption DEF Idle
  <2>2. QED
    BY <2>1 DEF Init, Apart
<1>2. QED
  BY <1>1, StepApart, TypeCorrect, PTL DEF Spec

-----------------------------------------------------------------------------
(* Where trips stand, before and after a step *)

(* Nothing that the leg of x depends on changes. *)
Undisturbed(x) ==
    /\ state'[x] = state[x]
    /\ \A y \in Device \ {x} : state[x] = Controlling(y) =>
          /\ announced'[x] = announced[x]
          /\ Linked(x, y)' <=> Linked(x, y)
          /\ Has(net[<<y, x>>], Answers)' <=> Has(net[<<y, x>>], Answers)
          /\ Entered(x, y)' <=> Entered(x, y)

LEMMA Stays ==
    ASSUME TypeOK, Apart, NEW x \in Device, Undisturbed(x)
    PROVE  Trip'[x] = Trip[x]
<1>1. state[x] \in LocalState /\ state[x].peer # x
  BY DEF TypeOK, Apart
<1>2. CASE state[x].role # "Controlling"
  BY <1>2 DEF Undisturbed, Trip
<1>3. CASE state[x].role = "Controlling"
  <2>1. PICK y \in Device \ {x} : state[x] = Controlling(y) /\ state[x].peer = y
    BY <1>1, <1>3, LocalStateCases, LocalStateDistinct
  <2>2. Leg(x, y)' = Leg(x, y)
    BY <2>1 DEF Undisturbed, Leg, Live, Linked, Entered
  <2>3. Trip[x] = [leg |-> Leg(x, y), to |-> y] /\ Trip'[x] = [leg |-> Leg(x, y)', to |-> y]
    BY <1>3, <2>1 DEF Undisturbed, Trip
  <2>4. QED
    BY <2>2, <2>3
<1>4. QED
  BY <1>2, <1>3

(* The trip of the device that controls y, or of none. *)
LEMMA Away ==
    ASSUME NEW x \in Device, NEW y \in Device
    PROVE  /\ state[x] = Controlling(y) => Trip[x] = [leg |-> Leg(x, y), to |-> y]
           /\ state[x].role # "Controlling" => Trip[x] = Journey!Home
           /\ state'[x] = Controlling(y) => Trip'[x] = [leg |-> Leg(x, y)', to |-> y]
           /\ state'[x].role # "Controlling" => Trip'[x] = Journey!Home
<1>1. Controlling(y).role = "Controlling" /\ Controlling(y).peer = y
  BY LocalStateDistinct
<1>2. QED
  BY <1>1 DEF Trip, Journey!Home

LEMMA Received ==
    ASSUME NEW p \in Device, NEW d \in Device
    PROVE  /\ state[p] = BeingControlled(d) => Visitor[p] = d
           /\ state[p].role # "BeingControlled" => Visitor[p] = NoDevice
           /\ state'[p] = BeingControlled(d) => Visitor'[p] = d
           /\ state'[p].role # "BeingControlled" => Visitor'[p] = NoDevice
BY LocalStateDistinct DEF Visitor

LEMMA TripChanges ==
    ASSUME \A x \in Device : Trip'[x] = Trip[x]
    PROVE  Trip' = Trip
BY DEF Trip

LEMMA TripMoves ==
    ASSUME NEW d \in Device, NEW leg, Trip'[d] = leg, \A x \in Device \ {d} : Trip'[x] = Trip[x]
    PROVE  Trip' = [Trip EXCEPT ![d] = leg]
BY DEF Trip

LEMMA VisitorStays ==
    ASSUME \A x \in Device : Visitor'[x] = Visitor[x]
    PROVE  Visitor' = Visitor
BY DEF Visitor

LEMMA VisitorMoves ==
    ASSUME NEW p \in Device, NEW d, Visitor'[p] = d,
           \A x \in Device \ {p} : state'[x] = state[x]
    PROVE  Visitor' = [Visitor EXCEPT ![p] = d]
BY DEF Visitor

(* A live hand-off is an announced one over a connection. *)
LEMMA Lives ==
    ASSUME NEW x \in Device, NEW y \in Device
    PROVE  /\ Live(x, y) <=> Holds(x, y) /\ Linked(x, y)
           /\ Live(x, y)' <=> Holds(x, y)' /\ Linked(x, y)'
BY DEF Live, Holds, Linked

(* A connection is one in both directions, and neither has reported its loss. *)
LEMMA LinkFacts ==
    ASSUME Agree, NEW x \in Device, NEW y \in Device, x # y
    PROVE  /\ Linked(x, y) <=> Linked(y, x)
           /\ Linked(x, y) => ~ Has(net[<<x, y>>], Losses)
BY DEF Agree, Good, Queue

(* What a device sends or takes that is no answer leaves its trips alone. *)
LEMMA QuietQueues ==
    ASSUME TypeOK, NEW x \in Device, NEW y \in Device, x # y
    PROVE  /\ \A m \in Message : m.body \notin Answers =>
                 (Has(Append(net[<<y, x>>], m), Answers) <=> Has(net[<<y, x>>], Answers))
           /\ (net[<<y, x>>] # <<>> /\ Head(net[<<y, x>>]).body \notin Answers) =>
                 (Has(Tail(net[<<y, x>>]), Answers) <=> Has(net[<<y, x>>], Answers))
BY PairTyped, HasAppend, HasTail

LEMMA OutOfTouchUnlessLive ==
    ASSUME TypeOK, NEW d \in Device, NEW p \in Device, ~ Live(d, p)
    PROVE  Journey!OutOfTouch(d, p)
<1>1. CASE state[d] = Controlling(p)
  <2>1. Trip[d] = [leg |-> "cut", to |-> p]
    BY <1>1, Away DEF Leg
  <2>2. QED
    BY <2>1 DEF Journey!OutOfTouch, Journey!Asking, Journey!There, Journey!Returning, Journey!On
<1>2. CASE state[d] # Controlling(p)
  <2>1. Trip[d].to # p
    <3>1. state[d].role = "Controlling" => state[d].peer # p
      <4>1. state[d] \in LocalState
        BY DEF TypeOK
      <4>2. QED
        BY <1>2, <4>1, LocalStateCases, LocalStateDistinct
    <3>2. NoDevice # p
      BY DeviceAssumption
    <3>3. QED
      BY <3>1, <3>2 DEF Trip
  <2>2. QED
    BY <2>1 DEF Journey!OutOfTouch, Journey!Asking, Journey!There, Journey!Returning, Journey!On
<1>3. QED
  BY <1>1, <1>2

LEMMA EngagedIsNotFree ==
    ASSUME TypeOK, NEW d \in Device, state[d] # Idle
    PROVE  ~ Journey!Free(d)
<1>1. state[d] \in LocalState /\ NoDevice \notin Device
  BY DeviceAssumption DEF TypeOK
<1>2. CASE state[d].role = "Controlling"
  <2>1. Trip[d].to = state[d].peer /\ state[d].peer \in Device
    BY <1>1, <1>2, LocalStateCases DEF Trip
  <2>2. QED
    BY <1>1, <2>1 DEF Journey!Free, Journey!Home
<1>3. CASE state[d].role = "BeingControlled"
  <2>1. Visitor[d] = state[d].peer /\ state[d].peer \in Device
    BY <1>1, <1>3, LocalStateCases, LocalStateDistinct DEF Visitor
  <2>2. QED
    BY <1>1, <2>1 DEF Journey!Free
<1>4. QED
  BY <1>1, <1>2, <1>3, LocalStateCases

(* d's hand-off to p ends, by an answer or because it was cut. *)
LEMMA ComesHome ==
    ASSUME TypeOK, Apart, NEW d \in Device, NEW p \in Device, d # p,
           state[d] = Controlling(p), state'[d] = Idle,
           Live(d, p) => Has(net[<<p, d>>], Answers),
           \A z \in Device \ {d} : state'[z] = state[z],
           connected' = connected, announced' = announced,
           \A x, y \in Device : (x # y /\ ~ (x = p /\ y = d)) => net'[<<x, y>>] = net[<<x, y>>]
    PROVE  Journey!ComeHome(d, p)
<1>1. /\ state[d].role # "BeingControlled" /\ state'[d].role # "BeingControlled"
      /\ state'[d].role # "Controlling"
  BY LocalStateDistinct
<1>2. Trip[d] \in {Journey!Returning(p), Journey!Cut(p)}
  <2>1. Trip[d] = [leg |-> Leg(d, p), to |-> p] /\ Leg(d, p) \in {"cut", "returning"}
    BY Away DEF Leg
  <2>2. QED
    BY <2>1 DEF Journey!Returning, Journey!Cut, Journey!On
<1>3. Trip'[d] = Journey!Home
  BY <1>1, Away
<1>4. ASSUME NEW x \in Device \ {d} PROVE Trip'[x] = Trip[x]
  <2>1. ASSUME NEW y \in Device \ {x}
        PROVE  Entered(x, y)' <=> Entered(x, y)
    BY <1>1, LocalStateDistinct DEF Entered
  <2>2. Undisturbed(x)
    BY <2>1 DEF Undisturbed, Linked
  <2>3. QED
    BY <2>2, Stays
<1>5. Visitor' = Visitor
  <2>1. \A x \in Device : Visitor'[x] = Visitor[x]
    BY <1>1 DEF Visitor
  <2>2. QED
    BY <2>1, VisitorStays
<1>6. QED
  BY <1>2, <1>3, <1>4, <1>5, TripMoves DEF Journey!ComeHome

-----------------------------------------------------------------------------
(* Local events *)

(* d, at home and unvisited, reaches an edge: its pointer leaves. *)
LEMMA CrossTrips ==
    ASSUME TypeOK, Agree, Apart, NEW d \in Device, NEW p \in Device, d # p, state[d] = Idle,
           Execute(d, Outcome(Controlling(p), "disable", SendMessage(p, "EdgeEnter"), "none"),
                   net, handoff[d] + 1),
           announced' = [announced EXCEPT ![d] = <<d, p>> \in connected]
    PROVE  Journey!Leave(d, p)
<1> DEFINE r == Outcome(Controlling(p), "disable", SendMessage(p, "EdgeEnter"), "none")
           m == [body |-> "EdgeEnter", n |-> handoff[d] + 1]
<1>1. net \in [Pair -> Seq(Message)] /\ handoff[d] \in Nat
  BY DEF TypeOK
<1>2. r.state = Controlling(p) /\ r.mail.to = p /\ r.mail.body = "EdgeEnter"
  BY DEF Outcome, SendMessage
<1>3. m \in Message /\ m.body \notin Answers /\ [body |-> r.mail.body, n |-> handoff[d] + 1] = m
  BY <1>1, <1>2 DEF Message, Body, Answers
<1> HIDE DEF r, m
<1>4. /\ state'[d] = Controlling(p)
      /\ \A z \in Device \ {d} : state'[z] = state[z]
      /\ connected' = connected
      /\ \A x, y \in Device : x # y =>
            net'[<<x, y>>] = IF x = d /\ y = p /\ <<x, y>> \in connected
                             THEN Append(net[<<x, y>>], m)
                             ELSE net[<<x, y>>]
  <2>1. Execute(d, r, net, handoff[d] + 1)
    BY DEF r
  <2>2. QED
    BY <1>1, <1>2, <1>3, <2>1, Sends
<1>5. /\ announced'[d] = (<<d, p>> \in connected)
      /\ \A z \in Device \ {d} : announced'[z] = announced[z]
  BY DEF TypeOK
<1>6. /\ state[d].role # "Controlling" /\ state[d].role # "BeingControlled"
      /\ state'[d].role # "BeingControlled"
  BY <1>4, LocalStateDistinct
<1>7. Trip[d] = Journey!Home /\ Visitor[d] = NoDevice /\ Visitor'[d] = NoDevice
  BY <1>6, Away, Received
<1>8. Leg(d, p)' \in {"asking", "cut"}
  <2>1. CASE Live(d, p)'
    <3>1. Linked(d, p) /\ ~ Holds(d, p)
      BY <1>4, <1>6, <2>1, LocalStateDistinct, Lives DEF Linked, Holds
    <3>2. ~ Has(net[<<p, d>>], Answers) /\ ~ Entered(d, p)
      BY <3>1, LinkFacts DEF Agree, Good, Talk
    <3>3. ~ Has(net[<<p, d>>], Answers)' /\ ~ Entered(d, p)'
      BY <1>4, <3>2 DEF Entered
    <3>4. QED
      BY <3>3 DEF Leg, Entered
  <2>2. CASE ~ Live(d, p)'
    BY <2>2 DEF Leg
  <2>3. QED
    BY <2>1, <2>2
<1>9. ASSUME NEW x \in Device \ {d} PROVE Trip'[x] = Trip[x]
  <2>1. ASSUME NEW y \in Device \ {x}, state[x] = Controlling(y)
        PROVE  /\ Has(net[<<y, x>>], Answers)' <=> Has(net[<<y, x>>], Answers)
               /\ Entered(x, y)' <=> Entered(x, y)
    <3>1. Has(net[<<y, x>>], Answers)' <=> Has(net[<<y, x>>], Answers)
      BY <1>3, <1>4, QuietQueues
    <3>2. Entered(x, y)' <=> Entered(x, y)
      BY <1>4, <1>6, LocalStateDistinct DEF Entered
    <3>3. QED
      BY <3>1, <3>2
  <2>2. Undisturbed(x)
    BY <1>4, <1>5, <2>1 DEF Undisturbed, Linked
  <2>3. QED
    BY <2>2, Stays
<1>10. Trip'[d] \in {Journey!Asking(p), Journey!Cut(p)}
  <2>1. Trip'[d] = [leg |-> Leg(d, p)', to |-> p]
    BY <1>4, Away
  <2>2. QED
    BY <1>8, <2>1 DEF Journey!Asking, Journey!Cut, Journey!On
<1>11. Trip' = [Trip EXCEPT ![d] = Trip'[d]]
  BY <1>9, TripMoves
<1>12. Visitor' = Visitor
  <2>1. \A x \in Device : Visitor'[x] = Visitor[x]
    BY <1>4, <1>7 DEF Visitor
  <2>2. QED
    BY <2>1, VisitorStays
<1>13. QED
  BY <1>7, <1>10, <1>11, <1>12 DEF Journey!Leave, Journey!Free

(* d's visitor reaches the edge back: it is sent home, or has long gone. *)
LEMMA ReleaseTrips ==
    ASSUME TypeOK, Agree, Apart, NEW d \in Device, NEW p \in Device, d # p,
           state[d] = BeingControlled(p),
           Execute(d, Outcome(Idle, "keep", SendMessage(p, "EdgeRelease"), "none"),
                   net, accepted[d]),
           UNCHANGED history
    PROVE  Journey!SendBack(p, d) \/ Journey!Dismiss(p, d)
<1> DEFINE r == Outcome(Idle, "keep", SendMessage(p, "EdgeRelease"), "none")
           m == [body |-> "EdgeRelease", n |-> accepted[d]]
<1>1. net \in [Pair -> Seq(Message)] /\ accepted[d] \in Nat
  BY DEF TypeOK
<1>2. r.state = Idle /\ r.mail.to = p /\ r.mail.body = "EdgeRelease"
  BY DEF Outcome, SendMessage
<1>3. m \in Message /\ m.body \in Answers /\ [body |-> r.mail.body, n |-> accepted[d]] = m
  BY <1>1, <1>2 DEF Message, Body, Answers
<1> HIDE DEF r, m
<1>4. /\ state'[d] = Idle
      /\ \A z \in Device \ {d} : state'[z] = state[z]
      /\ connected' = connected
      /\ \A x, y \in Device : x # y =>
            net'[<<x, y>>] = IF x = d /\ y = p /\ <<x, y>> \in connected
                             THEN Append(net[<<x, y>>], m)
                             ELSE net[<<x, y>>]
  <2>1. Execute(d, r, net, accepted[d])
    BY DEF r
  <2>2. QED
    BY <1>1, <1>2, <1>3, <2>1, Sends
<1>5. announced' = announced
  BY DEF history
<1>6. Visitor[d] = p /\ Visitor' = [Visitor EXCEPT ![d] = NoDevice]
  <2>1. Visitor[d] = p /\ Visitor'[d] = NoDevice
    BY <1>4, Received, LocalStateDistinct
  <2>2. QED
    BY <1>4, <2>1, VisitorMoves
<1>7. ASSUME NEW x \in Device, ~ (x = p /\ Live(p, d)) PROVE Trip'[x] = Trip[x]
  <2>1. CASE x = p /\ state[p] = Controlling(d)
    <3>1. ~ Live(p, d) /\ ~ Live(p, d)'
      BY <1>4, <1>5, <1>7, <2>1 DEF Live
    <3>2. Leg(p, d) = "cut" /\ Leg(p, d)' = "cut"
      BY <3>1 DEF Leg
    <3>3. state'[p] = Controlling(d)
      BY <1>4, <2>1
    <3>4. Trip[p] = [leg |-> "cut", to |-> d] /\ Trip'[p] = [leg |-> "cut", to |-> d]
      BY <2>1, <3>2, <3>3, Away
    <3>5. QED
      BY <2>1, <3>4
  <2>2. CASE ~ (x = p /\ state[p] = Controlling(d)) /\ x # d
    <3>1. ASSUME NEW y \in Device \ {x}, state[x] = Controlling(y)
          PROVE  /\ Has(net[<<y, x>>], Answers)' <=> Has(net[<<y, x>>], Answers)
                 /\ Entered(x, y)' <=> Entered(x, y)
      <4>1. ~ (y = d /\ x = p)
        BY <2>2, <3>1
      <4>2. y = d => ~ Entered(x, y) /\ ~ Entered(x, y)'
        BY <1>4, <4>1, LocalStateDistinct DEF Entered
      <4>3. QED
        BY <1>4, <4>1, <4>2 DEF Entered
    <3>2. Undisturbed(x)
      BY <1>4, <1>5, <2>2, <3>1 DEF Undisturbed, Linked
    <3>3. QED
      BY <3>2, Stays
  <2>3. CASE x = d
    <3>1. state[d].role # "Controlling" /\ state'[d].role # "Controlling"
      BY <1>4, LocalStateDistinct
    <3>2. QED
      BY <2>3, <3>1, Away
  <2>4. QED
    BY <2>1, <2>2, <2>3
<1>8. CASE Live(p, d)
  <2>1. state[p] = Controlling(d) /\ Linked(p, d) /\ Linked(d, p)
    BY <1>8, LinkFacts, Lives DEF Holds
  <2>2. Entered(p, d) /\ ~ Has(net[<<d, p>>], Answers)
    <3>1. Entered(p, d)
      BY DEF Entered
    <3>2. QED
      BY <3>1 DEF Agree, Good, Talk
  <2>3. Leg(p, d) = "there"
    BY <1>8, <2>2 DEF Leg, Entered
  <2>4. net'[<<d, p>>] = Append(net[<<d, p>>], m) /\ net[<<d, p>>] \in Seq(Message)
    BY <1>4, <2>1, PairTyped DEF Linked
  <2>5. Has(net[<<d, p>>], Answers)'
    BY <1>3, <2>4, HasAppend
  <2>6. Live(p, d)'
    BY <1>4, <1>5, <1>8 DEF Live
  <2>7. Leg(p, d)' = "returning" /\ state'[p] = Controlling(d)
    BY <1>4, <2>1, <2>5, <2>6 DEF Leg
  <2>8. Trip[p] = Journey!There(d) /\ Trip'[p] = Journey!Returning(d)
    BY <2>1, <2>3, <2>7, Away DEF Journey!There, Journey!Returning, Journey!On
  <2>9. Trip' = [Trip EXCEPT ![p] = Journey!Returning(d)]
    BY <1>7, <2>8, TripMoves
  <2>10. QED
    BY <1>6, <2>8, <2>9 DEF Journey!SendBack
<1>9. CASE ~ Live(p, d)
  <2>1. Trip' = Trip
    BY <1>7, <1>9, TripChanges
  <2>2. Journey!OutOfTouch(p, d)
    BY <1>9, OutOfTouchUnlessLive
  <2>3. QED
    BY <1>6, <2>1, <2>2 DEF Journey!Dismiss
<1>10. QED
  BY <1>8, <1>9

(* d keeps its state and sends at most some input. *)
LEMMA QuietTrips ==
    ASSUME TypeOK, Agree, Apart, NEW d \in Device, NEW r, NEW n \in Nat,
           r.state = state[d], r.mail.to \in Device => r.mail.body = "Input",
           Execute(d, r, net, n), UNCHANGED history
    PROVE  UNCHANGED <<Trip, Visitor>>
<1> DEFINE m == [body |-> r.mail.body, n |-> n]
<1>1. net \in [Pair -> Seq(Message)]
  BY DEF TypeOK
<1>2. /\ \A z \in Device : state'[z] = state[z]
      /\ connected' = connected
      /\ \A x, y \in Device : x # y =>
            net'[<<x, y>>] = IF x = d /\ y = r.mail.to /\ <<x, y>> \in connected
                             THEN Append(net[<<x, y>>], m)
                             ELSE net[<<x, y>>]
  <2>1. /\ state'[d] = r.state
        /\ \A z \in Device \ {d} : state'[z] = state[z]
        /\ connected' = connected
        /\ \A x, y \in Device : x # y =>
              net'[<<x, y>>] = IF x = d /\ y = r.mail.to /\ <<x, y>> \in connected
                               THEN Append(net[<<x, y>>], [body |-> r.mail.body, n |-> n])
                               ELSE net[<<x, y>>]
    BY <1>1, Executed
  <2>2. QED
    BY <2>1
<1>3. r.mail.to \in Device => m \in Message /\ m.body \notin Answers
  BY DEF Message, Body, Answers
<1> HIDE DEF m
<1>4. announced' = announced
  BY DEF history
<1>5. ASSUME NEW x \in Device PROVE Trip'[x] = Trip[x]
  <2>1. ASSUME NEW y \in Device \ {x}
        PROVE  Has(net[<<y, x>>], Answers)' <=> Has(net[<<y, x>>], Answers)
    BY <1>2, <1>3, QuietQueues
  <2>2. Undisturbed(x)
    BY <1>2, <1>4, <2>1 DEF Undisturbed, Linked, Entered
  <2>3. QED
    BY <2>2, Stays
<1>6. \A x \in Device : Visitor'[x] = Visitor[x]
  BY <1>2 DEF Visitor
<1>7. QED
  BY <1>5, <1>6, TripChanges, VisitorStays

LEMMA CursorAtEdgeTrips ==
    ASSUME TypeOK, Agree, Apart, NEW d \in Device, NEW e \in ScreenEdge, CursorAtEdge(d, e)
    PROVE  \/ UNCHANGED <<Trip, Visitor>>
           \/ \E p \in Device :
                 Journey!Leave(d, p) \/ Journey!SendBack(p, d) \/ Journey!Dismiss(p, d)
<1> DEFINE p == Resolve[d][e]
           r == OnLocalCursorAtEdge(d, state[d], e)
<1>1. p \in Device \cup {NoDevice} /\ p # d
  BY DeviceAssumption
<1>2. Idle # BeingControlled(p)
  BY LocalStateDistinct
<1> HIDE DEF p
<1>3. CASE p # NoDevice /\ state[d] = Idle
  <2>1. r = Outcome(Controlling(p), "disable", SendMessage(p, "EdgeEnter"), "none")
    BY <1>3 DEF OnLocalCursorAtEdge, p
  <2>2. r.mail.body = "EdgeEnter" /\ r.mail.to = p
    BY <2>1 DEF Outcome, SendMessage
  <2> HIDE DEF r
  <2>3. /\ Execute(d, r, net, handoff[d] + 1)
        /\ announced' = [announced EXCEPT ![d] = <<d, r.mail.to>> \in connected]
    BY <2>2 DEF CursorAtEdge, r
  <2>4. Journey!Leave(d, p)
    BY <1>1, <1>3, <2>1, <2>2, <2>3, CrossTrips
  <2>5. QED
    BY <1>1, <1>3, <2>4
<1>4. CASE p # NoDevice /\ state[d] = BeingControlled(p)
  <2>1. r = Outcome(Idle, "keep", SendMessage(p, "EdgeRelease"), "none")
    BY <1>2, <1>4 DEF OnLocalCursorAtEdge, p
  <2>2. r.mail.body # "EdgeEnter"
    BY <2>1 DEF Outcome, SendMessage
  <2> HIDE DEF r
  <2>3. Execute(d, r, net, accepted[d]) /\ UNCHANGED history
    BY <2>2 DEF CursorAtEdge, r
  <2>4. Journey!SendBack(p, d) \/ Journey!Dismiss(p, d)
    BY <1>1, <1>4, <2>1, <2>3, ReleaseTrips
  <2>5. QED
    BY <1>1, <1>4, <2>4
<1>5. CASE p = NoDevice \/ (state[d] # Idle /\ state[d] # BeingControlled(p))
  <2>1. r = Ignored(state[d])
    BY <1>5 DEF OnLocalCursorAtEdge, p
  <2>2. r.mail.body # "EdgeEnter" /\ r.state = state[d] /\ r.mail.to \notin Device
    BY <2>1, DeviceAssumption DEF Ignored, Outcome, NoMail
  <2> HIDE DEF r
  <2>3. Execute(d, r, net, accepted[d]) /\ UNCHANGED history /\ accepted[d] \in Nat
    BY <2>2 DEF CursorAtEdge, r, TypeOK
  <2>4. QED
    BY <2>2, <2>3, QuietTrips
<1>6. QED
  BY <1>3, <1>4, <1>5

LEMMA ForwardTrips ==
    ASSUME TypeOK, Agree, Apart, NEW d \in Device,
           Execute(d, ForwardIfControlling(state[d]), net, handoff[d]), UNCHANGED history
    PROVE  UNCHANGED <<Trip, Visitor>>
<1> DEFINE r == ForwardIfControlling(state[d])
<1>1. /\ r.state = state[d]
      /\ r.mail.to \in Device => r.mail.body = "Input"
  BY DeviceAssumption DEF ForwardIfControlling, Outcome, Ignored, SendMessage, NoMail
<1>2. Execute(d, r, net, handoff[d]) /\ handoff[d] \in Nat
  BY DEF TypeOK
<1> HIDE DEF r
<1>3. QED
  BY <1>1, <1>2, QuietTrips

-----------------------------------------------------------------------------
(* Events from a peer *)

(* d, at home and unvisited, reads p's EdgeEnter and lets its pointer in. *)
LEMMA AcceptTrips ==
    ASSUME TypeOK, Agree, Apart, NEW d \in Device, NEW p \in Device, d # p, state[d] = Idle,
           Arrives(d, p, "EdgeEnter"),
           Execute(d, Outcome(BeingControlled(p), "keep", NoMail, "warp"), Rest(d, p), Tag(d, p)),
           announced' = announced
    PROVE  Journey!LetIn(p, d) \/ Journey!LetInLate(p, d)
<1> DEFINE r == Outcome(BeingControlled(p), "keep", NoMail, "warp")
<1>1. /\ net[<<p, d>>] # <<>> /\ Head(net[<<p, d>>]).body \in Enters
      /\ Head(net[<<p, d>>]).body \notin Answers
  BY HeadBodies
<1>2. r.state = BeingControlled(p) /\ r.mail.to \notin Device
  BY DeviceAssumption DEF Outcome, NoMail
<1> HIDE DEF r
<1>3. /\ state'[d] = BeingControlled(p)
      /\ \A z \in Device \ {d} : state'[z] = state[z]
      /\ connected' = connected
      /\ net'[<<d, p>>] = net[<<d, p>>]
      /\ \A x, y \in Device : (x # y /\ ~ (x = p /\ y = d)) => net'[<<x, y>>] = net[<<x, y>>]
  <2>1. Execute(d, r, Rest(d, p), Tag(d, p))
    BY DEF r
  <2>2. QED
    BY <1>1, <1>2, <2>1, Takes
<1>4. /\ state[d].role # "Controlling" /\ state'[d].role # "Controlling"
      /\ state[d].role # "BeingControlled"
  BY <1>3, LocalStateDistinct
<1>5. Trip[d] = Journey!Home /\ Trip'[d] = Trip[d] /\ Visitor[d] = NoDevice
  BY <1>4, Away, Received
<1>6. Visitor' = [Visitor EXCEPT ![d] = p]
  BY <1>3, Received, VisitorMoves
<1>7. ASSUME NEW x \in Device, x # p PROVE Trip'[x] = Trip[x]
  <2>1. CASE x = d
    BY <1>5, <2>1
  <2>2. CASE x # d
    <3>1. ASSUME NEW y \in Device \ {x}, state[x] = Controlling(y)
          PROVE  Entered(x, y)' <=> Entered(x, y)
      BY <1>3, <1>4, <1>7, <3>1, LocalStateDistinct DEF Entered
    <3>2. Undisturbed(x)
      BY <1>3, <1>7, <2>2, <3>1 DEF Undisturbed, Linked
    <3>3. QED
      BY <3>2, Stays
  <2>3. QED
    BY <2>1, <2>2
<1>8. ~ Has(net[<<d, p>>], Answers) /\ ~ Entered(p, d)
  <2>1. Has(net[<<p, d>>], Enters)
    BY <1>1, HasTail, PairTyped
  <2>2. QED
    BY <2>1 DEF Agree, Good, Talk
<1>9. CASE Live(p, d)
  <2>1. state[p] = Controlling(d) /\ state'[p] = Controlling(d) /\ Live(p, d)'
    BY <1>3, <1>9 DEF Live
  <2>2. Leg(p, d) = "asking"
    BY <1>8, <1>9 DEF Leg, Entered
  <2>3. Leg(p, d)' = "there"
    <3>1. ~ Has(net[<<d, p>>], Answers)'
      BY <1>3, <1>8
    <3>2. QED
      BY <1>3, <2>1, <3>1 DEF Leg
  <2>4. Trip[p] = Journey!Asking(d) /\ Trip'[p] = Journey!There(d)
    BY <2>1, <2>2, <2>3, Away DEF Journey!Asking, Journey!There, Journey!On
  <2>5. Trip' = [Trip EXCEPT ![p] = Journey!There(d)]
    BY <1>7, <2>4, TripMoves
  <2>6. QED
    BY <1>5, <1>6, <2>4, <2>5 DEF Journey!LetIn, Journey!Free
<1>10. CASE ~ Live(p, d)
  <2>1. Trip'[p] = Trip[p]
    <3>1. CASE state[p] = Controlling(d)
      <4>1. ~ Live(p, d)' /\ state'[p] = Controlling(d)
        BY <1>3, <1>10, <3>1 DEF Live
      <4>2. Leg(p, d) = "cut" /\ Leg(p, d)' = "cut"
        BY <1>10, <4>1 DEF Leg
      <4>3. Trip[p] = [leg |-> "cut", to |-> d] /\ Trip'[p] = [leg |-> "cut", to |-> d]
        BY <3>1, <4>1, <4>2, Away
      <4>4. QED
        BY <4>3
    <3>2. CASE state[p] # Controlling(d)
      <4>1. ASSUME NEW y \in Device \ {p}, state[p] = Controlling(y)
            PROVE  /\ Entered(p, y)' <=> Entered(p, y)
                   /\ Has(net[<<y, p>>], Answers)' <=> Has(net[<<y, p>>], Answers)
        BY <1>3, <3>2, <4>1 DEF Entered
      <4>2. Undisturbed(p)
        BY <1>3, <4>1 DEF Undisturbed, Linked
      <4>3. QED
        BY <4>2, Stays
    <3>3. QED
      BY <3>1, <3>2
  <2>2. Trip' = Trip
    BY <1>7, <2>1, TripChanges
  <2>3. Journey!OutOfTouch(p, d)
    BY <1>10, OutOfTouchUnlessLive
  <2>4. QED
    BY <1>5, <1>6, <2>2, <2>3 DEF Journey!LetInLate, Journey!Free
<1>11. QED
  BY <1>9, <1>10

(* d, engaged, refuses p's EdgeEnter, if there is still someone to tell. *)
LEMMA RejectTrips ==
    ASSUME TypeOK, Agree, Apart, NEW d \in Device, NEW p \in Device, d # p, state[d] # Idle,
           Arrives(d, p, "EdgeEnter"),
           Execute(d, Outcome(state[d], "keep", SendMessage(p, "EdgeEnterRejected"), "none"),
                   Rest(d, p), Tag(d, p)),
           announced' = announced
    PROVE  Journey!Refuse(p, d) \/ UNCHANGED <<Trip, Visitor>>
<1> DEFINE r == Outcome(state[d], "keep", SendMessage(p, "EdgeEnterRejected"), "none")
           m == [body |-> "EdgeEnterRejected", n |-> Tag(d, p)]
<1>1. /\ net[<<p, d>>] # <<>> /\ Head(net[<<p, d>>]).body \in Enters
      /\ Head(net[<<p, d>>]).body \notin Answers
  BY HeadBodies
<1>2. /\ r.state = state[d] /\ r.mail.to = p
      /\ [body |-> r.mail.body, n |-> Tag(d, p)] = m
  BY DEF Outcome, SendMessage
<1>3. m \in Message /\ m.body \in Answers
  <2>1. Tag(d, p) \in Nat
    BY <1>1, RestTyped
  <2>2. QED
    BY <2>1 DEF Message, Body, Answers
<1> HIDE DEF r, m
<1>4. /\ \A z \in Device : state'[z] = state[z]
      /\ connected' = connected
      /\ net'[<<p, d>>] = Tail(net[<<p, d>>])
      /\ net'[<<d, p>>] = IF <<d, p>> \in connected THEN Append(net[<<d, p>>], m)
                                                    ELSE net[<<d, p>>]
      /\ \A x, y \in Device : (x # y /\ {x, y} # {d, p}) => net'[<<x, y>>] = net[<<x, y>>]
  <2>1. Execute(d, r, Rest(d, p), Tag(d, p)) /\ Rest(d, p) \in [Pair -> Seq(Message)]
    BY <1>1, Resting DEF r
  <2>2. /\ state'[d] = r.state
        /\ \A z \in Device \ {d} : state'[z] = state[z]
        /\ connected' = connected
        /\ \A x, y \in Device : x # y =>
              net'[<<x, y>>] = IF x = d /\ y = p /\ <<x, y>> \in connected
                               THEN Append(Rest(d, p)[<<x, y>>], m)
                               ELSE Rest(d, p)[<<x, y>>]
    BY <1>2, <2>1, Sends
  <2>3. /\ Rest(d, p)[<<p, d>>] = Tail(net[<<p, d>>])
        /\ \A x, y \in Device : (x # y /\ ~ (x = p /\ y = d)) => Rest(d, p)[<<x, y>>] = net[<<x, y>>]
    BY <1>1, Resting
  <2>4. \A z \in Device : state'[z] = state[z]
    BY <1>2, <2>2
  <2>5. net'[<<p, d>>] = Tail(net[<<p, d>>])
    BY <2>2, <2>3
  <2>6. net'[<<d, p>>] = IF <<d, p>> \in connected THEN Append(net[<<d, p>>], m)
                                                   ELSE net[<<d, p>>]
    BY <2>2, <2>3
  <2>7. \A x, y \in Device : (x # y /\ {x, y} # {d, p}) => net'[<<x, y>>] = net[<<x, y>>]
    BY <2>2, <2>3
  <2>8. QED
    BY <2>2, <2>4, <2>5, <2>6, <2>7
<1>5. Visitor' = Visitor
  <2>1. \A x \in Device : Visitor'[x] = Visitor[x]
    BY <1>4 DEF Visitor
  <2>2. QED
    BY <2>1, VisitorStays
<1>6. ASSUME NEW x \in Device, x = p => ~ Linked(d, p) PROVE Trip'[x] = Trip[x]
  <2>1. ASSUME NEW y \in Device \ {x}
        PROVE  Has(net[<<y, x>>], Answers)' <=> Has(net[<<y, x>>], Answers)
    <3>1. CASE y = p /\ x = d
      BY <1>1, <1>4, <3>1, QuietQueues
    <3>2. CASE ~ (y = p /\ x = d)
      BY <1>4, <1>6, <2>1, <3>2 DEF Linked
    <3>3. QED
      BY <3>1, <3>2
  <2>2. Undisturbed(x)
    BY <1>4, <2>1 DEF Undisturbed, Linked, Entered
  <2>3. QED
    BY <2>2, Stays
<1>7. CASE Linked(d, p)
  <2>1. Has(net[<<p, d>>], Enters) /\ Linked(p, d) /\ ~ Has(net[<<p, d>>], Losses)
    BY <1>1, <1>7, HasTail, PairTyped, LinkFacts
  <2>2. Holds(p, d) /\ ~ Has(net[<<d, p>>], Answers) /\ ~ Entered(p, d)
    BY <2>1 DEF Agree, Good, Talk
  <2>3. Live(p, d) /\ Live(p, d)' /\ state[p] = Controlling(d) /\ state'[p] = Controlling(d)
    BY <1>4, <2>1, <2>2 DEF Live, Holds, Linked
  <2>4. Leg(p, d) = "asking"
    BY <2>2, <2>3 DEF Leg, Entered
  <2>5. Leg(p, d)' = "returning"
    <3>1. net'[<<d, p>>] = Append(net[<<d, p>>], m) /\ net[<<d, p>>] \in Seq(Message)
      BY <1>4, <1>7, PairTyped DEF Linked
    <3>2. Has(net[<<d, p>>], Answers)'
      BY <1>3, <3>1, HasAppend
    <3>3. QED
      BY <2>3, <3>2 DEF Leg
  <2>6. Trip[p] = Journey!Asking(d) /\ Trip'[p] = Journey!Returning(d)
    BY <2>3, <2>4, <2>5, Away DEF Journey!Asking, Journey!Returning, Journey!On
  <2>7. Trip' = [Trip EXCEPT ![p] = Journey!Returning(d)]
    BY <1>6, <2>6, TripMoves
  <2>8. ~ Journey!Free(d)
    BY EngagedIsNotFree
  <2>9. QED
    BY <1>5, <2>6, <2>7, <2>8 DEF Journey!Refuse
<1>8. CASE ~ Linked(d, p)
  BY <1>5, <1>6, <1>8, TripChanges
<1>9. QED
  BY <1>7, <1>8

LEMMA PeerEdgeEnterTrips ==
    ASSUME TypeOK, Agree, Apart, NEW d \in Device, NEW p \in Device, d # p, PeerEdgeEnter(d, p)
    PROVE  \/ Journey!LetIn(p, d) \/ Journey!LetInLate(p, d) \/ Journey!Refuse(p, d)
           \/ UNCHANGED <<Trip, Visitor>>
<1> DEFINE r == OnPeerEdgeEnter(state[d], p)
<1>1. Arrives(d, p, "EdgeEnter") /\ announced' = announced
  BY DEF PeerEdgeEnter
<1>2. Execute(d, r, Rest(d, p), Tag(d, p))
  BY DEF PeerEdgeEnter
<1>3. CASE state[d] = Idle
  <2>1. r = Outcome(BeingControlled(p), "keep", NoMail, "warp")
    BY <1>3 DEF OnPeerEdgeEnter
  <2>2. QED
    BY <1>1, <1>2, <1>3, <2>1, AcceptTrips
<1>4. CASE state[d] # Idle
  <2>1. r = Outcome(state[d], "keep", SendMessage(p, "EdgeEnterRejected"), "none")
    BY <1>4 DEF OnPeerEdgeEnter
  <2>2. QED
    BY <1>1, <1>2, <1>4, <2>1, RejectTrips
<1>5. QED
  BY <1>3, <1>4

(* d takes what p answered: its pointer is home. *)
LEMMA AnsweredTrips ==
    ASSUME TypeOK, Agree, Apart, NEW d \in Device, NEW p \in Device, d # p,
           PeerEdgeEnterRejected(d, p) \/ PeerEdgeRelease(d, p)
    PROVE  Journey!ComeHome(d, p)
<1>1. net[<<p, d>>] # <<>> /\ Head(net[<<p, d>>]).body \in Answers
  BY HeadBodies DEF PeerEdgeEnterRejected, PeerEdgeRelease
<1>2. Has(net[<<p, d>>], Answers)
  BY <1>1, HasTail, PairTyped
<1>3. state[d] = Controlling(p)
  BY <1>2 DEF Agree, Good, Talk, Holds
<1>4. PICK r : /\ r = Outcome(Idle, "enable", NoMail, "none")
               /\ Execute(d, r, Rest(d, p), 0)
  BY <1>3 DEF PeerEdgeEnterRejected, PeerEdgeRelease, OnPeerEdgeEnterRejected, OnPeerEdgeRelease
<1>5. r.state = Idle /\ r.mail.to \notin Device
  BY <1>4, DeviceAssumption DEF Outcome, NoMail
<1>6. /\ state'[d] = Idle
      /\ \A z \in Device \ {d} : state'[z] = state[z]
      /\ connected' = connected
      /\ \A x, y \in Device : (x # y /\ ~ (x = p /\ y = d)) => net'[<<x, y>>] = net[<<x, y>>]
  <2>1. /\ state'[d] = r.state
        /\ \A z \in Device \ {d} : state'[z] = state[z]
        /\ connected' = connected
        /\ net'[<<p, d>>] = Tail(net[<<p, d>>])
        /\ net'[<<d, p>>] = net[<<d, p>>]
        /\ \A x, y \in Device : (x # y /\ ~ (x = p /\ y = d)) => net'[<<x, y>>] = net[<<x, y>>]
    BY <1>1, <1>4, <1>5, Takes
  <2>2. QED
    BY <1>5, <2>1
<1>7. QED
  BY <1>2, <1>3, <1>6, ComesHome DEF PeerEdgeEnterRejected, PeerEdgeRelease, history

LEMMA PeerInputTrips ==
    ASSUME TypeOK, Agree, Apart, NEW d \in Device, NEW p \in Device, d # p,
           PeerInputMessage(d, p)
    PROVE  UNCHANGED <<Trip, Visitor>>
<1> DEFINE r == OnPeerInputMessage(state[d], p)
<1>1. r.state = state[d] /\ r.mail.to \notin Device
  BY DeviceAssumption DEF OnPeerInputMessage, Outcome, Ignored, NoMail
<1>2. Execute(d, r, Rest(d, p), 0) /\ announced' = announced
  BY DEF PeerInputMessage
<1>3. net[<<p, d>>] # <<>> /\ Head(net[<<p, d>>]).body \notin Answers
  BY HeadBodies DEF PeerInputMessage
<1> HIDE DEF r
<1>4. /\ \A z \in Device : state'[z] = state[z]
      /\ connected' = connected
      /\ net'[<<p, d>>] = Tail(net[<<p, d>>])
      /\ \A x, y \in Device : (x # y /\ ~ (x = p /\ y = d)) => net'[<<x, y>>] = net[<<x, y>>]
  <2>1. /\ state'[d] = r.state
        /\ \A z \in Device \ {d} : state'[z] = state[z]
        /\ connected' = connected
        /\ net'[<<p, d>>] = Tail(net[<<p, d>>])
        /\ \A x, y \in Device : (x # y /\ ~ (x = p /\ y = d)) => net'[<<x, y>>] = net[<<x, y>>]
    BY <1>1, <1>2, <1>3, Takes
  <2>2. QED
    BY <1>1, <2>1
<1>5. ASSUME NEW x \in Device PROVE Trip'[x] = Trip[x]
  <2>1. ASSUME NEW y \in Device \ {x}
        PROVE  Has(net[<<y, x>>], Answers)' <=> Has(net[<<y, x>>], Answers)
    BY <1>3, <1>4, QuietQueues
  <2>2. Undisturbed(x)
    BY <1>2, <1>4, <2>1 DEF Undisturbed, Linked, Entered
  <2>3. QED
    BY <2>2, Stays
<1>6. \A x \in Device : Visitor'[x] = Visitor[x]
  BY <1>4 DEF Visitor
<1>7. QED
  BY <1>5, <1>6, TripChanges, VisitorStays

(* The trip of x, which is not live, stays cut. *)
LEMMA StaysCut ==
    ASSUME NEW x \in Device, NEW y \in Device, state[x] = Controlling(y),
           state'[x] = state[x], ~ Live(x, y), ~ Live(x, y)'
    PROVE  Trip'[x] = Trip[x]
<1>1. Leg(x, y) = "cut" /\ Leg(x, y)' = "cut"
  BY DEF Leg
<1>2. state'[x] = Controlling(y)
  OBVIOUS
<1>3. Trip[x] = [leg |-> "cut", to |-> y] /\ Trip'[x] = [leg |-> "cut", to |-> y]
  BY <1>1, <1>2, Away
<1>4. QED
  BY <1>3

(* d takes the loss of its connection to p: its trip ends, or its visitor's. *)
LEMMA LossTrips ==
    ASSUME TypeOK, Agree, Apart, NEW d \in Device, NEW p \in Device, d # p,
           ConnectionLost(d, p)
    PROVE  \/ Journey!ComeHome(d, p)
           \/ Journey!Dismiss(p, d)
           \/ UNCHANGED <<Trip, Visitor>>
<1> DEFINE r == OnConnectionLost(state[d], p)
<1>1. /\ r.mail.to \notin Device
      /\ r.state = IF state[d] \in {Controlling(p), BeingControlled(p)} THEN Idle ELSE state[d]
  BY DeviceAssumption DEF OnConnectionLost, Outcome, Ignored, NoMail
<1>2. Execute(d, r, Rest(d, p), 0) /\ announced' = announced
  BY DEF ConnectionLost, history
<1>3. net[<<p, d>>] # <<>> /\ Head(net[<<p, d>>]).body \in Losses
  BY HeadBodies DEF ConnectionLost
<1> HIDE DEF r
<1>4. /\ state'[d] = r.state
      /\ \A z \in Device \ {d} : state'[z] = state[z]
      /\ connected' = connected
      /\ net'[<<p, d>>] = Tail(net[<<p, d>>])
      /\ \A x, y \in Device : (x # y /\ ~ (x = p /\ y = d)) => net'[<<x, y>>] = net[<<x, y>>]
  <2>1. /\ state'[d] = r.state
        /\ \A z \in Device \ {d} : state'[z] = state[z]
        /\ connected' = connected
        /\ net'[<<p, d>>] = Tail(net[<<p, d>>])
        /\ net'[<<d, p>>] = net[<<d, p>>]
        /\ \A x, y \in Device : (x # y /\ ~ (x = p /\ y = d)) => net'[<<x, y>>] = net[<<x, y>>]
    BY <1>1, <1>2, <1>3, Takes
  <2>2. QED
    BY <2>1
<1>5. ~ Live(d, p) /\ ~ Live(p, d) /\ ~ Linked(d, p)' /\ ~ Linked(p, d)'
  <2>1. Has(net[<<p, d>>], Losses)
    BY <1>3, HasTail, PairTyped
  <2>2. ~ Linked(d, p) /\ ~ Linked(p, d)
    BY <2>1, LinkFacts
  <2>3. QED
    BY <1>4, <2>2 DEF Live, Linked
<1>6. ASSUME NEW x \in Device \ {d} PROVE Trip'[x] = Trip[x]
  <2>1. CASE x = p /\ state[p] = Controlling(d)
    BY <1>4, <1>5, <2>1, StaysCut, Lives
  <2>2. CASE ~ (x = p /\ state[p] = Controlling(d))
    <3>1. ASSUME NEW y \in Device \ {x}, state[x] = Controlling(y)
          PROVE  Entered(x, y)' <=> Entered(x, y)
      <4>1. CASE y = d
        <5>1. x # p
          BY <2>2, <3>1, <4>1
        <5>2. state[d] = BeingControlled(x) => r.state = state[d]
          BY <1>1, <5>1, LocalStateDistinct
        <5>3. r.state = state[d] \/ r.state = Idle
          BY <1>1
        <5>4. QED
          BY <1>4, <4>1, <5>2, <5>3, LocalStateDistinct DEF Entered
      <4>2. CASE y # d
        BY <1>4, <4>2 DEF Entered
      <4>3. QED
        BY <4>1, <4>2
    <3>2. Undisturbed(x)
      BY <1>2, <1>4, <3>1 DEF Undisturbed, Linked
    <3>3. QED
      BY <3>2, Stays
  <2>3. QED
    BY <2>1, <2>2
<1>7. CASE state[d] = Controlling(p)
  <2>1. state'[d] = Idle
    BY <1>1, <1>4, <1>7
  <2>2. QED
    BY <1>2, <1>4, <1>5, <1>7, <2>1, ComesHome
<1>8. CASE state[d] = BeingControlled(p)
  <2>1. state'[d] = Idle
    BY <1>1, <1>4, <1>8
  <2>2. Trip'[d] = Trip[d]
    BY <1>8, <2>1, Away, LocalStateDistinct
  <2>3. Trip' = Trip
    BY <1>6, <2>2, TripChanges
  <2>4. Visitor[d] = p /\ Visitor'[d] = NoDevice
    BY <1>8, <2>1, Received, LocalStateDistinct
  <2>5. Visitor' = [Visitor EXCEPT ![d] = NoDevice]
    BY <1>4, <2>4, VisitorMoves
  <2>6. Journey!OutOfTouch(p, d)
    BY <1>5, OutOfTouchUnlessLive
  <2>7. QED
    BY <2>3, <2>4, <2>5, <2>6 DEF Journey!Dismiss
<1>9. CASE state[d] \notin {Controlling(p), BeingControlled(p)}
  <2>1. \A z \in Device : state'[z] = state[z]
    BY <1>1, <1>4, <1>9
  <2>2. Undisturbed(d)
    BY <1>2, <1>4, <1>9, <2>1 DEF Undisturbed, Linked, Entered
  <2>3. Trip'[d] = Trip[d]
    BY <2>2, Stays
  <2>4. Trip' = Trip
    BY <1>6, <2>3, TripChanges
  <2>5. \A x \in Device : Visitor'[x] = Visitor[x]
    BY <2>1 DEF Visitor
  <2>6. QED
    BY <2>4, <2>5, VisitorStays
<1>10. QED
  BY <1>7, <1>8, <1>9

-----------------------------------------------------------------------------
(* Faults *)

(* Between d and p the connection breaks: what was under way there is cut. *)
LEMMA LoseConnectionTrips ==
    ASSUME TypeOK, Agree, Apart, NEW d \in Device, NEW p \in Device, d # p,
           LoseConnection(d, p)
    PROVE  Journey!LoseTouch(d, p)
<1>1. /\ connected' = connected \ {<<d, p>>, <<p, d>>}
      /\ state' = state /\ announced' = announced
  BY DEF LoseConnection, history
<1>2. \A x, y \in Device : (x # y /\ {x, y} # {d, p}) => net'[<<x, y>>] = net[<<x, y>>]
  BY PairFacts DEF LoseConnection, TypeOK
<1>3. ASSUME NEW x \in Device
      PROVE  Trip'[x] = IF {x, Trip[x].to} = {d, p} THEN Journey!Cut(Trip[x].to) ELSE Trip[x]
  <2>1. CASE state[x].role = "Controlling"
    <3>a. state[x] \in LocalState /\ state[x].peer # x
      BY DEF TypeOK, Apart
    <3>1. PICK y \in Device \ {x} : state[x] = Controlling(y) /\ state[x].peer = y
      BY <2>1, <3>a, LocalStateCases, LocalStateDistinct
    <3>2. Trip[x].to = y /\ Trip'[x] = [leg |-> Leg(x, y)', to |-> y]
      <4>1. state'[x] = Controlling(y)
        BY <1>1, <3>1
      <4>2. Trip[x] = [leg |-> Leg(x, y), to |-> y]
        BY <3>1, Away
      <4>3. Trip'[x] = [leg |-> Leg(x, y)', to |-> y]
        BY <4>1, Away
      <4>4. QED
        BY <4>2, <4>3
    <3>3. CASE {x, y} = {d, p}
      <4>1. ~ Live(x, y)'
        BY <1>1, <3>3 DEF Live
      <4>2. Leg(x, y)' = "cut"
        BY <4>1 DEF Leg
      <4>3. QED
        BY <3>2, <3>3, <4>2 DEF Journey!Cut, Journey!On
    <3>4. CASE {x, y} # {d, p}
      <4>1. ASSUME NEW z \in Device, state[x] = Controlling(z)
            PROVE  z = y
        BY <3>1, <4>1 DEF Controlling
      <4>2. (Linked(x, y)' <=> Linked(x, y)) /\ net'[<<y, x>>] = net[<<y, x>>]
        BY <1>1, <1>2, <3>4 DEF Linked
      <4>3. Undisturbed(x)
        BY <1>1, <4>1, <4>2 DEF Undisturbed, Entered
      <4>4. QED
        BY <3>2, <3>4, <4>3, Stays
    <3>5. QED
      BY <3>3, <3>4
  <2>2. CASE state[x].role # "Controlling"
    <3>1. Trip[x].to = NoDevice /\ Trip'[x] = Trip[x]
      BY <1>1, <2>2 DEF Trip
    <3>2. {x, Trip[x].to} # {d, p}
      BY <3>1, DeviceAssumption
    <3>3. QED
      BY <3>1, <3>2
  <2>3. QED
    BY <2>1, <2>2
<1>4. Trip' = [x \in Device |->
                  IF {x, Trip[x].to} = {d, p} THEN Journey!Cut(Trip[x].to) ELSE Trip[x]]
  BY <1>3 DEF Trip
<1>5. Visitor' = Visitor
  BY <1>1 DEF Visitor
<1>6. QED
  BY <1>4, <1>5 DEF Journey!LoseTouch

(* A new connection finds every trip between its ends at home, or still cut. *)
LEMMA ReconnectTrips ==
    ASSUME TypeOK, Agree, Apart, NEW d \in Device, NEW p \in Device, d # p, Reconnect(d, p)
    PROVE  UNCHANGED <<Trip, Visitor>>
<1>1. /\ connected' = connected \cup {<<d, p>>, <<p, d>>} /\ <<d, p>> \notin connected
      /\ ~ Has(net[<<d, p>>], Losses) /\ ~ Has(net[<<p, d>>], Losses)
      /\ net' = net /\ state' = state /\ announced' = announced
  BY DEF Reconnect, LossPending, history
<1>2. ~ Linked(d, p) /\ ~ Linked(p, d)
  BY <1>1, LinkFacts DEF Linked
<1>3. ASSUME NEW x \in Device PROVE Trip'[x] = Trip[x]
  <2>1. CASE \E y \in Device : {x, y} = {d, p} /\ state[x] = Controlling(y)
    <3>1. PICK y \in Device : {x, y} = {d, p} /\ state[x] = Controlling(y)
      BY <2>1
    <3>2. x # y /\ ~ Linked(x, y) /\ ~ Has(net[<<y, x>>], Losses)
      BY <1>1, <1>2, <3>1
    <3>3. ~ Holds(x, y)
      BY <3>2 DEF Agree, Good, Talk
    <3>4. ~ Holds(x, y)'
      BY <1>1, <3>3 DEF Holds
    <3>5. QED
      BY <1>1, <3>1, <3>3, <3>4, StaysCut, Lives
  <2>2. CASE ~ \E y \in Device : {x, y} = {d, p} /\ state[x] = Controlling(y)
    <3>1. ASSUME NEW y \in Device \ {x}, state[x] = Controlling(y)
          PROVE  Linked(x, y)' <=> Linked(x, y)
      BY <1>1, <2>2, <3>1 DEF Linked
    <3>2. Undisturbed(x)
      BY <1>1, <3>1 DEF Undisturbed, Entered
    <3>3. QED
      BY <3>2, Stays
  <2>3. QED
    BY <2>1, <2>2
<1>4. \A x \in Device : Visitor'[x] = Visitor[x]
  BY <1>1 DEF Visitor
<1>5. QED
  BY <1>3, <1>4, TripChanges, VisitorStays

(* d starts again: its trip is forgotten, its visitor and those bound for it cut off. *)
LEMMA RestartTrips ==
    ASSUME TypeOK, Agree, Apart, NEW d \in Device, Restart(d)
    PROVE  Journey!StartAgain(d)
<1>1. PICK left : net' = [dp \in Pair |-> IF dp[1] = d THEN left[dp[2]]
                                         ELSE IF dp[2] = d THEN <<>> ELSE net[dp]]
  BY DEF Restart
<1>2. \A x, y \in Device \ {d} : x # y => net'[<<x, y>>] = net[<<x, y>>]
  BY <1>1, PairFacts
<1>3. /\ state'[d] = Idle /\ \A z \in Device \ {d} : state'[z] = state[z]
      /\ connected' = {dp \in connected : d \notin {dp[1], dp[2]}}
      /\ announced' = announced
  BY DEF Restart, history, TypeOK
<1>4. Trip'[d] = Journey!Home /\ Visitor'[d] = NoDevice
  BY <1>3, Away, Received, LocalStateDistinct
<1>5. ASSUME NEW x \in Device \ {d}
      PROVE  Trip'[x] = IF Trip[x].to = d THEN Journey!Cut(d) ELSE Trip[x]
  <2>1. CASE state[x].role = "Controlling"
    <3>1. state[x] \in LocalState /\ state[x].peer # x
      BY DEF TypeOK, Apart
    <3>2. PICK y \in Device \ {x} : state[x] = Controlling(y) /\ state[x].peer = y
      BY <2>1, <3>1, LocalStateCases, LocalStateDistinct
    <3>3. state'[x] = Controlling(y)
      BY <1>3, <3>2
    <3>4. Trip[x] = [leg |-> Leg(x, y), to |-> y] /\ Trip'[x] = [leg |-> Leg(x, y)', to |-> y]
      BY <3>2, <3>3, Away
    <3>5. CASE y = d
      <4>1. ~ Live(x, y)'
        BY <1>3, <3>5 DEF Live
      <4>2. Leg(x, y)' = "cut"
        BY <4>1 DEF Leg
      <4>3. QED
        BY <3>4, <3>5, <4>2 DEF Journey!Cut, Journey!On
    <3>6. CASE y # d
      <4>1. ASSUME NEW z \in Device, state[x] = Controlling(z)
            PROVE  z = y
        BY <3>2, <4>1 DEF Controlling
      <4>2. /\ Linked(x, y)' <=> Linked(x, y)
            /\ net'[<<y, x>>] = net[<<y, x>>]
            /\ Entered(x, y)' <=> Entered(x, y)
        BY <1>2, <1>3, <3>6 DEF Linked, Entered
      <4>3. Undisturbed(x)
        BY <1>3, <4>1, <4>2 DEF Undisturbed
      <4>4. QED
        BY <3>4, <3>6, <4>3, Stays
    <3>7. QED
      BY <3>5, <3>6
  <2>2. CASE state[x].role # "Controlling"
    <3>1. Trip[x].to = NoDevice /\ Trip'[x] = Trip[x]
      BY <1>3, <2>2 DEF Trip
    <3>2. NoDevice # d
      BY DeviceAssumption
    <3>3. QED
      BY <3>1, <3>2
  <2>3. QED
    BY <2>1, <2>2
<1>6. Trip' = [x \in Device |-> IF x = d THEN Journey!Home
                                ELSE IF Trip[x].to = d THEN Journey!Cut(d) ELSE Trip[x]]
  BY <1>4, <1>5 DEF Trip
<1>7. Visitor' = [Visitor EXCEPT ![d] = NoDevice]
  BY <1>3, <1>4, VisitorMoves
<1>8. QED
  BY <1>6, <1>7 DEF Journey!StartAgain

-----------------------------------------------------------------------------
(* The theorem *)

LEMMA InitTrips == Init => Journey!Init
<1>1. SUFFICES ASSUME Init PROVE Journey!Init
  OBVIOUS
<1>2. \A d \in Device : Trip[d] = Journey!Home /\ Visitor[d] = NoDevice
  BY <1>1, LocalStateDistinct DEF Init, Trip, Visitor, Journey!Home
<1>3. /\ Trip = [d \in Device |-> Journey!Home]
      /\ Visitor = [d \in Device |-> NoDevice]
  BY <1>2 DEF Trip, Visitor
<1>4. QED
  BY <1>3 DEF Journey!Init

LEMMA StepTrips ==
    ASSUME ChordUsers = {}, TypeOK, Agree, Apart, [Next]_vars
    PROVE  [Journey!Next]_<<Trip, Visitor>>
<1> DEFINE Goal == [Journey!Next]_<<Trip, Visitor>>
<1>1. ASSUME NEW d \in Device, NEW e \in ScreenEdge, CursorAtEdge(d, e)
      PROVE  Goal
  BY <1>1, CursorAtEdgeTrips, Zenon DEF Journey!Next
<1>2. ASSUME NEW d \in Device,
             Execute(d, ForwardIfControlling(state[d]), net, handoff[d]), UNCHANGED history
      PROVE  Goal
  BY <1>2, ForwardTrips
<1>3. ASSUME NEW d \in Device, LocalMouseEvent(d)
      PROVE  Goal
  BY <1>2, <1>3 DEF LocalMouseEvent
<1>4. ASSUME NEW d \in Device, NEW pressed, NEW held, LocalKeyEvent(d, pressed, held)
      PROVE  Goal
  <2>1. OnLocalKeyEvent(d, state[d], pressed, held) = ForwardIfControlling(state[d])
    BY <1>4 DEF LocalKeyEvent, OnLocalKeyEvent
  <2>2. Execute(d, ForwardIfControlling(state[d]), net, handoff[d]) /\ UNCHANGED history
    BY <1>4, <2>1 DEF LocalKeyEvent
  <2>3. QED
    BY <1>2, <2>2
<1>5. ASSUME NEW d \in Device, Restart(d)
      PROVE  Goal
  BY <1>5, RestartTrips, Zenon DEF Journey!Next
<1>6. ASSUME NEW d \in Device, NEW p \in Device, d # p, Receive(d, p)
      PROVE  Goal
  <2>1. CASE PeerEdgeEnter(d, p)
    BY <1>6, <2>1, PeerEdgeEnterTrips, Zenon DEF Journey!Next
  <2>2. CASE PeerEdgeEnterRejected(d, p) \/ PeerEdgeRelease(d, p)
    BY <1>6, <2>2, AnsweredTrips, Zenon DEF Journey!Next
  <2>3. CASE PeerInputMessage(d, p)
    BY <1>6, <2>3, PeerInputTrips
  <2>4. CASE ConnectionLost(d, p)
    BY <1>6, <2>4, LossTrips, Zenon DEF Journey!Next
  <2>5. QED
    BY <1>6, <2>1, <2>2, <2>3, <2>4 DEF Receive
<1>7. ASSUME NEW d \in Device, NEW p \in Device, d # p, LoseConnection(d, p) \/ Reconnect(d, p)
      PROVE  Goal
  BY <1>7, LoseConnectionTrips, ReconnectTrips, Zenon DEF Journey!Next
<1>8. CASE UNCHANGED vars
  <2>1. \A d, p : Leg(d, p)' = Leg(d, p)
    BY <1>8 DEF vars, Leg, Live
  <2>2. UNCHANGED <<Trip, Visitor>>
    BY <1>8, <2>1 DEF vars, Trip, Visitor
  <2>3. QED
    BY <2>2
<1> HIDE DEF Goal
<1>9. QED
  BY <1>1, <1>3, <1>4, <1>5, <1>6, <1>7, <1>8 DEF Next, Pair, Goal

(***************************************************************************)
(* For any devices and any layout of their screens, and over any crossings,*)
(* rejections, releases, lost connections and restarts, the handlers of    *)
(* EdgeStateMachine carry the pointers on trips: one visitor at a time, no *)
(* way home but an answer or a cut, nobody let in twice or while away.     *)
(***************************************************************************)
THEOREM TripsImplemented ==
    ASSUME ChordUsers = {}
    PROVE  Spec => MakesTrips
<1>1. Init => Journey!Init
  BY InitTrips
<1>2. TypeOK /\ Agree /\ Apart /\ [Next]_vars => [Journey!Next]_<<Trip, Visitor>>
  BY StepTrips
<1>3. Spec => []Agree
  BY ConversationCorrect, AgreeIsConversation, PTL
<1>4. QED
  BY <1>1, <1>2, <1>3, AlwaysApart, TypeCorrect, PTL
     DEF Spec, MakesTrips, Journey!Spec, Journey!vars

=============================================================================
