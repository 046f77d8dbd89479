-------------------------- MODULE PeerSessionsProofs --------------------------
(***************************************************************************)
(* Proofs about PeerSessions, for any devices, any layouts, any number of  *)
(* connections and any number of faults.                                   *)
(***************************************************************************)
EXTENDS PeerSessions, SequenceTheorems, TLAPS

-----------------------------------------------------------------------------
(* A connection has two ends, and only these have a session on it *)

EndsOK ==
    /\ \A c \in Conn : ends[c] = {} \/ \E d, p \in Device : d # p /\ ends[c] = {d, p}
    /\ \A c \in Conn, d \in Device : session[c][d] # "none" => d \in ends[c]

LEMMA OtherEnd ==
    ASSUME EndsOK, NEW c \in Conn, NEW d \in Device, session[c][d] # "none"
    PROVE  /\ Other(c, d) \in Device /\ Other(c, d) # d
           /\ ends[c] = {d, Other(c, d)}
           /\ \A p \in Device : ends[c] = {d, p} => p = Other(c, d)
<1>1. d \in ends[c]
  BY DEF EndsOK
<1>2. PICK x \in Device, y \in Device : x # y /\ ends[c] = {x, y}
  BY <1>1 DEF EndsOK
<1>3. \E p \in ends[c] : p # d
  BY <1>1, <1>2
<1>4. Other(c, d) \in ends[c] /\ Other(c, d) # d
  BY <1>3 DEF Other
<1>5. QED
  BY <1>1, <1>2, <1>4

Mailed(r) ==
    /\ r.state \in LocalState
    /\ r.mail.to \in Device => r.mail.body \in Kind \ {"ConnectionLost"}

LEMMA HandlersMail ==
    ASSUME NEW s \in LocalState, NEW d \in Device, NEW p \in Device
    PROVE  /\ \A e \in ScreenEdge : Mailed(OnLocalCursorAtEdge(d, s, e))
           /\ Mailed(OnPeerEdgeEnter(s, p))
           /\ Mailed(OnPeerEdgeEnterRejected(s, p))
           /\ Mailed(OnPeerEdgeRelease(s, p))
           /\ Mailed(OnConnectionLost(s, p))
<1> USE DeviceAssumption DEF Mailed, Outcome, Ignored, NoMail, SendMessage, Kind
<1>1. Idle \in LocalState /\ \A x \in Device : Controlling(x) \in LocalState
                                               /\ BeingControlled(x) \in LocalState
  BY DEF LocalState
<1>2. Mailed(Ignored(s))
  OBVIOUS
<1>3. ASSUME NEW e \in ScreenEdge PROVE Mailed(OnLocalCursorAtEdge(d, s, e))
  <2>1. Resolve[d][e] \in Device \cup {NoDevice}
    OBVIOUS
  <2>2. QED
    BY <1>1, <1>2, <2>1 DEF OnLocalCursorAtEdge
<1>4. Mailed(OnPeerEdgeEnter(s, p))
  BY <1>1 DEF OnPeerEdgeEnter
<1>5. Mailed(OnPeerEdgeEnterRejected(s, p)) /\ Mailed(OnPeerEdgeRelease(s, p))
  BY <1>1 DEF OnPeerEdgeEnterRejected, OnPeerEdgeRelease
<1>6. Mailed(OnConnectionLost(s, p))
  BY <1>1 DEF OnConnectionLost
<1>7. QED
  BY <1>3, <1>4, <1>5, <1>6

LEMMA OutcomesMailed ==
    ASSUME TypeOK, NEW d \in Device, events[d] # <<>>
    PROVE  /\ Head(events[d]) \in Event
           /\ Tail(events[d]) \in Seq(Event)
           /\ Mailed(Outcomes(d, Head(events[d])))
<1> DEFINE event == Head(events[d])
<1>1. event \in Event /\ Tail(events[d]) \in Seq(Event)
  BY HeadTailProperties DEF TypeOK
<1>2. event.kind \in Kind /\ event.from \in Device /\ state[d] \in LocalState
  BY <1>1 DEF Event, TypeOK
<1> HIDE DEF event
<1>3. Mailed(Outcomes(d, event))
  BY <1>2, HandlersMail DEF Outcomes, Kind
<1>4. QED
  BY <1>1, <1>3 DEF event

LEMMA SendTyped ==
    ASSUME TypeOK, NEW d \in Device, NEW mail, Send(d, mail),
           mail.to \in Device => mail.body \in Kind \ {"ConnectionLost"}
    PROVE  wire' \in [Conn -> [Device -> Seq(Kind \ {"ConnectionLost"})]]
<1> DEFINE p == mail.to
           c == registry[d][p]
<1>1. CASE wire' = wire
  BY <1>1 DEF TypeOK
<1>2. CASE wire' = [wire EXCEPT ![c][p] = Append(@, mail.body)] /\ p \in Device /\ c # NoConn
  <2>1. c \in Conn /\ wire[c][p] \in Seq(Kind \ {"ConnectionLost"})
    BY <1>2 DEF TypeOK
  <2>2. Append(wire[c][p], mail.body) \in Seq(Kind \ {"ConnectionLost"})
    BY <1>2, <2>1, AppendProperties
  <2> HIDE DEF p, c
  <2>3. QED
    BY <1>2, <2>1, <2>2 DEF TypeOK
<1>3. QED
  BY <1>1, <1>2 DEF Send, IsConnected

-----------------------------------------------------------------------------
(* Type correctness *)

LEMMA EventsGrow ==
    ASSUME TypeOK, NEW d \in Device, NEW event \in Event,
           events' = [events EXCEPT ![d] = Append(@, event)]
    PROVE  /\ events' \in [Device -> Seq(Event)]
           /\ events'[d] = Append(events[d], event)
           /\ \A x \in Device \ {d} : events'[x] = events[x]
BY AppendProperties DEF TypeOK

LEMMA DialFacts ==
    ASSUME NEW d \in Device, NEW p \in Device, Dial(d, p)
    PROVE  \E c \in Conn :
              /\ d # p /\ ends[c] = {}
              /\ ends' = [ends EXCEPT ![c] = {d, p}]
              /\ session' = [session EXCEPT ![c][d] = "handshake", ![c][p] = "handshake"]
<1>1. (CHOOSE c \in Unused : TRUE) \in Unused
  BY DEF Dial
<1>2. QED
  BY <1>1 DEF Dial, Unused

Typed == TypeOK /\ EndsOK

LEMMA TypedStep ==
    ASSUME Typed, [Next]_vars
    PROVE  Typed'
<1> USE DEF Typed
<1>1. ASSUME NEW d \in Device, NEW p \in Device, Dial(d, p)
      PROVE  Typed'
  <2>1. PICK c \in Conn :
            /\ d # p /\ ends[c] = {}
            /\ ends' = [ends EXCEPT ![c] = {d, p}]
            /\ session' = [session EXCEPT ![c][d] = "handshake", ![c][p] = "handshake"]
    BY <1>1, DialFacts
  <2>2. UNCHANGED <<wire, broken, registry, events, state, handoffs, faults>>
    BY <1>1 DEF Dial
  <2>3. ends' \in [Conn -> SUBSET Device] /\ session' \in [Conn -> [Device -> Phase]]
    BY <2>1 DEF TypeOK, Phase
  <2>4. TypeOK'
    BY <2>2, <2>3 DEF TypeOK
  <2>5. EndsOK'
    BY <2>1 DEF EndsOK, TypeOK
  <2>6. QED
    BY <2>4, <2>5
<1>2. ASSUME NEW c \in Conn, NEW d \in Device, Establish(c, d)
      PROVE  Typed'
  <2>1. Other(c, d) \in Device
    BY <1>2, OtherEnd DEF Establish
  <2>2. session' \in [Conn -> [Device -> Phase]]
    BY <1>2 DEF Establish, TypeOK, Phase
  <2>3. registry' \in [Device -> [Device -> Conn \cup {NoConn}]]
    BY <1>2, <2>1 DEF Establish, Register, TypeOK
  <2>4. TypeOK'
    BY <1>2, <2>2, <2>3 DEF Establish, TypeOK
  <2>5. EndsOK'
    BY <1>2 DEF Establish, EndsOK, TypeOK
  <2>6. QED
    BY <2>4, <2>5
<1>3. ASSUME NEW c \in Conn, NEW d \in Device, HandshakeFails(c, d)
      PROVE  Typed'
  BY <1>3 DEF HandshakeFails, TypeOK, EndsOK, Phase
<1>4. ASSUME NEW c \in Conn, NEW d \in Device, Read(c, d)
      PROVE  Typed'
  <2>1. Other(c, d) \in Device
    BY <1>4, OtherEnd DEF Read, Reading
  <2>2. Head(wire[c][d]) \in Kind \ {"ConnectionLost"}
        /\ Tail(wire[c][d]) \in Seq(Kind \ {"ConnectionLost"})
    BY <1>4, HeadTailProperties DEF Read, TypeOK
  <2>3. [kind |-> Head(wire[c][d]), from |-> Other(c, d)] \in Event
    BY <2>1, <2>2 DEF Event
  <2>4. events' \in [Device -> Seq(Event)]
    BY <1>4, <2>3, EventsGrow DEF Read
  <2>5. wire' \in [Conn -> [Device -> Seq(Kind \ {"ConnectionLost"})]]
    BY <1>4, <2>2 DEF Read, TypeOK
  <2>6. QED
    BY <1>4, <2>4, <2>5 DEF Read, TypeOK, EndsOK
<1>5. ASSUME NEW c \in Conn, NEW d \in Device, WatchdogFires(c, d)
      PROVE  Typed'
  <2>1. Other(c, d) \in Device /\ session[c][d] # "none"
    BY <1>5, OtherEnd DEF WatchdogFires
  <2>2. Lost(Other(c, d)) \in Event
    BY <2>1 DEF Lost, Event, Kind
  <2>3. events' \in [Device -> Seq(Event)]
    BY <1>5, <2>2, EventsGrow DEF WatchdogFires
  <2>4. registry' \in [Device -> [Device -> Conn \cup {NoConn}]]
    BY <1>5, <2>1 DEF WatchdogFires, Unregister, TypeOK
  <2>5. session' \in [Conn -> [Device -> Phase]]
    BY <1>5 DEF WatchdogFires, TypeOK, Phase
  <2>6. TypeOK'
    BY <1>5, <2>3, <2>4, <2>5 DEF WatchdogFires, TypeOK
  <2>7. EndsOK'
    BY <1>5, <2>1 DEF WatchdogFires, EndsOK, TypeOK
  <2>8. QED
    BY <2>6, <2>7
<1>6. ASSUME NEW c \in Conn, NEW d \in Device, SessionEnds(c, d)
      PROVE  Typed'
  <2>1. Other(c, d) \in Device /\ session[c][d] # "none"
    BY <1>6, OtherEnd DEF SessionEnds, Reading
  <2>2. Lost(Other(c, d)) \in Event
    BY <2>1 DEF Lost, Event, Kind
  <2>3. events' \in [Device -> Seq(Event)]
    BY <1>6, <2>2, EventsGrow DEF SessionEnds
  <2>4. registry' \in [Device -> [Device -> Conn \cup {NoConn}]]
    BY <1>6, <2>1 DEF SessionEnds, Unregister, TypeOK
  <2>5. session' \in [Conn -> [Device -> Phase]]
    BY <1>6 DEF SessionEnds, TypeOK, Phase
  <2>6. wire' \in [Conn -> [Device -> Seq(Kind \ {"ConnectionLost"})]]
    BY <1>6, EmptySeq DEF SessionEnds, TypeOK
  <2>7. TypeOK'
    BY <1>6, <2>3, <2>4, <2>5, <2>6 DEF SessionEnds, TypeOK
  <2>8. EndsOK'
    BY <1>6, <2>1 DEF SessionEnds, EndsOK, TypeOK
  <2>9. QED
    BY <2>7, <2>8
<1>7. ASSUME NEW d \in Device, HandleEvent(d)
      PROVE  Typed'
  <2> DEFINE r == Outcomes(d, Head(events[d]))
  <2>1. Tail(events[d]) \in Seq(Event) /\ Mailed(r)
    BY <1>7, OutcomesMailed DEF HandleEvent
  <2>2. /\ events' = [events EXCEPT ![d] = Tail(@)]
        /\ state' = [state EXCEPT ![d] = r.state]
        /\ Send(d, r.mail)
        /\ UNCHANGED <<ends, session, broken, registry, handoffs, faults>>
    BY <1>7 DEF HandleEvent
  <2> HIDE DEF r
  <2>3. wire' \in [Conn -> [Device -> Seq(Kind \ {"ConnectionLost"})]]
    BY <2>1, <2>2, SendTyped DEF Mailed
  <2>4. QED
    BY <2>1, <2>2, <2>3 DEF TypeOK, EndsOK, Mailed
<1>8. ASSUME NEW d \in Device, NEW e \in ScreenEdge, CursorAtEdge(d, e)
      PROVE  Typed'
  <2> DEFINE r == OnLocalCursorAtEdge(d, state[d], e)
  <2>1. Mailed(r)
    BY HandlersMail DEF TypeOK
  <2>2. /\ state' = [state EXCEPT ![d] = r.state]
        /\ Send(d, r.mail)
        /\ UNCHANGED <<ends, session, broken, registry, events, faults>>
    BY <1>8 DEF CursorAtEdge
  <2>5. handoffs' = [handoffs EXCEPT ![d] = @ + 1] \/ handoffs' = handoffs
    BY <1>8 DEF CursorAtEdge
  <2>6. handoffs' \in [Device -> Nat]
    <3>1. handoffs \in [Device -> Nat]
      BY DEF TypeOK
    <3>2. CASE handoffs' = [handoffs EXCEPT ![d] = @ + 1]
      BY <3>1, <3>2
    <3>3. CASE handoffs' = handoffs
      BY <3>1, <3>3
    <3>4. QED
      BY <2>5, <3>2, <3>3
  <2> HIDE DEF r
  <2>3. wire' \in [Conn -> [Device -> Seq(Kind \ {"ConnectionLost"})]]
    BY <2>1, <2>2, SendTyped DEF Mailed
  <2>4. QED
    BY <2>1, <2>2, <2>3, <2>6 DEF TypeOK, EndsOK, Mailed
<1>9. ASSUME NEW d \in Device, Restart(d)
      PROVE  Typed'
  <2>1. <<>> \in Seq(Kind \ {"ConnectionLost"}) /\ <<>> \in Seq(Event) /\ Idle \in LocalState
    BY EmptySeq DEF LocalState
  <2>2. session' \in [Conn -> [Device -> Phase]]
    BY <1>9 DEF Restart, TypeOK, Phase
  <2>3. wire' \in [Conn -> [Device -> Seq(Kind \ {"ConnectionLost"})]]
    BY <1>9, <2>1 DEF Restart, TypeOK
  <2>4. TypeOK'
    BY <1>9, <2>1, <2>2, <2>3 DEF Restart, TypeOK
  <2>5. EndsOK'
    BY <1>9 DEF Restart, EndsOK, TypeOK
  <2>6. QED
    BY <2>4, <2>5
<1>10. ASSUME NEW c \in Conn, Break(c)
      PROVE  Typed'
  <2>1. broken' \subseteq Conn /\ faults' \in Nat
    BY <1>10 DEF Break, TypeOK
  <2>2. TypeOK'
    BY <1>10, <2>1 DEF Break, TypeOK
  <2>3. EndsOK'
    BY <1>10 DEF Break, EndsOK
  <2>4. QED
    BY <2>2, <2>3
<1>11. CASE UNCHANGED vars
  BY <1>11 DEF vars, TypeOK, EndsOK
<1>12. QED
  <2> HIDE DEF Typed
  <2>1. CASE \E d, p \in Device : Dial(d, p)
    BY <1>1, <2>1
  <2>2. CASE \E c \in Conn, d \in Device :
                Establish(c, d) \/ HandshakeFails(c, d) \/ Read(c, d)
                    \/ WatchdogFires(c, d) \/ SessionEnds(c, d)
    BY <1>2, <1>3, <1>4, <1>5, <1>6, <2>2
  <2>3. CASE \E d \in Device : HandleEvent(d) \/ (\E e \in ScreenEdge : CursorAtEdge(d, e))
                                                \/ Restart(d)
    BY <1>7, <1>8, <1>9, <2>3
  <2>4. CASE \E c \in Conn : Break(c)
    BY <1>10, <2>4
  <2>5. QED
    BY <1>11, <2>1, <2>2, <2>3, <2>4 DEF Next

(* Every variable keeps its type, and every session is of an end of its connection. *)
THEOREM TypeCorrect == Spec => []TypeOK
<1>1. Init => Typed
  BY EmptySeq, DeviceAssumption DEF Init, Typed, TypeOK, EndsOK, LocalState, Phase
<1>2. QED
  BY <1>1, TypedStep, PTL DEF Spec, Typed

-----------------------------------------------------------------------------
(* The registry leads to live sessions *)

LEMMA RegistryStep ==
    ASSUME Typed, RegistryIsLive, [Next]_vars
    PROVE  RegistryIsLive'
<1> USE DEF RegistryIsLive, IsConnected
<1>1. ASSUME NEW d \in Device, NEW p \in Device, Dial(d, p)
      PROVE  RegistryIsLive'
  <2>1. PICK c \in Conn :
            /\ d # p /\ ends[c] = {}
            /\ ends' = [ends EXCEPT ![c] = {d, p}]
            /\ session' = [session EXCEPT ![c][d] = "handshake", ![c][p] = "handshake"]
    BY <1>1, DialFacts
  <2>2. registry' = registry
    BY <1>1 DEF Dial
  <2>3. ASSUME NEW x \in Device, NEW q \in Device, registry[x][q] # NoConn
        PROVE  /\ ends'[registry[x][q]] = {x, q}
               /\ session'[registry[x][q]][x] = "running"
    <3>1. registry[x][q] \in Conn /\ registry[x][q] # c
      <4>1. registry[x][q] \in Conn
        BY <2>3 DEF Typed, TypeOK
      <4>2. x \in ends[registry[x][q]]
        BY <2>3
      <4>3. QED
        BY <2>1, <4>1, <4>2
    <3>2. QED
      BY <2>1, <2>3, <3>1 DEF Typed, TypeOK
  <2>4. QED
    BY <2>2, <2>3
<1>2. ASSUME NEW c \in Conn, NEW d \in Device, Establish(c, d)
      PROVE  RegistryIsLive'
  <2>1. Other(c, d) \in Device /\ ends[c] = {d, Other(c, d)}
    BY <1>2, OtherEnd DEF Establish, Typed
  <2>2. /\ session' = [session EXCEPT ![c][d] = "running"]
        /\ registry' = [registry EXCEPT ![d][Other(c, d)] = c]
        /\ ends' = ends
    BY <1>2 DEF Establish, Register
  <2>3. ASSUME NEW x \in Device, NEW q \in Device, registry'[x][q] # NoConn
        PROVE  /\ ends[registry'[x][q]] = {x, q}
               /\ session'[registry'[x][q]][x] = "running"
    <3>1. CASE x = d /\ q = Other(c, d)
      <4>1. registry'[x][q] = c
        BY <2>1, <2>2, <3>1 DEF Typed, TypeOK
      <4>2. session'[c][d] = "running"
        BY <2>2 DEF Typed, TypeOK
      <4>3. QED
        BY <2>1, <3>1, <4>1, <4>2
    <3>2. CASE ~ (x = d /\ q = Other(c, d))
      <4>1. registry'[x][q] = registry[x][q]
        BY <2>1, <2>2, <3>2 DEF Typed, TypeOK
      <4>2. registry[x][q] \in Conn
        BY <2>3, <4>1 DEF Typed, TypeOK
      <4>3. session[registry[x][q]][x] = "running" /\ ends[registry[x][q]] = {x, q}
        BY <2>3, <4>1
      <4>4. session'[registry[x][q]][x] = "running"
        BY <2>2, <4>2, <4>3 DEF Typed, TypeOK
      <4>5. QED
        BY <4>1, <4>3, <4>4
    <3>3. QED
      BY <3>1, <3>2
  <2>4. QED
    BY <2>2, <2>3
<1>3. ASSUME NEW c \in Conn, NEW d \in Device, HandshakeFails(c, d)
      PROVE  RegistryIsLive'
  BY <1>3 DEF HandshakeFails, Typed, TypeOK
<1>4. ASSUME NEW c \in Conn, NEW d \in Device, NEW phase,
             session[c][d] # "none",
             session' = [session EXCEPT ![c][d] = phase],
             Unregister(d, Other(c, d)), ends' = ends
      PROVE  RegistryIsLive'
  <2>1. Other(c, d) \in Device /\ \A p \in Device : ends[c] = {d, p} => p = Other(c, d)
    BY <1>4, OtherEnd DEF Typed
  <2>2. ASSUME NEW x \in Device, NEW q \in Device, registry'[x][q] # NoConn
        PROVE  /\ ends[registry'[x][q]] = {x, q}
               /\ session'[registry'[x][q]][x] = "running"
    <3>1. ~ (x = d /\ q = Other(c, d)) /\ registry'[x][q] = registry[x][q]
      BY <1>4, <2>1, <2>2 DEF Unregister, Typed, TypeOK
    <3>2. /\ registry[x][q] \in Conn
          /\ ends[registry[x][q]] = {x, q}
          /\ session[registry[x][q]][x] = "running"
      BY <2>2, <3>1 DEF Typed, TypeOK
    <3>3. ~ (registry[x][q] = c /\ x = d)
      BY <2>1, <3>1, <3>2
    <3>4. session'[registry[x][q]][x] = "running"
      BY <1>4, <3>2, <3>3 DEF Typed, TypeOK
    <3>5. QED
      BY <3>1, <3>2, <3>4
  <2>3. QED
    BY <1>4, <2>2
<1>5. ASSUME NEW c \in Conn, NEW d \in Device, WatchdogFires(c, d)
      PROVE  RegistryIsLive'
  BY <1>4, <1>5 DEF WatchdogFires
<1>6. ASSUME NEW c \in Conn, NEW d \in Device, SessionEnds(c, d)
      PROVE  RegistryIsLive'
  BY <1>4, <1>6 DEF SessionEnds, Reading
<1>7. ASSUME NEW d \in Device, Restart(d)
      PROVE  RegistryIsLive'
  <2>1. ASSUME NEW x \in Device, NEW q \in Device, registry'[x][q] # NoConn
        PROVE  /\ ends[registry'[x][q]] = {x, q}
               /\ session'[registry'[x][q]][x] = "running"
    <3>1. x # d /\ registry'[x][q] = registry[x][q]
      BY <1>7, <2>1 DEF Restart, Typed, TypeOK
    <3>2. /\ registry[x][q] \in Conn
          /\ ends[registry[x][q]] = {x, q}
          /\ session[registry[x][q]][x] = "running"
      BY <2>1, <3>1 DEF Typed, TypeOK
    <3>3. session'[registry[x][q]][x] = session[registry[x][q]][x]
      BY <1>7, <3>1, <3>2 DEF Restart, Typed, TypeOK
    <3>4. QED
      BY <3>1, <3>2, <3>3
  <2>2. QED
    BY <1>7, <2>1 DEF Restart
<1>8. CASE UNCHANGED <<ends, session, registry>>
  BY <1>8
<1>9. ASSUME NEW d \in Device, HandleEvent(d) \/ \E e \in ScreenEdge : CursorAtEdge(d, e)
      PROVE  RegistryIsLive'
  BY <1>8, <1>9 DEF HandleEvent, CursorAtEdge
<1>10. QED
  <2> HIDE DEF RegistryIsLive, IsConnected
  <2>1. CASE \E d, p \in Device : Dial(d, p)
    BY <1>1, <2>1
  <2>2. CASE \E c \in Conn, d \in Device :
                Establish(c, d) \/ HandshakeFails(c, d) \/ Read(c, d)
                    \/ WatchdogFires(c, d) \/ SessionEnds(c, d)
    BY <1>2, <1>3, <1>5, <1>6, <1>8, <2>2 DEF Read
  <2>3. CASE \E d \in Device : HandleEvent(d) \/ (\E e \in ScreenEdge : CursorAtEdge(d, e))
                                                \/ Restart(d)
    BY <1>7, <1>9, <2>3
  <2>4. CASE \E c \in Conn : Break(c)
    BY <1>8, <2>4 DEF Break
  <2>5. CASE UNCHANGED vars
    BY <1>8, <2>5 DEF vars
  <2>6. QED
    BY <2>1, <2>2, <2>3, <2>4, <2>5 DEF Next

(***************************************************************************)
(* Whatever the number of sessions that race for one peer's entry, an      *)
(* entry never leads to a session that ended or timed out (network.rs      *)
(* 134, 170, 224).                                                         *)
(***************************************************************************)
THEOREM RegistryLive == Spec => []RegistryIsLive
<1>1. Init => Typed /\ RegistryIsLive
  <2>1. Init => Typed
    BY EmptySeq, DeviceAssumption DEF Init, Typed, TypeOK, EndsOK, LocalState, Phase
  <2>2. Init => RegistryIsLive
    BY DEF Init, RegistryIsLive, IsConnected
  <2>3. QED
    BY <2>1, <2>2
<1>2. Typed /\ RegistryIsLive /\ [Next]_vars => (Typed /\ RegistryIsLive)'
  BY TypedStep, RegistryStep
<1>3. QED
  BY <1>1, <1>2, PTL DEF Spec

-----------------------------------------------------------------------------
(* A controlled device reads from its controller or is about to hear of the loss *)

(* Dial, Establish, HandshakeFails, Break, and steps that change none of this. *)
LEMMA ServedOn ==
    ASSUME ControlledIsServed, events' = events, state' = state,
           \A d, p \in Device : Served(d, p) => Served(d, p)'
    PROVE  ControlledIsServed'
<1>1. \A i : \A d, p \in Device : LossBehind(d, p, i) => LossBehind(d, p, i)'
  BY DEF LossBehind
<1>2. QED
  BY <1>1 DEF ControlledIsServed

(* The same connections of d and p, with the same phases or better. *)
LEMMA ServedWhile ==
    ASSUME NEW d \in Device, NEW p \in Device, Served(d, p),
           \A c \in Conn : ends[c] = {d, p} /\ session[c][d] \in Reading =>
                             ends'[c] = {d, p} /\ session'[c][d] \in Reading
    PROVE  Served(d, p)'
BY DEF Served, SessionsWith, Reading

(* Read, WatchdogFires and SessionEnds. *)
LEMMA ServedAppend ==
    ASSUME TypeOK, ControlledIsServed, state' = state,
           NEW d \in Device, NEW event \in Event,
           events' = [events EXCEPT ![d] = Append(@, event)],
           \A x, p \in Device :
               Served(x, p) => Served(x, p)' \/ (x = d /\ event = Lost(p)),
           event.kind = "EdgeEnter" => Served(d, event.from)'
    PROVE  ControlledIsServed'
<1>1. events[d] \in Seq(Event)
  BY DEF TypeOK
<1>2. /\ events'[d] = Append(events[d], event)
      /\ \A x \in Device \ {d} : events'[x] = events[x]
  BY EventsGrow
<1>3. /\ Len(events'[d]) = Len(events[d]) + 1
      /\ events'[d][Len(events[d]) + 1] = event
      /\ \A i \in DOMAIN events[d] : i \in DOMAIN events'[d] /\ events'[d][i] = events[d][i]
      /\ \A i \in DOMAIN events'[d] : i \in DOMAIN events[d] \/ i = Len(events[d]) + 1
  BY <1>1, <1>2
<1>4. ASSUME NEW x \in Device, NEW p \in Device, NEW i, LossBehind(x, p, i)
      PROVE  LossBehind(x, p, i)'
  <2>1. PICK j \in DOMAIN events[x] : j > i /\ events[x][j] = Lost(p)
    BY <1>4 DEF LossBehind
  <2>2. j \in DOMAIN events'[x] /\ events'[x][j] = Lost(p)
    BY <1>2, <1>3, <2>1
  <2>3. QED
    BY <2>1, <2>2 DEF LossBehind, Lost
<1>5. ASSUME NEW p \in Device, event = Lost(p), NEW i \in DOMAIN events[d] \cup {0}
      PROVE  LossBehind(d, p, i)'
  <2>1. Len(events[d]) + 1 \in DOMAIN events'[d] /\ Len(events[d]) + 1 > i
    BY <1>1, <1>2, <1>3
  <2>2. events'[d][Len(events[d]) + 1] = Lost(p)
    BY <1>3, <1>5
  <2>3. QED
    BY <2>1, <2>2 DEF LossBehind, Lost
<1>6. ASSUME NEW x \in Device, NEW p \in Device, state'[x] = BeingControlled(p)
      PROVE  Served(x, p)' \/ LossBehind(x, p, 0)'
  <2>1. Served(x, p) \/ LossBehind(x, p, 0)
    BY <1>6 DEF ControlledIsServed
  <2>2. QED
    BY <1>4, <1>5, <2>1
<1>7. ASSUME NEW x \in Device, NEW p \in Device, NEW i \in DOMAIN events'[x],
             events'[x][i] = [kind |-> "EdgeEnter", from |-> p]
      PROVE  Served(x, p)' \/ LossBehind(x, p, i)'
  <2>1. CASE x = d /\ i = Len(events[d]) + 1
    BY <1>3, <1>7, <2>1
  <2>2. CASE ~ (x = d /\ i = Len(events[d]) + 1)
    <3>1. i \in DOMAIN events[x] /\ events[x][i] = [kind |-> "EdgeEnter", from |-> p]
      BY <1>2, <1>3, <1>7, <2>2
    <3>2. Served(x, p) \/ LossBehind(x, p, i)
      BY <3>1 DEF ControlledIsServed
    <3>3. QED
      BY <1>4, <1>5, <3>1, <3>2
  <2>3. QED
    BY <2>1, <2>2
<1>8. QED
  BY <1>6, <1>7 DEF ControlledIsServed

(* Only an EdgeEnter puts a device under control, and ConnectionLost frees it. *)
LEMMA OutcomeControlled ==
    ASSUME NEW d \in Device, NEW p \in Device, NEW event \in Event,
           Outcomes(d, event).state = BeingControlled(p)
    PROVE  \/ state[d] = BeingControlled(p) /\ event # Lost(p)
           \/ event = [kind |-> "EdgeEnter", from |-> p]
<1>1. event.kind \in Kind /\ event.from \in Device
      /\ event = [kind |-> event.kind, from |-> event.from]
  BY DEF Event
<1>2. CASE event.kind = "EdgeEnter"
  <2>1. OnPeerEdgeEnter(state[d], event.from).state = BeingControlled(p)
    BY <1>2 DEF Outcomes
  <2>2. event # Lost(p)
    BY <1>2 DEF Lost
  <2>3. QED
    BY <1>1, <1>2, <2>1, <2>2
       DEF OnPeerEdgeEnter, Outcome, Ignored, BeingControlled, SendMessage
<1>3. CASE event.kind = "EdgeEnterRejected"
  <2>1. OnPeerEdgeEnterRejected(state[d], event.from).state = BeingControlled(p)
    BY <1>3 DEF Outcomes
  <2>2. QED
    BY <1>3, <2>1
       DEF OnPeerEdgeEnterRejected, Outcome, Ignored, BeingControlled, Idle, Lost
<1>4. CASE event.kind = "EdgeRelease"
  <2>1. OnPeerEdgeRelease(state[d], event.from).state = BeingControlled(p)
    BY <1>4 DEF Outcomes
  <2>2. QED
    BY <1>4, <2>1
       DEF OnPeerEdgeRelease, Outcome, Ignored, BeingControlled, Idle, Lost
<1>5. CASE event.kind = "ConnectionLost"
  <2>1. OnConnectionLost(state[d], event.from).state = BeingControlled(p)
    BY <1>5 DEF Outcomes
  <2>2. QED
    BY <1>5, <2>1
       DEF OnConnectionLost, Outcome, Ignored, BeingControlled, Controlling, Idle, Lost
<1>6. QED
  BY <1>1, <1>2, <1>3, <1>4, <1>5 DEF Kind

LEMMA ServedHandle ==
    ASSUME TypeOK, ControlledIsServed, NEW d \in Device, HandleEvent(d)
    PROVE  ControlledIsServed'
<1> DEFINE event == Head(events[d])
<1>1. event \in Event
  BY OutcomesMailed DEF HandleEvent
<1>2. /\ events[d] \in Seq(Event) /\ events[d] # <<>>
      /\ events'[d] = Tail(events[d])
      /\ state'[d] = Outcomes(d, event).state
      /\ \A x \in Device \ {d} : events'[x] = events[x] /\ state'[x] = state[x]
      /\ \A x, p \in Device : Served(x, p)' = Served(x, p)
  BY DEF HandleEvent, TypeOK, Served, SessionsWith
<1>3. /\ 1 \in DOMAIN events[d] /\ events[d][1] = event
      /\ \A i \in DOMAIN events'[d] :
            i \in Nat /\ i + 1 \in DOMAIN events[d] /\ events'[d][i] = events[d][i + 1]
      /\ \A i \in DOMAIN events[d] : i > 1 => i - 1 \in DOMAIN events'[d]
  BY <1>2
<1> HIDE DEF event
<1>4. ASSUME NEW p \in Device, NEW i \in Nat, LossBehind(d, p, i + 1)
      PROVE  LossBehind(d, p, i)'
  <2>1. PICK j \in DOMAIN events[d] : j > i + 1 /\ events[d][j] = Lost(p)
    BY <1>4 DEF LossBehind
  <2>2. j - 1 \in DOMAIN events'[d] /\ j - 1 > i
    BY <1>2, <1>3, <2>1
  <2>3. (j - 1) + 1 = j
    BY <1>2, <2>1
  <2>4. events'[d][j - 1] = Lost(p)
    <3>1. events'[d][j - 1] = events[d][(j - 1) + 1]
      BY <1>3, <2>2
    <3>2. QED
      BY <2>1, <2>3, <3>1
  <2>5. QED
    BY <2>2, <2>4 DEF LossBehind, Lost
<1>5. ASSUME NEW p \in Device, state[d] = BeingControlled(p), event # Lost(p)
      PROVE  Served(d, p) \/ LossBehind(d, p, 1)
  <2>1. CASE LossBehind(d, p, 0)
    <3>1. PICK j \in DOMAIN events[d] : j > 0 /\ events[d][j] = Lost(p)
      BY <2>1 DEF LossBehind
    <3>2. j \in Nat /\ j > 1
      BY <1>2, <1>3, <1>5, <3>1
    <3>3. QED
      BY <3>1, <3>2 DEF LossBehind
  <2>2. QED
    BY <1>5, <2>1 DEF ControlledIsServed
<1>6. ASSUME NEW p \in Device, event = [kind |-> "EdgeEnter", from |-> p]
      PROVE  Served(d, p) \/ LossBehind(d, p, 1)
  BY <1>3, <1>6 DEF ControlledIsServed
<1>7. ASSUME NEW x \in Device, NEW p \in Device, state'[x] = BeingControlled(p)
      PROVE  Served(x, p)' \/ LossBehind(x, p, 0)'
  <2>1. CASE x = d
    <3>1. Served(d, p) \/ LossBehind(d, p, 1)
      BY <1>1, <1>2, <1>5, <1>6, <1>7, <2>1, OutcomeControlled
    <3>2. LossBehind(d, p, 1) => LossBehind(d, p, 0)'
      BY <1>4
    <3>3. QED
      BY <1>2, <2>1, <3>1, <3>2
  <2>2. CASE x # d
    <3>1. Served(x, p) \/ LossBehind(x, p, 0)
      BY <1>2, <1>7, <2>2 DEF ControlledIsServed
    <3>2. LossBehind(x, p, 0) => LossBehind(x, p, 0)'
      BY <1>2, <2>2 DEF LossBehind, Lost
    <3>3. QED
      BY <1>2, <3>1, <3>2
  <2>3. QED
    BY <2>1, <2>2
<1>8. ASSUME NEW x \in Device, NEW p \in Device, NEW i \in DOMAIN events'[x],
             events'[x][i] = [kind |-> "EdgeEnter", from |-> p]
      PROVE  Served(x, p)' \/ LossBehind(x, p, i)'
  <2>1. CASE x = d
    <3>1. Served(d, p) \/ LossBehind(d, p, i + 1)
      BY <1>3, <1>8, <2>1 DEF ControlledIsServed
    <3>2. LossBehind(d, p, i + 1) => LossBehind(d, p, i)'
      BY <1>3, <1>4, <2>1
    <3>3. QED
      BY <1>2, <2>1, <3>1, <3>2
  <2>2. CASE x # d
    BY <1>2, <1>8, <2>2 DEF ControlledIsServed, LossBehind, Lost
  <2>3. QED
    BY <2>1, <2>2
<1>9. QED
  BY <1>7, <1>8 DEF ControlledIsServed

(* No crossing puts a device under control. *)
LEMMA CrossControlled ==
    ASSUME NEW d, NEW s, NEW e, NEW p, OnLocalCursorAtEdge(d, s, e).state = BeingControlled(p)
    PROVE  s = BeingControlled(p)
<1> DEFINE to == Resolve[d][e]
<1>1. CASE to = NoDevice
  BY <1>1 DEF OnLocalCursorAtEdge, Outcome, Ignored
<1>2. CASE to # NoDevice /\ s = Idle
  BY <1>2 DEF OnLocalCursorAtEdge, Outcome, Controlling, BeingControlled
<1>3. CASE to # NoDevice /\ s # Idle /\ s = BeingControlled(to)
  <2>1. OnLocalCursorAtEdge(d, s, e).state = Idle
    BY <1>3 DEF OnLocalCursorAtEdge, Outcome
  <2>2. QED
    BY <2>1 DEF Idle, BeingControlled
<1>4. CASE to # NoDevice /\ s # Idle /\ s # BeingControlled(to)
  BY <1>4 DEF OnLocalCursorAtEdge, Outcome, Ignored
<1>5. QED
  BY <1>1, <1>2, <1>3, <1>4

LEMMA ServedCross ==
    ASSUME TypeOK, ControlledIsServed,
           NEW d \in Device, NEW e \in ScreenEdge, CursorAtEdge(d, e)
    PROVE  ControlledIsServed'
<1>1. \A x, p \in Device : Served(x, p)' = Served(x, p)
  BY DEF CursorAtEdge, Served, SessionsWith
<1>2. \A i : \A x, p \in Device : LossBehind(x, p, i)' = LossBehind(x, p, i)
  BY DEF CursorAtEdge, LossBehind, Lost
<1>3. ASSUME NEW x \in Device, NEW p \in Device, state'[x] = BeingControlled(p)
      PROVE  state[x] = BeingControlled(p)
  <2>1. state' = [state EXCEPT ![d] = OnLocalCursorAtEdge(d, state[d], e).state]
    BY DEF CursorAtEdge
  <2>2. CASE x = d
    <3>1. OnLocalCursorAtEdge(d, state[d], e).state = BeingControlled(p)
      BY <1>3, <2>1, <2>2 DEF TypeOK
    <3>2. QED
      BY <2>2, <3>1, CrossControlled
  <2>3. CASE x # d
    BY <1>3, <2>1, <2>3 DEF TypeOK
  <2>4. QED
    BY <2>2, <2>3
<1>4. events' = events
  BY DEF CursorAtEdge
<1>5. QED
  BY <1>1, <1>2, <1>3, <1>4 DEF ControlledIsServed

LEMMA ServedRestart ==
    ASSUME Typed, ControlledIsServed, NEW d \in Device, Restart(d)
    PROVE  ControlledIsServed'
<1>1. /\ events'[d] = <<>> /\ state'[d] = Idle
      /\ \A x \in Device \ {d} : events'[x] = events[x] /\ state'[x] = state[x]
      /\ ends' = ends
  BY DEF Restart, Typed, TypeOK
<1>2. \A c \in Conn, x \in Device : x # d => session'[c][x] = session[c][x]
  BY DEF Restart, Typed, TypeOK
<1>3. ASSUME NEW x \in Device, NEW p \in Device, x # d, Served(x, p)
      PROVE  Served(x, p)'
  BY <1>1, <1>2, <1>3, ServedWhile
<1>4. ASSUME NEW x \in Device, NEW p \in Device, NEW i, x # d, LossBehind(x, p, i)
      PROVE  LossBehind(x, p, i)'
  BY <1>1, <1>4 DEF LossBehind, Lost
<1>5. \A x, p \in Device : state'[x] = BeingControlled(p) => x # d /\ state[x] = BeingControlled(p)
  BY <1>1 DEF Idle, BeingControlled
<1>6. \A x \in Device : \A i \in DOMAIN events'[x] : x # d /\ i \in DOMAIN events[x]
                                                          /\ events'[x][i] = events[x][i]
  BY <1>1
<1>7. QED
  BY <1>3, <1>4, <1>5, <1>6 DEF ControlledIsServed

LEMMA ServedStep ==
    ASSUME Typed, ControlledIsServed, [Next]_vars
    PROVE  ControlledIsServed'
<1>1. ASSUME NEW d \in Device, NEW p \in Device, Dial(d, p)
      PROVE  ControlledIsServed'
  <2>1. PICK c \in Conn :
            /\ d # p /\ ends[c] = {}
            /\ ends' = [ends EXCEPT ![c] = {d, p}]
            /\ session' = [session EXCEPT ![c][d] = "handshake", ![c][p] = "handshake"]
    BY <1>1, DialFacts
  <2>2. ASSUME NEW x \in Device, NEW q \in Device, Served(x, q)
        PROVE  Served(x, q)'
    <3>1. ASSUME NEW k \in Conn, ends[k] = {x, q}
          PROVE  k # c
      <4>1. x \in ends[k]
        BY <3>1
      <4>2. QED
        BY <2>1, <4>1
    <3>2. \A k \in Conn : k # c => ends'[k] = ends[k] /\ session'[k] = session[k]
      BY <2>1 DEF Typed, TypeOK
    <3>3. QED
      BY <2>2, <3>1, <3>2, ServedWhile
  <2>3. QED
    BY <1>1, <2>2, ServedOn DEF Dial
<1>2. ASSUME NEW c \in Conn, NEW d \in Device, Establish(c, d)
      PROVE  ControlledIsServed'
  <2>1. ASSUME NEW x \in Device, NEW q \in Device, Served(x, q)
        PROVE  Served(x, q)'
    <3>1. \A k \in Conn : session[k][x] \in Reading => session'[k][x] \in Reading
      BY <1>2 DEF Establish, Typed, TypeOK, Reading
    <3>2. QED
      BY <1>2, <2>1, <3>1, ServedWhile DEF Establish
  <2>2. QED
    BY <1>2, <2>1, ServedOn DEF Establish
<1>3. ASSUME NEW c \in Conn, NEW d \in Device, HandshakeFails(c, d)
      PROVE  ControlledIsServed'
  <2>1. ASSUME NEW x \in Device, NEW q \in Device, Served(x, q)
        PROVE  Served(x, q)'
    <3>1. \A k \in Conn : session[k][x] \in Reading => session'[k][x] \in Reading
      BY <1>3 DEF HandshakeFails, Typed, TypeOK, Reading
    <3>2. QED
      BY <1>3, <2>1, <3>1, ServedWhile DEF HandshakeFails
  <2>2. QED
    BY <1>3, <2>1, ServedOn DEF HandshakeFails
<1>4. ASSUME NEW c \in Conn, NEW d \in Device, Read(c, d)
      PROVE  ControlledIsServed'
  <2>1. session[c][d] \in Reading /\ session[c][d] # "none"
    BY <1>4 DEF Read, Reading
  <2>2. PICK q \in Device : q = Other(c, d) /\ ends[c] = {d, q}
    BY <2>1, OtherEnd DEF Typed
  <2>3. Head(wire[c][d]) \in Kind
    BY <1>4, HeadTailProperties DEF Read, Typed, TypeOK
  <2>4. PICK event \in Event : event = [kind |-> Head(wire[c][d]), from |-> q]
    BY <2>3 DEF Event
  <2>5. \A x, p \in Device : Served(x, p)' = Served(x, p)
    BY <1>4 DEF Read, Served, SessionsWith
  <2>6. Served(d, q)
    BY <2>1, <2>2 DEF Served, SessionsWith
  <2>7. event.from = q
    BY <2>4
  <2>8. Served(d, event.from)'
    BY <2>5, <2>6, <2>7
  <2>9. events' = [events EXCEPT ![d] = Append(@, event)] /\ state' = state
    BY <1>4, <2>2, <2>4 DEF Read
  <2>10. QED
    BY <2>5, <2>8, <2>9, ServedAppend DEF Typed
<1>5. ASSUME NEW c \in Conn, NEW d \in Device, WatchdogFires(c, d)
      PROVE  ControlledIsServed'
  <2>1. Other(c, d) \in Device
    BY <1>5, OtherEnd DEF WatchdogFires, Typed
  <2>2. Lost(Other(c, d)) \in Event /\ Lost(Other(c, d)).kind # "EdgeEnter"
    BY <2>1 DEF Lost, Event, Kind
  <2>3. ASSUME NEW x \in Device, NEW q \in Device, Served(x, q)
        PROVE  Served(x, q)'
    <3>1. \A k \in Conn : session[k][x] \in Reading => session'[k][x] \in Reading
      BY <1>5 DEF WatchdogFires, Typed, TypeOK, Reading
    <3>2. QED
      BY <1>5, <2>3, <3>1, ServedWhile DEF WatchdogFires
  <2>4. /\ events' = [events EXCEPT ![d] = Append(@, Lost(Other(c, d)))]
        /\ state' = state
    BY <1>5 DEF WatchdogFires
  <2>5. QED
    BY <2>2, <2>3, <2>4, ServedAppend DEF Typed
<1>6. ASSUME NEW c \in Conn, NEW d \in Device, SessionEnds(c, d)
      PROVE  ControlledIsServed'
  <2>1. Other(c, d) \in Device /\ \A p \in Device : ends[c] = {d, p} => p = Other(c, d)
    BY <1>6, OtherEnd DEF SessionEnds, Reading, Typed
  <2>2. Lost(Other(c, d)) \in Event /\ Lost(Other(c, d)).kind # "EdgeEnter"
    BY <2>1 DEF Lost, Event, Kind
  <2>3. ASSUME NEW x \in Device, NEW q \in Device, Served(x, q), ~ (x = d /\ q = Other(c, d))
        PROVE  Served(x, q)'
    <3>1. ASSUME NEW k \in Conn, ends[k] = {x, q}, session[k][x] \in Reading
          PROVE  session'[k][x] \in Reading
      <4>1. ~ (k = c /\ x = d)
        BY <2>1, <2>3, <3>1
      <4>2. session'[k][x] = session[k][x]
        BY <1>6, <4>1 DEF SessionEnds, Typed, TypeOK
      <4>3. QED
        BY <3>1, <4>2
    <3>2. ends' = ends
      BY <1>6 DEF SessionEnds
    <3>3. QED
      BY <2>3, <3>1, <3>2, ServedWhile
  <2>4. /\ events' = [events EXCEPT ![d] = Append(@, Lost(Other(c, d)))]
        /\ state' = state
    BY <1>6 DEF SessionEnds
  <2>5. QED
    BY <2>2, <2>3, <2>4, ServedAppend DEF Typed
<1>7. ASSUME NEW c \in Conn, Break(c)
      PROVE  ControlledIsServed'
  BY <1>7, ServedOn DEF Break, Served, SessionsWith
<1>8. CASE UNCHANGED vars
  BY <1>8, ServedOn DEF vars, Served, SessionsWith
<1>9. QED
  <2>1. CASE \E d, p \in Device : Dial(d, p)
    BY <1>1, <2>1
  <2>2. CASE \E c \in Conn, d \in Device :
                Establish(c, d) \/ HandshakeFails(c, d) \/ Read(c, d)
                    \/ WatchdogFires(c, d) \/ SessionEnds(c, d)
    BY <1>2, <1>3, <1>4, <1>5, <1>6, <2>2
  <2>3. CASE \E d \in Device : HandleEvent(d) \/ (\E e \in ScreenEdge : CursorAtEdge(d, e))
                                                \/ Restart(d)
    BY <2>3, ServedHandle, ServedCross, ServedRestart DEF Typed
  <2>4. CASE \E c \in Conn : Break(c)
    BY <1>7, <2>4
  <2>5. QED
    BY <1>8, <2>1, <2>2, <2>3, <2>4 DEF Next

(***************************************************************************)
(* However sessions with one peer overlap, end, time out and start again,  *)
(* no device is left under the control of a peer that it neither reads     *)
(* from nor is about to hear lost (network.rs 161-175, 224-229).           *)
(***************************************************************************)
THEOREM ControlledServed == Spec => []ControlledIsServed
<1>1. Init => Typed /\ ControlledIsServed
  <2>1. Init => Typed
    BY EmptySeq, DeviceAssumption DEF Init, Typed, TypeOK, EndsOK, LocalState, Phase
  <2>2. Init => ControlledIsServed
    BY DEF Init, ControlledIsServed, Idle, BeingControlled
  <2>3. QED
    BY <2>1, <2>2
<1>2. Typed /\ ControlledIsServed /\ [Next]_vars => (Typed /\ ControlledIsServed)'
  BY TypedStep, ServedStep
<1>3. QED
  BY <1>1, <1>2, PTL DEF Spec

=============================================================================
