------------------------- MODULE InputPipelineProofs -------------------------
(***************************************************************************)
(* Proofs about InputPipeline, for any keys, chords, layouts and bounds.   *)
(***************************************************************************)
EXTENDS InputPipeline, SequenceTheorems, TLAPS

-----------------------------------------------------------------------------
(* The event task's steps and the role *)

(* The switch is moved when the role becomes, or ceases to be, Controlling. *)
Turned(s, r) ==
    /\ r.state \in LocalState
    /\ r.pass = "enable" => s.role = "Controlling" /\ r.state.role # "Controlling"
    /\ r.pass = "disable" => s.role # "Controlling" /\ r.state.role = "Controlling"
    /\ r.pass \notin {"enable", "disable"} =>
          (s.role = "Controlling" <=> r.state.role = "Controlling")

(* Only a movement to an edge, which sends an EdgeEnter, makes a controller. *)
Keeps(s, r) == r.state.role = "Controlling" => s = r.state

LEMMA RolesExclude ==
    ASSUME NEW s \in LocalState, NEW d \in Device
    PROVE  /\ Idle \in LocalState /\ Controlling(d) \in LocalState /\ BeingControlled(d) \in LocalState
           /\ Idle.role # "Controlling" /\ Controlling(d).role = "Controlling"
           /\ BeingControlled(d).role # "Controlling"
           /\ s.role \in {"Idle", "Controlling", "BeingControlled"}
           /\ s.role = "Controlling" => s.peer \in Device
BY DEF LocalState, Idle, Controlling, BeingControlled

LEMMA IgnoredTurns ==
    ASSUME NEW s \in LocalState PROVE Turned(s, Ignored(s)) /\ Keeps(s, Ignored(s))
BY DEF Turned, Keeps, Ignored, Outcome

LEMMA EdgeTurns ==
    ASSUME NEW s \in LocalState, NEW e \in ScreenEdge
    PROVE  LET r == OnLocalCursorAtEdge(Here, s, e)
           IN  Turned(s, r) /\ (Keeps(s, r) \/ r.mail.body = "EdgeEnter")
<1> DEFINE to == Resolve[Here][e]
<1>1. to = NoDevice \/ to \in Device
  BY DeviceAssumption, PipelineAssumption
<1> HIDE DEF to
<1>2. CASE to = NoDevice
  BY <1>2, IgnoredTurns DEF OnLocalCursorAtEdge, to
<1>3. CASE to \in Device
  <2>1. to # NoDevice
    BY <1>3, DeviceAssumption
  <2>2. CASE s = Idle
    BY <1>3, <2>1, <2>2, RolesExclude
       DEF OnLocalCursorAtEdge, Turned, Outcome, SendMessage, to
  <2>3. CASE s # Idle /\ s = BeingControlled(to)
    BY <1>3, <2>1, <2>3, RolesExclude
       DEF OnLocalCursorAtEdge, Turned, Keeps, Outcome, SendMessage, to
  <2>4. CASE s # Idle /\ s # BeingControlled(to)
    BY <2>1, <2>4, IgnoredTurns DEF OnLocalCursorAtEdge, to
  <2>5. QED
    BY <2>2, <2>3, <2>4
<1>4. QED
  BY <1>1, <1>2, <1>3

LEMMA ForwardTurns ==
    ASSUME NEW s \in LocalState
    PROVE  LET r == ForwardIfControlling(s)
           IN  /\ Turned(s, r) /\ Keeps(s, r) /\ r.state = s
               /\ r.mail.body = "Input" <=> s.role = "Controlling"
BY IgnoredTurns DEF ForwardIfControlling, Turned, Keeps, Outcome, Ignored, SendMessage, NoMail

LEMMA ReleaseTurns ==
    ASSUME NEW s \in LocalState
    PROVE  LET r == ForceRelease(s)
           IN  /\ Turned(s, r) /\ r.state = Idle /\ r.state.role # "Controlling"
               /\ r.mail.body # "Input"
BY PipelineAssumption, RolesExclude DEF ForceRelease, Turned, Outcome, SendMessage, NoMail

(* A key is forwarded exactly by a device that remains Controlling. *)
LEMMA KeyTurns ==
    ASSUME NEW s \in LocalState, NEW pressed \in BOOLEAN, NEW keys
    PROVE  LET r == OnLocalKeyEvent(Here, s, pressed, keys)
           IN  /\ Turned(s, r) /\ Keeps(s, r)
               /\ r.state = s => (r.mail.body = "Input" <=> s.role = "Controlling")
               /\ r.state.role = "Controlling" => r.mail.body = "Input"
<1>1. CASE CompletesChord(Here, pressed, keys)
  BY <1>1, ReleaseTurns DEF OnLocalKeyEvent, Keeps
<1>2. CASE ~ CompletesChord(Here, pressed, keys)
  BY <1>2, ForwardTurns DEF OnLocalKeyEvent
<1>3. QED
  BY <1>1, <1>2

LEMMA SignalTurns ==
    ASSUME NEW s \in LocalState, NEW p \in Device
    PROVE  /\ Turned(s, OnPeerEdgeEnter(s, p)) /\ Keeps(s, OnPeerEdgeEnter(s, p))
           /\ Turned(s, OnPeerEdgeRelease(s, p)) /\ Keeps(s, OnPeerEdgeRelease(s, p))
           /\ Turned(s, OnPeerEdgeEnterRejected(s, p)) /\ Keeps(s, OnPeerEdgeEnterRejected(s, p))
           /\ Turned(s, OnConnectionLost(s, p)) /\ Keeps(s, OnConnectionLost(s, p))
           /\ Turned(s, OnPeerInputMessage(s, p)) /\ Keeps(s, OnPeerInputMessage(s, p))
           /\ OnPeerInputMessage(s, p).state = s
<1> USE RolesExclude, IgnoredTurns
<1>1. Turned(s, OnPeerEdgeEnter(s, p)) /\ Keeps(s, OnPeerEdgeEnter(s, p))
  BY DEF OnPeerEdgeEnter, Turned, Keeps, Outcome
<1>2. Turned(s, OnPeerEdgeRelease(s, p)) /\ Keeps(s, OnPeerEdgeRelease(s, p))
  BY DEF OnPeerEdgeRelease, Turned, Keeps, Outcome
<1>3. Turned(s, OnPeerEdgeEnterRejected(s, p)) /\ Keeps(s, OnPeerEdgeEnterRejected(s, p))
  BY DEF OnPeerEdgeEnterRejected, Turned, Keeps, Outcome
<1>4. Turned(s, OnConnectionLost(s, p)) /\ Keeps(s, OnConnectionLost(s, p))
  BY DEF OnConnectionLost, Turned, Keeps, Outcome
<1>5. Turned(s, OnPeerInputMessage(s, p)) /\ Keeps(s, OnPeerInputMessage(s, p))
      /\ OnPeerInputMessage(s, p).state = s
  BY DEF OnPeerInputMessage, Turned, Keeps, Outcome, Ignored
<1>6. QED
  BY <1>1, <1>2, <1>3, <1>4, <1>5

-----------------------------------------------------------------------------
(* The channel *)

LEMMA KeyEvents ==
    ASSUME NEW e \in Event
    PROVE  /\ IsKey(e) => e \in LocalKeyEvent
           /\ e.kind \in Signals \cup {"PeerInputMessage"} => e.from \in Device
           /\ e.kind = "LocalCursorAtEdge" => e.edge \in ScreenEdge
           /\ e.kind = "PeerInputMessage" => e.key \in LogicalKey /\ e.pressed \in BOOLEAN
BY DEF Event, LocalKeyEvent, IsKey, Signals

LEMMA QueueIndex ==
    ASSUME NEW q \in Seq(Event)
    PROVE  /\ DOMAIN q = 1 .. Len(q) /\ Len(q) \in Nat
           /\ \A i \in DOMAIN q : q[i] \in Event
BY LenProperties, ElementOfSeq

LEMMA QueueAppend ==
    ASSUME NEW q \in Seq(Event), NEW e \in Event
    PROVE  /\ Append(q, e) \in Seq(Event)
           /\ DOMAIN Append(q, e) = 1 .. Len(q) + 1
           /\ \A i \in DOMAIN q : Append(q, e)[i] = q[i]
           /\ Append(q, e)[Len(q) + 1] = e
BY AppendProperties, LenProperties

LEMMA QueueTail ==
    ASSUME NEW q \in Seq(Event), q # <<>>
    PROVE  /\ Head(q) = q[1] /\ Head(q) \in Event
           /\ Tail(q) \in Seq(Event)
           /\ Len(q) \in Nat \ {0} /\ DOMAIN q = 1 .. Len(q)
           /\ DOMAIN Tail(q) = 1 .. Len(q) - 1
           /\ \A i \in DOMAIN Tail(q) : Tail(q)[i] = q[i + 1]
BY HeadTailProperties, LenProperties, EmptySeq

(* Events that differ in their marks only. *)
Alike(q, r) ==
    /\ DOMAIN r = DOMAIN q
    /\ \A i \in DOMAIN q :
          /\ IsKey(r[i]) <=> IsKey(q[i])
          /\ IsKey(q[i]) => r[i].key = q[i].key /\ r[i].pressed = q[i].pressed

LEMMA Remarks ==
    ASSUME NEW q \in Seq(Event), NEW r, DOMAIN r = DOMAIN q, r = [i \in DOMAIN r |-> r[i]],
           \A i \in DOMAIN q : \/ ~ IsKey(q[i]) /\ r[i] = q[i]
                               \/ /\ IsKey(q[i])
                                  /\ \E a \in {"undecided", "yes", "no"}, w \in BOOLEAN :
                                        r[i] = [q[i] EXCEPT !.apps = a, !.switched = w]
    PROVE  r \in Seq(Event) /\ Alike(q, r)
<1>1. ASSUME NEW i \in DOMAIN q, IsKey(q[i])
      PROVE  /\ r[i] \in LocalKeyEvent /\ IsKey(r[i])
             /\ r[i].key = q[i].key /\ r[i].pressed = q[i].pressed
  <2>1. q[i] \in LocalKeyEvent
    BY <1>1, QueueIndex, KeyEvents
  <2>2. PICK a \in {"undecided", "yes", "no"}, w \in BOOLEAN :
            r[i] = [q[i] EXCEPT !.apps = a, !.switched = w]
    BY <1>1
  <2>3. QED
    BY <2>1, <2>2 DEF LocalKeyEvent, IsKey
<1>2. ASSUME NEW i \in DOMAIN q PROVE r[i] \in Event
  BY <1>1, QueueIndex DEF Event
<1>3. r \in [1 .. Len(q) -> Event]
  BY <1>2, QueueIndex
<1>4. r \in Seq(Event)
  <2>1. \E n \in Nat : r \in [1 .. n -> Event]
    BY <1>3, QueueIndex
  <2>2. QED
    BY <2>1, SeqDef
<1>5. QED
  BY <1>1, <1>4 DEF Alike

LEMMA DecidedFacts ==
    ASSUME NEW q \in Seq(Event), passThrough \in BOOLEAN
    PROVE  /\ Decided(q) \in Seq(Event) /\ Alike(q, Decided(q))
           /\ \A i \in DOMAIN q : IsKey(q[i]) =>
                 /\ Decided(q)[i].switched = q[i].switched
                 /\ Decided(q)[i].apps =
                       IF q[i].apps = "undecided"
                       THEN IF passThrough THEN "yes" ELSE "no"
                       ELSE q[i].apps
<1>1. ASSUME NEW i \in DOMAIN q, IsKey(q[i])
      PROVE  /\ q[i] \in LocalKeyEvent
             /\ Decided(q)[i] =
                   [q[i] EXCEPT !.apps = IF q[i].apps = "undecided"
                                         THEN IF passThrough THEN "yes" ELSE "no"
                                         ELSE q[i].apps,
                                !.switched = q[i].switched]
  <2>1. q[i] \in LocalKeyEvent
    BY <1>1, QueueIndex, KeyEvents
  <2>2. QED
    BY <1>1, <2>1 DEF Decided, LocalKeyEvent
<1>2. ASSUME NEW i \in DOMAIN q, ~ IsKey(q[i]) PROVE Decided(q)[i] = q[i]
  BY <1>2 DEF Decided
<1>3. Decided(q) \in Seq(Event) /\ Alike(q, Decided(q))
  <2> DEFINE r == Decided(q)
  <2>1. DOMAIN r = DOMAIN q /\ r = [i \in DOMAIN r |-> r[i]]
    BY DEF Decided
  <2>2. \A i \in DOMAIN q : \/ ~ IsKey(q[i]) /\ r[i] = q[i]
                            \/ /\ IsKey(q[i])
                               /\ \E a \in {"undecided", "yes", "no"}, w \in BOOLEAN :
                                     r[i] = [q[i] EXCEPT !.apps = a, !.switched = w]
    BY <1>1, <1>2 DEF LocalKeyEvent
  <2> HIDE DEF r
  <2>3. r \in Seq(Event) /\ Alike(q, r)
    BY <2>1, <2>2, Remarks
  <2>4. QED
    BY <2>3 DEF r
<1>4. QED
  BY <1>1, <1>3 DEF LocalKeyEvent

LEMMA MarkedFacts ==
    ASSUME NEW q \in Seq(Event), NEW switched \in BOOLEAN
    PROVE  /\ Marked(q, switched) \in Seq(Event) /\ Alike(q, Marked(q, switched))
           /\ \A i \in DOMAIN q : IsKey(q[i]) =>
                 /\ Marked(q, switched)[i].switched = (q[i].switched \/ switched)
                 /\ Marked(q, switched)[i].apps = q[i].apps
<1>1. ASSUME NEW i \in DOMAIN q, IsKey(q[i])
      PROVE  /\ q[i] \in LocalKeyEvent
             /\ Marked(q, switched)[i] =
                   [q[i] EXCEPT !.apps = q[i].apps, !.switched = (q[i].switched \/ switched)]
  <2>1. q[i] \in LocalKeyEvent
    BY <1>1, QueueIndex, KeyEvents
  <2>2. QED
    BY <1>1, <2>1 DEF Marked, LocalKeyEvent
<1>2. ASSUME NEW i \in DOMAIN q, ~ IsKey(q[i]) PROVE Marked(q, switched)[i] = q[i]
  BY <1>2 DEF Marked
<1>3. Marked(q, switched) \in Seq(Event) /\ Alike(q, Marked(q, switched))
  <2> DEFINE r == Marked(q, switched)
  <2>1. DOMAIN r = DOMAIN q /\ r = [i \in DOMAIN r |-> r[i]]
    BY DEF Marked
  <2>2. \A i \in DOMAIN q : \/ ~ IsKey(q[i]) /\ r[i] = q[i]
                            \/ /\ IsKey(q[i])
                               /\ \E a \in {"undecided", "yes", "no"}, w \in BOOLEAN :
                                     r[i] = [q[i] EXCEPT !.apps = a, !.switched = w]
    BY <1>1, <1>2 DEF LocalKeyEvent
  <2> HIDE DEF r
  <2>3. r \in Seq(Event) /\ Alike(q, r)
    BY <2>1, <2>2, Remarks
  <2>4. QED
    BY <2>3 DEF r
<1>4. QED
  BY <1>1, <1>3 DEF LocalKeyEvent

-----------------------------------------------------------------------------
(* The last event of a key *)

Last(q, key, i) ==
    /\ i \in DOMAIN q /\ IsKey(q[i]) /\ q[i].key = key
    /\ \A j \in DOMAIN q : IsKey(q[j]) /\ q[j].key = key => j <= i

Coming(q, key) == \E i \in DOMAIN q : Last(q, key, i) /\ ~ q[i].pressed

(* The held set is what the last event of each key on the channel says. *)
Recorded(q, keys) ==
    \A i \in DOMAIN q : IsKey(q[i]) =>
        \E j \in DOMAIN q : Last(q, q[i].key, j) /\ (q[j].pressed <=> q[i].key \in keys)

LEMMA LastAppend ==
    ASSUME NEW q \in Seq(Event), NEW e \in Event
    PROVE  /\ IsKey(e) => Last(Append(q, e), e.key, Len(q) + 1)
           /\ \A key, i : Last(q, key, i) /\ (IsKey(e) => key # e.key) =>
                             /\ Last(Append(q, e), key, i)
                             /\ Append(q, e)[i].pressed = q[i].pressed
BY QueueAppend, QueueIndex DEF Last

LEMMA LastTail ==
    ASSUME NEW q \in Seq(Event), q # <<>>, NEW key, NEW i, Last(q, key, i), i # 1
    PROVE  /\ i - 1 \in DOMAIN Tail(q) /\ Last(Tail(q), key, i - 1)
           /\ Tail(q)[i - 1].pressed = q[i].pressed
<1>1. i - 1 \in DOMAIN Tail(q) /\ Tail(q)[i - 1] = q[i]
  BY QueueTail DEF Last
<1>2. ASSUME NEW j \in DOMAIN Tail(q), IsKey(Tail(q)[j]), Tail(q)[j].key = key
      PROVE  j <= i - 1
  <2>1. j + 1 \in DOMAIN q /\ Tail(q)[j] = q[j + 1]
    BY QueueTail
  <2>2. j + 1 <= i
    BY <1>2, <2>1 DEF Last
  <2>3. QED
    BY <2>1, <2>2, QueueTail DEF Last
<1>3. QED
  BY <1>1, <1>2 DEF Last

LEMMA LastAlike ==
    ASSUME NEW q, NEW r, Alike(q, r), NEW key, NEW i, Last(q, key, i)
    PROVE  Last(r, key, i) /\ r[i].pressed = q[i].pressed
BY DEF Alike, Last

LEMMA ComingAppend ==
    ASSUME NEW q \in Seq(Event), NEW e \in Event, NEW key
    PROVE  /\ Coming(q, key) /\ (IsKey(e) => key # e.key) => Coming(Append(q, e), key)
           /\ IsKey(e) /\ ~ e.pressed => Coming(Append(q, e), e.key)
<1>1. ASSUME Coming(q, key), IsKey(e) => key # e.key PROVE Coming(Append(q, e), key)
  <2>1. PICK i \in DOMAIN q : Last(q, key, i) /\ ~ q[i].pressed
    BY <1>1 DEF Coming
  <2>2. Last(Append(q, e), key, i) /\ ~ Append(q, e)[i].pressed
    BY <1>1, <2>1, LastAppend
  <2>3. QED
    BY <2>2 DEF Coming, Last
<1>2. ASSUME IsKey(e), ~ e.pressed PROVE Coming(Append(q, e), e.key)
  <2>1. Last(Append(q, e), e.key, Len(q) + 1) /\ Append(q, e)[Len(q) + 1] = e
    BY <1>2, LastAppend, QueueAppend
  <2>2. QED
    BY <1>2, <2>1 DEF Coming, Last
<1>3. QED
  BY <1>1, <1>2

LEMMA ComingTail ==
    ASSUME NEW q \in Seq(Event), q # <<>>, NEW key, Coming(q, key),
           IsKey(Head(q)) /\ Head(q).key = key => Head(q).pressed
    PROVE  Coming(Tail(q), key)
<1>1. PICK i \in DOMAIN q : Last(q, key, i) /\ ~ q[i].pressed
  BY DEF Coming
<1>2. i # 1
  BY <1>1, QueueTail DEF Last
<1>3. QED
  BY <1>1, <1>2, LastTail DEF Coming

LEMMA ComingAlike ==
    ASSUME NEW q, NEW r, Alike(q, r), NEW key, Coming(q, key)
    PROVE  Coming(r, key)
<1>1. PICK i \in DOMAIN q : Last(q, key, i) /\ ~ q[i].pressed
  BY DEF Coming
<1>2. QED
  BY <1>1, LastAlike DEF Coming, Last

LEMMA RecordedAppend ==
    ASSUME NEW q \in Seq(Event), NEW e \in Event, NEW before, NEW after, Recorded(q, before),
           IsKey(e) => (e.pressed <=> e.key \in after),
           \A key : (IsKey(e) => key # e.key) => (key \in after <=> key \in before)
    PROVE  Recorded(Append(q, e), after)
<1> DEFINE r == Append(q, e)
<1>1. ASSUME NEW i \in DOMAIN r, IsKey(r[i])
      PROVE  \E j \in DOMAIN r : Last(r, r[i].key, j) /\ (r[j].pressed <=> r[i].key \in after)
  <2>1. CASE IsKey(e) /\ r[i].key = e.key
    <3>1. Last(r, e.key, Len(q) + 1) /\ r[Len(q) + 1] = e
      BY <2>1, LastAppend, QueueAppend
    <3> HIDE DEF r
    <3>2. QED
      BY <2>1, <3>1 DEF Last
  <2>2. CASE ~ (IsKey(e) /\ r[i].key = e.key)
    <3>1. i \in DOMAIN q /\ r[i] = q[i]
      BY <1>1, <2>2, QueueAppend, QueueIndex
    <3>2. PICK j \in DOMAIN q : /\ Last(q, q[i].key, j)
                                /\ q[j].pressed <=> q[i].key \in before
      BY <1>1, <3>1 DEF Recorded
    <3>3. Last(r, q[i].key, j) /\ r[j].pressed = q[j].pressed
      BY <2>2, <3>1, <3>2, LastAppend
    <3> HIDE DEF r
    <3>4. q[i].key \in after <=> q[i].key \in before
      BY <2>2, <3>1
    <3>5. QED
      BY <3>1, <3>2, <3>3, <3>4 DEF Last
  <2>3. QED
    BY <2>1, <2>2
<1>2. QED
  BY <1>1 DEF Recorded

LEMMA RecordedTail ==
    ASSUME NEW q \in Seq(Event), q # <<>>, NEW keys, Recorded(q, keys)
    PROVE  /\ Recorded(Tail(q), keys)
           /\ IsKey(Head(q)) /\ Head(q).pressed /\ Head(q).key \notin keys =>
                 Coming(Tail(q), Head(q).key)
<1>1. ASSUME NEW i \in DOMAIN Tail(q), IsKey(Tail(q)[i])
      PROVE  \E j \in DOMAIN Tail(q) : /\ Last(Tail(q), Tail(q)[i].key, j)
                                       /\ Tail(q)[j].pressed <=> Tail(q)[i].key \in keys
  <2>1. i + 1 \in DOMAIN q /\ Tail(q)[i] = q[i + 1] /\ i + 1 > 1
    BY QueueTail
  <2>2. PICK j \in DOMAIN q : /\ Last(q, q[i + 1].key, j)
                              /\ q[j].pressed <=> q[i + 1].key \in keys
    BY <1>1, <2>1 DEF Recorded
  <2>3. j >= i + 1 /\ j # 1
    BY <1>1, <2>1, <2>2, QueueTail DEF Last
  <2>4. QED
    BY <2>1, <2>2, <2>3, LastTail
<1>2. ASSUME IsKey(Head(q)), Head(q).pressed, Head(q).key \notin keys
      PROVE  Coming(Tail(q), Head(q).key)
  <2>1. 1 \in DOMAIN q /\ q[1] = Head(q)
    BY QueueTail
  <2>2. PICK j \in DOMAIN q : Last(q, Head(q).key, j) /\ (q[j].pressed <=> Head(q).key \in keys)
    BY <1>2, <2>1 DEF Recorded
  <2>3. Coming(q, Head(q).key)
    BY <1>2, <2>2 DEF Coming
  <2>4. QED
    BY <1>2, <2>3, ComingTail
<1>3. QED
  BY <1>1, <1>2 DEF Recorded

LEMMA RecordedAlike ==
    ASSUME NEW q, NEW r, Alike(q, r), NEW keys, Recorded(q, keys)
    PROVE  Recorded(r, keys)
<1>1. ASSUME NEW i \in DOMAIN r, IsKey(r[i])
      PROVE  \E j \in DOMAIN r : Last(r, r[i].key, j) /\ (r[j].pressed <=> r[i].key \in keys)
  <2>1. i \in DOMAIN q /\ IsKey(q[i]) /\ r[i].key = q[i].key
    BY <1>1 DEF Alike
  <2>2. PICK j \in DOMAIN q : Last(q, q[i].key, j) /\ (q[j].pressed <=> q[i].key \in keys)
    BY <2>1 DEF Recorded
  <2>3. Last(r, r[i].key, j) /\ r[j].pressed = q[j].pressed
    BY <2>1, <2>2, LastAlike
  <2>4. QED
    BY <2>1, <2>2, <2>3 DEF Last
<1>2. QED
  BY <1>1 DEF Recorded

-----------------------------------------------------------------------------
(***************************************************************************)
(* The invariant.  Where the role has not changed since its capture, what  *)
(* the capture thread decided of an event agrees with the role, and so     *)
(* does what the event task did with it.                                   *)
(***************************************************************************)
SwitchRight == passThrough <=> state.role # "Controlling"

MarksRight(q, pass) ==
    \A i \in DOMAIN q : IsKey(q[i]) =>
        \/ q[i].apps = "undecided"
        \/ q[i].switched
        \/ q[i].apps = "yes" <=> pass

HookRight(h, pass) == h.phase = "handled" => h.switched \/ (h.peer <=> ~ pass)

Owed(q, keys, up) == \A key \in keys \ up : Coming(q, key)

IInv ==
    /\ TypeOK
    /\ SwitchRight
    /\ MarksRight(queue, passThrough)
    /\ HookRight(hook, passThrough)
    /\ OneDestination
    /\ Recorded(queue, held)
    /\ state.role = "Controlling" => Owed(queue, forwarded, held)

LEMMA InitIInv == ASSUME Init PROVE IInv
<1>1. TypeOK
  BY EmptySeq DEF Init, TypeOK, LocalState, Waiting, Hook, Fate
<1>2. queue = <<>> /\ DOMAIN queue = {}
  BY EmptySeq, LenProperties DEF Init
<1>3. state.role = "Idle" /\ passThrough = TRUE /\ hook.phase = "waiting"
  BY DEF Init, Idle, Waiting
<1>4. OneDestination
  BY DEF Init, OneDestination, Fate
<1>5. QED
  BY <1>1, <1>2, <1>3, <1>4 DEF IInv, SwitchRight, MarksRight, HookRight, Recorded

-----------------------------------------------------------------------------
(* The steps of the capture thread and of the session tasks *)

LEMMA MarksAppend ==
    ASSUME NEW q \in Seq(Event), NEW e \in Event, NEW pass, MarksRight(q, pass),
           IsKey(e) => e.apps = "undecided"
    PROVE  MarksRight(Append(q, e), pass)
BY QueueAppend, QueueIndex DEF MarksRight

LEMMA CaptureKeyStep ==
    ASSUME IInv, NEW key \in LogicalKey, NEW pressed \in BOOLEAN, CaptureKey(key, pressed),
           down' \subseteq LogicalKey, injecting' \in Seq([key : LogicalKey, pressed : BOOLEAN])
    PROVE  IInv'
<1> DEFINE e == KeyEvent(key, pressed, held')
<1>1. held' \subseteq LogicalKey /\ (key \in held' <=> pressed)
      /\ \A k : k # key => (k \in held' <=> k \in held)
  BY DEF CaptureKey, IInv, TypeOK
<1>2. e \in Event /\ IsKey(e) /\ e.key = key /\ e.pressed = pressed /\ e.apps = "undecided"
  BY <1>1 DEF KeyEvent, Event, LocalKeyEvent, IsKey
<1>3. queue' = Append(queue, e) /\ queue \in Seq(Event)
  BY DEF CaptureKey, IInv, TypeOK
<1> HIDE DEF e
<1>4. TypeOK'
  BY <1>1, <1>2, <1>3, QueueAppend DEF CaptureKey, IInv, TypeOK, Sent, Hook
<1>5. SwitchRight' /\ OneDestination' /\ HookRight(hook, passThrough)'
  BY DEF CaptureKey, IInv, SwitchRight, OneDestination, HookRight, Sent
<1>6. MarksRight(queue, passThrough)'
  BY <1>2, <1>3, MarksAppend DEF CaptureKey, IInv
<1>7. Recorded(queue, held)'
  BY <1>1, <1>2, <1>3, RecordedAppend DEF IInv
<1>8. ASSUME state'.role = "Controlling", NEW k \in forwarded' \ held' PROVE Coming(queue', k)
  <2>1. CASE k = key
    BY <1>1, <1>2, <1>3, <1>8, <2>1, ComingAppend
  <2>2. CASE k # key
    <3>1. Coming(queue, k)
      BY <1>1, <1>8, <2>2 DEF CaptureKey, IInv, Owed
    <3>2. QED
      BY <1>2, <1>3, <2>2, <3>1, ComingAppend
  <2>3. QED
    BY <2>1, <2>2
<1>9. QED
  BY <1>4, <1>5, <1>6, <1>7, <1>8 DEF IInv, Owed

(* What is no key event is appended, and nothing else happens. *)
LEMMA AppendStep ==
    ASSUME IInv, NEW e \in Event, ~ IsKey(e), queue' = Append(queue, e),
           UNCHANGED <<down, injecting, held, hook, state, passThrough, forwarded, fate>>
    PROVE  IInv'
<1>1. TypeOK'
  BY QueueAppend DEF IInv, TypeOK
<1>2. SwitchRight' /\ OneDestination' /\ HookRight(hook, passThrough)'
  BY DEF IInv, SwitchRight, OneDestination, HookRight
<1>3. MarksRight(queue, passThrough)'
  BY MarksAppend DEF IInv, TypeOK
<1>4. Recorded(queue, held)'
  BY RecordedAppend DEF IInv, TypeOK
<1>5. state'.role = "Controlling" => Owed(queue, forwarded, held)'
  BY ComingAppend DEF IInv, Owed, TypeOK
<1>6. QED
  BY <1>1, <1>2, <1>3, <1>4, <1>5 DEF IInv

LEMMA DecideStep == ASSUME IInv, Decide PROVE IInv'
<1>1. /\ queue \in Seq(Event) /\ passThrough \in BOOLEAN
      /\ queue' = Decided(queue) /\ hook' = Waiting
      /\ UNCHANGED <<down, held, injecting, state, passThrough, forwarded>>
  BY DEF Decide, IInv, TypeOK
<1>2. queue' \in Seq(Event) /\ Alike(queue, queue')
  BY <1>1, DecidedFacts
<1>3. hook.phase = "handled" => hook.peer \in BOOLEAN /\ hook.switched \in BOOLEAN
  BY DEF IInv, TypeOK, Hook, Waiting, Sent, Handled
<1>4. TypeOK'
  BY <1>1, <1>2, <1>3 DEF Decide, IInv, TypeOK, Hook, Fate
<1>5. SwitchRight' /\ HookRight(hook, passThrough)'
  BY <1>1 DEF IInv, SwitchRight, HookRight, Waiting
<1>6. OneDestination'
  BY <1>1, <1>3 DEF Decide, IInv, OneDestination, HookRight, Fate
<1>7. MarksRight(queue, passThrough)'
  BY <1>1, <1>2, DecidedFacts DEF IInv, MarksRight, Alike
<1>8. Recorded(queue, held)'
  BY <1>1, <1>2, RecordedAlike DEF IInv
<1>9. state'.role = "Controlling" => Owed(queue, forwarded, held)'
  BY <1>1, <1>2, ComingAlike DEF IInv, Owed
<1>10. QED
  BY <1>4, <1>5, <1>6, <1>7, <1>8, <1>9 DEF IInv

-----------------------------------------------------------------------------
(* The steps of the event task *)

LEMMA HookTyped ==
    ASSUME NEW h \in Hook, NEW switched \in BOOLEAN
    PROVE  /\ MarkedHook(h, switched) \in Hook
           /\ \A pass, before \in BOOLEAN :
                 HookRight(h, before) /\ (before # pass => switched) =>
                     HookRight(MarkedHook(h, switched), pass)
<1>1. CASE h \in {Waiting, Sent}
  BY <1>1 DEF Hook, MarkedHook, HookRight, Waiting, Sent
<1>2. CASE h \notin {Waiting, Sent}
  <2>1. PICK p \in BOOLEAN, w \in BOOLEAN : h = Handled(p, w)
    BY <1>2 DEF Hook
  <2>2. h.phase = "handled" /\ h.peer = p /\ h.switched = w
    BY <2>1 DEF Handled
  <2>3. MarkedHook(h, switched) = Handled(p, w \/ switched) /\ (w \/ switched) \in BOOLEAN
    BY <2>2 DEF MarkedHook
  <2>4. Handled(p, w \/ switched) \in Hook
    BY <2>3 DEF Hook
  <2>5. QED
    BY <2>2, <2>3, <2>4 DEF HookRight, Handled
<1>3. QED
  BY <1>1, <1>2

LEMMA ExecuteStep ==
    ASSUME IInv, NEW r, Turned(state, r), Execute(r), queue # <<>>
    PROVE  /\ state' = r.state /\ state' \in LocalState
           /\ passThrough' \in BOOLEAN /\ SwitchRight'
           /\ passThrough' # passThrough => r.state # state
           /\ queue' \in Seq(Event) /\ Alike(Tail(queue), queue')
           /\ MarksRight(queue, passThrough)'
           /\ Recorded(queue, held)'
<1> DEFINE switched == r.state # state
<1>1. /\ queue \in Seq(Event) /\ passThrough \in BOOLEAN
      /\ queue' = Marked(Tail(queue), switched)
      /\ UNCHANGED <<down, held>> /\ switched \in BOOLEAN
  BY DEF Execute, IInv, TypeOK
<1>2. state' = r.state /\ state' \in LocalState /\ passThrough' \in BOOLEAN /\ SwitchRight'
      /\ (passThrough' # passThrough => switched)
  BY DEF Execute, Turned, IInv, SwitchRight, TypeOK
<1> HIDE DEF switched
<1>3. Tail(queue) \in Seq(Event) /\ queue' \in Seq(Event) /\ Alike(Tail(queue), queue')
  BY <1>1, QueueTail, MarkedFacts
<1>4. MarksRight(queue, passThrough)'
  <2>0. \A i \in DOMAIN Tail(queue) : IsKey(Tail(queue)[i]) =>
           /\ Marked(Tail(queue), switched)[i].switched = (Tail(queue)[i].switched \/ switched)
           /\ Marked(Tail(queue), switched)[i].apps = Tail(queue)[i].apps
    <3> DEFINE t == Tail(queue)
    <3>1. t \in Seq(Event)
      BY <1>3
    <3> HIDE DEF t
    <3>2. PICK w \in BOOLEAN : w = switched
      BY <1>1
    <3>3. \A i \in DOMAIN t : IsKey(t[i]) =>
             /\ Marked(t, w)[i].switched = (t[i].switched \/ w)
             /\ Marked(t, w)[i].apps = t[i].apps
      BY <3>1, MarkedFacts
    <3>4. QED
      BY <3>2, <3>3 DEF t
  <2>1. ASSUME NEW i \in DOMAIN queue', IsKey(queue'[i])
        PROVE  \/ queue'[i].apps = "undecided"
               \/ queue'[i].switched
               \/ queue'[i].apps = "yes" <=> passThrough'
    <3>1. i \in DOMAIN Tail(queue) /\ IsKey(Tail(queue)[i])
      BY <1>3, <2>1 DEF Alike
    <3>2. i + 1 \in DOMAIN queue /\ Tail(queue)[i] = queue[i + 1]
      BY <1>1, <3>1, QueueTail
    <3>3. /\ Marked(Tail(queue), switched)[i].switched = (Tail(queue)[i].switched \/ switched)
          /\ Marked(Tail(queue), switched)[i].apps = Tail(queue)[i].apps
      BY <3>1, <2>0
    <3>4. \/ Tail(queue)[i].apps = "undecided"
          \/ Tail(queue)[i].switched
          \/ Tail(queue)[i].apps = "yes" <=> passThrough
      BY <3>1, <3>2 DEF IInv, MarksRight
    <3>5. CASE switched
      BY <1>1, <3>3, <3>5
    <3>6. CASE ~ switched
      <4>1. passThrough' = passThrough
        BY <1>2, <3>6
      <4>2. Tail(queue)[i].switched => queue'[i].switched
        BY <1>1, <3>3
      <4>3. QED
        BY <1>1, <3>3, <3>4, <4>1, <4>2
    <3>7. QED
      BY <3>5, <3>6
  <2>2. QED
    BY <2>1 DEF MarksRight
<1>5. Recorded(queue, held)'
  <2>1. Recorded(Tail(queue), held)
    BY <1>1, RecordedTail DEF IInv
  <2>2. QED
    BY <1>1, <1>3, <2>1, RecordedAlike
<1>6. QED
  BY <1>2, <1>3, <1>4, <1>5 DEF switched

(* An event that is no key's. *)
LEMMA QuietStep ==
    ASSUME IInv, NEW r, Turned(state, r), Execute(r), queue # <<>>, ~ IsKey(Head(queue)),
           hook' = MarkedHook(hook, r.state # state),
           injecting' \in Seq([key : LogicalKey, pressed : BOOLEAN]),
           UNCHANGED fate,
           forwarded' = {} \/ (Keeps(state, r) /\ UNCHANGED forwarded)
    PROVE  IInv'
<1>1. UNCHANGED <<down, held>> /\ hook \in Hook /\ forwarded' \subseteq LogicalKey
      /\ (r.state # state) \in BOOLEAN
  BY DEF Execute, IInv, TypeOK
<1>2. hook' \in Hook /\ HookRight(hook, passThrough)'
  BY <1>1, ExecuteStep, HookTyped DEF IInv, TypeOK
<1>3. TypeOK'
  BY <1>1, <1>2, ExecuteStep DEF IInv, TypeOK
<1>4. OneDestination'
  BY DEF IInv, OneDestination
<1>5. ASSUME state'.role = "Controlling", NEW key \in forwarded' \ held'
      PROVE  Coming(queue', key)
  <2>1. state.role = "Controlling" /\ key \in forwarded \ held
    BY <1>1, <1>5, ExecuteStep DEF Keeps
  <2>2. Coming(queue, key)
    BY <2>1 DEF IInv, Owed
  <2>3. Coming(Tail(queue), key)
    BY <2>2, ComingTail DEF IInv, TypeOK
  <2>4. QED
    BY <2>3, ExecuteStep, ComingAlike
<1>6. QED
  BY <1>2, <1>3, <1>4, <1>5, ExecuteStep DEF IInv, Owed

LEMMA HeadFacts ==
    ASSUME IInv, NEW kind, Arrives(kind)
    PROVE  /\ queue # <<>> /\ Head(queue) \in Event /\ Head(queue).kind = kind
           /\ 1 \in DOMAIN queue /\ queue[1] = Head(queue) /\ queue \in Seq(Event)
BY QueueTail DEF Arrives, IInv, TypeOK

LEMMA EdgeStep == ASSUME IInv, HandleLocalCursorAtEdge PROVE IInv'
<1> DEFINE r == OnLocalCursorAtEdge(Here, state, Head(queue).edge)
<1>1. queue # <<>> /\ ~ IsKey(Head(queue)) /\ Head(queue).edge \in ScreenEdge
  BY HeadFacts, KeyEvents DEF HandleLocalCursorAtEdge, IsKey
<1>2. Turned(state, r) /\ (Keeps(state, r) \/ r.mail.body = "EdgeEnter")
  BY <1>1, EdgeTurns DEF IInv, TypeOK
<1>3. /\ Execute(r) /\ hook' = MarkedHook(hook, r.state # state)
      /\ UNCHANGED <<injecting, fate>>
      /\ forwarded' = IF r.mail.body = "EdgeEnter" THEN {} ELSE forwarded
  BY DEF HandleLocalCursorAtEdge
<1> HIDE DEF r
<1>4. injecting' \in Seq([key : LogicalKey, pressed : BOOLEAN])
  BY <1>3 DEF IInv, TypeOK
<1>5. QED
  BY <1>1, <1>2, <1>3, <1>4, QuietStep

LEMMA SignalStep == ASSUME IInv, NEW kind \in Signals, HandleSignal(kind) PROVE IInv'
<1> DEFINE r == OnSignal(kind, Head(queue).from)
<1>1. queue # <<>> /\ ~ IsKey(Head(queue)) /\ Head(queue).from \in Device
  BY HeadFacts, KeyEvents DEF HandleSignal, IsKey, Signals
<1>2. Turned(state, r) /\ Keeps(state, r)
  BY <1>1, SignalTurns DEF IInv, TypeOK, OnSignal, Signals
<1>3. /\ Execute(r) /\ hook' = MarkedHook(hook, r.state # state)
      /\ UNCHANGED <<injecting, forwarded, fate>>
  BY DEF HandleSignal
<1> HIDE DEF r
<1>4. injecting' \in Seq([key : LogicalKey, pressed : BOOLEAN])
  BY <1>3 DEF IInv, TypeOK
<1>5. QED
  BY <1>1, <1>2, <1>3, <1>4, QuietStep

LEMMA PeerInputStep == ASSUME IInv, HandlePeerInput PROVE IInv'
<1> DEFINE r == OnPeerInputMessage(state, Head(queue).from)
           typed == [key |-> Head(queue).key, pressed |-> Head(queue).pressed]
<1>1. queue # <<>> /\ ~ IsKey(Head(queue)) /\ Head(queue).from \in Device
      /\ typed \in [key : LogicalKey, pressed : BOOLEAN]
  BY HeadFacts, KeyEvents DEF HandlePeerInput, IsKey
<1>2. Turned(state, r) /\ Keeps(state, r) /\ r.state = state
  BY <1>1, SignalTurns DEF IInv, TypeOK
<1>3. /\ Execute(r)
      /\ injecting' = IF r.local = "inject" THEN Append(injecting, typed) ELSE injecting
      /\ UNCHANGED <<hook, forwarded, fate>>
  BY DEF HandlePeerInput
<1> HIDE DEF r, typed
<1>4. injecting' \in Seq([key : LogicalKey, pressed : BOOLEAN])
  BY <1>1, <1>3, AppendProperties DEF IInv, TypeOK
<1>5. hook' = MarkedHook(hook, r.state # state)
  <2>1. \A p, w \in BOOLEAN : MarkedHook(Handled(p, w), FALSE) = Handled(p, w)
    BY DEF MarkedHook, Handled
  <2>2. MarkedHook(Waiting, FALSE) = Waiting /\ MarkedHook(Sent, FALSE) = Sent
    BY DEF MarkedHook, Waiting, Sent
  <2>3. MarkedHook(hook, FALSE) = hook
    <3>1. hook \in Hook
      BY DEF IInv, TypeOK
    <3>2. CASE hook \in {Waiting, Sent}
      BY <2>2, <3>2
    <3>3. CASE hook \notin {Waiting, Sent}
      <4>1. PICK p \in BOOLEAN, w \in BOOLEAN : hook = Handled(p, w)
        BY <3>1, <3>3 DEF Hook
      <4>2. QED
        BY <2>1, <4>1
    <3>4. QED
      BY <3>2, <3>3
  <2>4. (r.state # state) = FALSE
    BY <1>2
  <2>5. QED
    BY <1>3, <2>3, <2>4
<1>6. QED
  BY <1>1, <1>2, <1>3, <1>4, <1>5, QuietStep

(* A key event: it goes to the peer exactly if the role stays Controlling. *)
LEMMA KeyStep == ASSUME IInv, HandleLocalKeyEvent PROVE IInv'
<1> DEFINE e == Head(queue)
           r == OnLocalKeyEvent(Here, state, e.pressed, e.held)
           peer == r.mail.body = "Input"
           changed == r.state # state
           switched == e.switched \/ changed
<1>1. queue # <<>> /\ queue \in Seq(Event) /\ e \in LocalKeyEvent /\ IsKey(e)
      /\ 1 \in DOMAIN queue /\ queue[1] = e
  BY HeadFacts, KeyEvents DEF HandleLocalKeyEvent, IsKey
<1>2. /\ e.key \in LogicalKey /\ e.pressed \in BOOLEAN /\ e.switched \in BOOLEAN
      /\ e.apps \in {"undecided", "yes", "no"}
  BY <1>1 DEF LocalKeyEvent
<1>3. /\ Turned(state, r) /\ Keeps(state, r)
      /\ ~ changed => (peer <=> state.role = "Controlling")
      /\ r.state.role = "Controlling" => peer
  BY <1>2, KeyTurns DEF IInv, TypeOK
<1>4. /\ Execute(r) /\ UNCHANGED injecting
      /\ forwarded' = IF ~ peer THEN forwarded
                      ELSE IF e.pressed THEN forwarded \cup {e.key} ELSE forwarded \ {e.key}
      /\ e.apps = "undecided" => hook' = Handled(peer, switched) /\ UNCHANGED fate
      /\ e.apps # "undecided" => /\ hook' = MarkedHook(hook, changed)
                                 /\ fate' = Fate(e.apps = "yes", peer, switched)
  <2>1. Execute(r) /\ UNCHANGED injecting
    BY DEF HandleLocalKeyEvent
  <2>2. forwarded' = IF ~ peer THEN forwarded
                     ELSE IF e.pressed THEN forwarded \cup {e.key} ELSE forwarded \ {e.key}
    BY Zenon DEF HandleLocalKeyEvent
  <2>3. CASE e.apps = "undecided"
    <3>1. hook' = Handled(peer, switched) /\ UNCHANGED fate
      BY <2>3, Zenon DEF HandleLocalKeyEvent
    <3>2. QED
      BY <2>1, <2>2, <2>3, <3>1
  <2>4. CASE e.apps # "undecided"
    <3>1. /\ hook' = MarkedHook(hook, changed)
          /\ fate' = Fate(e.apps = "yes", peer, switched)
      BY <2>4, Zenon DEF HandleLocalKeyEvent
    <3> HIDE DEF e, r, peer, switched, changed
    <3>2. QED
      BY <2>1, <2>2, <2>4, <3>1
  <2>5. QED
    BY <2>3, <2>4
<1>5. peer \in BOOLEAN /\ changed \in BOOLEAN /\ switched \in BOOLEAN
  BY <1>2
<1>6. ~ switched => /\ peer <=> ~ passThrough
                    /\ passThrough' = passThrough
                    /\ e.apps # "undecided" => (e.apps = "yes" <=> passThrough)
  <2>1. \/ e.apps = "undecided"
        \/ e.switched
        \/ e.apps = "yes" <=> passThrough
    BY <1>1 DEF IInv, MarksRight
  <2>2. passThrough' # passThrough => changed
    BY <1>1, <1>3, <1>4, ExecuteStep
  <2>3. ~ changed => (peer <=> ~ passThrough)
    BY <1>3 DEF IInv, SwitchRight
  <2>4. QED
    BY <2>1, <2>2, <2>3
<1> HIDE DEF e, peer, switched, changed
<1>7. hook' \in Hook /\ HookRight(hook, passThrough)' /\ OneDestination'
      /\ fate' \in [apps : BOOLEAN, peer : BOOLEAN, switched : BOOLEAN]
  <2>1. CASE e.apps = "undecided"
    <3>1. hook' \in Hook /\ HookRight(hook, passThrough)'
      BY <1>4, <1>5, <1>6, <2>1 DEF Hook, Handled, HookRight
    <3>2. UNCHANGED fate
      BY <1>4, <2>1
    <3>3. QED
      BY <3>1, <3>2 DEF IInv, TypeOK, OneDestination
  <2>2. CASE e.apps # "undecided"
    <3>1. hook \in Hook /\ passThrough \in BOOLEAN
      BY DEF IInv, TypeOK
    <3>2. passThrough' \in BOOLEAN /\ (passThrough' # passThrough => changed)
      BY <1>1, <1>3, <1>4, ExecuteStep DEF changed
    <3>3. hook' \in Hook /\ HookRight(hook', passThrough')
      BY <1>4, <1>5, <2>2, <3>1, <3>2, HookTyped DEF IInv
    <3>4. fate' = Fate(e.apps = "yes", peer, switched)
      BY <1>4, <2>2
    <3>5. OneDestination'
      BY <1>6, <2>2, <3>4 DEF OneDestination, Fate
    <3>6. QED
      BY <1>5, <3>3, <3>4, <3>5 DEF Fate
  <2>3. QED
    BY <2>1, <2>2
<1>8. TypeOK'
  BY <1>1, <1>2, <1>3, <1>4, <1>7, ExecuteStep DEF IInv, TypeOK, Execute
<1>9. ASSUME state'.role = "Controlling", NEW key \in forwarded' \ held'
      PROVE  Coming(queue', key)
  <2>1. state.role = "Controlling" /\ peer /\ held' = held
    BY <1>1, <1>3, <1>4, <1>9, ExecuteStep DEF Keeps, Execute
  <2>2. Coming(Tail(queue), key)
    <3>1. CASE key = e.key
      <4>1. e.pressed /\ e.key \notin held
        BY <1>4, <1>9, <2>1, <3>1
      <4>2. QED
        BY <1>1, <3>1, <4>1, RecordedTail DEF IInv, e
    <3>2. CASE key # e.key
      <4>1. key \in forwarded \ held
        BY <1>4, <1>9, <2>1, <3>2
      <4>2. Coming(queue, key)
        BY <2>1, <4>1 DEF IInv, Owed
      <4>3. QED
        BY <1>1, <3>2, <4>2, ComingTail DEF e
    <3>3. QED
      BY <3>1, <3>2
  <2>3. QED
    BY <1>1, <1>3, <1>4, <2>2, ExecuteStep, ComingAlike
<1>10. QED
  BY <1>1, <1>3, <1>4, <1>7, <1>8, <1>9, ExecuteStep DEF IInv, Owed

-----------------------------------------------------------------------------

LEMMA NextIInv == ASSUME IInv, [Next]_vars PROVE IInv'
<1>1. ASSUME NEW key \in LogicalKey, PressKey(key) PROVE IInv'
  <2>1. down' \subseteq LogicalKey
        /\ injecting' \in Seq([key : LogicalKey, pressed : BOOLEAN])
    BY <1>1 DEF PressKey, IInv, TypeOK
  <2>2. QED
    BY <1>1, <2>1, CaptureKeyStep DEF PressKey
<1>2. ASSUME NEW key \in LogicalKey, ReleaseKey(key) PROVE IInv'
  <2>1. down' \subseteq LogicalKey
        /\ injecting' \in Seq([key : LogicalKey, pressed : BOOLEAN])
    BY <1>2 DEF ReleaseKey, IInv, TypeOK
  <2>2. (Twin[key] \cap down # {}) \in BOOLEAN
    OBVIOUS
  <2>3. QED
    BY <1>2, <2>1, <2>2, CaptureKeyStep DEF ReleaseKey
<1>3. ASSUME CaptureInjected PROVE IInv'
  <2>1. /\ injecting # <<>>
        /\ injecting \in Seq([key : LogicalKey, pressed : BOOLEAN])
    BY <1>3 DEF CaptureInjected, IInv, TypeOK
  <2> DEFINE Input == [key : LogicalKey, pressed : BOOLEAN]
  <2>a. Head(injecting) \in Input /\ Tail(injecting) \in Seq(Input)
    <3> HIDE DEF Input
    <3>1. injecting \in Seq(Input)
      BY <2>1 DEF Input
    <3>2. QED
      BY <2>1, <3>1, HeadTailProperties
  <2>2. /\ Head(injecting).key \in LogicalKey /\ Head(injecting).pressed \in BOOLEAN
        /\ Tail(injecting) \in Seq([key : LogicalKey, pressed : BOOLEAN])
    BY <2>a
  <2>3. down' \subseteq LogicalKey
        /\ injecting' \in Seq([key : LogicalKey, pressed : BOOLEAN])
    BY <1>3, <2>2 DEF CaptureInjected, IInv, TypeOK
  <2>4. QED
    BY <1>3, <2>2, <2>3, CaptureKeyStep DEF CaptureInjected
<1>4. CASE Decide
  BY <1>4, DecideStep
<1>5. ASSUME NEW edge \in ScreenEdge, CaptureCursorAtEdge(edge) PROVE IInv'
  <2>1. CursorAtEdge(edge) \in Event /\ ~ IsKey(CursorAtEdge(edge))
    BY DEF CursorAtEdge, Event, IsKey
  <2>2. QED
    BY <1>5, <2>1, AppendStep DEF CaptureCursorAtEdge, vars
<1>6. ASSUME NEW p \in Peer, NEW kind \in Signals, SessionEvent(PeerEvent(kind, p)) PROVE IInv'
  <2>1. PeerEvent(kind, p) \in Event /\ ~ IsKey(PeerEvent(kind, p))
    BY DEF PeerEvent, Event, IsKey, Signals, Peer
  <2>2. QED
    BY <1>6, <2>1, AppendStep DEF SessionEvent
<1>7. ASSUME NEW p \in Peer, NEW key \in PeerKeys, NEW pressed \in BOOLEAN,
             PeerTypes(p, key, pressed)
      PROVE  IInv'
  <2>1. PeerInput(p, key, pressed) \in Event /\ ~ IsKey(PeerInput(p, key, pressed))
    BY PipelineAssumption DEF PeerInput, Event, IsKey, Peer
  <2>2. QED
    BY <1>7, <2>1, AppendStep DEF PeerTypes, SessionEvent
<1>8. CASE Handle
  BY <1>8, KeyStep, EdgeStep, SignalStep, PeerInputStep DEF Handle
<1>9. CASE UNCHANGED vars
  BY <1>9 DEF vars, IInv, TypeOK, SwitchRight, MarksRight, HookRight, OneDestination,
              Recorded, Owed
<1>10. QED
  BY <1>1, <1>2, <1>3, <1>4, <1>5, <1>6, <1>7, <1>8, <1>9 DEF Next

LEMMA Invariance == Spec => []IInv
<1>1. Init => IInv
  BY InitIInv
<1>2. IInv /\ [Next]_vars => IInv'
  BY NextIInv
<1>3. QED
  BY <1>1, <1>2, PTL DEF Spec

(* The state stays in its types. *)
THEOREM TypeCorrect == Spec => []TypeOK
<1>1. IInv => TypeOK
  BY DEF IInv
<1>2. QED
  BY <1>1, Invariance, PTL

(***************************************************************************)
(* Whatever the two threads do in between, an event whose role did not     *)
(* change under it goes to the local applications or to the peer, and not  *)
(* to both: the capture thread's read of the switch agrees with the table. *)
(***************************************************************************)
THEOREM DestinationCorrect == Spec => []OneDestination
<1>1. IInv => OneDestination
  BY DEF IInv
<1>2. QED
  BY <1>1, Invariance, PTL

(***************************************************************************)
(* No key stays down on the peer that the capture layer has seen go up,    *)
(* whatever keys share a flag and whatever a controller types meanwhile.   *)
(***************************************************************************)
THEOREM ReleasesForwarded == Spec => []ForwardedKeysAreHeld
<1>1. IInv => ForwardedKeysAreHeld
  BY DEF IInv, Owed, ForwardedKeysAreHeld, Coming, ReleaseComing, Last, LastOf
<1>2. QED
  BY <1>1, Invariance, PTL

=============================================================================
