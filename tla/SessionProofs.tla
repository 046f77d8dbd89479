---------------------------- MODULE SessionProofs ----------------------------
(***************************************************************************)
(* Type correctness of Session, and that its handshake and its watchdog    *)
(* do what they are for, whatever the heartbeat interval and the delays.   *)
(***************************************************************************)
EXTENDS Session, TLAPS

-----------------------------------------------------------------------------
(* Types *)

LEMMA OtherEnd ==
    ASSUME NEW e \in End
    PROVE  /\ Other(e) \in End /\ Other(e) # e /\ Other(Other(e)) = e
           /\ \A x \in End : x = e \/ x = Other(e)
<1>1. ASSUME NEW x \in End PROVE Other(x) \in End /\ Other(x) # x
  <2>1. \E o \in End : o # x
    BY DEF End
  <2>2. QED
    BY <2>1, Zenon DEF Other
<1>2. QED
  BY <1>1 DEF End

LEMMA Phases ==
    /\ Beating \subseteq Phase /\ Over \subseteq Phase /\ Beating \cap Over = {}
    /\ {"new", "hello", "ack"} \subseteq Phase
    /\ {"new", "hello", "ack"} \cap (Beating \cup Over) = {}
    /\ "running" \in Beating /\ "timedOut" \in Beating
    /\ "failed" \in Over /\ "ended" \in Over /\ "failed" # "ended"
    /\ \A p \in Phase : p \in {"new", "hello", "ack"} \cup Beating \cup Over
BY DEF Phase, Beating, Over

LEMMA Kinds == DOMAIN Rank = {"Hello", "Accepted", "Rejected", "Heartbeat", "Eof"}
BY DEF Rank

Wires == [End -> SUBSET Message]

LEMMA SentFacts ==
    ASSUME NEW w \in Wires, NEW x \in End, NEW kind \in DOMAIN Rank
    PROVE  /\ Sent(w, x, kind) \in Wires
           /\ Sent(w, x, kind)[x] = w[x]
           /\ Sent(w, x, kind)[Other(x)] =
                 IF phase[Other(x)] \in Over THEN w[Other(x)]
                 ELSE w[Other(x)] \cup {[kind |-> kind, age |-> 0]}
<1>1. [kind |-> kind, age |-> 0] \in Message
  BY SessionAssumption DEF Message
<1>2. QED
  BY <1>1, OtherEnd DEF Sent, Wires

LEMMA EndsFacts ==
    ASSUME TypeOK, NEW w \in Wires, NEW x \in End, NEW how \in Over, Ends(x, how, w)
    PROVE  /\ phase' \in [End -> Phase] /\ wire' \in Wires
           /\ phase'[x] = how /\ phase'[Other(x)] = phase[Other(x)]
           /\ wire'[x] = {}
           /\ wire'[Other(x)] = IF phase[Other(x)] \in Over THEN w[Other(x)]
                                ELSE w[Other(x)] \cup {[kind |-> "Eof", age |-> 0]}
           /\ version' = version /\ stalled' = stalled
           /\ silent' = silent /\ beat' = beat /\ look' = look
<1>1. "Eof" \in DOMAIN Rank
  BY Kinds
<1>2. /\ Sent(w, x, "Eof") \in Wires
      /\ Sent(w, x, "Eof")[Other(x)] =
            IF phase[Other(x)] \in Over THEN w[Other(x)]
            ELSE w[Other(x)] \cup {[kind |-> "Eof", age |-> 0]}
  BY <1>1, SentFacts
<1>3. /\ phase' = [phase EXCEPT ![x] = how]
      /\ wire' = [Sent(w, x, "Eof") EXCEPT ![x] = {}]
      /\ UNCHANGED <<version, stalled, clocks>>
  BY DEF Ends
<1>4. QED
  BY <1>2, <1>3, OtherEnd, Phases DEF TypeOK, Wires, clocks

LEMMA RestFacts ==
    ASSUME TypeOK, NEW x \in End, NEW m
    PROVE  /\ Rest(x, m) \in Wires
           /\ Rest(x, m)[x] = wire[x] \ {m}
           /\ Rest(x, m)[Other(x)] = wire[Other(x)]
BY OtherEnd DEF TypeOK, Rest, Wires

LEMMA OlderTyped ==
    ASSUME NEW m \in Message
    PROVE  /\ Older(m) \in Message /\ Older(m).kind = m.kind
           /\ Older(m).age = IF m.age < MaxDelay THEN m.age + 1 ELSE m.age
<1>1. m.age \in 0 .. MaxDelay /\ m.kind \in DOMAIN Rank /\ MaxDelay \in Nat
  BY SessionAssumption DEF Message
<1>2. Older(m) = [m EXCEPT !.age = IF m.age < MaxDelay THEN m.age + 1 ELSE m.age]
  BY DEF Older
<1>3. QED
  BY <1>1, <1>2 DEF Message

(* Type correctness, which the other proofs rest on. *)
THEOREM TypeCorrect == Spec => []TypeOK
<1>1. Init => TypeOK
  BY SessionAssumption, Phases DEF Init, TypeOK, End
<1>2. TypeOK /\ [Next]_vars => TypeOK'
  <2> SUFFICES ASSUME TypeOK, [Next]_vars PROVE TypeOK'
    OBVIOUS
  <2> USE SessionAssumption, Phases
  <2>1. ASSUME NEW e \in End, Begin(e) PROVE TypeOK'
    <3>1. Sent(wire, e, "Hello") \in Wires
      BY Kinds, SentFacts DEF TypeOK, Wires
    <3>2. QED
      BY <2>1, <3>1 DEF Begin, TypeOK, Wires, clocks
  <2>2. ASSUME NEW e \in End, NEW m \in wire[e], ReadHello(e, m) PROVE TypeOK'
    <3>1. /\ Sent(Rest(e, m), e, "Accepted") \in Wires
          /\ Sent(Rest(e, m), e, "Rejected") \in Wires
      BY Kinds, SentFacts, RestFacts
    <3>2. CASE version[Other(e)] = version[e]
      BY <2>2, <3>1, <3>2 DEF ReadHello, TypeOK, Wires, clocks
    <3>3. CASE version[Other(e)] # version[e]
      <4>1. Ends(e, "failed", Sent(Rest(e, m), e, "Rejected")) /\ faults' = faults
        BY <2>2, <3>3 DEF ReadHello
      <4>2. QED
        BY <3>1, <4>1, EndsFacts DEF TypeOK, Wires
    <3>4. QED
      BY <3>2, <3>3
  <2>3. ASSUME NEW e \in End, NEW m \in wire[e], ReadHelloAck(e, m) PROVE TypeOK'
    <3>1. Rest(e, m) \in Wires
      BY RestFacts
    <3>2. CASE phase' = [phase EXCEPT ![e] = "running"] /\ wire' = Rest(e, m)
                 /\ StartsTimers(e) /\ UNCHANGED <<version, stalled, faults>>
      BY <3>1, <3>2 DEF StartsTimers, TypeOK, Wires
    <3>3. CASE Ends(e, "failed", Rest(e, m)) /\ faults' = faults
      BY <3>1, <3>3, EndsFacts DEF TypeOK, Wires
    <3>4. QED
      BY <2>3, <3>2, <3>3 DEF ReadHelloAck
  <2>4. ASSUME NEW e \in End, NEW m \in wire[e], ReadHeartbeat(e, m) PROVE TypeOK'
    BY <2>4, RestFacts DEF ReadHeartbeat, TypeOK, Wires
  <2>5. ASSUME NEW e \in End, NEW m \in wire[e], ReadEof(e, m) PROVE TypeOK'
    <3>1. wire \in Wires /\ faults' = faults
      BY <2>5 DEF ReadEof, TypeOK, Wires
    <3>2. PICK how \in Over : Ends(e, how, wire)
      BY <2>5 DEF ReadEof
    <3>3. QED
      BY <3>1, <3>2, EndsFacts DEF TypeOK, Wires
  <2>6. ASSUME NEW e \in End, SendHeartbeat(e) PROVE TypeOK'
    <3>1. Sent(wire, e, "Heartbeat") \in Wires
      BY Kinds, SentFacts DEF TypeOK, Wires
    <3>2. QED
      BY <2>6, <3>1 DEF SendHeartbeat, TypeOK, Wires
  <2>7. ASSUME NEW e \in End, WatchdogTick(e) PROVE TypeOK'
    <3>1. phase' \in [End -> Phase]
      BY <2>7 DEF WatchdogTick, TypeOK
    <3>2. silent' \in [End -> Nat] /\ look' \in [End -> 0 .. Interval]
      BY <2>7 DEF WatchdogTick, TypeOK
    <3>3. QED
      BY <2>7, <3>1, <3>2 DEF WatchdogTick, TypeOK
  <2>8. ASSUME NEW e \in End, HangUp(e) PROVE TypeOK'
    <3>1. wire \in Wires /\ faults' \in Nat
      BY <2>8 DEF HangUp, TypeOK, Wires
    <3>2. PICK how \in Over : Ends(e, how, wire)
      BY <2>8 DEF HangUp
    <3>3. QED
      BY <3>1, <3>2, EndsFacts DEF TypeOK, Wires
  <2>9. ASSUME NEW e \in End, Stall(e) \/ Resume(e) PROVE TypeOK'
    BY <2>9 DEF Stall, Resume, TypeOK, clocks
  <2>10. CASE Tick
    <3>1. ASSUME NEW e \in End
          PROVE  /\ phase[e] \in Beating => beat[e] # 0
                 /\ phase[e] = "running" => look[e] # 0
      BY <2>10 DEF Tick, TimerDue
    <3>2. \A e \in End : {Older(m) : m \in wire[e]} \in SUBSET Message
      BY OlderTyped DEF TypeOK
    <3>3. wire' \in [End -> SUBSET Message]
      BY <2>10, <3>2 DEF Tick
    <3>4. beat' \in [End -> 0 .. Interval] /\ look' \in [End -> 0 .. Interval]
      BY <2>10, <3>1 DEF Tick, TypeOK
    <3>5. silent' \in [End -> Nat]
      BY <2>10 DEF Tick, TypeOK
    <3>6. QED
      BY <2>10, <3>3, <3>4, <3>5 DEF Tick, TypeOK
  <2>11. CASE UNCHANGED vars
    BY <2>11 DEF vars, clocks, TypeOK
  <2>12. QED
    BY <2>1, <2>2, <2>3, <2>4, <2>5, <2>6, <2>7, <2>8, <2>9, <2>10, <2>11 DEF Next, Read
<1>3. QED
  BY <1>1, <1>2, PTL DEF Spec

-----------------------------------------------------------------------------
(* Silence *)

(* A running end looks again before four intervals of silence are over. *)
Watched == \A e \in End : phase[e] = "running" => silent[e] + look[e] < 4 * Interval

LEMMA StepWatched ==
    ASSUME TypeOK, Watched, [Next]_vars
    PROVE  Watched'
<1>1. ASSUME NEW x \in End, NEW how \in Over, NEW w \in Wires, Ends(x, how, w)
      PROVE  Watched'
  <2>1. /\ phase'[x] = how /\ phase'[Other(x)] = phase[Other(x)]
        /\ silent' = silent /\ look' = look
    BY <1>1, EndsFacts
  <2>2. \A e \in End : phase'[e] = "running" => phase[e] = "running"
    BY <2>1, OtherEnd DEF Over
  <2>3. QED
    BY <2>1, <2>2 DEF Watched
<1>2. ASSUME NEW x \in End, Begin(x) PROVE Watched'
  BY <1>2 DEF Begin, TypeOK, Watched, clocks
<1>3. ASSUME NEW x \in End, NEW m \in wire[x], ReadHello(x, m) PROVE Watched'
  <2>1. Rest(x, m) \in Wires /\ Sent(Rest(x, m), x, "Rejected") \in Wires
    BY RestFacts, SentFacts, Kinds
  <2>2. CASE version[Other(x)] = version[x]
    BY <1>3, <2>2 DEF ReadHello, TypeOK, Watched, clocks
  <2>3. CASE version[Other(x)] # version[x]
    BY <1>1, <1>3, <2>1, <2>3, Phases DEF ReadHello
  <2>4. QED
    BY <2>2, <2>3
<1>4. ASSUME NEW x \in End, NEW m \in wire[x], ReadHelloAck(x, m) PROVE Watched'
  <2>1. Rest(x, m) \in Wires
    BY RestFacts
  <2>2. CASE phase' = [phase EXCEPT ![x] = "running"] /\ StartsTimers(x)
    BY <2>2, SessionAssumption DEF StartsTimers, TypeOK, Watched
  <2>3. CASE Ends(x, "failed", Rest(x, m))
    BY <1>1, <2>1, <2>3, Phases
  <2>4. QED
    BY <1>4, <2>2, <2>3 DEF ReadHelloAck
<1>5. ASSUME NEW x \in End, NEW m \in wire[x], ReadHeartbeat(x, m) PROVE Watched'
  BY <1>5, SessionAssumption DEF ReadHeartbeat, TypeOK, Watched
<1>6. ASSUME NEW x \in End, NEW m \in wire[x], ReadEof(x, m) PROVE Watched'
  BY <1>1, <1>6, Phases DEF ReadEof, TypeOK, Wires
<1>7. ASSUME NEW x \in End, SendHeartbeat(x) PROVE Watched'
  BY <1>7 DEF SendHeartbeat, Watched
<1>8. ASSUME NEW x \in End, WatchdogTick(x) PROVE Watched'
  <2>1. CASE IsAlive(x)
    BY <1>8, <2>1, SessionAssumption DEF WatchdogTick, IsAlive, TypeOK, Watched
  <2>2. CASE ~ IsAlive(x)
    BY <1>8, <2>2 DEF WatchdogTick, TypeOK, Watched
  <2>3. QED
    BY <2>1, <2>2
<1>9. ASSUME NEW x \in End, HangUp(x) PROVE Watched'
  BY <1>1, <1>9, Phases DEF HangUp, TypeOK, Wires
<1>10. ASSUME NEW x \in End, Stall(x) \/ Resume(x) PROVE Watched'
  BY <1>10 DEF Stall, Resume, clocks, Watched
<1>11. CASE Tick
  <2>1. ASSUME NEW e \in End, phase'[e] = "running"
        PROVE  silent'[e] + look'[e] < 4 * Interval
    <3>1. phase[e] = "running" /\ silent[e] \in Nat /\ look[e] \in 0 .. Interval
      BY <1>11, <2>1 DEF Tick, TypeOK
    <3>2. silent'[e] = silent[e] + 1 /\ look'[e] = look[e] - 1
      BY <1>11, <3>1 DEF Tick
    <3>3. QED
      BY <3>1, <3>2, SessionAssumption DEF Watched
  <2>2. QED
    BY <2>1 DEF Watched
<1>12. CASE UNCHANGED vars
  BY <1>12 DEF vars, clocks, Watched
<1>13. QED
  BY <1>2, <1>3, <1>4, <1>5, <1>6, <1>7, <1>8, <1>9, <1>10, <1>11, <1>12 DEF Next, Read

(* However long the interval, a silence is noticed within four of them. *)
THEOREM SilenceNoticed == Spec => []SilenceIsNoticed
<1>1. Init => Watched
  BY Phases DEF Init, Watched
<1>2. TypeOK /\ Watched => SilenceIsNoticed
  BY SessionAssumption DEF TypeOK, Watched, SilenceIsNoticed
<1>3. QED
  BY <1>1, <1>2, StepWatched, TypeCorrect, PTL DEF Spec

-----------------------------------------------------------------------------
(* The handshake *)

Coming(e, kind) == \E m \in wire[e] : m.kind = kind

(* What an end's phase and the messages on their way to it say of the other. *)
Half(e, o) ==
    /\ (Coming(e, "Accepted") \/ phase[e] \in {"ack"} \cup Beating) => version[e] = version[o]
    /\ (Coming(e, "Accepted") \/ phase[e] \in Beating) =>
          /\ phase[o] \notin {"new", "hello"}
          /\ phase[o] = "failed" => faults > 0
    /\ Coming(e, "Rejected") => version[e] # version[o]
    /\ Coming(e, "Heartbeat") => phase[o] \in Beating \cup Over
    /\ Coming(e, "Eof") => phase[o] \in Over
    /\ phase[e] \in Over => wire[e] = {}
    /\ phase[o] = "ended" /\ phase[e] \notin Over => faults > 0
    /\ phase[e] \in {"ack"} \cup Beating /\ phase[o] \notin Beating \cup Over
          => Coming(o, "Accepted")

Shaken == \A e \in End : Half(e, Other(e))

(* e hangs up, or ends where it had reason to, leaving the other an Eof. *)
LEMMA EndsShakes ==
    ASSUME TypeOK, Shaken, NEW x \in End, NEW how \in Over, NEW w \in Wires,
           phase[x] \notin Over, Ends(x, how, w),
           \A m \in w[Other(x)] : m \in wire[Other(x)] \/ m.kind = "Rejected",
           w[Other(x)] # wire[Other(x)] => version[x] # version[Other(x)] /\ phase[Other(x)] \notin Over,
           faults' \in Nat /\ faults' >= faults,
           \/ faults' > 0
           \/ how = "failed" /\ version[x] # version[Other(x)]
           \/ phase[Other(x)] \in Over
    PROVE  Shaken'
<1> DEFINE o == Other(x)
<1>1. Half(x, o) /\ Half(o, x) /\ o \in End /\ o # x
  BY OtherEnd DEF Shaken
<1>2. /\ phase'[x] = how /\ phase'[o] = phase[o] /\ wire'[x] = {} /\ version' = version
      /\ wire'[o] = IF phase[o] \in Over THEN w[o] ELSE w[o] \cup {[kind |-> "Eof", age |-> 0]}
  BY EndsFacts
<1>3. faults \in Nat
  BY DEF TypeOK
<1> HIDE DEF o
<1>4. \A kind : ~ Coming(x, kind)'
  BY <1>2 DEF Coming
<1>5. \A kind : Coming(o, kind)' => \/ Coming(o, kind)
                                    \/ kind = "Eof"
                                    \/ kind = "Rejected" /\ version[x] # version[o]
  <2>1. \A m \in wire'[o] :
           \/ m \in wire[o]
           \/ m.kind = "Eof"
           \/ m.kind = "Rejected" /\ version[x] # version[o]
    <3>1. \A m \in wire'[o] : m \in w[o] \/ m.kind = "Eof"
      BY <1>2 DEF o
    <3>2. CASE w[o] = wire[o]
      BY <3>1, <3>2
    <3>3. CASE w[o] # wire[o]
      BY <3>1, <3>3 DEF o
    <3>4. QED
      BY <3>2, <3>3
  <2>2. QED
    BY <2>1 DEF Coming
<1>6. phase[o] \in Over => wire'[o] = {}
  BY <1>1, <1>2 DEF Half, o
<1>7. Half(x, o)'
  BY <1>1, <1>2, <1>3, <1>4, Phases DEF Half, o
<1>8. Half(o, x)'
  <2>1. phase[o] \in Over => \A kind : ~ Coming(o, kind)'
    BY <1>6 DEF Coming
  <2>2. /\ Coming(o, "Accepted")' => Coming(o, "Accepted") /\ phase[o] \notin Over
        /\ Coming(o, "Rejected")' => Coming(o, "Rejected") \/ version[x] # version[o]
    BY <1>5, <2>1
  <2>3. \/ faults' > 0
        \/ how = "failed" /\ version[x] # version[o]
        \/ phase[o] \in Over
    BY DEF o
  <2>4. phase'[x] \in Over /\ phase'[o] = phase[o]
    BY <1>2
  <2>5. /\ (Coming(o, "Accepted")' \/ phase'[o] \in {"ack"} \cup Beating) => version'[o] = version'[x]
        /\ Coming(o, "Rejected")' => version'[o] # version'[x]
    BY <1>1, <1>2, <2>2 DEF Half
  <2>6. (Coming(o, "Accepted")' \/ phase'[o] \in Beating) => faults' > 0
    BY <1>1, <2>2, <2>3, <2>4, Phases DEF Half
  <2>7. phase'[x] = "ended" /\ phase'[o] \notin Over => faults' > 0
    BY <1>2, <2>3, Phases
  <2>8. QED
    BY <1>6, <2>4, <2>5, <2>6, <2>7, Phases DEF Half
<1>9. QED
  BY <1>1, <1>7, <1>8, OtherEnd DEF Shaken, o

LEMMA SentComing ==
    ASSUME NEW w \in Wires, NEW x \in End, NEW kind \in DOMAIN Rank, wire' = Sent(w, x, kind)
    PROVE  /\ \A k : Coming(x, k)' <=> \E m \in w[x] : m.kind = k
           /\ \A k : Coming(Other(x), k)' <=> \/ \E m \in w[Other(x)] : m.kind = k
                                              \/ k = kind /\ phase[Other(x)] \notin Over
<1>1. /\ wire'[x] = w[x]
      /\ wire'[Other(x)] = IF phase[Other(x)] \in Over THEN w[Other(x)]
                           ELSE w[Other(x)] \cup {[kind |-> kind, age |-> 0]}
  BY SentFacts
<1>2. \A k : Coming(x, k)' <=> \E m \in w[x] : m.kind = k
  BY <1>1 DEF Coming
<1>3. ASSUME NEW k
      PROVE  Coming(Other(x), k)' <=> \/ \E m \in w[Other(x)] : m.kind = k
                                      \/ k = kind /\ phase[Other(x)] \notin Over
  <2>1. CASE phase[Other(x)] \in Over
    BY <1>1, <2>1 DEF Coming
  <2>2. CASE phase[Other(x)] \notin Over
    <3>1. wire'[Other(x)] = w[Other(x)] \cup {[kind |-> kind, age |-> 0]}
      BY <1>1, <2>2
    <3>2. [kind |-> kind, age |-> 0].kind = kind
      OBVIOUS
    <3>3. QED
      BY <2>2, <3>1, <3>2 DEF Coming
  <2>3. QED
    BY <2>1, <2>2
<1>4. QED
  BY <1>2, <1>3

LEMMA StepShaken ==
    ASSUME TypeOK, Shaken, [Next]_vars
    PROVE  Shaken'
<1>1. ASSUME NEW x \in End
      PROVE  /\ Half(x, Other(x)) /\ Half(Other(x), x)
             /\ Other(x) \in End /\ Other(x) # x
             /\ (Half(x, Other(x))' /\ Half(Other(x), x)') => Shaken'
  BY <1>1, OtherEnd DEF Shaken
<1>2. wire \in Wires /\ faults \in Nat
  BY DEF TypeOK, Wires
<1>3. ASSUME NEW x \in End, Begin(x) PROVE Shaken'
  <2> DEFINE o == Other(x)
  <2>1. /\ phase[x] = "new" /\ phase'[x] = "hello" /\ phase'[o] = phase[o]
        /\ version' = version /\ faults' = faults
    BY <1>1, <1>3 DEF Begin, TypeOK
  <2>2. /\ \A k : Coming(x, k)' <=> Coming(x, k)
        /\ \A k : Coming(o, k)' <=> Coming(o, k) \/ (k = "Hello" /\ phase[o] \notin Over)
    <3>1. wire' = Sent(wire, x, "Hello") /\ "Hello" \in DOMAIN Rank
      BY <1>3, Kinds DEF Begin
    <3>2. QED
      BY <1>2, <3>1, SentComing DEF Coming
  <2>3. phase[o] \in Over => wire'[o] = wire[o]
    BY <1>2, <1>3, SentFacts, Kinds DEF Begin
  <2> HIDE DEF o
  <2>4. Half(x, o)'
    BY <1>1, <2>1, <2>2, Phases DEF Half, o
  <2>5. Half(o, x)'
    BY <1>1, <2>1, <2>2, <2>3, Phases DEF Half, o
  <2>6. QED
    BY <1>1, <2>4, <2>5 DEF o
<1>4. ASSUME NEW x \in End, NEW m \in wire[x], ReadHello(x, m) PROVE Shaken'
  <2> DEFINE o == Other(x)
  <2>1. phase[x] = "hello" /\ m.kind = "Hello" /\ faults' = faults
    BY <1>4 DEF ReadHello
  <2>2. /\ Rest(x, m) \in Wires /\ Rest(x, m)[x] = wire[x] \ {m} /\ Rest(x, m)[o] = wire[o]
    BY RestFacts
  <2>3. CASE version[o] = version[x]
    <3>1. /\ wire' = Sent(Rest(x, m), x, "Accepted") /\ version' = version
          /\ phase'[x] = "ack" /\ phase'[o] = phase[o]
      BY <1>1, <1>4, <2>3 DEF ReadHello, TypeOK
    <3>2. /\ \A k : Coming(x, k)' <=> \E n \in wire[x] \ {m} : n.kind = k
          /\ \A k : Coming(o, k)' <=> Coming(o, k) \/ (k = "Accepted" /\ phase[o] \notin Over)
      BY <2>2, <3>1, SentComing, Kinds DEF Coming
    <3>3. \A k : /\ Coming(x, k)' => Coming(x, k)
                 /\ k # "Hello" /\ Coming(x, k) => Coming(x, k)'
      BY <2>1, <3>2 DEF Coming
    <3>4. phase[o] \in Over => wire'[o] = wire[o]
      BY <2>2, <3>1, SentFacts, Kinds
    <3> HIDE DEF o
    <3>5. Half(x, o)'
      BY <1>1, <2>1, <2>3, <3>1, <3>2, <3>3, Phases DEF Half, o
    <3>6. Half(o, x)'
      BY <1>1, <2>1, <2>3, <3>1, <3>2, <3>3, <3>4, Phases DEF Half, o
    <3>7. QED
      BY <1>1, <3>5, <3>6 DEF o
  <2>4. CASE version[o] # version[x]
    <3> DEFINE w == Sent(Rest(x, m), x, "Rejected")
    <3>1. Ends(x, "failed", w) /\ w \in Wires
      BY <1>4, <2>2, <2>4, SentFacts, Kinds DEF ReadHello
    <3>2. w[o] = IF phase[o] \in Over THEN wire[o]
                 ELSE wire[o] \cup {[kind |-> "Rejected", age |-> 0]}
      <4>1. w[o] = IF phase[o] \in Over THEN Rest(x, m)[o]
                   ELSE Rest(x, m)[o] \cup {[kind |-> "Rejected", age |-> 0]}
        BY <2>2, SentFacts, Kinds
      <4>2. QED
        BY <2>2, <4>1
    <3>3. \A n \in w[o] : n \in wire[o] \/ n.kind = "Rejected"
      BY <3>2
    <3>4. w[o] # wire[o] => version[x] # version[o] /\ phase[o] \notin Over
      BY <2>4, <3>2
    <3>5. phase[x] \notin Over /\ "failed" \in Over /\ faults' \in Nat /\ faults' >= faults
      BY <1>2, <2>1, Phases
    <3> HIDE DEF w
    <3>6. QED
      BY <2>4, <3>1, <3>3, <3>4, <3>5, EndsShakes
  <2>5. QED
    BY <2>3, <2>4
<1>5. ASSUME NEW x \in End, NEW m \in wire[x], ReadHelloAck(x, m) PROVE Shaken'
  <2> DEFINE o == Other(x)
  <2>1. phase[x] = "ack" /\ faults' = faults
    BY <1>5 DEF ReadHelloAck
  <2>2. /\ Rest(x, m) \in Wires /\ Rest(x, m)[x] = wire[x] \ {m} /\ Rest(x, m)[o] = wire[o]
    BY RestFacts
  <2>3. CASE /\ m.kind = "Accepted" /\ wire' = Rest(x, m) /\ UNCHANGED <<version, stalled>>
             /\ phase' = [phase EXCEPT ![x] = "running"]
    <3>1. phase'[x] = "running" /\ phase'[o] = phase[o] /\ version' = version
      BY <1>1, <2>3 DEF TypeOK
    <3>2. /\ \A k : Coming(x, k)' => Coming(x, k)
          /\ \A k : Coming(o, k)' <=> Coming(o, k)
          /\ wire'[o] = wire[o]
      BY <2>2, <2>3 DEF Coming
    <3>3. Coming(x, "Accepted")
      BY <2>3 DEF Coming
    <3> HIDE DEF o
    <3>4. Half(x, o)'
      BY <1>1, <2>1, <3>1, <3>2, <3>3, Phases DEF Half, o
    <3>5. Half(o, x)'
      BY <1>1, <2>1, <3>1, <3>2, <3>3, Phases DEF Half, o
    <3>6. QED
      BY <1>1, <3>4, <3>5 DEF o
  <2>4. CASE m.kind = "Rejected" /\ Ends(x, "failed", Rest(x, m))
    <3>1. Coming(x, "Rejected")
      BY <2>4 DEF Coming
    <3>2. FALSE
      BY <1>1, <2>1, <3>1 DEF Half
    <3>3. QED
      BY <3>2
  <2>5. QED
    BY <1>5, <2>3, <2>4 DEF ReadHelloAck
<1>6. ASSUME NEW x \in End, NEW m \in wire[x], ReadEof(x, m) PROVE Shaken'
  <2>1. phase[x] \notin Over /\ faults' = faults /\ Coming(x, "Eof")
    BY <1>6 DEF ReadEof, Coming
  <2>2. phase[Other(x)] \in Over
    BY <1>1, <2>1 DEF Half
  <2>3. PICK how \in Over : Ends(x, how, wire)
    BY <1>6, Phases DEF ReadEof
  <2>4. QED
    BY <1>2, <2>1, <2>2, <2>3, EndsShakes
<1>7. ASSUME NEW x \in End, HangUp(x) PROVE Shaken'
  <2>1. phase[x] \notin Over /\ faults' = faults + 1
    BY <1>7 DEF HangUp
  <2>2. PICK how \in Over : Ends(x, how, wire)
    BY <1>7, Phases DEF HangUp
  <2>3. faults' \in Nat /\ faults' >= faults /\ faults' > 0
    BY <1>2, <2>1
  <2>4. QED
    BY <1>2, <2>1, <2>2, <2>3, EndsShakes
<1>8. ASSUME NEW x \in End, SendHeartbeat(x) PROVE Shaken'
  <2> DEFINE o == Other(x)
  <2>1. /\ phase[x] \in Beating /\ phase' = phase /\ version' = version /\ faults' = faults
    BY <1>8 DEF SendHeartbeat
  <2>2. /\ \A k : Coming(x, k)' <=> Coming(x, k)
        /\ \A k : Coming(o, k)' <=> Coming(o, k) \/ (k = "Heartbeat" /\ phase[o] \notin Over)
    BY <1>2, <1>8, SentComing, Kinds DEF SendHeartbeat, Coming
  <2>3. phase[o] \in Over => wire'[o] = wire[o]
    BY <1>2, <1>8, SentFacts, Kinds DEF SendHeartbeat
  <2> HIDE DEF o
  <2>4. Half(x, o)'
    BY <1>1, <2>1, <2>2, Phases DEF Half, o
  <2>5. Half(o, x)'
    BY <1>1, <2>1, <2>2, <2>3, Phases DEF Half, o
  <2>6. QED
    BY <1>1, <2>4, <2>5 DEF o
<1>9. ASSUME NEW x \in End, NEW m \in wire[x], ReadHeartbeat(x, m) PROVE Shaken'
  <2> DEFINE o == Other(x)
  <2>1. /\ phase[x] \in Beating /\ m.kind = "Heartbeat" /\ wire' = Rest(x, m)
        /\ phase' = phase /\ version' = version /\ faults' = faults
    BY <1>9 DEF ReadHeartbeat
  <2>2. /\ wire'[x] = wire[x] \ {m} /\ wire'[o] = wire[o]
    BY <2>1, RestFacts
  <2>3. /\ \A k : Coming(x, k)' => Coming(x, k)
        /\ \A k : Coming(o, k)' <=> Coming(o, k)
        /\ Coming(x, "Accepted") => Coming(x, "Accepted")'
    BY <2>1, <2>2 DEF Coming
  <2> HIDE DEF o
  <2>4. Half(x, o)'
    BY <1>1, <2>1, <2>2, <2>3, Phases DEF Half, o
  <2>5. Half(o, x)'
    BY <1>1, <2>1, <2>2, <2>3, Phases DEF Half, o
  <2>6. QED
    BY <1>1, <2>4, <2>5 DEF o
<1>10. ASSUME NEW x \in End, WatchdogTick(x) PROVE Shaken'
  <2>1. /\ phase[x] \in Beating /\ phase'[x] \in Beating /\ phase'[Other(x)] = phase[Other(x)]
        /\ wire' = wire /\ version' = version /\ faults' = faults
    BY <1>1, <1>10, Phases DEF WatchdogTick, TypeOK
  <2>2. Half(x, Other(x))'
    BY <1>1, <2>1, Phases DEF Half, Coming
  <2>3. Half(Other(x), x)'
    BY <1>1, <2>1, Phases DEF Half, Coming
  <2>4. QED
    BY <1>1, <2>2, <2>3
<1>11. ASSUME NEW x \in End, Stall(x) \/ Resume(x) PROVE Shaken'
  <2>1. /\ phase' = phase /\ wire' = wire /\ version' = version
        /\ faults' \in {faults, faults + 1}
    BY <1>11 DEF Stall, Resume
  <2>2. faults > 0 => faults' > 0
    BY <1>2, <2>1
  <2>3. QED
    BY <2>1, <2>2 DEF Shaken, Half, Coming
<1>12. CASE Tick
  <2>1. /\ phase' = phase /\ version' = version /\ faults' = faults
        /\ \A e \in End : wire'[e] = {Older(m) : m \in wire[e]}
    BY <1>12 DEF Tick
  <2>2. ASSUME NEW e \in End, NEW k PROVE Coming(e, k)' <=> Coming(e, k)
    <3>1. \A m \in wire[e] : Older(m).kind = m.kind
      BY OlderTyped DEF TypeOK
    <3>2. QED
      BY <2>1, <3>1 DEF Coming
  <2>3. \A e \in End : wire[e] = {} => wire'[e] = {}
    BY <2>1
  <2>4. ASSUME NEW x \in End PROVE Half(x, Other(x))'
    BY <1>1, <2>1, <2>2, <2>3 DEF Half
  <2>5. QED
    BY <2>4 DEF Shaken
<1>13. CASE UNCHANGED vars
  BY <1>13 DEF vars, Shaken, Half, Coming
<1>14. QED
  BY <1>3, <1>4, <1>5, <1>6, <1>7, <1>8, <1>9, <1>10, <1>11, <1>12, <1>13 DEF Next, Read

LEMMA AlwaysShaken == Spec => []Shaken
<1>1. ASSUME Init, NEW e \in End PROVE Half(e, Other(e))
  <2>1. /\ phase[e] = "new" /\ phase[Other(e)] = "new" /\ wire[e] = {} /\ wire[Other(e)] = {}
    BY <1>1, OtherEnd DEF Init
  <2>2. QED
    BY <2>1, Phases DEF Half, Coming
<1>2. Init => Shaken
  BY <1>1 DEF Shaken
<1>3. QED
  BY <1>2, StepShaken, TypeCorrect, PTL DEF Spec

(* Both ends of an established session have the version, and both accepted. *)
THEOREM HandshakeCorrect == Spec => []HandshakeAgrees
<1>1. Shaken => HandshakeAgrees
  BY DEF Shaken, Half, HandshakeAgrees
<1>2. QED
  BY <1>1, AlwaysShaken, PTL

-----------------------------------------------------------------------------
(* False alarms *)

(***************************************************************************)
(* What will end e's present silence in time, while nothing fails: a       *)
(* heartbeat on its way, the next one of the other end, or, when that has  *)
(* still to be told that e accepted, its first.                            *)
(***************************************************************************)
Reassured(e, o) ==
    \/ \E m \in wire[e] : m.kind = "Heartbeat" /\ silent[e] + MaxDelay < 3 * Interval + m.age
    \/ phase[o] \in Beating /\ silent[e] + beat[o] + MaxDelay < 3 * Interval
    \/ /\ phase[o] = "ack"
       /\ \E m \in wire[o] : m.kind = "Accepted" /\ silent[e] + 2 * MaxDelay < 3 * Interval + m.age

Calm ==
    faults = 0 =>
        /\ stalled = {}
        /\ \A e \in End : /\ phase[e] # "timedOut"
                          /\ phase[e] = "running" => Reassured(e, Other(e))

(* Of two ends that nothing happened to, one runs only if the other can answer. *)
LEMMA RunsWith ==
    ASSUME TypeOK, Shaken, faults = 0, NEW e \in End, phase[e] \in Beating
    PROVE  phase[Other(e)] \in {"ack"} \cup Beating
<1>1. Half(e, Other(e)) /\ phase[Other(e)] \in Phase
  BY OtherEnd DEF Shaken, TypeOK
<1>2. phase[Other(e)] \notin {"new", "hello", "failed", "ended"}
  BY <1>1, Phases DEF Half
<1>3. QED
  BY <1>1, <1>2 DEF Phase, Beating, Over

LEMMA Ages ==
    ASSUME TypeOK, NEW e \in End, NEW m \in wire[e]
    PROVE  /\ m \in Message /\ m.age \in Nat /\ m.age <= MaxDelay
           /\ MaxDelay \in Nat /\ Interval \in Nat /\ Interval > 0
           /\ silent[e] \in Nat
BY SessionAssumption DEF TypeOK, Message

LEMMA Clocks ==
    ASSUME TypeOK, NEW e \in End
    PROVE  /\ silent[e] \in Nat /\ beat[e] \in Nat /\ beat[e] <= Interval
           /\ MaxDelay \in Nat /\ Interval \in Nat /\ Interval > 0 /\ faults \in Nat
BY SessionAssumption DEF TypeOK

LEMMA StepCalm ==
    ASSUME 2 * MaxDelay < 3 * Interval, TypeOK, Shaken, Calm, [Next]_vars
    PROVE  Calm'
<1> SUFFICES ASSUME faults' = 0
             PROVE  /\ stalled' = {}
                    /\ \A e \in End : /\ phase'[e] # "timedOut"
                                      /\ phase'[e] = "running" => Reassured(e, Other(e))'
  BY DEF Calm
<1> DEFINE Goal(e) == /\ phase'[e] # "timedOut"
                      /\ phase'[e] = "running" => Reassured(e, Other(e))'
<1>1. wire \in Wires
  BY DEF TypeOK, Wires
<1>2. faults \in Nat
  BY DEF TypeOK
<1>3. ASSUME NEW x \in End
      PROVE  /\ Other(x) \in End /\ Other(x) # x /\ Other(Other(x)) = x
             /\ Goal(x) /\ Goal(Other(x)) => \A e \in End : Goal(e)
  BY OtherEnd
<1>4. ASSUME faults = 0, NEW x \in End
      PROVE  /\ stalled = {} /\ phase[x] # "timedOut" /\ phase[Other(x)] # "timedOut"
             /\ phase[x] = "running" => Reassured(x, Other(x))
             /\ phase[Other(x)] = "running" => Reassured(Other(x), x)
  BY <1>3, <1>4 DEF Calm
<1>5. ASSUME faults = 0, NEW x \in End, phase[x] \notin {"ack"} \cup Beating
      PROVE  phase[Other(x)] # "running"
  BY <1>3, <1>5, RunsWith, Phases
<1> HIDE DEF Goal
<1>6. ASSUME NEW x \in End, Begin(x) PROVE stalled' = {} /\ \A e \in End : Goal(e)
  <2>1. /\ phase[x] = "new" /\ phase'[x] = "hello" /\ phase'[Other(x)] = phase[Other(x)]
        /\ faults = 0 /\ stalled' = stalled
    BY <1>3, <1>6 DEF Begin, TypeOK
  <2>2. phase[Other(x)] # "running" /\ phase[Other(x)] # "timedOut" /\ stalled = {}
    BY <1>4, <1>5, <2>1, Phases
  <2>3. QED
    BY <1>3, <2>1, <2>2 DEF Goal
<1>7. ASSUME NEW x \in End, NEW m \in wire[x], ReadHello(x, m)
      PROVE  stalled' = {} /\ \A e \in End : Goal(e)
  <2>1. phase[x] = "hello" /\ faults = 0
    BY <1>7 DEF ReadHello
  <2>2. /\ phase'[x] \in {"ack", "failed"} /\ phase'[Other(x)] = phase[Other(x)]
        /\ stalled' = stalled
    <3>1. Sent(Rest(x, m), x, "Rejected") \in Wires
      BY RestFacts, SentFacts, Kinds
    <3>2. CASE version[Other(x)] = version[x]
      BY <1>3, <1>7, <3>2 DEF ReadHello, TypeOK
    <3>3. CASE version[Other(x)] # version[x]
      <4>1. Ends(x, "failed", Sent(Rest(x, m), x, "Rejected"))
        BY <1>7, <3>3 DEF ReadHello
      <4>2. /\ phase'[x] = "failed" /\ phase'[Other(x)] = phase[Other(x)]
            /\ stalled' = stalled
        BY <3>1, <4>1, EndsFacts, Phases
      <4>3. QED
        BY <4>2
    <3>4. QED
      BY <3>2, <3>3
  <2>3. phase[Other(x)] # "running" /\ phase[Other(x)] # "timedOut" /\ stalled = {}
    BY <1>4, <1>5, <2>1, Phases
  <2>4. QED
    BY <1>3, <2>2, <2>3 DEF Goal
<1>8. ASSUME NEW x \in End, NEW m \in wire[x], ReadHelloAck(x, m)
      PROVE  stalled' = {} /\ \A e \in End : Goal(e)
  <2> DEFINE o == Other(x)
  <2>1. phase[x] = "ack" /\ faults = 0
    BY <1>8 DEF ReadHelloAck
  <2>2. stalled = {} /\ phase[o] # "timedOut" /\ (phase[o] = "running" => Reassured(o, x))
    BY <1>4, <2>1
  <2>3. Half(x, o) /\ phase[o] \in Phase
    BY <1>3 DEF Shaken, TypeOK
  <2>4. m.kind # "Rejected"
    BY <2>1, <2>3 DEF Half, Coming
  <2>5. /\ m.kind = "Accepted" /\ wire' = Rest(x, m) /\ StartsTimers(x) /\ stalled' = stalled
        /\ phase'[x] = "running" /\ phase'[o] = phase[o]
    BY <1>3, <1>8, <2>4 DEF ReadHelloAck, TypeOK
  <2>6. /\ wire'[o] = wire[o]
        /\ silent'[x] = 0 /\ beat'[x] = 0 /\ silent'[o] = silent[o] /\ beat'[o] = beat[o]
    BY <1>3, <2>5, RestFacts DEF StartsTimers, TypeOK
  <2>7. Reassured(x, o)'
    <3>1. phase[o] \in {"ack"} \cup Beating
      <4>1. Coming(x, "Accepted")
        BY <2>5 DEF Coming
      <4>2. phase[o] \notin {"new", "hello", "failed", "ended"}
        BY <2>1, <2>3, <4>1, Phases DEF Half
      <4>3. QED
        BY <2>3, <4>2 DEF Phase, Beating, Over
    <3>2. CASE phase[o] \in Beating
      BY <1>3, <2>5, <2>6, <3>2, Clocks DEF Reassured
    <3>3. CASE phase[o] = "ack"
      <4>1. PICK n \in wire[o] : n.kind = "Accepted"
        BY <2>1, <2>3, <3>3, Phases DEF Half, Coming
      <4>2. silent'[x] + 2 * MaxDelay < 3 * Interval + n.age
        BY <1>3, <2>6, <4>1, Ages
      <4>3. QED
        BY <2>5, <2>6, <3>3, <4>1, <4>2 DEF Reassured
    <3>4. QED
      BY <3>1, <3>2, <3>3
  <2>8. phase[o] = "running" => Reassured(o, x)'
    <3>1. SUFFICES ASSUME phase[o] = "running" PROVE Reassured(o, x)'
      OBVIOUS
    <3>2. CASE \E n \in wire[o] : n.kind = "Heartbeat" /\ silent[o] + MaxDelay < 3 * Interval + n.age
      BY <2>6, <3>2 DEF Reassured
    <3>3. CASE \E n \in wire[x] : n.kind = "Accepted" /\ silent[o] + 2 * MaxDelay < 3 * Interval + n.age
      <4>1. PICK n \in wire[x] : silent[o] + 2 * MaxDelay < 3 * Interval + n.age
        BY <3>3
      <4>2. silent'[o] + beat'[x] + MaxDelay < 3 * Interval
        BY <1>3, <2>6, <4>1, Ages, Clocks
      <4>3. QED
        BY <2>5, <4>2, Phases DEF Reassured
    <3>4. phase[x] \notin Beating
      BY <2>1, Phases
    <3>5. QED
      BY <2>2, <3>1, <3>2, <3>3, <3>4 DEF Reassured
  <2>9. QED
    BY <1>3, <2>2, <2>5, <2>7, <2>8 DEF Goal
<1>9. ASSUME NEW x \in End, NEW m \in wire[x], ReadEof(x, m)
      PROVE  stalled' = {} /\ \A e \in End : Goal(e)
  <2>1. faults = 0 /\ Coming(x, "Eof") /\ wire \in Wires
    BY <1>1, <1>9 DEF ReadEof, Coming
  <2>2. PICK how \in Over : Ends(x, how, wire)
    BY <1>9, Phases DEF ReadEof
  <2>3. phase'[x] \in Over /\ phase'[Other(x)] = phase[Other(x)] /\ stalled' = stalled
    <3>1. phase'[x] = how /\ phase'[Other(x)] = phase[Other(x)] /\ stalled' = stalled
      BY <1>3, <1>9, <2>2, Phases DEF Ends, TypeOK
    <3>2. QED
      BY <3>1
  <2>4. phase[Other(x)] \in Over /\ stalled = {}
    BY <1>4, <2>1 DEF Shaken, Half
  <2>5. QED
    BY <1>3, <2>3, <2>4, Phases DEF Goal
<1>10. ASSUME NEW x \in End, SendHeartbeat(x) PROVE stalled' = {} /\ \A e \in End : Goal(e)
  <2> DEFINE o == Other(x)
  <2>1. /\ phase[x] \in Beating /\ beat[x] = 0 /\ phase' = phase /\ silent' = silent
        /\ beat' = [beat EXCEPT ![x] = Interval] /\ faults = 0 /\ stalled' = stalled
    BY <1>10 DEF SendHeartbeat
  <2>2. /\ stalled = {} /\ phase[x] # "timedOut" /\ phase[o] # "timedOut"
        /\ phase[x] = "running" => Reassured(x, o)
        /\ phase[o] = "running" => Reassured(o, x)
    BY <1>4, <2>1
  <2>3. /\ wire'[x] = wire[x]
        /\ wire'[o] = IF phase[o] \in Over THEN wire[o]
                      ELSE wire[o] \cup {[kind |-> "Heartbeat", age |-> 0]}
    BY <1>1, <1>10, SentFacts, Kinds DEF SendHeartbeat
  <2>4. beat'[o] = beat[o]
    BY <1>3, <2>1 DEF TypeOK
  <2>5. phase[x] = "running" => Reassured(x, o)'
    BY <2>1, <2>2, <2>3, <2>4 DEF Reassured
  <2>6. phase[o] = "running" => Reassured(o, x)'
    <3>1. SUFFICES ASSUME phase[o] = "running" PROVE Reassured(o, x)'
      OBVIOUS
    <3>2. wire'[o] = wire[o] \cup {[kind |-> "Heartbeat", age |-> 0]}
      BY <2>3, <3>1, Phases
    <3>3. CASE \E n \in wire[o] : n.kind = "Heartbeat" /\ silent[o] + MaxDelay < 3 * Interval + n.age
      BY <2>1, <3>2, <3>3 DEF Reassured
    <3>4. CASE silent[o] + beat[x] + MaxDelay < 3 * Interval
      <4> DEFINE n == [kind |-> "Heartbeat", age |-> 0]
      <4>1. n \in wire'[o] /\ n.kind = "Heartbeat" /\ n.age = 0
        BY <3>2
      <4>2. silent[o] + MaxDelay < 3 * Interval + 0
        BY <1>3, <2>1, <3>4, Clocks
      <4> HIDE DEF n
      <4>3. QED
        BY <2>1, <4>1, <4>2 DEF Reassured
    <3>5. phase[x] # "ack"
      BY <2>1, Phases
    <3>6. QED
      BY <2>2, <3>1, <3>3, <3>4, <3>5 DEF Reassured
  <2>7. QED
    BY <1>3, <2>1, <2>2, <2>5, <2>6 DEF Goal
<1>11. ASSUME NEW x \in End, WatchdogTick(x) PROVE stalled' = {} /\ \A e \in End : Goal(e)
  <2> DEFINE o == Other(x)
  <2>1. /\ phase[x] = "running" /\ faults = 0 /\ stalled' = stalled
        /\ wire' = wire /\ beat' = beat
    BY <1>11 DEF WatchdogTick
  <2>2. /\ stalled = {} /\ phase[x] # "timedOut" /\ phase[o] # "timedOut"
        /\ Reassured(x, o)
        /\ phase[o] = "running" => Reassured(o, x)
    BY <1>4, <2>1
  <2>3. silent[x] < 3 * Interval
    <3>1. CASE \E n \in wire[x] : silent[x] + MaxDelay < 3 * Interval + n.age
      BY <3>1, Ages
    <3>2. CASE silent[x] + beat[o] + MaxDelay < 3 * Interval
      BY <1>3, <3>2, Clocks
    <3>3. CASE \E n \in wire[o] : silent[x] + 2 * MaxDelay < 3 * Interval + n.age
      BY <1>3, <3>3, Ages, Clocks
    <3>4. QED
      BY <2>2, <3>1, <3>2, <3>3 DEF Reassured
  <2>4. phase' = phase /\ silent' = silent
    BY <1>11, <2>3 DEF WatchdogTick, IsAlive
  <2>5. QED
    BY <1>3, <2>1, <2>2, <2>4 DEF Goal, Reassured
<1>12. ASSUME NEW x \in End, NEW m \in wire[x], ReadHeartbeat(x, m)
       PROVE  stalled' = {} /\ \A e \in End : Goal(e)
  <2> DEFINE o == Other(x)
  <2>1. /\ phase[x] \in Beating /\ phase' = phase /\ beat' = beat /\ faults = 0
        /\ stalled' = stalled /\ wire' = Rest(x, m) /\ silent' = [silent EXCEPT ![x] = 0]
    BY <1>12 DEF ReadHeartbeat
  <2>2. /\ stalled = {} /\ phase[x] # "timedOut" /\ phase[o] # "timedOut"
        /\ phase[o] = "running" => Reassured(o, x)
    BY <1>4, <2>1
  <2>3. wire'[o] = wire[o] /\ silent'[x] = 0 /\ silent'[o] = silent[o]
    BY <1>3, <2>1, RestFacts DEF TypeOK
  <2>4. Reassured(x, o)'
    <3>1. Half(x, o) /\ phase[o] \in {"ack"} \cup Beating
      BY <2>1, RunsWith DEF Shaken
    <3>2. Coming(x, "Heartbeat")
      BY <1>12 DEF ReadHeartbeat, Coming
    <3>3. phase[o] \in Beating
      BY <3>1, <3>2, Phases DEF Half
    <3>4. silent'[x] + beat'[o] + MaxDelay < 3 * Interval
      BY <1>3, <2>1, <2>3, Clocks
    <3>5. QED
      BY <2>1, <3>3, <3>4 DEF Reassured
  <2>5. phase[o] = "running" => Reassured(o, x)'
    <3>1. phase[x] # "ack"
      BY <2>1, Phases
    <3>2. QED
      BY <2>1, <2>2, <2>3, <3>1 DEF Reassured
  <2>6. QED
    BY <1>3, <2>1, <2>2, <2>4, <2>5 DEF Goal
<1>13. ASSUME NEW x \in End, HangUp(x) \/ Stall(x) \/ Resume(x)
       PROVE  stalled' = {} /\ \A e \in End : Goal(e)
  <2>1. CASE HangUp(x) \/ Stall(x)
    BY <1>2, <2>1 DEF HangUp, Stall
  <2>2. CASE Resume(x)
    BY <1>4, <2>2 DEF Resume
  <2>3. QED
    BY <1>13, <2>1, <2>2
<1>14. CASE Tick
  <2>1. /\ phase' = phase /\ faults = 0 /\ stalled' = stalled
        /\ \A e \in End : wire'[e] = {Older(m) : m \in wire[e]}
    BY <1>14 DEF Tick
  <2>2. stalled = {}
    BY <2>1 DEF Calm
  <2>3. ASSUME NEW e \in End, phase[e] \notin Over \cup {"new"}, NEW m \in wire[e]
        PROVE  Older(m) \in wire'[e] /\ Older(m).kind = m.kind /\ Older(m).age = m.age + 1
    <3>1. m.age # MaxDelay
      BY <1>14, <2>2, <2>3 DEF Tick, MessageDue
    <3>2. m.age < MaxDelay
      BY <2>3, <3>1, Ages
    <3>3. QED
      BY <2>1, <2>3, <3>2, Ages, OlderTyped
  <2>4. ASSUME NEW x \in End PROVE Goal(x)
    <3> DEFINE o == Other(x)
    <3>1. SUFFICES ASSUME phase[x] = "running" PROVE Reassured(x, o)'
      BY <1>4, <2>1, <2>4 DEF Goal
    <3>2. silent'[x] = silent[x] + 1 /\ silent[x] \in Nat /\ o \in End
      BY <1>3, <1>14, <2>4, <3>1, Clocks DEF Tick
    <3>3. Reassured(x, o)
      BY <1>4, <2>1, <2>4, <3>1
    <3>4. CASE \E m \in wire[x] : m.kind = "Heartbeat" /\ silent[x] + MaxDelay < 3 * Interval + m.age
      <4>1. PICK m \in wire[x] : m.kind = "Heartbeat" /\ silent[x] + MaxDelay < 3 * Interval + m.age
        BY <3>4
      <4>2. Older(m) \in wire'[x] /\ Older(m).kind = m.kind /\ Older(m).age = m.age + 1
        BY <2>3, <2>4, <3>1, <4>1, Phases
      <4>3. silent'[x] + MaxDelay < 3 * Interval + Older(m).age
        BY <2>4, <3>2, <4>1, <4>2, Ages
      <4>4. QED
        BY <4>1, <4>2, <4>3 DEF Reassured
    <3>5. CASE phase[o] \in Beating /\ silent[x] + beat[o] + MaxDelay < 3 * Interval
      <4>1. beat'[o] = beat[o] - 1
        BY <1>14, <3>2, <3>5 DEF Tick
      <4>2. silent'[x] + beat'[o] + MaxDelay < 3 * Interval
        BY <3>2, <3>5, <4>1, Clocks
      <4>3. QED
        BY <2>1, <3>5, <4>2 DEF Reassured
    <3>6. CASE /\ phase[o] = "ack"
               /\ \E m \in wire[o] : /\ m.kind = "Accepted"
                                     /\ silent[x] + 2 * MaxDelay < 3 * Interval + m.age
      <4>1. PICK m \in wire[o] : /\ m.kind = "Accepted"
                                 /\ silent[x] + 2 * MaxDelay < 3 * Interval + m.age
        BY <3>6
      <4>2. Older(m) \in wire'[o] /\ Older(m).kind = m.kind /\ Older(m).age = m.age + 1
        BY <2>3, <3>2, <3>6, <4>1, Phases
      <4>3. silent'[x] + 2 * MaxDelay < 3 * Interval + Older(m).age
        BY <3>2, <4>1, <4>2, Ages
      <4>4. QED
        BY <2>1, <3>6, <4>1, <4>2, <4>3 DEF Reassured
    <3>7. QED
      BY <3>3, <3>4, <3>5, <3>6 DEF Reassured
  <2>5. QED
    BY <2>1, <2>2, <2>4 DEF Goal
<1>15. CASE UNCHANGED vars
  <2>1. /\ phase' = phase /\ wire' = wire /\ silent' = silent /\ beat' = beat
        /\ stalled' = stalled /\ faults = 0
    BY <1>15 DEF vars
  <2>2. \A e \in End : Reassured(e, Other(e))' <=> Reassured(e, Other(e))
    BY <2>1 DEF Reassured
  <2>3. QED
    BY <2>1, <2>2 DEF Calm, Goal
<1>16. stalled' = {} /\ \A e \in End : Goal(e)
  <2>1. ASSUME NEW x \in End,
               \/ Begin(x) \/ Read(x) \/ SendHeartbeat(x) \/ WatchdogTick(x)
               \/ HangUp(x) \/ Stall(x) \/ Resume(x)
        PROVE  stalled' = {} /\ \A e \in End : Goal(e)
    <3>1. CASE Read(x)
      BY <1>7, <1>8, <1>9, <1>12, <3>1 DEF Read
    <3>2. QED
      BY <1>6, <1>10, <1>11, <1>13, <2>1, <3>1
  <2>2. QED
    BY <1>14, <1>15, <2>1 DEF Next, Goal
<1>17. QED
  BY <1>16 DEF Goal

(***************************************************************************)
(* While nothing fails, the watchdog stays silent for every interval and   *)
(* every delay of which two are shorter than three intervals.              *)
(***************************************************************************)
THEOREM AlarmsAreTrue == Spec => []NoFalseAlarm
<1> DEFINE Short == 2 * MaxDelay < 3 * Interval
<1>1. Init => (Short => Calm)
  BY Phases DEF Init, Calm, Beating
<1>2. TypeOK /\ Shaken /\ (Short => Calm) /\ [Next]_vars => (Short => Calm)'
  <2>1. ASSUME Short, TypeOK, Shaken, Calm, [Next]_vars PROVE Calm'
    BY <2>1, StepCalm
  <2>2. QED
    BY <2>1
<1>3. (Short => Calm) => NoFalseAlarm
  BY DEF Calm, NoFalseAlarm
<1> HIDE DEF Short
<1>4. QED
  BY <1>1, <1>2, <1>3, AlwaysShaken, TypeCorrect, PTL DEF Spec

=============================================================================
