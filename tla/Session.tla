------------------------------- MODULE Session -------------------------------
(***************************************************************************)
(* One connection between two daemons, and time.                           *)
(*                                                                         *)
(* PeerSessions lets a handshake fail and a watchdog fire whenever they    *)
(* like.  Here is when they do: the exchange of Hello and HelloAck by      *)
(* handshake (session.rs) and the heartbeat, watchdog and reader of        *)
(* run_session (network.rs).  Each end runs the same code, "since each     *)
(* direction of the handshake is identical" (session.rs:24).               *)
(*                                                                         *)
(* Time passes in ticks, Interval of which are one heartbeat interval.  A  *)
(* message is read at most MaxDelay ticks after it was sent, its wait in   *)
(* the sender's queue included, unless the connection is stalled in that   *)
(* direction.  Timers are on time.                                         *)
(***************************************************************************)
EXTENDS Naturals

CONSTANTS
    Interval,   \* ticks per heartbeat interval
    MaxDelay,   \* ticks until a message is read, while nothing is stalled
    MaxFaults   \* bound: stalls, and ends that hang up

ASSUME SessionAssumption ==
    /\ Interval \in Nat \ {0}
    /\ MaxDelay \in Nat
    /\ MaxFaults \in Nat

VARIABLES
    version,  \* version[e]: the PROTOCOL_VERSION e was built with
    phase,    \* phase[e]: how far e is in handshake and run_session
    wire,     \* wire[e]: what is on its way to e, and for how long
    stalled,  \* the ends that nothing reaches at present
    silent,   \* silent[e]: ticks since e's HeartbeatMonitor.last_seen
    beat,     \* beat[e]: ticks until e sends its next Heartbeat
    look,     \* look[e]: ticks until e's watchdog looks again
    faults    \* stalls and hang-ups so far

vars == <<version, phase, wire, stalled, silent, beat, look, faults>>

clocks == <<silent, beat, look>>

End == {"dialer", "listener"}

Other(e) == CHOOSE o \in End : o # e

(***************************************************************************)
(* "new" has a TLS stream, "hello" waits for the peer's Hello and "ack"    *)
(* for its HelloAck; "timedOut" is a session whose watchdog has fired and  *)
(* whose reader and heartbeats go on.                                      *)
(***************************************************************************)
Beating == {"running", "timedOut"}

Over == {"failed", "ended"}

Phase == {"new", "hello", "ack"} \cup Beating \cup Over

(***************************************************************************)
(* An end sends its messages in the order of their ranks, so that the set  *)
(* of what is on its way tells the order.  Heartbeats of one age count as  *)
(* one.  "Accepted" and "Rejected" are the two kinds of HelloAck, "Eof" is *)
(* the end of the stream.                                                  *)
(***************************************************************************)
Rank == [Hello |-> 1, Accepted |-> 2, Rejected |-> 2, Heartbeat |-> 3, Eof |-> 4]

Message == [kind : DOMAIN Rank, age : 0 .. MaxDelay]

Init ==
    /\ version \in [End -> {1, 2}]
    /\ phase = [e \in End |-> "new"]
    /\ wire = [e \in End |-> {}]
    /\ stalled = {}
    /\ silent = [e \in End |-> 0]
    /\ beat = [e \in End |-> 0]
    /\ look = [e \in End |-> 0]
    /\ faults = 0

-----------------------------------------------------------------------------
(* write_message and read_message *)

(* What is written to an end that has closed its socket is lost. *)
Sent(w, e, kind) ==
    IF phase[Other(e)] \in Over
    THEN w
    ELSE [w EXCEPT ![Other(e)] = @ \cup {[kind |-> kind, age |-> 0]}]

(* m is the next message e reads. *)
Arrives(e, m) ==
    /\ e \notin stalled
    /\ m \in wire[e]
    /\ \A n \in wire[e] :
          \/ Rank[m.kind] < Rank[n.kind]
          \/ m.kind = n.kind /\ m.age >= n.age

Rest(e, m) == [wire EXCEPT ![e] = @ \ {m}]

(* Mutant: a handshake that fails keeps the stream open. *)
EndsKeepingStream(e, how, w) ==
    /\ phase' = [phase EXCEPT ![e] = how]
    /\ wire' = IF how = "failed" THEN [w EXCEPT ![e] = {}] ELSE [Sent(w, e, "Eof") EXCEPT ![e] = {}]
    /\ UNCHANGED <<version, stalled, clocks>>

(* The task returns and drops its stream. *)
Ends(e, how, w) ==
    /\ phase' = [phase EXCEPT ![e] = how]
    /\ wire' = [Sent(w, e, "Eof") EXCEPT ![e] = {}]
    /\ UNCHANGED <<version, stalled, clocks>>

-----------------------------------------------------------------------------
(* handshake *)

Begin(e) ==
    /\ phase[e] = "new"
    /\ phase' = [phase EXCEPT ![e] = "hello"]
    /\ wire' = Sent(wire, e, "Hello")
    /\ UNCHANGED <<version, stalled, clocks, faults>>

(* Mutant: an end that accepts does not wait to be accepted. *)
ReadHelloAndRun(e, m) ==
    /\ phase[e] = "hello"
    /\ Arrives(e, m) /\ m.kind = "Hello"
    /\ IF version[Other(e)] = version[e]
       THEN /\ phase' = [phase EXCEPT ![e] = "running"]
            /\ wire' = Sent(Rest(e, m), e, "Accepted")
            /\ UNCHANGED <<version, stalled, clocks>>
       ELSE Ends(e, "failed", Sent(Rest(e, m), e, "Rejected"))
    /\ UNCHANGED faults

ReadHello(e, m) ==
    /\ phase[e] = "hello"
    /\ Arrives(e, m) /\ m.kind = "Hello"
    /\ IF version[Other(e)] = version[e]
       THEN /\ phase' = [phase EXCEPT ![e] = "ack"]
            /\ wire' = Sent(Rest(e, m), e, "Accepted")
            /\ UNCHANGED <<version, stalled, clocks>>
       ELSE Ends(e, "failed", Sent(Rest(e, m), e, "Rejected"))
    /\ UNCHANGED faults

(* Mutant: the heartbeat task waits for one interval before its first tick. *)
BeatsLater(e) ==
    /\ silent' = [silent EXCEPT ![e] = 0]
    /\ beat' = [beat EXCEPT ![e] = Interval]
    /\ look' = [look EXCEPT ![e] = 0]

(* tokio::time::interval completes its first tick at once. *)
StartsTimers(e) ==
    /\ silent' = [silent EXCEPT ![e] = 0]
    /\ beat' = [beat EXCEPT ![e] = 0]
    /\ look' = [look EXCEPT ![e] = 0]

ReadHelloAck(e, m) ==
    /\ phase[e] = "ack"
    /\ Arrives(e, m)
    /\ \/ /\ m.kind = "Accepted"
          /\ phase' = [phase EXCEPT ![e] = "running"]
          /\ wire' = Rest(e, m)
          /\ StartsTimers(e)
          /\ UNCHANGED <<version, stalled>>
       \/ /\ m.kind = "Rejected"
          /\ Ends(e, "failed", Rest(e, m))
    /\ UNCHANGED faults

-----------------------------------------------------------------------------
(* run_session *)

SendHeartbeat(e) ==
    /\ phase[e] \in Beating
    /\ beat[e] = 0
    /\ beat' = [beat EXCEPT ![e] = Interval]
    /\ wire' = Sent(wire, e, "Heartbeat")
    /\ UNCHANGED <<version, phase, stalled, silent, look, faults>>

(* Mutant: exactly three intervals are not yet too long. *)
IsAliveAtLimit(e) == silent[e] <= 3 * Interval

(* HeartbeatMonitor::is_alive *)
IsAlive(e) == silent[e] < 3 * Interval

(* Mutant: the watchdog sleeps for two intervals. *)
WatchdogTickSlow(e) ==
    /\ phase[e] = "running"
    /\ look[e] = 0
    /\ IF IsAlive(e)
       THEN /\ look' = [look EXCEPT ![e] = 2 * Interval]
            /\ UNCHANGED <<phase, silent>>
       ELSE /\ phase' = [phase EXCEPT ![e] = "timedOut"]
            /\ silent' = [silent EXCEPT ![e] = 0]
            /\ UNCHANGED look
    /\ UNCHANGED <<version, wire, stalled, beat, faults>>

(* The watchdog looks once per interval and returns after it fired. *)
WatchdogTick(e) ==
    /\ phase[e] = "running"
    /\ look[e] = 0
    /\ IF IsAlive(e)
       THEN /\ look' = [look EXCEPT ![e] = Interval]
            /\ UNCHANGED <<phase, silent>>
       ELSE /\ phase' = [phase EXCEPT ![e] = "timedOut"]
            /\ silent' = [silent EXCEPT ![e] = 0]
            /\ UNCHANGED look
    /\ UNCHANGED <<version, wire, stalled, beat, faults>>

(***************************************************************************)
(* on_heartbeat_received.  What it records after the watchdog has returned *)
(* is not read any more.                                                   *)
(***************************************************************************)
ReadHeartbeat(e, m) ==
    /\ phase[e] \in Beating
    /\ Arrives(e, m) /\ m.kind = "Heartbeat"
    /\ silent' = [silent EXCEPT ![e] = 0]
    /\ wire' = Rest(e, m)
    /\ UNCHANGED <<version, phase, stalled, beat, look, faults>>

(* Ok(None), wherever e is waiting for a message. *)
ReadEof(e, m) ==
    /\ phase[e] \notin Over
    /\ Arrives(e, m) /\ m.kind = "Eof"
    /\ Ends(e, IF phase[e] \in Beating THEN "ended" ELSE "failed", wire)
    /\ UNCHANGED faults

Read(e) ==
    \E m \in wire[e] :
        \/ ReadHello(e, m)
        \/ ReadHelloAck(e, m)
        \/ ReadHeartbeat(e, m)
        \/ ReadEof(e, m)

-----------------------------------------------------------------------------
(* The network, and time *)

(* The process of e ends, or its socket reports an error. *)
HangUp(e) ==
    /\ phase[e] \notin Over
    /\ faults < MaxFaults
    /\ faults' = faults + 1
    /\ Ends(e, IF phase[e] \in Beating THEN "ended" ELSE "failed", wire)

(* TCP holds back what is sent to e: it retransmits ... *)
Stall(e) ==
    /\ e \notin stalled
    /\ faults < MaxFaults
    /\ faults' = faults + 1
    /\ stalled' = stalled \cup {e}
    /\ UNCHANGED <<version, phase, wire, clocks>>

(* ... until one of the attempts succeeds. *)
Resume(e) ==
    /\ e \in stalled
    /\ stalled' = stalled \ {e}
    /\ UNCHANGED <<version, phase, wire, clocks, faults>>

(* A timer of e has run down. *)
TimerDue(e) ==
    \/ phase[e] \in Beating /\ beat[e] = 0
    \/ phase[e] = "running" /\ look[e] = 0

(* A message has been on its way to e, which reads, for as long as it can be. *)
MessageDue(e) ==
    /\ e \notin stalled
    /\ phase[e] \notin Over \cup {"new"}
    /\ \E m \in wire[e] : m.age = MaxDelay

Older(m) == [m EXCEPT !.age = IF @ < MaxDelay THEN @ + 1 ELSE @]

Tick ==
    /\ \A e \in End : ~ TimerDue(e) /\ ~ MessageDue(e)
    /\ wire' = [e \in End |-> {Older(m) : m \in wire[e]}]
    /\ silent' = [e \in End |-> IF phase[e] = "running" THEN silent[e] + 1 ELSE silent[e]]
    /\ beat' = [e \in End |-> IF phase[e] \in Beating THEN beat[e] - 1 ELSE beat[e]]
    /\ look' = [e \in End |-> IF phase[e] = "running" THEN look[e] - 1 ELSE look[e]]
    /\ UNCHANGED <<version, phase, stalled, faults>>

Next ==
    \/ \E e \in End :
          \/ Begin(e)
          \/ Read(e)
          \/ SendHeartbeat(e)
          \/ WatchdogTick(e)
          \/ HangUp(e)
          \/ Stall(e)
          \/ Resume(e)
    \/ Tick

Spec == Init /\ [][Next]_vars

(***************************************************************************)
(* The tasks of a session go on, and so does time.  Nothing makes a        *)
(* stalled connection resume: a handshake that waits for a message waits   *)
(* without a limit (network.rs:128).                                       *)
(***************************************************************************)
FairSpec ==
    /\ Spec
    /\ WF_vars(Tick)
    /\ \A e \in End :
          /\ WF_vars(Begin(e))
          /\ WF_vars(Read(e))
          /\ WF_vars(SendHeartbeat(e))
          /\ WF_vars(WatchdogTick(e))

-----------------------------------------------------------------------------
(* Properties *)

TypeOK ==
    /\ version \in [End -> {1, 2}]
    /\ phase \in [End -> Phase]
    /\ wire \in [End -> SUBSET Message]
    /\ stalled \subseteq End
    /\ silent \in [End -> Nat]
    /\ beat \in [End -> 0 .. Interval]
    /\ look \in [End -> 0 .. Interval]
    /\ faults \in Nat

(***************************************************************************)
(* No end takes a session for established that the other one refuses: the  *)
(* versions agree, and the other end has accepted as well (session.rs,     *)
(* mismatched_protocol_version_is_rejected_on_both_ends).                  *)
(***************************************************************************)
HandshakeAgrees ==
    \A e \in End : phase[e] \in Beating =>
        /\ version[e] = version[Other(e)]
        /\ phase[Other(e)] \notin {"new", "hello"}
        /\ phase[Other(e)] = "failed" => faults > 0

(***************************************************************************)
(* The watchdog does not fire while the connection works, as long as two   *)
(* delays - that of the peer's HelloAck and that of its first heartbeat -  *)
(* take less than three intervals (heartbeat.rs:6, "without a              *)
(* false-positive disconnect").                                            *)
(***************************************************************************)
NoFalseAlarm ==
    (2 * MaxDelay < 3 * Interval /\ faults = 0) => \A e \in End : phase[e] # "timedOut"

(***************************************************************************)
(* A peer's silence is noticed before a fourth interval is over, wherever  *)
(* in the interval it began: the watchdog looks once per interval, so the  *)
(* three intervals of heartbeat.rs:7 are not the bound.                    *)
(***************************************************************************)
SilenceIsNoticed ==
    \A e \in End : phase[e] = "running" => silent[e] < 4 * Interval

(***************************************************************************)
(* An end that fails, is refused or hangs up takes the other end with it,  *)
(* whatever that was waiting for, unless nothing gets through to it.       *)
(***************************************************************************)
EndReachesOther ==
    \A e \in End :
        (phase[e] \in Over) ~> (phase[Other(e)] \in Over \/ Other(e) \in stalled)

=============================================================================
