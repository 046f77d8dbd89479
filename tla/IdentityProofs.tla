--------------------------- MODULE IdentityProofs ---------------------------
(***************************************************************************)
(* Proofs about Identity, for any number of processes and of draws, where  *)
(* users are patient.                                                      *)
(***************************************************************************)
EXTENDS Identity, TLAPS

(***************************************************************************)
(* Until a process has come up, at most one is there, and the key is not   *)
(* stored yet: it is the last thing that is.  So a launch that finds both  *)
(* entries finds them complete, and one that was cut short begins again.   *)
(***************************************************************************)
FirstRun(p) ==
    LET at == proc[p].at
        self == proc[p].self
    IN  /\ at \in {"off"} \cup Loading
        /\ at \in {"cert", "key", "setCert", "setKey"} =>
              meta.exists /\ self.id # None /\ self.id = meta.id
        /\ at \in {"create", "write"} => self.id # None
        /\ at \in {"setCert", "setKey"} => self.cert # None /\ self.key = self.cert
        /\ at = "setKey" => cert = self.cert

(* From then on, every process only reads, and what is stored stays. *)
LaterRun(p) ==
    LET at == proc[p].at
        self == proc[p].self
    IN  /\ at \in {"off", "meta", "cert", "key"} \cup Loaded
        /\ at \in {"cert", "key"} => self.id = meta.id
        /\ at = "key" => self.cert = cert
        /\ at \in Loaded => self = Stored

Begun ==
    /\ key = None
    /\ \A p, q \in Process : At(p, "off") \/ At(q, "off") \/ p = q
    /\ \A p \in Process : FirstRun(p)

Settled ==
    /\ meta.exists
    /\ meta.id # None
    /\ cert # None
    /\ key = cert
    /\ used = {Stored}
    /\ \A p \in Process : LaterRun(p)

IInv == TypeOK /\ (used = {} => Begun) /\ (used # {} => Settled)

LEMMA InitIInv == ASSUME Init PROVE IInv
<1>1. TypeOK
  BY IdentityAssumption
     DEF Init, TypeOK, Meta, Number, None, Proc, Off, Nobody, Id
<1>2. Begun
  BY DEF Init, Begun, FirstRun, At, Off, None, Loading
<1>3. QED
  BY <1>1, <1>2 DEF IInv, Init

-----------------------------------------------------------------------------
(* Each step keeps the types. *)
LEMMA TypeStep == ASSUME TypeOK, [Next]_vars PROVE TypeOK'
<1> USE IdentityAssumption DEF TypeOK, Meta, Number, None, Id
<1>self. \A p \in Process : proc[p].self \in Id /\ proc[p].at \in {"off"} \cup Loading \cup Loaded
  BY DEF Proc
<1>goes. ASSUME NEW p \in Process, NEW step \in {"off"} \cup Loading \cup Loaded,
                NEW self \in Id, Goes(p, step, self)
         PROVE  proc' \in [Process -> Proc]
  BY <1>goes DEF Goes, Proc
<1>off. Off \in Proc /\ Started \in Proc
  BY DEF Off, Started, Nobody, Proc, Loading
<1>up. ASSUME NEW p \in Process, NEW self \in Id, ComesUp(p, self)
       PROVE  proc' \in [Process -> Proc] /\ used' \subseteq Id
  BY <1>up, <1>goes DEF ComesUp, Loaded
<1>draw. ASSUME Draw PROVE draws' \in Number /\ draws' \in Nat
  BY <1>draw DEF Draw
<1>1. ASSUME NEW p \in Process, Launch(p) PROVE TypeOK'
  BY <1>1, <1>off DEF Launch
<1>2. ASSUME NEW p \in Process, LoadMeta(p) PROVE TypeOK'
  <2>1. [Nobody EXCEPT !.id = meta.id] \in Id
    BY DEF Nobody
  <2>2. proc' \in [Process -> Proc]
    BY <1>2, <1>off, <1>goes, <2>1 DEF LoadMeta, Loading
  <2>3. QED
    BY <1>2, <2>2 DEF LoadMeta
<1>3. ASSUME NEW p \in Process, MissMeta(p) PROVE TypeOK'
  <2>1. draws' \in Number
    BY <1>3, <1>draw DEF MissMeta
  <2>2. [Nobody EXCEPT !.id = draws'] \in Id
    BY <2>1 DEF Nobody
  <2>3. proc' \in [Process -> Proc]
    BY <1>3, <1>goes, <2>2 DEF MissMeta, Loading
  <2>4. QED
    BY <1>3, <2>1, <2>3 DEF MissMeta
<1>4. ASSUME NEW p \in Process, CreateMeta(p) PROVE TypeOK'
  <2>1. proc' \in [Process -> Proc]
    BY <1>4, <1>goes, <1>self DEF CreateMeta, Loading
  <2>2. QED
    BY <1>4, <2>1 DEF CreateMeta
<1>5. ASSUME NEW p \in Process, WriteMeta(p) PROVE TypeOK'
  <2>1. proc' \in [Process -> Proc]
    BY <1>5, <1>goes, <1>self DEF WriteMeta, Loading
  <2>2. QED
    BY <1>5, <2>1, <1>self DEF WriteMeta
<1>6. ASSUME NEW p \in Process, ReadCert(p) PROVE TypeOK'
  <2>1. [proc[p].self EXCEPT !.cert = cert] \in Id
    BY <1>self
  <2>2. proc' \in [Process -> Proc]
    BY <1>6, <1>goes, <2>1 DEF ReadCert, Loading
  <2>3. QED
    BY <1>6, <2>2 DEF ReadCert
<1>7. ASSUME NEW p \in Process, ReadKey(p) PROVE TypeOK'
  <2>1. CASE proc[p].self.cert # None /\ key # None
    <3>1. [proc[p].self EXCEPT !.key = key] \in Id
      BY <1>self
    <3>2. ComesUp(p, [proc[p].self EXCEPT !.key = key]) /\ UNCHANGED <<meta, cert, key, draws>>
      BY <1>7, <2>1 DEF ReadKey
    <3>3. QED
      BY <1>up, <3>1, <3>2
  <2>2. CASE ~ (proc[p].self.cert # None /\ key # None)
    <3>1. Draw /\ UNCHANGED <<meta, cert, key, used>>
      BY <1>7, <2>2 DEF ReadKey
    <3>2. [proc[p].self EXCEPT !.cert = draws', !.key = draws'] \in Id
      BY <1>self, <1>draw, <3>1
    <3>3. proc' \in [Process -> Proc]
      BY <1>7, <2>2, <1>goes, <3>2 DEF ReadKey, Loading
    <3>4. QED
      BY <1>draw, <3>1, <3>3
  <2>3. QED
    BY <2>1, <2>2
<1>8. ASSUME NEW p \in Process, SetCert(p) PROVE TypeOK'
  <2>1. proc' \in [Process -> Proc]
    BY <1>8, <1>goes, <1>self DEF SetCert, Loading
  <2>2. QED
    BY <1>8, <2>1, <1>self DEF SetCert
<1>9. ASSUME NEW p \in Process, SetKey(p) PROVE TypeOK'
  <2>1. proc' \in [Process -> Proc] /\ used' \subseteq Id
    BY <1>9, <1>up, <1>self DEF SetKey
  <2>2. QED
    BY <1>9, <2>1, <1>self DEF SetKey
<1>10. ASSUME NEW u \in UI, SpawnDaemon(u) PROVE TypeOK'
  <2>1. u \in Process /\ Daemon \subseteq Process
    BY DEF Process
  <2>2. CASE Goes(u, "ready", proc[u].self)
    BY <1>10, <1>goes, <1>self, <2>1, <2>2 DEF SpawnDaemon, Loaded
  <2>3. CASE \E d \in Daemon : proc' = [proc EXCEPT ![u].at = "ready", ![d] = Started]
    BY <1>10, <1>off, <2>1, <2>3 DEF SpawnDaemon, Loaded, Proc
  <2>4. QED
    BY <1>10, <2>2, <2>3 DEF SpawnDaemon
<1>11. ASSUME NEW d \in Daemon, Bind(d) PROVE TypeOK'
  <2>1. d \in Process
    BY DEF Process
  <2>2. proc' \in [Process -> Proc]
    BY <1>11, <1>off, <1>goes, <1>self, <2>1 DEF Bind, Loaded
  <2>3. QED
    BY <1>11, <2>2 DEF Bind
<1>12. ASSUME NEW p \in Process, Stop(p) PROVE TypeOK'
  BY <1>12, <1>off DEF Stop
<1>13. CASE UNCHANGED vars
  BY <1>13 DEF vars
<1>14. QED
  BY <1>1, <1>2, <1>3, <1>4, <1>5, <1>6, <1>7, <1>8, <1>9, <1>10, <1>11, <1>12, <1>13
     DEF Next

-----------------------------------------------------------------------------
(* A step of p that leaves everybody else alone. *)
LEMMA Alone ==
    ASSUME TypeOK, NEW p \in Process, NEW r, proc' = [proc EXCEPT ![p] = r]
    PROVE  /\ proc'[p] = r
           /\ \A q \in Process : q # p => proc'[q] = proc[q]
BY DEF TypeOK

(* The first run: p is the only process, or starts while there is none. *)
LEMMA FirstRunStep ==
    ASSUME IInv, TypeOK', used = {}, used' = {}, key' = key,
           NEW p \in Process, NEW r, proc' = [proc EXCEPT ![p] = r],
           \A q \in Process : q = p \/ At(q, "off"),
           FirstRun(p)'
    PROVE  IInv'
<1>1. proc'[p] = r /\ \A q \in Process : q # p => proc'[q] = proc[q]
  BY Alone DEF IInv
<1>2. \A q \in Process : q # p => proc'[q].at = "off"
  BY <1>1 DEF At
<1>3. \A q \in Process : FirstRun(q)'
  BY <1>2 DEF FirstRun
<1>4. QED
  BY <1>2, <1>3 DEF IInv, Begun, At

(* A later run: nothing that is stored changes. *)
LEMMA LaterRunStep ==
    ASSUME IInv, TypeOK', used # {}, UNCHANGED <<meta, cert, key, used>>,
           NEW p \in Process, NEW r, proc' = [proc EXCEPT ![p] = r],
           LaterRun(p)'
    PROVE  IInv'
<1>1. proc'[p] = r /\ \A q \in Process : q # p => proc'[q] = proc[q]
  BY Alone DEF IInv
<1>2. \A q \in Process : LaterRun(q)'
  BY <1>1 DEF IInv, Settled, LaterRun, Stored
<1>3. QED
  BY <1>2 DEF IInv, Settled, Stored

(* The identity of the process that comes up last in a step. *)
LEMMA OthersOff ==
    ASSUME IInv, used = {}, NEW p \in Process, ~ At(p, "off")
    PROVE  \A q \in Process : q = p \/ At(q, "off")
BY DEF IInv, Begun

LEMMA NextIInv == ASSUME Patient, IInv, [Next]_vars PROVE IInv'
<1> USE DEF At, Loading, Loaded
<1>type. TypeOK'
  BY TypeStep DEF IInv
<1>typed. \A p \in Process : proc[p].self \in Id
  BY DEF IInv, TypeOK, Proc
<1>1. ASSUME NEW p \in Process, Launch(p) PROVE IInv'
  <2>1. proc' = [proc EXCEPT ![p] = Started] /\ UNCHANGED <<meta, cert, key, used>>
    BY <1>1 DEF Launch
  <2>2. proc'[p] = Started
    BY <2>1, Alone DEF IInv
  <2>3. CASE used = {}
    <3>1. FirstRun(p)'
      BY <2>2 DEF FirstRun, Started
    <3>2. \A q \in Process : q = p \/ At(q, "off")
      BY <1>1, <2>3 DEF Launch
    <3>3. QED
      BY <1>type, <2>1, <2>3, <3>1, <3>2, FirstRunStep
  <2>4. CASE used # {}
    <3>1. LaterRun(p)'
      BY <2>2 DEF LaterRun, Started
    <3>2. QED
      BY <1>type, <2>1, <2>4, <3>1, LaterRunStep
  <2>5. QED
    BY <2>3, <2>4
<1>2. ASSUME NEW p \in Process, Stop(p) PROVE IInv'
  <2>1. proc' = [proc EXCEPT ![p] = Off] /\ UNCHANGED <<meta, cert, key, used>>
    BY <1>2 DEF Stop
  <2>2. proc'[p] = Off
    BY <2>1, Alone DEF IInv
  <2>3. CASE used = {}
    <3>1. FirstRun(p)'
      BY <2>2 DEF FirstRun, Off
    <3>2. QED
      BY <1>2, <1>type, <2>1, <2>3, <3>1, FirstRunStep, OthersOff DEF Stop
  <2>4. CASE used # {}
    <3>1. LaterRun(p)'
      BY <2>2 DEF LaterRun, Off
    <3>2. QED
      BY <1>type, <2>1, <2>4, <3>1, LaterRunStep
  <2>5. QED
    BY <2>3, <2>4
<1>3. ASSUME NEW p \in Process, LoadMeta(p) PROVE IInv'
  <2> DEFINE r == IF meta.id = None
                  THEN Off ELSE [at |-> "cert", self |-> [Nobody EXCEPT !.id = meta.id]]
  <2>1. proc' = [proc EXCEPT ![p] = r] /\ UNCHANGED <<meta, cert, key, used>>
    BY <1>3 DEF LoadMeta, Goes
  <2>2. proc'[p] = r
    <3> HIDE DEF r
    <3> QED BY <2>1, Alone DEF IInv
  <2>3. CASE used = {}
    <3>1. FirstRun(p)'
      BY <1>3, <2>1, <2>2 DEF LoadMeta, FirstRun, Off, Nobody
    <3>2. QED
      BY <1>3, <1>type, <2>1, <2>3, <3>1, FirstRunStep, OthersOff DEF LoadMeta
  <2>4. CASE used # {}
    <3>1. LaterRun(p)'
      BY <2>1, <2>2 DEF LaterRun, Off, Nobody
    <3>2. QED
      BY <1>type, <2>1, <2>4, <3>1, LaterRunStep
  <2>5. QED
    BY <2>3, <2>4
<1>4. ASSUME NEW p \in Process, MissMeta(p) PROVE IInv'
  <2>1. used = {}
    BY <1>4 DEF IInv, Settled, MissMeta
  <2> DEFINE r == [at |-> "create", self |-> [Nobody EXCEPT !.id = draws']]
  <2>2. proc' = [proc EXCEPT ![p] = r] /\ UNCHANGED <<meta, cert, key, used>>
    BY <1>4 DEF MissMeta, Goes
  <2>3. proc'[p] = r
    BY <2>2, Alone DEF IInv
  <2>4. draws' # None
    BY <1>4, IdentityAssumption DEF MissMeta, Draw, IInv, TypeOK, Number, None
  <2>5. FirstRun(p)'
    BY <2>3, <2>4 DEF FirstRun, Nobody
  <2>6. QED
    BY <1>4, <1>type, <2>1, <2>2, <2>5, FirstRunStep, OthersOff DEF MissMeta
<1>5. ASSUME NEW p \in Process, CreateMeta(p) PROVE IInv'
  <2>1. used = {}
    BY <1>5 DEF IInv, Settled, LaterRun, CreateMeta
  <2> DEFINE r == [at |-> "write", self |-> proc[p].self]
  <2>2. proc' = [proc EXCEPT ![p] = r] /\ UNCHANGED <<cert, key, used>>
    BY <1>5 DEF CreateMeta, Goes
  <2>3. proc'[p] = r
    BY <2>2, Alone DEF IInv
  <2>4. FirstRun(p)'
    BY <1>5, <2>1, <2>3 DEF FirstRun, CreateMeta, IInv, Begun
  <2>5. QED
    BY <1>5, <1>type, <2>1, <2>2, <2>4, FirstRunStep, OthersOff DEF CreateMeta
<1>6. ASSUME NEW p \in Process, WriteMeta(p) PROVE IInv'
  <2>1. used = {}
    BY <1>6 DEF IInv, Settled, LaterRun, WriteMeta
  <2> DEFINE r == [at |-> "cert", self |-> proc[p].self]
  <2>2. proc' = [proc EXCEPT ![p] = r] /\ UNCHANGED <<cert, key, used>>
    BY <1>6 DEF WriteMeta, Goes
  <2>3. proc'[p] = r
    BY <2>2, Alone DEF IInv
  <2>4. FirstRun(p)'
    BY <1>6, <2>1, <2>3 DEF FirstRun, WriteMeta, IInv, Begun
  <2>5. QED
    BY <1>6, <1>type, <2>1, <2>2, <2>4, FirstRunStep, OthersOff DEF WriteMeta
<1>7. ASSUME NEW p \in Process, ReadCert(p) PROVE IInv'
  <2> DEFINE r == [at |-> "key", self |-> [proc[p].self EXCEPT !.cert = cert]]
  <2>1. proc' = [proc EXCEPT ![p] = r] /\ UNCHANGED <<meta, cert, key, used>>
    BY <1>7 DEF ReadCert, Goes
  <2>2. proc'[p] = r
    BY <2>1, Alone DEF IInv
  <2>3. r.self.id = proc[p].self.id /\ r.self.cert = cert
    BY <1>typed DEF Id
  <2>4. CASE used = {}
    <3>1. FirstRun(p)'
      BY <1>7, <2>1, <2>2, <2>3, <2>4 DEF FirstRun, ReadCert, IInv, Begun
    <3>2. QED
      BY <1>7, <1>type, <2>1, <2>4, <3>1, FirstRunStep, OthersOff DEF ReadCert
  <2>5. CASE used # {}
    <3>1. LaterRun(p)'
      BY <1>7, <2>1, <2>2, <2>3, <2>5 DEF LaterRun, ReadCert, IInv, Settled
    <3>2. QED
      BY <1>type, <2>1, <2>5, <3>1, LaterRunStep
  <2>6. QED
    BY <2>4, <2>5
<1>8. ASSUME NEW p \in Process, ReadKey(p) PROVE IInv'
  <2>1. CASE used = {}
    <3>1. key = None
      BY <2>1 DEF IInv, Begun
    <3> DEFINE r == [at |-> "setCert",
                     self |-> [proc[p].self EXCEPT !.cert = draws', !.key = draws']]
    <3>2. Draw /\ proc' = [proc EXCEPT ![p] = r] /\ UNCHANGED <<meta, cert, key, used>>
      BY <1>8, <3>1 DEF ReadKey, Goes
    <3>3. proc'[p] = r
      BY <3>2, Alone DEF IInv
    <3>4. draws' # None
      BY <3>2, IdentityAssumption DEF Draw, IInv, TypeOK, Number, None
    <3>5. r.self.id = proc[p].self.id /\ r.self.cert = draws' /\ r.self.key = draws'
      BY <1>typed DEF Id
    <3>6. FirstRun(p)'
      BY <1>8, <2>1, <3>2, <3>3, <3>4, <3>5 DEF FirstRun, ReadKey, IInv, Begun
    <3>7. QED
      BY <1>8, <1>type, <2>1, <3>2, <3>6, FirstRunStep, OthersOff DEF ReadKey
  <2>2. CASE used # {}
    <3>1. LaterRun(p) /\ cert # None /\ key # None
      BY <2>2 DEF IInv, Settled
    <3> DEFINE self == [proc[p].self EXCEPT !.key = key]
    <3>2. proc[p].self.cert = cert /\ proc[p].self.id = meta.id
      BY <1>8, <3>1 DEF ReadKey, LaterRun
    <3>3. self = Stored
      BY <1>typed, <3>2 DEF Stored, Id
    <3>4. ComesUp(p, self) /\ UNCHANGED <<meta, cert, key>>
      BY <1>8, <3>1, <3>2 DEF ReadKey
    <3>5. used' = used
      BY <2>2, <3>3, <3>4 DEF ComesUp, IInv, Settled
    <3> DEFINE r == [at |-> IF p \in UI THEN "spawn" ELSE "bind", self |-> self]
    <3>6. proc' = [proc EXCEPT ![p] = r]
      BY <3>4 DEF ComesUp, Goes
    <3>7. proc'[p] = r
      BY <3>6, Alone DEF IInv
    <3>8. LaterRun(p)'
      BY <3>3, <3>4, <3>7 DEF LaterRun, Stored
    <3>9. QED
      BY <1>type, <2>2, <3>4, <3>5, <3>6, <3>8, LaterRunStep
  <2>3. QED
    BY <2>1, <2>2
<1>9. ASSUME NEW p \in Process, SetCert(p) PROVE IInv'
  <2>1. used = {}
    BY <1>9 DEF IInv, Settled, LaterRun, SetCert
  <2> DEFINE r == [at |-> "setKey", self |-> proc[p].self]
  <2>2. proc' = [proc EXCEPT ![p] = r] /\ UNCHANGED <<meta, key, used>>
    BY <1>9 DEF SetCert, Goes
  <2>3. proc'[p] = r
    BY <2>2, Alone DEF IInv
  <2>4. FirstRun(p)'
    BY <1>9, <2>1, <2>2, <2>3 DEF FirstRun, SetCert, IInv, Begun
  <2>5. QED
    BY <1>9, <1>type, <2>1, <2>2, <2>4, FirstRunStep, OthersOff DEF SetCert
<1>10. ASSUME NEW p \in Process, SetKey(p) PROVE IInv'
  <2>1. used = {}
    BY <1>10 DEF IInv, Settled, LaterRun, SetKey
  <2> DEFINE r == [at |-> IF p \in UI THEN "spawn" ELSE "bind", self |-> proc[p].self]
  <2>2. /\ proc' = [proc EXCEPT ![p] = r]
        /\ used' = {proc[p].self}
        /\ key' = proc[p].self.key
        /\ UNCHANGED <<meta, cert>>
    BY <1>10, <2>1 DEF SetKey, ComesUp, Goes
  <2>3. FirstRun(p)
    BY <2>1 DEF IInv, Begun
  <2>4. /\ meta.exists /\ meta.id = proc[p].self.id /\ meta.id # None
        /\ cert = proc[p].self.cert /\ cert # None /\ key' = cert
    BY <1>10, <2>2, <2>3 DEF SetKey, FirstRun
  <2>5. proc[p].self = Stored'
    BY <1>typed, <2>2, <2>4 DEF Stored, Id
  <2>6. proc'[p] = r /\ \A q \in Process : q # p => proc'[q] = proc[q]
    BY <2>2, Alone DEF IInv
  <2>7. \A q \in Process : q # p => proc'[q].at = "off"
    BY <1>10, <2>1, <2>6, OthersOff DEF SetKey
  <2>8. LaterRun(p)'
    BY <2>5, <2>6 DEF LaterRun
  <2>9. \A q \in Process : LaterRun(q)'
    BY <2>7, <2>8 DEF LaterRun
  <2>10. Settled'
    BY <2>2, <2>4, <2>5, <2>9 DEF Settled
  <2>11. QED
    BY <1>type, <2>2, <2>10 DEF IInv
<1>11. ASSUME NEW u \in UI, SpawnDaemon(u) PROVE IInv'
  <2>1. u \in Process /\ Daemon \subseteq Process
    BY DEF Process
  <2>2. used # {}
    BY <1>11, <2>1 DEF IInv, Begun, FirstRun, SpawnDaemon
  <2>3. UNCHANGED <<meta, cert, key, used>> /\ LaterRun(u)
    BY <1>11, <2>1, <2>2 DEF SpawnDaemon, IInv, Settled
  <2>4. CASE Goes(u, "ready", proc[u].self)
    <3> DEFINE r == [at |-> "ready", self |-> proc[u].self]
    <3>1. proc' = [proc EXCEPT ![u] = r]
      BY <2>4 DEF Goes
    <3>2. proc'[u] = r
      BY <2>1, <3>1, Alone DEF IInv
    <3>3. LaterRun(u)'
      BY <1>11, <2>3, <3>2 DEF LaterRun, Stored, SpawnDaemon
    <3>4. QED
      BY <1>type, <2>1, <2>2, <2>3, <3>1, <3>3, LaterRunStep
  <2>5. ASSUME NEW d \in Daemon, At(d, "off"),
               proc' = [proc EXCEPT ![u].at = "ready", ![d] = Started]
        PROVE  IInv'
    <3>1. \A q \in Process :
             LaterRun(q) /\ (proc'[q] = proc[q] \/ proc'[q] = Started
                              \/ (q = u /\ proc'[q] = [proc[u] EXCEPT !.at = "ready"]))
      BY <2>1, <2>2, <2>5 DEF IInv, TypeOK, Settled
    <3>2. proc[u].at = "spawn" /\ [proc[u] EXCEPT !.at = "ready"].at = "ready"
             /\ [proc[u] EXCEPT !.at = "ready"].self = proc[u].self
      BY <1>11, <2>1 DEF SpawnDaemon, IInv, TypeOK, Proc
    <3>3. ASSUME NEW q \in Process PROVE LaterRun(q)'
      <4>1. CASE proc'[q] = proc[q]
        BY <2>3, <3>1, <4>1 DEF LaterRun, Stored
      <4>2. CASE proc'[q] = Started
        BY <4>2 DEF LaterRun, Started
      <4>3. CASE q = u /\ proc'[q] = [proc[u] EXCEPT !.at = "ready"]
        BY <2>3, <3>2, <4>3 DEF LaterRun, Stored
      <4>4. QED
        BY <3>1, <4>1, <4>2, <4>3
    <3>4. QED
      BY <1>type, <2>2, <2>3, <3>3 DEF IInv, Settled, Stored
  <2>6. QED
    BY <1>11, <2>4, <2>5 DEF SpawnDaemon
<1>12. ASSUME NEW d \in Daemon, Bind(d) PROVE IInv'
  <2>1. d \in Process
    BY DEF Process
  <2>2. used # {}
    BY <1>12, <2>1 DEF IInv, Begun, FirstRun, Bind
  <2>3. UNCHANGED <<meta, cert, key, used>> /\ LaterRun(d)
    BY <1>12, <2>1, <2>2 DEF Bind, IInv, Settled
  <2> DEFINE r == IF \E e \in Daemon : At(e, "ready")
                  THEN Off ELSE [at |-> "ready", self |-> proc[d].self]
  <2>4. proc' = [proc EXCEPT ![d] = r]
    BY <1>12 DEF Bind, Goes
  <2>5. proc'[d] = r
    BY <2>1, <2>4, Alone DEF IInv
  <2>6. LaterRun(d)'
    BY <1>12, <2>3, <2>5 DEF LaterRun, Stored, Off, Bind
  <2>7. QED
    BY <1>type, <2>1, <2>2, <2>3, <2>4, <2>6, LaterRunStep
<1>13. CASE UNCHANGED vars
  BY <1>13, <1>type DEF vars, IInv, Begun, Settled, FirstRun, LaterRun, Stored
<1>14. QED
  BY <1>1, <1>2, <1>3, <1>4, <1>5, <1>6, <1>7, <1>8, <1>9, <1>10, <1>11, <1>12, <1>13
     DEF Next

-----------------------------------------------------------------------------
LEMMA InvariantHolds == ASSUME Patient PROVE Spec => []IInv
<1>1. Init => IInv
  BY InitIInv
<1>2. IInv /\ [Next]_vars => IInv'
  BY NextIInv
<1>3. QED
  BY <1>1, <1>2, PTL DEF Spec

LEMMA InvariantsFollow ==
    ASSUME IInv PROVE IdentityIsStable /\ CertificateFitsKey /\ IdentityIsStored
BY DEF IInv, Settled, Stored, IdentityIsStable, CertificateFitsKey, IdentityIsStored

(***************************************************************************)
(* Every variable keeps its type, whether users are patient or not.        *)
(***************************************************************************)
THEOREM TypeCorrect == Spec => []TypeOK
<1>1. Init => TypeOK
  BY InitIInv DEF IInv
<1>2. TypeOK /\ [Next]_vars => TypeOK'
  BY TypeStep
<1>3. QED
  BY <1>1, <1>2, PTL DEF Spec

(***************************************************************************)
(* Where users let the first launch end, all processes ever, through any   *)
(* crash, come up with the same identity.                                  *)
(***************************************************************************)
THEOREM IdentityStable == ASSUME Patient PROVE Spec => []IdentityIsStable
<1>1. IInv => IdentityIsStable
  BY InvariantsFollow
<1>2. QED
  BY <1>1, InvariantHolds, PTL

(***************************************************************************)
(* There, no process comes up with a certificate and a key that do not     *)
(* belong together.                                                        *)
(***************************************************************************)
THEOREM CertificateFits == ASSUME Patient PROVE Spec => []CertificateFitsKey
<1>1. IInv => CertificateFitsKey
  BY InvariantsFollow
<1>2. QED
  BY <1>1, InvariantHolds, PTL

(***************************************************************************)
(* There, what a process came up with is what is stored, and remains so.   *)
(***************************************************************************)
THEOREM IdentityKept == ASSUME Patient PROVE Spec => []IdentityIsStored
<1>1. IInv => IdentityIsStored
  BY InvariantsFollow
<1>2. QED
  BY <1>1, InvariantHolds, PTL

=============================================================================
