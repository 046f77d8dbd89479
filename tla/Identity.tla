------------------------------ MODULE Identity ------------------------------
(***************************************************************************)
(* The first launch of Mouse Share on a computer, and every later one.     *)
(*                                                                         *)
(* The desktop application and the daemon are separate processes that call *)
(* the same two functions when they start (crates/ms-daemon/src/           *)
(* identity.rs): load_or_create_device_meta for the device id, which is in *)
(* device.json, and load_or_generate for the certificate and its key,      *)
(* which are two entries of the operating system's secret store.  Each     *)
(* looks whether there is something to load, and creates it if not; they   *)
(* take no lock, and a process may end between any two steps.              *)
(*                                                                         *)
(* A new device id and a new key pair are numbers not drawn before; a      *)
(* certificate has the number of the key it was made with.                 *)
(***************************************************************************)
EXTENDS Naturals

CONSTANTS
    UI,       \* processes of the desktop application
    Daemon,   \* processes of the daemon
    Patient,  \* whether users let the very first launch end before the next
    MaxDraws  \* bound: new device ids and new key pairs

Process == UI \cup Daemon

ASSUME IdentityAssumption ==
    /\ UI \cap Daemon = {}
    /\ Patient \in BOOLEAN
    /\ MaxDraws \in Nat

VARIABLES
    meta,   \* device.json: whether it exists, and the device id in it
    cert,   \* the entry device-cert-pem
    key,    \* the entry device-key-pem
    proc,   \* where each process is, and what it has read or drawn
    draws,  \* the numbers drawn
    \* History variable: no guard but that of patient users depends on it.
    used    \* the identities that processes have come up with

vars == <<meta, cert, key, proc, draws, used>>

(* No entry, and no content: write() truncates the file before it fills it. *)
None == 0

Number == 0 .. MaxDraws

Meta == [exists : BOOLEAN, id : Number]

(* An identity: the device id, the certificate and the private key. *)
Id == [id : Number, cert : Number, key : Number]

Stored == [id |-> meta.id, cert |-> cert, key |-> key]

Loading == {"meta", "create", "write", "cert", "key", "setCert", "setKey"}

(* A loaded UI has a daemon to start, and a loaded daemon a port to bind. *)
Loaded == {"spawn", "bind", "ready"}

Proc == [at : {"off"} \cup Loading \cup Loaded, self : Id]

Nobody == [id |-> None, cert |-> None, key |-> None]

Off == [at |-> "off", self |-> Nobody]

Started == [at |-> "meta", self |-> Nobody]

Init ==
    /\ meta = [exists |-> FALSE, id |-> None]
    /\ cert = None
    /\ key = None
    /\ proc = [p \in Process |-> Off]
    /\ draws = 0
    /\ used = {}

-----------------------------------------------------------------------------
At(p, step) == proc[p].at = step

(* p goes on to a step, knowing an identity as far as it has one. *)
Goes(p, step, self) == proc' = [proc EXCEPT ![p] = [at |-> step, self |-> self]]

Draw == draws < MaxDraws /\ draws' = draws + 1

(* p has its identity: build_app_state returns, or main goes on. *)
ComesUp(p, self) ==
    /\ Goes(p, IF p \in UI THEN "spawn" ELSE "bind", self)
    /\ used' = used \cup {self}

(***************************************************************************)
(* A user starts the application, or the daemon from a shell.  Patient     *)
(* users wait until one process has come up, or all have ended.            *)
(***************************************************************************)
Launch(p) ==
    /\ At(p, "off")
    /\ Patient => used # {} \/ \A q \in Process : At(q, "off")
    /\ proc' = [proc EXCEPT ![p] = Started]
    /\ UNCHANGED <<meta, cert, key, draws, used>>

(* load_or_create_device_meta.  A file that does not parse is an error. *)
LoadMeta(p) ==
    /\ At(p, "meta") /\ meta.exists
    /\ IF meta.id = None
       THEN proc' = [proc EXCEPT ![p] = Off]
       ELSE Goes(p, "cert", [Nobody EXCEPT !.id = meta.id])
    /\ UNCHANGED <<meta, cert, key, draws, used>>

MissMeta(p) ==
    /\ At(p, "meta") /\ ~ meta.exists
    /\ Draw
    /\ Goes(p, "create", [Nobody EXCEPT !.id = draws'])
    /\ UNCHANGED <<meta, cert, key, used>>

CreateMeta(p) ==
    /\ At(p, "create")
    /\ meta' = [exists |-> TRUE, id |-> None]
    /\ Goes(p, "write", proc[p].self)
    /\ UNCHANGED <<cert, key, draws, used>>

WriteMeta(p) ==
    /\ At(p, "write")
    /\ meta' = [exists |-> TRUE, id |-> proc[p].self.id]
    /\ Goes(p, "cert", proc[p].self)
    /\ UNCHANGED <<cert, key, draws, used>>

(* load_or_generate reads both entries before it decides. *)
ReadCert(p) ==
    /\ At(p, "cert")
    /\ Goes(p, "key", [proc[p].self EXCEPT !.cert = cert])
    /\ UNCHANGED <<meta, cert, key, draws, used>>

(* Mutant: only what is missing is generated. *)
ReadKeyFillsIn(p) ==
    LET self == proc[p].self
    IN  /\ At(p, "key")
        /\ IF self.cert # None /\ key # None
           THEN ComesUp(p, [self EXCEPT !.key = key]) /\ UNCHANGED draws
           ELSE /\ Draw
                /\ Goes(p, "setCert",
                        [self EXCEPT !.cert = IF @ = None THEN draws' ELSE @, !.key = draws'])
                /\ UNCHANGED used
        /\ UNCHANGED <<meta, cert, key>>

(* A stored pair is taken as it is: from_pem does not compare the two. *)
ReadKey(p) ==
    LET self == proc[p].self
    IN  /\ At(p, "key")
        /\ IF self.cert # None /\ key # None
           THEN ComesUp(p, [self EXCEPT !.key = key]) /\ UNCHANGED draws
           ELSE /\ Draw
                /\ Goes(p, "setCert", [self EXCEPT !.cert = draws', !.key = draws'])
                /\ UNCHANGED used
        /\ UNCHANGED <<meta, cert, key>>

(* Mutant: the key is not stored. *)
SetCertOnly(p) ==
    /\ At(p, "setCert")
    /\ cert' = proc[p].self.cert
    /\ ComesUp(p, proc[p].self)
    /\ UNCHANGED <<meta, key, draws>>

SetCert(p) ==
    /\ At(p, "setCert")
    /\ cert' = proc[p].self.cert
    /\ Goes(p, "setKey", proc[p].self)
    /\ UNCHANGED <<meta, key, draws, used>>

SetKey(p) ==
    /\ At(p, "setKey")
    /\ key' = proc[p].self.key
    /\ ComesUp(p, proc[p].self)
    /\ UNCHANGED <<meta, cert, draws>>

-----------------------------------------------------------------------------
(* Mutant: the daemon is started before build_app_state. *)
SpawnDaemonFirst(u) ==
    /\ \/ At(u, "meta")
          /\ \E d \in Daemon : At(d, "off") /\ proc' = [proc EXCEPT ![d] = Started]
       \/ At(u, "spawn") /\ Goes(u, "ready", proc[u].self)
    /\ UNCHANGED <<meta, cert, key, draws, used>>

(* The last of setup; there may be no daemon next to the executable. *)
SpawnDaemon(u) ==
    /\ At(u, "spawn")
    /\ \/ \E d \in Daemon :
             /\ At(d, "off")
             /\ proc' = [proc EXCEPT ![u].at = "ready", ![d] = Started]
       \/ Goes(u, "ready", proc[u].self)
    /\ UNCHANGED <<meta, cert, key, draws, used>>

(* Mutant: a daemon that finds the port taken waits for it. *)
BindOrWait(d) ==
    /\ At(d, "bind")
    /\ Goes(d, IF \E e \in Daemon : At(e, "ready") THEN "wait" ELSE "ready", proc[d].self)
    /\ UNCHANGED <<meta, cert, key, draws, used>>

(* A daemon that finds the port taken ends. *)
Bind(d) ==
    /\ At(d, "bind")
    /\ IF \E e \in Daemon : At(e, "ready")
       THEN proc' = [proc EXCEPT ![d] = Off]
       ELSE Goes(d, "ready", proc[d].self)
    /\ UNCHANGED <<meta, cert, key, draws, used>>

(* The process ends: its user quits it, it is killed, the computer stops. *)
Stop(p) ==
    /\ ~ At(p, "off")
    /\ proc' = [proc EXCEPT ![p] = Off]
    /\ UNCHANGED <<meta, cert, key, draws, used>>

Next ==
    \/ \E p \in Process :
          \/ Launch(p)
          \/ LoadMeta(p) \/ MissMeta(p) \/ CreateMeta(p) \/ WriteMeta(p)
          \/ ReadCert(p) \/ ReadKey(p) \/ SetCert(p) \/ SetKey(p)
          \/ Stop(p)
    \/ \E u \in UI : SpawnDaemon(u)
    \/ \E d \in Daemon : Bind(d)

Spec == Init /\ [][Next]_vars

-----------------------------------------------------------------------------
(* Properties *)

TypeOK ==
    /\ meta \in Meta
    /\ cert \in Number
    /\ key \in Number
    /\ proc \in [Process -> Proc]
    /\ draws \in Number
    /\ used \subseteq Id

(***************************************************************************)
(* All processes, in whatever launch and after whatever crash, come up     *)
(* with one device id, certificate and key (ms-security/src/identity.rs:   *)
(* 32-37): peers have paired with them.                                    *)
(***************************************************************************)
IdentityIsStable == \A i, j \in used : i = j

(* No process comes up with the certificate of another key than it holds. *)
CertificateFitsKey == \A i \in used : i.cert = i.key

(* What a process came up with is what the next launch will find. *)
IdentityIsStored == \A i \in used : i = Stored

=============================================================================
