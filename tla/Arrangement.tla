----------------------------- MODULE Arrangement -----------------------------
(***************************************************************************)
(* What the desktop UI keeps on disk and the daemon reads of it: the trust *)
(* store, the configuration with the screen layout, and the two slots of   *)
(* pairings that await the user (app/src-tauri/src/commands.rs, pairing.rs;*)
(* ms-daemon/src/identity.rs, main.rs).                                    *)
(*                                                                         *)
(* Each device runs two processes.  The UI's synchronous commands run one  *)
(* at a time on its main thread, its dials and its pairing acceptor in     *)
(* tasks of their own.  The trust store is written in place, so that the   *)
(* daemon may read it, and a crash may leave it, torn; the configuration   *)
(* is replaced in one step.  The daemon reads the configuration when it    *)
(* starts and the trust store again every five seconds.                    *)
(*                                                                         *)
(* Each device owns a single certificate, so that a device stands for its  *)
(* fingerprint.  Codes are compared by the user, outside of the model.     *)
(***************************************************************************)
EXTENDS ScreenLayout, FiniteSets

CONSTANTS
    Users,        \* devices whose UI and daemon are followed; others only pair
    NoDevice,     \* no pairing in the slot
    MaxPairings,  \* bound: pairings dialed
    MaxCrashes    \* bound: times a UI process is killed

ASSUME ArrangementAssumption ==
    /\ Users \subseteq Device
    /\ NoDevice \notin Device
    /\ MaxPairings \in Nat
    /\ MaxCrashes \in Nat

VARIABLES
    pending,    \* AppState.pending_pairing, of every device
    incoming,   \* AppState.incoming_pairing
    shaking,    \* <<d, p, slot>>: d is about to store p's handshake in slot
    command,    \* what the UI's main thread still has to save
    trustFile,  \* the devices of trust_store.json, while it can be parsed
    torn,       \* devices whose trust_store.json cannot be parsed
    layoutFile, \* the layout of config.toml
    daemon,     \* what the daemon holds in memory, once it runs
    pairings,   \* pairings dialed so far
    crashes,    \* UI processes killed so far
    \* A history variable: no guard depends on it.
    revoked     \* revoked[d]: the devices the user of d has removed, and not paired again

ui == <<pending, incoming, shaking, command, pairings, crashes>>

vars == <<ui, trustFile, torn, layoutFile, daemon, revoked>>

Slot == {"pending", "incoming"}

NoCommand == [save |-> "nothing"]

(***************************************************************************)
(* "trust": the trust store is torn while store is being written to it;    *)
(* peer is the device paired, or NoDevice when one is removed.             *)
(* "layout": the trust store is saved, the nodes of a pairing are next.    *)
(***************************************************************************)
SavingTrust(store, peer) == [save |-> "trust", store |-> store, peer |-> peer]

SavingLayout(peer) == [save |-> "layout", peer |-> peer]

Command ==
    {NoCommand}
        \cup {SavingTrust(store, peer) : store \in SUBSET Device, peer \in Device \cup {NoDevice}}
        \cup {SavingLayout(peer) : peer \in Device}

Down == [up |-> FALSE, layout |-> EmptyLayout, trusted |-> {}]

Init ==
    /\ pending = [d \in Device |-> NoDevice]
    /\ incoming = [d \in Device |-> NoDevice]
    /\ shaking = {}
    /\ command = [d \in Device |-> NoCommand]
    /\ trustFile = [d \in Device |-> {}]
    /\ torn = {}
    /\ layoutFile = [d \in Device |-> EmptyLayout]
    /\ daemon = [d \in Device |-> Down]
    /\ pairings = 0
    /\ crashes = 0
    /\ revoked = [d \in Device |-> {}]

-----------------------------------------------------------------------------
(* Pairing *)

(* d dials p, and both ends complete the handshake. *)
StartPairing(d, p) ==
    /\ d # p
    /\ pairings < MaxPairings
    /\ pairings' = pairings + 1
    /\ shaking' = shaking \cup {<<d, p, "pending">>, <<p, d, "incoming">>}
    /\ UNCHANGED <<pending, incoming, command, crashes>>
    /\ UNCHANGED <<trustFile, torn, layoutFile, daemon, revoked>>

(* The task of the dial, or of the acceptor, overwrites its slot. *)
StorePairing(d, p, slot) ==
    /\ <<d, p, slot>> \in shaking
    /\ shaking' = shaking \ {<<d, p, slot>>}
    /\ IF slot = "pending"
       THEN pending' = [pending EXCEPT ![d] = p] /\ UNCHANGED incoming
       ELSE incoming' = [incoming EXCEPT ![d] = p] /\ UNCHANGED pending
    /\ UNCHANGED <<command, pairings, crashes>>
    /\ UNCHANGED <<trustFile, torn, layoutFile, daemon, revoked>>

(* Mutant: the nodes are saved before the trust store. *)
CommitLayoutFirst(d, p) ==
    /\ command[d] = NoCommand
    /\ layoutFile' = [layoutFile EXCEPT ![d] = AddDevice(AddDevice(@, d), p)]
    /\ command' = [command EXCEPT ![d] = SavingTrust(trustFile[d] \cup {p}, NoDevice)]
    /\ UNCHANGED <<shaking, pairings, crashes, trustFile, torn, daemon, revoked>>

(***************************************************************************)
(* commit_pairing of p, up to the moment the trust store is truncated.  If *)
(* the trust store cannot be parsed the command returns the error.         *)
(***************************************************************************)
CommitPairing(d, p) ==
    /\ command[d] = NoCommand
    /\ IF d \in torn
       THEN UNCHANGED <<command, torn, revoked>>
       ELSE /\ command' = [command EXCEPT ![d] = SavingTrust(trustFile[d] \cup {p}, p)]
            /\ torn' = torn \cup {d}
            /\ revoked' = [revoked EXCEPT ![d] = @ \ {p}]
    /\ UNCHANGED <<shaking, pairings, crashes, trustFile, layoutFile, daemon>>

(* Mutant: the slot may be empty. *)
ConfirmNothing(d) ==
    /\ CommitPairing(d, pending[d])
    /\ pending' = [pending EXCEPT ![d] = NoDevice]
    /\ UNCHANGED incoming

ConfirmPairing(d) ==
    /\ pending[d] # NoDevice
    /\ CommitPairing(d, pending[d])
    /\ pending' = [pending EXCEPT ![d] = NoDevice]
    /\ UNCHANGED incoming

AcceptIncomingPairing(d) ==
    /\ incoming[d] # NoDevice
    /\ CommitPairing(d, incoming[d])
    /\ incoming' = [incoming EXCEPT ![d] = NoDevice]
    /\ UNCHANGED pending

(* cancel_pairing and decline_incoming_pairing *)
ClearSlot(d) ==
    /\ command[d] = NoCommand
    /\ \/ pending' = [pending EXCEPT ![d] = NoDevice] /\ UNCHANGED incoming
       \/ incoming' = [incoming EXCEPT ![d] = NoDevice] /\ UNCHANGED pending
    /\ UNCHANGED <<shaking, command, pairings, crashes>>
    /\ UNCHANGED <<trustFile, torn, layoutFile, daemon, revoked>>

RemovePairedDevice(d, p) ==
    /\ command[d] = NoCommand
    /\ d \notin torn
    /\ p \in trustFile[d]
    /\ command' = [command EXCEPT ![d] = SavingTrust(trustFile[d] \ {p}, NoDevice)]
    /\ torn' = torn \cup {d}
    /\ revoked' = [revoked EXCEPT ![d] = @ \cup {p}]
    /\ UNCHANGED <<pending, incoming, shaking, pairings, crashes>>
    /\ UNCHANGED <<trustFile, layoutFile, daemon>>

(* The rest of save_trust_store; commit_pairing goes on to the layout. *)
FinishTrust(d) ==
    /\ command[d].save = "trust"
    /\ trustFile' = [trustFile EXCEPT ![d] = command[d].store]
    /\ torn' = torn \ {d}
    /\ command' = [command EXCEPT ![d] = IF @.peer = NoDevice THEN NoCommand
                                                             ELSE SavingLayout(@.peer)]
    /\ UNCHANGED <<pending, incoming, shaking, pairings, crashes>>
    /\ UNCHANGED <<layoutFile, daemon, revoked>>

(* A node that is there already is left as it is. *)
WithNode(layout, d) == IF d \in layout.nodes THEN layout ELSE AddDevice(layout, d)

SaveNodes(d) ==
    /\ command[d].save = "layout"
    /\ layoutFile' = [layoutFile EXCEPT ![d] = WithNode(WithNode(@, d), command[d].peer)]
    /\ command' = [command EXCEPT ![d] = NoCommand]
    /\ UNCHANGED <<pending, incoming, shaking, pairings, crashes>>
    /\ UNCHANGED <<trustFile, torn, daemon, revoked>>

-----------------------------------------------------------------------------
(* Layout commands *)

EditLayout(d, layout) ==
    /\ command[d] = NoCommand
    /\ layoutFile' = [layoutFile EXCEPT ![d] = layout]
    /\ UNCHANGED <<ui, trustFile, torn, daemon, revoked>>

LinkLayoutEdge(d, edge, p) == EditLayout(d, LinkEdges(layoutFile[d], d, edge, p))

UnlinkLayoutEdge(d, edge) == EditLayout(d, UnlinkEdge(layoutFile[d], d, edge))

-----------------------------------------------------------------------------
(* Processes *)

(* The UI of d is killed and started again: what it kept in memory is gone. *)
CrashUI(d) ==
    /\ crashes < MaxCrashes
    /\ crashes' = crashes + 1
    /\ pending' = [pending EXCEPT ![d] = NoDevice]
    /\ incoming' = [incoming EXCEPT ![d] = NoDevice]
    /\ shaking' = {s \in shaking : s[1] # d}
    /\ command' = [command EXCEPT ![d] = NoCommand]
    /\ UNCHANGED <<pairings, trustFile, torn, layoutFile, daemon, revoked>>

(* A daemon that cannot parse the trust store does not start. *)
StartDaemon(d) ==
    /\ ~ daemon[d].up
    /\ d \notin torn
    /\ daemon' = [daemon EXCEPT ![d] =
                     [up |-> TRUE, layout |-> layoutFile[d], trusted |-> trustFile[d]]]
    /\ UNCHANGED <<ui, trustFile, torn, layoutFile, revoked>>

StopDaemon(d) ==
    /\ daemon[d].up
    /\ daemon' = [daemon EXCEPT ![d] = Down]
    /\ UNCHANGED <<ui, trustFile, torn, layoutFile, revoked>>

(* Mutant: a trust store that cannot be read counts as empty. *)
ReloadTrustOrNothing(d) ==
    /\ daemon[d].up
    /\ daemon' = [daemon EXCEPT ![d].trusted = IF d \in torn THEN {} ELSE trustFile[d]]
    /\ UNCHANGED <<ui, trustFile, torn, layoutFile, revoked>>

(* Mutant: what is read is added to what is known. *)
ReloadTrustMerged(d) ==
    /\ daemon[d].up
    /\ d \notin torn
    /\ daemon' = [daemon EXCEPT ![d].trusted = @ \cup trustFile[d]]
    /\ UNCHANGED <<ui, trustFile, torn, layoutFile, revoked>>

(* A tick of reload_trust_store_loop; on an error it keeps what it has. *)
ReloadTrustStore(d) ==
    /\ daemon[d].up
    /\ d \notin torn
    /\ daemon' = [daemon EXCEPT ![d].trusted = trustFile[d]]
    /\ UNCHANGED <<ui, trustFile, torn, layoutFile, revoked>>

Next ==
    \E d \in Users :
        \/ \E p \in Device :
              \/ StartPairing(d, p)
              \/ StartPairing(p, d)
              \/ \E slot \in Slot : StorePairing(d, p, slot)
              \/ RemovePairedDevice(d, p)
              \/ \E edge \in ScreenEdge : LinkLayoutEdge(d, edge, p)
        \/ ConfirmPairing(d)
        \/ AcceptIncomingPairing(d)
        \/ ClearSlot(d)
        \/ FinishTrust(d)
        \/ SaveNodes(d)
        \/ \E edge \in ScreenEdge : UnlinkLayoutEdge(d, edge)
        \/ CrashUI(d)
        \/ StartDaemon(d)
        \/ StopDaemon(d)
        \/ ReloadTrustStore(d)

Spec == Init /\ [][Next]_vars

(* The interval of reload_trust_store_loop ticks for ever. *)
FairSpec == Spec /\ \A d \in Users : WF_vars(ReloadTrustStore(d))

-----------------------------------------------------------------------------
(* Properties *)

TypeOK ==
    /\ pending \in [Device -> Device \cup {NoDevice}]
    /\ incoming \in [Device -> Device \cup {NoDevice}]
    /\ shaking \subseteq Device \X Device \X Slot
    /\ command \in [Device -> Command]
    /\ trustFile \in [Device -> SUBSET Device]
    /\ torn \subseteq Device
    /\ layoutFile \in [Device -> Layout]
    /\ daemon \in [Device -> [up : BOOLEAN, layout : Layout, trusted : SUBSET Device]]
    /\ pairings \in Nat
    /\ crashes \in Nat
    /\ revoked \in [Device -> SUBSET Device]

(***************************************************************************)
(* Whatever commands wrote it, and in whatever order, the layout on disk   *)
(* and the one the daemon runs by give every edge at most one way to go,   *)
(* back the way it came, between devices of the layout.                    *)
(***************************************************************************)
LayoutsAreSound ==
    \A d \in Device : LayoutOK(layoutFile[d]) /\ LayoutOK(daemon[d].layout)

(***************************************************************************)
(* Only devices whose pairing the user confirmed enter the layout, and     *)
(* each stays in the trust store until the user removes it: no crash       *)
(* between the two saves of commit_pairing (commands.rs:212, 233) leaves a *)
(* device to which the cursor can go but no session can.                   *)
(***************************************************************************)
NodesAreTrusted ==
    \A d, p \in Device :
        p \in layoutFile[d].nodes \ {d} =>
            d \in torn \/ p \in trustFile[d] \/ p \in revoked[d]

(***************************************************************************)
(* A daemon that goes on running never loses a device the user has not     *)
(* removed, though it reads a trust store that another process rewrites in *)
(* place (main.rs:141-150, "keeping previous contents").                   *)
(***************************************************************************)
TrustOutlivesTornReads ==
    [][\A d \in Device :
          daemon[d].up /\ daemon'[d].up =>
              daemon[d].trusted \ daemon'[d].trusted \subseteq revoked[d]]_vars

(***************************************************************************)
(* A pairing the UI has saved reaches the running daemon without a restart *)
(* (main.rs:78-81) - and so does a removal.                                *)
(***************************************************************************)
TrustReachesDaemon ==
    \A d \in Device, store \in SUBSET Device :
        (daemon[d].up /\ [](trustFile[d] = store /\ d \notin torn)) ~> (daemon[d].trusted = store \/ ~ daemon[d].up)

=============================================================================
