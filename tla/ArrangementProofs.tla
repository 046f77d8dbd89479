-------------------------- MODULE ArrangementProofs --------------------------
(***************************************************************************)
(* Proofs about ScreenLayout and Arrangement, for any devices, edges and   *)
(* boundaries and any number of pairings and crashes.                      *)
(***************************************************************************)
EXTENDS Arrangement, TLAPS

-----------------------------------------------------------------------------
(* Every operation of ScreenLayout keeps LayoutOK, those that no command    *)
(* uses yet included.                                                       *)

LEMMA EmptyLayoutOK == LayoutOK(EmptyLayout)
BY DEF LayoutOK, EmptyLayout, Layout, LinksJoinNodes, OneLinkPerEdge, LinksAreMutual

LEMMA ReverseTwice ==
    ASSUME NEW link \in EdgeLink
    PROVE  Reverse(link) \in EdgeLink /\ Reverse(Reverse(link)) = link
BY DEF Reverse, Link, EdgeLink

LEMMA AddDeviceOK ==
    ASSUME NEW layout, LayoutOK(layout), NEW d \in Device
    PROVE  LayoutOK(AddDevice(layout, d))
<1> DEFINE new == AddDevice(layout, d)
<1>1. layout \in Layout
  BY DEF LayoutOK
<1>2. /\ new.nodes = layout.nodes \cup {d} /\ new.enabled = layout.enabled \cup {d}
      /\ new.edges = layout.edges /\ new \in Layout
  BY <1>1 DEF AddDevice, Layout
<1> HIDE DEF new
<1>3. QED
  BY <1>2 DEF LayoutOK, LinksJoinNodes, OneLinkPerEdge, LinksAreMutual, new

LEMMA RemoveDeviceOK ==
    ASSUME NEW layout, LayoutOK(layout), NEW d \in Device
    PROVE  LayoutOK(RemoveDevice(layout, d))
<1> DEFINE new == RemoveDevice(layout, d)
<1>1. layout \in Layout
  BY DEF LayoutOK
<1>2. /\ new.nodes = layout.nodes \ {d} /\ new.enabled = layout.enabled \ {d}
      /\ new.edges = {link \in layout.edges : link.from # d /\ link.to # d}
      /\ new \in Layout
  BY <1>1 DEF RemoveDevice, Layout
<1> HIDE DEF new
<1>3. LinksJoinNodes(new) /\ OneLinkPerEdge(new)
  BY <1>2 DEF LayoutOK, LinksJoinNodes, OneLinkPerEdge
<1>4. ASSUME NEW link \in new.edges
      PROVE  Reverse(link) \in new.edges
  <2>1. link \in layout.edges /\ link.from # d /\ link.to # d
    BY <1>2, <1>4
  <2>2. Reverse(link).from = link.to /\ Reverse(link).to = link.from
    BY DEF Reverse, Link
  <2>3. Reverse(link) \in layout.edges
    BY <2>1 DEF LayoutOK, LinksAreMutual
  <2>4. QED
    BY <1>2, <2>1, <2>2, <2>3
<1>5. QED
  BY <1>2, <1>3, <1>4 DEF LayoutOK, LinksAreMutual, new

LEMMA SetEnabledOK ==
    ASSUME NEW layout, LayoutOK(layout), NEW d \in Device, NEW on \in BOOLEAN
    PROVE  LayoutOK(SetEnabled(layout, d, on))
<1> DEFINE new == SetEnabled(layout, d, on)
<1>1. layout \in Layout
  BY DEF LayoutOK
<1>2. /\ new.nodes = layout.nodes /\ new.edges = layout.edges
      /\ new.enabled \subseteq layout.enabled \cup ({d} \cap layout.nodes)
      /\ new \in Layout
  BY <1>1 DEF SetEnabled, Layout
<1> HIDE DEF new
<1>3. new.enabled \subseteq new.nodes
  BY <1>2 DEF LayoutOK
<1>4. QED
  BY <1>2, <1>3 DEF LayoutOK, LinksJoinNodes, OneLinkPerEdge, LinksAreMutual, new

LEMMA LinkEdgesAsymmetricOK ==
    ASSUME NEW layout, LayoutOK(layout),
           NEW from \in Device, NEW from_edge \in ScreenEdge,
           NEW to \in Device, NEW to_edge \in ScreenEdge,
           NEW start \in Nat, NEW end \in Nat
    PROVE  LayoutOK(LinkEdgesAsymmetric(layout, from, from_edge, to, to_edge, start, end))
<1> DEFINE new == LinkEdgesAsymmetric(layout, from, from_edge, to, to_edge, start, end)
           link == Link(from, from_edge, to, to_edge, start, end)
<1>1. CASE LinkRefused(layout, from, from_edge, to, to_edge, start, end)
  BY <1>1 DEF LinkEdgesAsymmetric
<1>2. CASE ~ LinkRefused(layout, from, from_edge, to, to_edge, start, end)
  <2>1. /\ from # to /\ {from, to} \subseteq layout.nodes
        /\ start < end /\ end <= Grid
    BY <1>2, LayoutAssumption DEF LinkRefused
  <2>2. ~ EdgeLinked(layout, from, from_edge) /\ ~ EdgeLinked(layout, to, to_edge)
    BY <1>2 DEF LinkRefused
  <2>3. link \in EdgeLink
    BY <2>1, LayoutAssumption DEF Link, EdgeLink, Position
  <2>4. Reverse(link) \in EdgeLink /\ Reverse(Reverse(link)) = link
    BY <2>3, ReverseTwice
  <2>5. layout \in Layout
    BY DEF LayoutOK
  <2>6. /\ new.nodes = layout.nodes /\ new.enabled = layout.enabled
        /\ new.edges = layout.edges \cup {link, Reverse(link)}
        /\ new \in Layout
    BY <1>2, <2>3, <2>4, <2>5 DEF LinkEdgesAsymmetric, Layout
  <2>7. /\ link.from = from /\ link.from_edge = from_edge /\ link.to = to
        /\ link.boundary_start = start /\ link.boundary_end = end
        /\ Reverse(link).from = to /\ Reverse(link).from_edge = to_edge
        /\ Reverse(link).to = from
        /\ Reverse(link).boundary_start = start /\ Reverse(link).boundary_end = end
    BY DEF Link, Reverse
  <2> HIDE DEF new, link
  <2>8. LinksJoinNodes(new)
    BY <2>1, <2>6, <2>7 DEF LayoutOK, LinksJoinNodes
  <2>9. OneLinkPerEdge(new)
    BY <2>1, <2>2, <2>6, <2>7 DEF LayoutOK, OneLinkPerEdge, EdgeLinked
  <2>10. LinksAreMutual(new)
    BY <2>4, <2>6 DEF LayoutOK, LinksAreMutual
  <2>11. QED
    BY <2>6, <2>8, <2>9, <2>10 DEF LayoutOK, new
<1>3. QED
  BY <1>1, <1>2

LEMMA LinkEdgesOK ==
    ASSUME NEW layout, LayoutOK(layout),
           NEW from \in Device, NEW from_edge \in ScreenEdge, NEW to \in Device
    PROVE  LayoutOK(LinkEdges(layout, from, from_edge, to))
<1>1. Opposite(from_edge) \in ScreenEdge /\ Grid \in Nat
  BY LayoutAssumption
<1>2. QED
  BY <1>1, LinkEdgesAsymmetricOK DEF LinkEdges

LEMMA UnlinkEdgeOK ==
    ASSUME NEW layout, LayoutOK(layout), NEW from \in Device, NEW from_edge \in ScreenEdge
    PROVE  LayoutOK(UnlinkEdge(layout, from, from_edge))
<1> DEFINE Near == {link \in layout.edges : link.from = from /\ link.from_edge = from_edge}
           Far == {link \in layout.edges :
                      \E near \in Near : /\ link.from = near.to
                                         /\ link.from_edge = near.to_edge
                                         /\ link.to = from}
           new == UnlinkEdge(layout, from, from_edge)
<1>1. layout \in Layout
  BY DEF LayoutOK
<1>2. /\ new.nodes = layout.nodes /\ new.enabled = layout.enabled
      /\ new.edges = layout.edges \ (Near \cup Far)
      /\ new \in Layout
  BY <1>1 DEF UnlinkEdge, Layout
<1>3. \A link \in layout.edges :
          /\ link \in EdgeLink
          /\ Reverse(link) \in layout.edges
          /\ Reverse(link).from = link.to /\ Reverse(link).from_edge = link.to_edge
          /\ Reverse(link).to = link.from /\ Reverse(link).to_edge = link.from_edge
  BY <1>1 DEF LayoutOK, LinksAreMutual, Reverse, Link, Layout
<1>4. \A link \in Near : Reverse(link) \in Far
  BY <1>3
<1>5. ASSUME NEW link \in Far
      PROVE  Reverse(link) \in Near
  <2>1. PICK near \in Near : link.from = near.to /\ link.from_edge = near.to_edge
    BY <1>5
  <2>2. Reverse(near) \in layout.edges /\ link \in layout.edges
    BY <1>3, <1>5, <2>1
  <2>3. Reverse(near).from = link.from /\ Reverse(near).from_edge = link.from_edge
    BY <1>3, <2>1
  <2>4. Reverse(near) = link
    BY <2>2, <2>3 DEF LayoutOK, OneLinkPerEdge
  <2>5. Reverse(link) = near
    BY <1>3, <2>1, <2>4, ReverseTwice
  <2>6. QED
    BY <2>1, <2>5
<1> HIDE DEF Near, Far, new
<1>6. ASSUME NEW link \in new.edges
      PROVE  Reverse(link) \in new.edges
  <2>1. link \in layout.edges /\ link \notin Near /\ link \notin Far
    BY <1>2, <1>6
  <2>2. Reverse(link) \in layout.edges /\ Reverse(Reverse(link)) = link
    BY <1>3, <2>1, ReverseTwice
  <2>3. Reverse(link) \notin Near /\ Reverse(link) \notin Far
    BY <1>4, <1>5, <2>1, <2>2
  <2>4. QED
    BY <1>2, <2>2, <2>3
<1>7. LinksJoinNodes(new) /\ OneLinkPerEdge(new)
  BY <1>2 DEF LayoutOK, LinksJoinNodes, OneLinkPerEdge
<1>8. QED
  BY <1>2, <1>6, <1>7 DEF LayoutOK, LinksAreMutual, new

-----------------------------------------------------------------------------
(***************************************************************************)
(* Where an edge leads, the edge entered leads back at every position,     *)
(* within one layout: a border can be crossed both ways (layout.rs:113).   *)
(***************************************************************************)
THEOREM BordersCrossBothWays ==
    ASSUME NEW layout, LayoutOK(layout),
           NEW d \in Device, NEW edge \in ScreenEdge, NEW position \in Position,
           ResolveLink(layout, d, edge, position) # NoLink
    PROVE  LET link == ResolveLink(layout, d, edge, position)
           IN  /\ link.from = d /\ link.from_edge = edge /\ link.to # d
               /\ ResolveLink(layout, link.to, link.to_edge, position) = Reverse(link)
<1> DEFINE Live(x, e) == {link \in layout.edges :
                             /\ link.from = x
                             /\ link.from_edge = e
                             /\ link.to \in layout.enabled
                             /\ link.boundary_start <= position
                             /\ position <= link.boundary_end}
           k == ResolveLink(layout, d, edge, position)
<1>1. d \in layout.enabled /\ k \in Live(d, edge)
  BY DEF ResolveLink
<1>2. k \in layout.edges /\ k.from = d /\ k.from_edge = edge /\ k.to \in layout.enabled
  BY <1>1
<1>3. k.to # d
  BY <1>2 DEF LayoutOK, LinksJoinNodes
<1>4. Reverse(k) \in layout.edges
  BY <1>2 DEF LayoutOK, LinksAreMutual
<1>5. /\ Reverse(k).from = k.to /\ Reverse(k).from_edge = k.to_edge
      /\ Reverse(k).to = d
      /\ Reverse(k).boundary_start = k.boundary_start
      /\ Reverse(k).boundary_end = k.boundary_end
  BY <1>2 DEF Reverse, Link
<1>6. Reverse(k) \in Live(k.to, k.to_edge)
  BY <1>1, <1>4, <1>5
<1>7. \A l \in Live(k.to, k.to_edge) : l = Reverse(k)
  BY <1>4, <1>5 DEF LayoutOK, OneLinkPerEdge
<1>8. (CHOOSE l \in Live(k.to, k.to_edge) : TRUE) = Reverse(k)
  BY <1>6, <1>7
<1>9. ResolveLink(layout, k.to, k.to_edge, position) = Reverse(k)
  BY <1>2, <1>6, <1>8 DEF ResolveLink
<1>10. QED
  BY <1>2, <1>3, <1>9

-----------------------------------------------------------------------------
(* The commands of Arrangement *)

LEMMA WithNodeOK ==
    ASSUME NEW layout, LayoutOK(layout), NEW d \in Device
    PROVE  /\ LayoutOK(WithNode(layout, d))
           /\ WithNode(layout, d).nodes = layout.nodes \cup {d}
<1>1. CASE d \in layout.nodes
  BY <1>1 DEF WithNode
<1>2. CASE d \notin layout.nodes
  <2>1. layout \in Layout
    BY DEF LayoutOK
  <2>2. AddDevice(layout, d).nodes = layout.nodes \cup {d}
    BY <2>1 DEF AddDevice, Layout
  <2>3. QED
    BY <1>2, <2>2, AddDeviceOK DEF WithNode
<1>3. QED
  BY <1>1, <1>2

(* Linking and unlinking leave the nodes alone. *)
LEMMA EditsKeepNodes ==
    ASSUME NEW layout \in Layout, NEW d, NEW edge, NEW p
    PROVE  /\ LinkEdges(layout, d, edge, p).nodes = layout.nodes
           /\ UnlinkEdge(layout, d, edge).nodes = layout.nodes
BY DEF LinkEdges, LinkEdgesAsymmetric, UnlinkEdge, Layout

LEMMA CommandShapes ==
    ASSUME NEW c \in Command
    PROVE  /\ c.save = "trust" =>
                 c.store \in SUBSET Device /\ c.peer \in Device \cup {NoDevice}
           /\ c.save = "layout" => c.peer \in Device
<1>1. CASE c = NoCommand
  BY <1>1 DEF NoCommand
<1>2. CASE c \in {SavingTrust(store, peer) : store \in SUBSET Device,
                                             peer \in Device \cup {NoDevice}}
  BY <1>2 DEF SavingTrust
<1>3. CASE c \in {SavingLayout(peer) : peer \in Device}
  BY <1>3 DEF SavingLayout
<1>4. QED
  BY <1>1, <1>2, <1>3 DEF Command

-----------------------------------------------------------------------------
(***************************************************************************)
(* The inductive invariant: while the trust store is being written, what   *)
(* is written to it keeps every node and every known device that has not   *)
(* been removed, and the node of a pairing is saved only once the trust    *)
(* store holds it.                                                         *)
(***************************************************************************)
CommandInv(d) ==
    /\ command[d].save = "trust" =>
          /\ d \in torn
          /\ layoutFile[d].nodes \ {d} \subseteq command[d].store \cup revoked[d]
          /\ daemon[d].trusted \subseteq command[d].store \cup revoked[d]
          /\ command[d].peer # NoDevice => command[d].peer \in command[d].store
    /\ command[d].save = "layout" =>
          /\ d \notin torn
          /\ command[d].peer \in trustFile[d]

DaemonInv(d) == daemon[d].trusted \subseteq trustFile[d] \cup revoked[d] \/ d \in torn

NodesInv(d) ==
    layoutFile[d].nodes \ {d} \subseteq trustFile[d] \cup revoked[d] \/ d \in torn

SavesInv == \A d \in Device : CommandInv(d) /\ DaemonInv(d) /\ NodesInv(d)

IInv == TypeOK /\ LayoutsAreSound /\ SavesInv

LEMMA InitIInv == Init => IInv
<1> SUFFICES ASSUME Init PROVE IInv
  OBVIOUS
<1>1. EmptyLayout \in Layout
  BY EmptyLayoutOK DEF LayoutOK
<1>2. TypeOK
  BY <1>1 DEF Init, TypeOK, Command, Down
<1>3. LayoutsAreSound
  BY EmptyLayoutOK DEF Init, LayoutsAreSound, Down
<1>4. SavesInv
  BY DEF Init, SavesInv, CommandInv, DaemonInv, NodesInv, NoCommand, Down, EmptyLayout
<1>5. QED
  BY <1>2, <1>3, <1>4 DEF IInv

-----------------------------------------------------------------------------
(* One lemma per action *)

(* Steps that only touch the slots, the bounds and the handshakes. *)
LEMMA SlotSteps ==
    ASSUME IInv, TypeOK', UNCHANGED <<command, trustFile, torn, layoutFile, daemon, revoked>>
    PROVE  IInv'
BY DEF IInv, LayoutsAreSound, SavesInv, CommandInv, DaemonInv, NodesInv

LEMMA StartPairingSafe ==
    ASSUME IInv, NEW d \in Device, NEW p \in Device, StartPairing(d, p)
    PROVE  IInv'
<1>1. shaking' \subseteq Device \X Device \X Slot /\ pairings' \in Nat
  BY DEF StartPairing, IInv, TypeOK, Slot
<1>2. TypeOK'
  BY <1>1 DEF StartPairing, IInv, TypeOK
<1>3. QED
  BY <1>2, SlotSteps DEF StartPairing

LEMMA StorePairingSafe ==
    ASSUME IInv, NEW d \in Device, NEW p \in Device, NEW slot \in Slot, StorePairing(d, p, slot)
    PROVE  IInv'
<1>1. TypeOK'
  BY DEF StorePairing, IInv, TypeOK
<1>2. QED
  BY <1>1, SlotSteps DEF StorePairing

LEMMA ClearSlotSafe ==
    ASSUME IInv, NEW d \in Device, ClearSlot(d)
    PROVE  IInv'
<1>1. TypeOK'
  BY DEF ClearSlot, IInv, TypeOK
<1>2. QED
  BY <1>1, SlotSteps DEF ClearSlot

LEMMA CommitSafe ==
    ASSUME IInv, NEW d \in Device, NEW p \in Device, CommitPairing(d, p),
           pending' \in [Device -> Device \cup {NoDevice}],
           incoming' \in [Device -> Device \cup {NoDevice}]
    PROVE  IInv'
<1>1. CASE d \in torn
  <2>1. TypeOK'
    BY <1>1 DEF CommitPairing, IInv, TypeOK
  <2>2. QED
    BY <1>1, <2>1, SlotSteps DEF CommitPairing
<1>2. CASE d \notin torn
  <2> DEFINE c == SavingTrust(trustFile[d] \cup {p}, p)
  <2>1. c \in Command
    BY DEF IInv, TypeOK, Command
  <2>2. /\ command' = [command EXCEPT ![d] = c]
        /\ torn' = torn \cup {d}
        /\ revoked' = [revoked EXCEPT ![d] = @ \ {p}]
        /\ UNCHANGED <<shaking, pairings, crashes, trustFile, layoutFile, daemon>>
    BY <1>2 DEF CommitPairing
  <2>3. c.save = "trust" /\ c.store = trustFile[d] \cup {p} /\ c.peer = p
    BY DEF SavingTrust
  <2> HIDE DEF c
  <2>4. TypeOK'
    BY <2>1, <2>2 DEF IInv, TypeOK
  <2>5. LayoutsAreSound'
    BY <2>2 DEF IInv, LayoutsAreSound
  <2>6. /\ command'[d] = c /\ revoked'[d] = revoked[d] \ {p}
        /\ \A x \in Device : x # d => command'[x] = command[x] /\ revoked'[x] = revoked[x]
    BY <2>2 DEF IInv, TypeOK
  <2>7. CommandInv(d)'
    BY <1>2, <2>2, <2>3, <2>6 DEF IInv, SavesInv, CommandInv, NodesInv, DaemonInv
  <2>8. ASSUME NEW x \in Device
        PROVE  DaemonInv(x)' /\ NodesInv(x)'
    BY <2>2, <2>6 DEF IInv, SavesInv, DaemonInv, NodesInv
  <2>9. ASSUME NEW x \in Device, x # d
        PROVE  CommandInv(x)'
    BY <2>2, <2>6, <2>9 DEF IInv, SavesInv, CommandInv
  <2>10. QED
    BY <2>4, <2>5, <2>7, <2>8, <2>9 DEF IInv, SavesInv
<1>3. QED
  BY <1>1, <1>2

LEMMA ConfirmSafe ==
    ASSUME IInv, NEW d \in Device, ConfirmPairing(d) \/ AcceptIncomingPairing(d)
    PROVE  IInv'
<1>1. CASE ConfirmPairing(d)
  <2>1. pending[d] \in Device
    BY <1>1 DEF ConfirmPairing, IInv, TypeOK
  <2>2. pending' \in [Device -> Device \cup {NoDevice}] /\ incoming' = incoming
    BY <1>1 DEF ConfirmPairing, IInv, TypeOK
  <2>3. incoming' \in [Device -> Device \cup {NoDevice}]
    BY <2>2 DEF IInv, TypeOK
  <2>4. CommitPairing(d, pending[d])
    BY <1>1 DEF ConfirmPairing
  <2>5. QED
    BY <2>1, <2>2, <2>3, <2>4, CommitSafe
<1>2. CASE AcceptIncomingPairing(d)
  <2>1. incoming[d] \in Device
    BY <1>2 DEF AcceptIncomingPairing, IInv, TypeOK
  <2>2. incoming' \in [Device -> Device \cup {NoDevice}] /\ pending' = pending
    BY <1>2 DEF AcceptIncomingPairing, IInv, TypeOK
  <2>3. pending' \in [Device -> Device \cup {NoDevice}]
    BY <2>2 DEF IInv, TypeOK
  <2>4. CommitPairing(d, incoming[d])
    BY <1>2 DEF AcceptIncomingPairing
  <2>5. QED
    BY <2>1, <2>2, <2>3, <2>4, CommitSafe
<1>3. QED
  BY <1>1, <1>2

LEMMA RemoveSafe ==
    ASSUME IInv, NEW d \in Device, NEW p \in Device, RemovePairedDevice(d, p)
    PROVE  IInv'
<1> DEFINE c == SavingTrust(trustFile[d] \ {p}, NoDevice)
<1>1. c \in Command
  BY DEF IInv, TypeOK, Command
<1>2. /\ d \notin torn
      /\ command' = [command EXCEPT ![d] = c]
      /\ torn' = torn \cup {d}
      /\ revoked' = [revoked EXCEPT ![d] = @ \cup {p}]
      /\ UNCHANGED <<pending, incoming, shaking, pairings, crashes, trustFile, layoutFile, daemon>>
  BY DEF RemovePairedDevice
<1>3. c.save = "trust" /\ c.store = trustFile[d] \ {p} /\ c.peer = NoDevice
  BY DEF SavingTrust
<1> HIDE DEF c
<1>4. TypeOK'
  BY <1>1, <1>2 DEF IInv, TypeOK
<1>5. LayoutsAreSound'
  BY <1>2 DEF IInv, LayoutsAreSound
<1>6. /\ command'[d] = c /\ revoked'[d] = revoked[d] \cup {p}
      /\ \A x \in Device : x # d => command'[x] = command[x] /\ revoked'[x] = revoked[x]
  BY <1>2 DEF IInv, TypeOK
<1>7. CommandInv(d)'
  BY <1>2, <1>3, <1>6 DEF IInv, SavesInv, CommandInv, NodesInv, DaemonInv
<1>8. \A x \in Device : revoked[x] \subseteq revoked'[x]
  BY <1>6
<1>9. ASSUME NEW x \in Device
      PROVE  DaemonInv(x)' /\ NodesInv(x)'
  BY <1>2, <1>8 DEF IInv, SavesInv, DaemonInv, NodesInv
<1>10. ASSUME NEW x \in Device, x # d
       PROVE  CommandInv(x)'
  BY <1>2, <1>6, <1>10 DEF IInv, SavesInv, CommandInv
<1>11. QED
  BY <1>4, <1>5, <1>7, <1>9, <1>10 DEF IInv, SavesInv

LEMMA FinishTrustSafe ==
    ASSUME IInv, NEW d \in Device, FinishTrust(d)
    PROVE  IInv'
<1> DEFINE c == IF command[d].peer = NoDevice THEN NoCommand ELSE SavingLayout(command[d].peer)
<1>1. /\ command[d].save = "trust"
      /\ trustFile' = [trustFile EXCEPT ![d] = command[d].store]
      /\ torn' = torn \ {d}
      /\ command' = [command EXCEPT ![d] = c]
      /\ UNCHANGED <<pending, incoming, shaking, pairings, crashes, layoutFile, daemon, revoked>>
  BY DEF FinishTrust
<1>2. command[d].store \in SUBSET Device /\ command[d].peer \in Device \cup {NoDevice}
  BY <1>1, CommandShapes DEF IInv, TypeOK
<1>3. c \in Command
  BY <1>2 DEF Command
<1>4. /\ c.save # "trust"
      /\ c.save = "layout" => c.peer = command[d].peer /\ c.peer # NoDevice
  BY <1>2 DEF NoCommand, SavingLayout
<1> HIDE DEF c
<1>5. TypeOK'
  BY <1>1, <1>2, <1>3 DEF IInv, TypeOK
<1>6. LayoutsAreSound'
  BY <1>1 DEF IInv, LayoutsAreSound
<1>7. /\ command'[d] = c /\ trustFile'[d] = command[d].store
      /\ \A x \in Device : x # d => command'[x] = command[x] /\ trustFile'[x] = trustFile[x]
  BY <1>1 DEF IInv, TypeOK
<1>8. CommandInv(d) /\ DaemonInv(d)
  BY DEF IInv, SavesInv
<1>9. CommandInv(d)'
  BY <1>1, <1>4, <1>7, <1>8 DEF CommandInv
<1>10. DaemonInv(d)'
  BY <1>1, <1>7, <1>8 DEF CommandInv, DaemonInv
<1>11. NodesInv(d)'
  BY <1>1, <1>7, <1>8 DEF CommandInv, NodesInv
<1>12. ASSUME NEW x \in Device, x # d
       PROVE  CommandInv(x)' /\ DaemonInv(x)' /\ NodesInv(x)'
  BY <1>1, <1>7, <1>12 DEF IInv, SavesInv, CommandInv, DaemonInv, NodesInv
<1>13. QED
  BY <1>5, <1>6, <1>9, <1>10, <1>11, <1>12 DEF IInv, SavesInv

LEMMA SaveNodesSafe ==
    ASSUME IInv, NEW d \in Device, SaveNodes(d)
    PROVE  IInv'
<1> DEFINE p == command[d].peer
           new == WithNode(WithNode(layoutFile[d], d), p)
<1>1. command[d].save = "layout" /\ p \in Device
  BY CommandShapes DEF SaveNodes, IInv, TypeOK
<1>2. LayoutOK(layoutFile[d])
  BY DEF IInv, LayoutsAreSound
<1>3. LayoutOK(new) /\ new.nodes = layoutFile[d].nodes \cup {d, p}
  <2>1. /\ LayoutOK(WithNode(layoutFile[d], d))
        /\ WithNode(layoutFile[d], d).nodes = layoutFile[d].nodes \cup {d}
    BY <1>2, WithNodeOK
  <2> HIDE DEF p
  <2>2. QED
    BY <1>1, <2>1, WithNodeOK
<1>4. /\ layoutFile' = [layoutFile EXCEPT ![d] = new]
      /\ command' = [command EXCEPT ![d] = NoCommand]
      /\ UNCHANGED <<pending, incoming, shaking, pairings, crashes>>
      /\ UNCHANGED <<trustFile, torn, daemon, revoked>>
  BY DEF SaveNodes
<1>5. new \in Layout
  BY <1>3 DEF LayoutOK
<1>6. CommandInv(d) /\ NodesInv(d)
  BY DEF IInv, SavesInv
<1>7. p \in trustFile[d]
  BY <1>1, <1>6 DEF CommandInv
<1> HIDE DEF new, p
<1>8. TypeOK'
  BY <1>4, <1>5 DEF IInv, TypeOK, Command
<1>9. /\ layoutFile'[d] = new /\ command'[d] = NoCommand
      /\ \A x \in Device : x # d => command'[x] = command[x] /\ layoutFile'[x] = layoutFile[x]
  BY <1>4 DEF IInv, TypeOK
<1>10. LayoutsAreSound'
  BY <1>3, <1>4, <1>9 DEF IInv, LayoutsAreSound
<1>11. CommandInv(d)' /\ NodesInv(d)'
  BY <1>3, <1>4, <1>6, <1>7, <1>9 DEF CommandInv, NodesInv, NoCommand
<1>12. ASSUME NEW x \in Device
       PROVE  DaemonInv(x)'
  BY <1>4 DEF IInv, SavesInv, DaemonInv
<1>13. ASSUME NEW x \in Device, x # d
       PROVE  CommandInv(x)' /\ NodesInv(x)'
  BY <1>4, <1>9, <1>13 DEF IInv, SavesInv, CommandInv, NodesInv
<1>14. QED
  BY <1>8, <1>10, <1>11, <1>12, <1>13 DEF IInv, SavesInv

LEMMA EditSafe ==
    ASSUME IInv, NEW d \in Device, NEW layout, EditLayout(d, layout),
           LayoutOK(layout), layout.nodes = layoutFile[d].nodes
    PROVE  IInv'
<1>1. /\ layoutFile' = [layoutFile EXCEPT ![d] = layout]
      /\ UNCHANGED <<ui, trustFile, torn, daemon, revoked>>
  BY DEF EditLayout
<1>2. layout \in Layout
  BY DEF LayoutOK
<1>3. TypeOK'
  BY <1>1, <1>2 DEF IInv, TypeOK, ui
<1>4. /\ layoutFile'[d] = layout
      /\ \A x \in Device : x # d => layoutFile'[x] = layoutFile[x]
      /\ \A x \in Device : layoutFile'[x].nodes = layoutFile[x].nodes
  BY <1>1 DEF IInv, TypeOK
<1>5. LayoutsAreSound'
  BY <1>1, <1>4 DEF IInv, LayoutsAreSound
<1>6. ASSUME NEW x \in Device
      PROVE  CommandInv(x)' /\ DaemonInv(x)' /\ NodesInv(x)'
  BY <1>1, <1>4 DEF IInv, SavesInv, CommandInv, DaemonInv, NodesInv, ui
<1>7. QED
  BY <1>3, <1>5, <1>6 DEF IInv, SavesInv

LEMMA LayoutCommandsSafe ==
    ASSUME IInv, NEW d \in Device, NEW edge \in ScreenEdge,
           UnlinkLayoutEdge(d, edge) \/ \E p \in Device : LinkLayoutEdge(d, edge, p)
    PROVE  IInv'
<1>1. LayoutOK(layoutFile[d]) /\ layoutFile[d] \in Layout
  BY DEF IInv, LayoutsAreSound, LayoutOK
<1>2. CASE UnlinkLayoutEdge(d, edge)
  BY <1>1, <1>2, UnlinkEdgeOK, EditsKeepNodes, EditSafe DEF UnlinkLayoutEdge
<1>3. ASSUME NEW p \in Device, LinkLayoutEdge(d, edge, p)
      PROVE  IInv'
  <2> DEFINE new == LinkEdges(layoutFile[d], d, edge, p)
  <2>1. LayoutOK(new) /\ new.nodes = layoutFile[d].nodes
    BY <1>1, LinkEdgesOK, EditsKeepNodes
  <2>2. EditLayout(d, new)
    BY <1>3 DEF LinkLayoutEdge
  <2> HIDE DEF new
  <2>3. QED
    BY <2>1, <2>2, EditSafe
<1>4. QED
  BY <1>2, <1>3

LEMMA CrashSafe ==
    ASSUME IInv, NEW d \in Device, CrashUI(d)
    PROVE  IInv'
<1>1. /\ command' = [command EXCEPT ![d] = NoCommand]
      /\ UNCHANGED <<trustFile, torn, layoutFile, daemon, revoked>>
  BY DEF CrashUI
<1>2. NoCommand \in Command
  BY DEF Command
<1>3. TypeOK'
  BY <1>2 DEF CrashUI, IInv, TypeOK
<1>4. \A x \in Device : command'[x] = command[x] \/ command'[x] = NoCommand
  BY <1>1 DEF IInv, TypeOK
<1>5. LayoutsAreSound'
  BY <1>1 DEF IInv, LayoutsAreSound
<1>6. ASSUME NEW x \in Device
      PROVE  CommandInv(x)' /\ DaemonInv(x)' /\ NodesInv(x)'
  BY <1>1, <1>4 DEF IInv, SavesInv, CommandInv, DaemonInv, NodesInv, NoCommand
<1>7. QED
  BY <1>3, <1>5, <1>6 DEF IInv, SavesInv

LEMMA DaemonSafe ==
    ASSUME IInv, NEW d \in Device, StartDaemon(d) \/ StopDaemon(d) \/ ReloadTrustStore(d)
    PROVE  IInv'
<1>1. UNCHANGED <<ui, trustFile, torn, layoutFile, revoked>>
  BY DEF StartDaemon, StopDaemon, ReloadTrustStore
<1>2. PICK new \in [up : BOOLEAN, layout : Layout, trusted : SUBSET Device] :
          /\ daemon' = [daemon EXCEPT ![d] = new]
          /\ LayoutOK(new.layout)
          /\ new.trusted \subseteq trustFile[d]
          /\ new.trusted = {} \/ d \notin torn
  <2>1. CASE StartDaemon(d)
    <3> DEFINE started == [up |-> TRUE, layout |-> layoutFile[d], trusted |-> trustFile[d]]
    <3>1. daemon' = [daemon EXCEPT ![d] = started]
      BY <2>1 DEF StartDaemon
    <3>2. started \in [up : BOOLEAN, layout : Layout, trusted : SUBSET Device]
      BY DEF IInv, TypeOK
    <3>3. started.layout = layoutFile[d] /\ started.trusted = trustFile[d]
      OBVIOUS
    <3>4. LayoutOK(started.layout)
      BY <3>3 DEF IInv, LayoutsAreSound
    <3> HIDE DEF started
    <3>5. d \notin torn
      BY <2>1 DEF StartDaemon
    <3>6. QED
      BY <3>1, <3>2, <3>3, <3>4, <3>5
  <2>2. CASE StopDaemon(d)
    <3>1. daemon' = [daemon EXCEPT ![d] = Down]
      BY <2>2 DEF StopDaemon
    <3>2. EmptyLayout \in Layout
      BY EmptyLayoutOK DEF LayoutOK
    <3>3. Down \in [up : BOOLEAN, layout : Layout, trusted : SUBSET Device]
      BY <3>2 DEF Down
    <3>4. LayoutOK(Down.layout) /\ Down.trusted = {}
      BY EmptyLayoutOK DEF Down
    <3>5. QED
      BY <3>1, <3>3, <3>4
  <2>3. CASE ReloadTrustStore(d)
    <3>1. daemon' = [daemon EXCEPT ![d] = [daemon[d] EXCEPT !.trusted = trustFile[d]]]
      BY <2>3 DEF ReloadTrustStore
    <3>2. [daemon[d] EXCEPT !.trusted = trustFile[d]]
              \in [up : BOOLEAN, layout : Layout, trusted : SUBSET Device]
      BY DEF IInv, TypeOK
    <3>3. [daemon[d] EXCEPT !.trusted = trustFile[d]].layout = daemon[d].layout
          /\ [daemon[d] EXCEPT !.trusted = trustFile[d]].trusted = trustFile[d]
      BY DEF IInv, TypeOK
    <3>4. d \notin torn
      BY <2>3 DEF ReloadTrustStore
    <3>5. QED
      BY <3>1, <3>2, <3>3, <3>4 DEF IInv, LayoutsAreSound
  <2>4. QED
    BY <2>1, <2>2, <2>3
<1>3. TypeOK'
  BY <1>1, <1>2 DEF IInv, TypeOK, ui
<1>4. daemon'[d] = new /\ \A x \in Device : x # d => daemon'[x] = daemon[x]
  BY <1>2 DEF IInv, TypeOK
<1>5. LayoutsAreSound'
  BY <1>1, <1>2, <1>4 DEF IInv, LayoutsAreSound
<1>6. ASSUME NEW x \in Device
      PROVE  CommandInv(x)' /\ NodesInv(x)'
  <2>1. CommandInv(x) /\ NodesInv(x)
    BY DEF IInv, SavesInv
  <2>2. command[x].save = "trust" =>
            daemon'[x].trusted \subseteq command[x].store \cup revoked[x]
    BY <1>2, <1>4, <2>1 DEF CommandInv
  <2>3. QED
    BY <1>1, <2>1, <2>2 DEF CommandInv, NodesInv, ui
<1>7. ASSUME NEW x \in Device
      PROVE  DaemonInv(x)'
  BY <1>1, <1>2, <1>4 DEF IInv, SavesInv, DaemonInv
<1>8. QED
  BY <1>3, <1>5, <1>6, <1>7 DEF IInv, SavesInv

LEMMA NextIInv == IInv /\ [Next]_vars => IInv'
<1> SUFFICES ASSUME IInv, [Next]_vars PROVE IInv'
  OBVIOUS
<1>1. CASE UNCHANGED vars
  BY <1>1 DEF vars, ui, IInv, TypeOK, LayoutsAreSound, SavesInv, CommandInv, DaemonInv, NodesInv
<1>2. CASE Next
  <2>1. PICK d \in Device :
            \/ \E p \in Device :
                  \/ StartPairing(d, p) \/ StartPairing(p, d)
                  \/ \E slot \in Slot : StorePairing(d, p, slot)
                  \/ RemovePairedDevice(d, p)
                  \/ \E edge \in ScreenEdge : LinkLayoutEdge(d, edge, p)
            \/ ConfirmPairing(d) \/ AcceptIncomingPairing(d)
            \/ ClearSlot(d) \/ FinishTrust(d) \/ SaveNodes(d)
            \/ \E edge \in ScreenEdge : UnlinkLayoutEdge(d, edge)
            \/ CrashUI(d)
            \/ StartDaemon(d) \/ StopDaemon(d) \/ ReloadTrustStore(d)
    BY <1>2, ArrangementAssumption DEF Next
  <2>2. CASE \E p \in Device :
                  \/ StartPairing(d, p) \/ StartPairing(p, d)
                  \/ \E slot \in Slot : StorePairing(d, p, slot)
                  \/ RemovePairedDevice(d, p)
    BY <2>2, StartPairingSafe, StorePairingSafe, RemoveSafe
  <2>3. CASE \E edge \in ScreenEdge : UnlinkLayoutEdge(d, edge)
                                          \/ \E p \in Device : LinkLayoutEdge(d, edge, p)
    BY <2>3, LayoutCommandsSafe
  <2>4. CASE ConfirmPairing(d) \/ AcceptIncomingPairing(d)
    BY <2>4, ConfirmSafe
  <2>5. CASE ClearSlot(d) \/ FinishTrust(d) \/ SaveNodes(d) \/ CrashUI(d)
    BY <2>5, ClearSlotSafe, FinishTrustSafe, SaveNodesSafe, CrashSafe
  <2>6. CASE StartDaemon(d) \/ StopDaemon(d) \/ ReloadTrustStore(d)
    BY <2>6, DaemonSafe
  <2>7. QED
    BY <2>1, <2>2, <2>3, <2>4, <2>5, <2>6
<1>3. QED
  BY <1>1, <1>2

LEMMA AlwaysIInv == Spec => []IInv
BY InitIInv, NextIInv, PTL DEF Spec

-----------------------------------------------------------------------------
(* The files and the daemon's memory keep their types. *)
THEOREM TypeCorrect == Spec => []TypeOK
<1>1. IInv => TypeOK
  BY DEF IInv
<1>2. QED
  BY <1>1, AlwaysIInv, PTL

(***************************************************************************)
(* However pairing, linking, unlinking and restarts mix, the layout on     *)
(* disk and the one in use are sound (layout.rs:105-162).                  *)
(***************************************************************************)
THEOREM LayoutsSound == Spec => []LayoutsAreSound
<1>1. IInv => LayoutsAreSound
  BY DEF IInv
<1>2. QED
  BY <1>1, AlwaysIInv, PTL

(***************************************************************************)
(* The order of commit_pairing's two saves means that no crash leaves a    *)
(* device in the layout that is not trusted (commands.rs:201-234).         *)
(***************************************************************************)
THEOREM NodesTrusted == Spec => []NodesAreTrusted
<1>1. IInv => NodesAreTrusted
  BY DEF IInv, SavesInv, NodesInv, NodesAreTrusted
<1>2. QED
  BY <1>1, AlwaysIInv, PTL

(***************************************************************************)
(* Reading a trust store that is being rewritten never costs the daemon a  *)
(* device the user has not removed (main.rs:141-150).                      *)
(***************************************************************************)
THEOREM TornReadsHarmless == Spec => TrustOutlivesTornReads
<1>1. ASSUME IInv, [Next]_vars
      PROVE  \A d \in Device : daemon[d].up /\ daemon'[d].up =>
                 daemon[d].trusted \ daemon'[d].trusted \subseteq revoked[d]
  <2>1. SUFFICES ASSUME NEW d \in Device, daemon[d].up, daemon'[d].up
                 PROVE  daemon[d].trusted \ daemon'[d].trusted \subseteq revoked[d]
    OBVIOUS
  <2>2. CASE daemon'[d] = daemon[d]
    BY <2>2
  <2>3. CASE ReloadTrustStore(d)
    <3>1. daemon'[d].trusted = trustFile[d]
      BY <2>3, <1>1 DEF ReloadTrustStore, IInv, TypeOK
    <3>2. QED
      BY <1>1, <2>3, <3>1 DEF IInv, SavesInv, DaemonInv, ReloadTrustStore
  <2>4. daemon'[d] = daemon[d] \/ ReloadTrustStore(d)
    <3>1. CASE UNCHANGED daemon
      BY <3>1
    <3>2. ASSUME NEW x \in Device, StartDaemon(x) \/ StopDaemon(x)
          PROVE  daemon'[d] = daemon[d]
      BY <1>1, <2>1, <3>2 DEF StartDaemon, StopDaemon, Down, IInv, TypeOK
    <3>3. ASSUME NEW x \in Device, ReloadTrustStore(x), x # d
          PROVE  daemon'[d] = daemon[d]
      BY <1>1, <3>3 DEF ReloadTrustStore, IInv, TypeOK
    <3>4. UNCHANGED daemon \/ \E x \in Device :
              StartDaemon(x) \/ StopDaemon(x) \/ ReloadTrustStore(x)
      BY <1>1, ArrangementAssumption DEF Next, vars, StartPairing, StorePairing, CommitPairing, ConfirmPairing,
                  AcceptIncomingPairing, ClearSlot, RemovePairedDevice, FinishTrust,
                  SaveNodes, EditLayout, LinkLayoutEdge, UnlinkLayoutEdge, CrashUI
    <3>5. QED
      BY <3>1, <3>2, <3>3, <3>4
  <2>5. QED
    BY <2>2, <2>3, <2>4
<1>2. QED
  BY <1>1, AlwaysIInv, PTL DEF Spec, TrustOutlivesTornReads

=============================================================================
