----------------------------- MODULE ScreenLayout -----------------------------
(***************************************************************************)
(* crates/ms-config/src/layout.rs: which computers take part and how their *)
(* screen edges border each other.                                         *)
(*                                                                         *)
(* A layout is a record of                                                 *)
(*   nodes   - the device ids of the map of nodes,                         *)
(*   enabled - those whose node is enabled,                                *)
(*   edges   - the directed links; a border is a link and its reverse.     *)
(* The vector of links is a set here: what find() returns first is the     *)
(* only link there is, which LayoutOK says and ArrangementProofs prove.    *)
(*                                                                         *)
(* Boundaries and positions are fractions of an edge, counted in parts of  *)
(* 1 / Grid.  Names and canvas coordinates carry no meaning and are left   *)
(* out.                                                                    *)
(***************************************************************************)
EXTENDS Naturals

CONSTANTS
    Device,      \* device ids
    ScreenEdge,  \* the edges in use, of the four a screen has
    Grid         \* the number of parts an edge is divided into

(* opposite_edge *)
Opposite(edge) ==
    [Left |-> "Right", Right |-> "Left", Top |-> "Bottom", Bottom |-> "Top"][edge]

ASSUME LayoutAssumption ==
    /\ ScreenEdge \subseteq {"Left", "Right", "Top", "Bottom"}
    /\ \A edge \in ScreenEdge : Opposite(edge) \in ScreenEdge
    /\ Grid \in Nat \ {0}

Position == 0 .. Grid

EdgeLink ==
    [from : Device, from_edge : ScreenEdge, to : Device, to_edge : ScreenEdge,
     boundary_start : Position, boundary_end : Position]

Layout == [nodes : SUBSET Device, enabled : SUBSET Device, edges : SUBSET EdgeLink]

EmptyLayout == [nodes |-> {}, enabled |-> {}, edges |-> {}]

Link(from, from_edge, to, to_edge, start, end) ==
    [from |-> from, from_edge |-> from_edge, to |-> to, to_edge |-> to_edge,
     boundary_start |-> start, boundary_end |-> end]

Reverse(link) ==
    Link(link.to, link.to_edge, link.from, link.from_edge,
         link.boundary_start, link.boundary_end)

NoLink == [from |-> "none"]

-----------------------------------------------------------------------------
(* A node that is already there is replaced, and is enabled from then on. *)
AddDevice(layout, d) ==
    [layout EXCEPT !.nodes = @ \cup {d}, !.enabled = @ \cup {d}]

RemoveDevice(layout, d) ==
    [nodes |-> layout.nodes \ {d},
     enabled |-> layout.enabled \ {d},
     edges |-> {link \in layout.edges : link.from # d /\ link.to # d}]

SetEnabled(layout, d, on) ==
    IF d \in layout.nodes
    THEN [layout EXCEPT !.enabled = IF on THEN @ \cup {d} ELSE @ \ {d}]
    ELSE layout

EdgeLinked(layout, d, edge) ==
    \E link \in layout.edges : link.from = d /\ link.from_edge = edge

(* What makes link_edges_asymmetric return an error and change nothing. *)
LinkRefused(layout, from, from_edge, to, to_edge, start, end) ==
    \/ from = to
    \/ {from, to} \cap layout.nodes # {from, to}
    \/ ~ (start < end)
    \/ end > Grid
    \/ EdgeLinked(layout, from, from_edge)
    \/ EdgeLinked(layout, to, to_edge)

LinkEdgesAsymmetric(layout, from, from_edge, to, to_edge, start, end) ==
    LET link == Link(from, from_edge, to, to_edge, start, end)
    IN  IF LinkRefused(layout, from, from_edge, to, to_edge, start, end)
        THEN layout
        ELSE [layout EXCEPT !.edges = @ \cup {link, Reverse(link)}]

LinkEdges(layout, from, from_edge, to) ==
    LinkEdgesAsymmetric(layout, from, from_edge, to, Opposite(from_edge), 0, Grid)

(* Mutant: the far end of the border stays. *)
UnlinkNearEdge(layout, from, from_edge) ==
    [layout EXCEPT !.edges =
        {link \in layout.edges : ~ (link.from = from /\ link.from_edge = from_edge)}]

UnlinkEdge(layout, from, from_edge) ==
    LET Near == {link \in layout.edges : link.from = from /\ link.from_edge = from_edge}
        Far == {link \in layout.edges :
                   \E near \in Near : /\ link.from = near.to
                                      /\ link.from_edge = near.to_edge
                                      /\ link.to = from}
    IN  [layout EXCEPT !.edges = @ \ (Near \cup Far)]

(* Both ends of a boundary belong to it. *)
ResolveLink(layout, from, edge, position) ==
    LET Live == {link \in layout.edges :
                    /\ link.from = from
                    /\ link.from_edge = edge
                    /\ link.to \in layout.enabled
                    /\ link.boundary_start <= position
                    /\ position <= link.boundary_end}
    IN  IF from \in layout.enabled /\ Live # {}
        THEN CHOOSE link \in Live : TRUE
        ELSE NoLink

-----------------------------------------------------------------------------
(* What every sequence of these operations keeps *)

LinksJoinNodes(layout) ==
    \A link \in layout.edges :
        /\ link.from # link.to
        /\ {link.from, link.to} \subseteq layout.nodes
        /\ link.boundary_start < link.boundary_end

OneLinkPerEdge(layout) ==
    \A k, l \in layout.edges : k.from = l.from /\ k.from_edge = l.from_edge => k = l

LinksAreMutual(layout) == \A link \in layout.edges : Reverse(link) \in layout.edges

LayoutOK(layout) ==
    /\ layout \in Layout
    /\ layout.enabled \subseteq layout.nodes
    /\ LinksJoinNodes(layout)
    /\ OneLinkPerEdge(layout)
    /\ LinksAreMutual(layout)

=============================================================================
