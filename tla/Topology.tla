------------------------------- MODULE Topology -------------------------------
(***************************************************************************)
(* The topology model of meshcop-netdiag (model.rs, graph.rs and the pure  *)
(* part of collect.rs): RLOC16 arithmetic, node records, what a diagnostic *)
(* answer adds to them, the links between nodes, and the links as the      *)
(* terminal graph shows them.                                              *)
(*                                                                         *)
(* An answer (NetDiagData) is a function from the TLVs it carries to their *)
(* contents.  Only Route64 and the child tables have contents that the     *)
(* topology depends on.                                                    *)
(***************************************************************************)
EXTENDS Integers, Sequences, FiniteSets, FiniteSetsExt, Functions

CONSTANT None   \* an absent value

Empty == [x \in {} |-> None]

\* router_id and child_id: the upper 6 and the lower 10 bits.
RouterId(rloc) == rloc \div 1024
ChildId(rloc) == rloc % 1024
IsChild(rloc) == ChildId(rloc) # 0
RouterRloc(id) == id * 1024
ParentRloc(rloc) == rloc - ChildId(rloc)

\* BTreeMap::extend: the entries of `new` replace those of `map`.
Extend(map, new) ==
    [k \in DOMAIN map \cup DOMAIN new |-> IF k \in DOMAIN new THEN new[k] ELSE map[k]]

\* merge_netdiag: what the new answer carries replaces what was there.
MergeNetdiag(acc, new) == Extend(acc, new)

\* Node::skeleton.
Skeleton(rloc, role, discovery) ==
    [rloc |-> rloc, role |-> role, discovery |-> discovery, parent |-> None,
     tlvs |-> {}, routes |-> {}, children |-> {}]

\* The relation of a Route64 entry to the node that reports it.
Relation(node, entry) ==
    IF entry.id = RouterId(node.rloc) THEN "self"
    ELSE IF entry.in > 0 \/ entry.out > 0 THEN "neighbor" ELSE "multihop"

\* Node::merge_diag: every TLV of the answer overlays the record, which has no
\* place for the MAC address and for the addresses of children.
MergeDiag(node, data) ==
    [node EXCEPT
        !.discovery = "direct",
        !.tlvs = @ \cup (DOMAIN data \ {"mac", "child_ipv6"}),
        !.routes = IF "route64" \in DOMAIN data
                   THEN {[router |-> e.id, relation |-> Relation(node, e), in |-> e.in, out |-> e.out] :
                            e \in data["route64"]}
                   ELSE @,
        !.children = IF "child_table" \in DOMAIN data
                     THEN {RouterRloc(RouterId(node.rloc)) + id : id \in data["child_table"]}
                     ELSE @]

FromDiag(rloc, role, data) == MergeDiag(Skeleton(rloc, role, "direct"), data)

\* merge_parent_children: a record for every entry of a parent's child table.
ParentChildren(parent, data) ==
    IF "child_table" \notin DOMAIN data THEN Empty
    ELSE [rloc \in {parent + id : id \in data["child_table"]} |->
            [Skeleton(rloc, "child", "parent-table") EXCEPT
                !.parent = parent,
                !.tlvs = {"mode", "timeout"} \cup
                    {t \in {"ipv6"} : "child_ipv6" \in DOMAIN data /\ rloc \in data["child_ipv6"]}]]

\* default_role and resolve_role.
DefaultRole(rloc) == IF IsChild(rloc) THEN "child" ELSE "router"
ResolveRole(rloc, data) ==
    IF /\ ~IsChild(rloc) /\ "leader_data" \in DOMAIN data
       /\ RouterRloc(data["leader_data"]) = rloc
    THEN "leader" ELSE DefaultRole(rloc)

\* build_links: one mesh link per pair of routers of which either calls the
\* other a neighbor, the lower RLOC16 first, with each one's own view.
View(nodes, a, b) ==
    LET own == {e \in (IF a \in DOMAIN nodes THEN nodes[a].routes ELSE {}) :
                    e.relation = "neighbor" /\ RouterRloc(e.router) = b}
    IN  IF own = {} THEN None
        ELSE LET e == CHOOSE e \in own : TRUE IN [in |-> e.in, out |-> e.out]

Neighbors(nodes, a) ==
    {RouterRloc(e.router) : e \in {e \in nodes[a].routes : e.relation = "neighbor"}}

MeshLinks(nodes) ==
    LET pairs == UNION {{IF a <= b THEN <<a, b>> ELSE <<b, a>> : b \in Neighbors(nodes, a)} :
                            a \in DOMAIN nodes}
    IN  {[a |-> p[1], b |-> p[2], a_view |-> View(nodes, p[1], p[2]),
          b_view |-> View(nodes, p[2], p[1])] : p \in pairs}

ChildLinks(nodes) ==
    UNION {{[parent |-> a, child |-> c] : c \in nodes[a].children} : a \in DOMAIN nodes}

\* Mutant of OwnView: the peer's view is taken as it is.
PeerView(own, peer) == IF own # None THEN own ELSE peer

\* own_view: a node's own view, or its peer's with the directions swapped.
OwnView(own, peer) ==
    IF own # None THEN own
    ELSE IF peer = None THEN None
    ELSE [in |-> peer.out, out |-> peer.in]

\* mesh_neighbors: the links of one router as the graph shows them.
MeshNeighbors(links, rloc) ==
    {[other |-> l.b, view |-> OwnView(l.a_view, l.b_view)] : l \in {l \in links : l.a = rloc}}
    \cup {[other |-> l.a, view |-> OwnView(l.b_view, l.a_view)] :
            l \in {l \in links : l.b = rloc /\ l.a # rloc}}

\* topology_ascii: a child is drawn under its parent, if that was queried.
DrawnUnder(nodes, rloc) ==
    {c \in DOMAIN nodes : nodes[c].role = "child" /\ nodes[c].parent = rloc}
=============================================================================
