------------------------------ MODULE Collector ------------------------------
(***************************************************************************)
(* The mesh walk of meshcop-netdiag (collect.rs): one request after the    *)
(* other, each answered, refused or lost.  A walk of the whole topology    *)
(* asks the leader, every router of its Route64 TLV and then every child   *)
(* that the routers list; a walk to one node asks it and, if it is a       *)
(* silent child, its parent.                                               *)
(*                                                                         *)
(* The mesh (external) does not change during the walk.  A device answers  *)
(* a batch if the TLVs it supports fit its response; otherwise it is       *)
(* silent, rejects it, or cuts the response between two TLVs.              *)
(***************************************************************************)
EXTENDS Topology

CONSTANTS
    Goals,          \* what walks are for: a node, or None for the whole topology
    Mesh,           \* Mesh[rloc]: every TLV that a device supports, with its contents
    Reachable,      \* the devices that answer requests by RLOC16
    Leader,         \* the leader's RLOC16
    Size,           \* Size[t]: what a TLV takes of a response
    Cap,            \* the size of a response
    ChunkSize,      \* CHUNK_SIZE
    PrimeAttempts,  \* PRIME_ATTEMPTS
    MaxFaults       \* bound on answers lost or cut, and ends of the session

ASSUME CollectorAssumption ==
    /\ Leader \in Reachable
    /\ Reachable \subseteq DOMAIN Mesh
    /\ {Cap, ChunkSize, PrimeAttempts} \subseteq Nat \ {0}
    /\ MaxFaults \in Nat

\* ROUTER_TLVS, CHILD_TLVS and DISCOVERY_TLVS without the MAC address, which
\* the primer fetches.
RouterTlvs ==
    <<"ext_mac", "mode", "timeout", "connectivity", "route64", "leader_data", "mac_counters",
      "battery", "voltage", "child_table", "channel_pages", "eui64", "child_ipv6", "network_data",
      "ipv6">>
ChildTlvs ==
    <<"ext_mac", "mode", "timeout", "connectivity", "leader_data", "mac_counters", "battery",
      "voltage", "channel_pages", "eui64", "ipv6">>
DiscoveryTlvs == <<"route64", "leader_data">>

RoutersOfMesh == {r \in DOMAIN Mesh : ~IsChild(r)}

\* A Thread mesh: RLOC16s have 16 bits and child IDs 10.
ASSUME RlocAssumption ==
    /\ \A r \in DOMAIN Mesh : r \in Nat /\ r < 65536
    /\ \A r \in RoutersOfMesh :
        /\ "child_table" \in DOMAIN Mesh[r]
        /\ \A id \in Mesh[r]["child_table"] : id \in Nat /\ 0 < id /\ id < 1024

\* What r's Route64 says of o.
Entries(r, o) == {e \in Mesh[r]["route64"] : e.id = RouterId(o)}

\* The leader tells its own RLOC16, and each router's Route64 has one entry for
\* every router, with the qualities, of two bits, that the other one reports in
\* the other direction.  None is no view of a link.
ASSUME MeshAssumption ==
    /\ None \notin [in : 0..3, out : 0..3]
    /\ Leader \in RoutersOfMesh
    /\ "mac" \in DOMAIN Mesh[Leader] /\ Mesh[Leader]["mac"] = Leader
    /\ \A r \in RoutersOfMesh :
        /\ "route64" \in DOMAIN Mesh[r]
        /\ \A e \in Mesh[r]["route64"] : e.id \in Nat /\ RouterRloc(e.id) \in RoutersOfMesh
        /\ \A o \in RoutersOfMesh :
            \E e \in Entries(r, o), f \in Entries(o, r) :
                /\ Entries(r, o) = {e} /\ Entries(o, r) = {f}
                /\ e.in = f.out /\ e.out = f.in
                /\ e.in \in 0..3 /\ e.out \in 0..3

\* The TLVs that the walk is steered by fit a response of their own.
ASSUME SizesAssumption ==
    /\ \A t \in {"mac"} \cup Range(RouterTlvs) : Size[t] \in Nat
    /\ \A t \in {"mac", "route64", "child_table"} : Size[t] <= Cap

VARIABLES
    goal,       \* the RLOC16 of the one node asked for, or None for all of them
    phase,      \* "discover", "routers", "children", "node", "parent", "done" or "failed"
    target,     \* the device being asked
    todo,       \* the RLOC16s still to ask in this phase
    primes,     \* primer attempts left; 0 once the primer was answered
    stack,      \* the batches still to ask, the next one first
    merged,     \* what the target has answered so far
    leader,     \* leader_rloc
    nodes,      \* the node records
    answers,    \* the routers' answers
    status,     \* the commissioner session
    faults,     \* how much has gone wrong
    unheard     \* requests made without an active session

walk == <<goal, phase, target, todo, primes, stack, merged, leader, nodes, answers>>
vars == <<walk, status, faults, unheard>>

Walking == phase \notin {"done", "failed"}

\* The ALOC reaches the leader.
Device == IF phase = "discover" THEN Leader ELSE target

-----------------------------------------------------------------------------
(* One device: collect_diag, prime. *)

TlvsFor(p, rloc) ==
    IF p = "discover" THEN DiscoveryTlvs
    ELSE IF p = "children" \/ (p = "node" /\ IsChild(rloc)) THEN ChildTlvs ELSE RouterTlvs

\* slice::chunks.
Chunks(tlvs) ==
    [i \in 1..((Len(tlvs) + ChunkSize - 1) \div ChunkSize) |->
        SubSeq(tlvs, (i - 1) * ChunkSize + 1, Min({i * ChunkSize, Len(tlvs)}))]

Batch == IF primes > 0 THEN <<"mac">> ELSE Head(stack)

\* Mutant of Halves: the middle TLV is in neither half.
HalvesApart(batch) ==
    LET mid == Len(batch) \div 2
    IN  <<SubSeq(batch, mid + 2, Len(batch)), SubSeq(batch, 1, mid)>>

\* A batch without an answer is split; the second half is asked first.
Halves(batch) ==
    LET mid == Len(batch) \div 2
    IN  <<SubSeq(batch, mid + 1, Len(batch)), SubSeq(batch, 1, mid)>>

\* The walk asks `rloc` next.
Ask(p, rloc, rest) ==
    /\ phase' = p
    /\ target' = rloc
    /\ todo' = rest
    /\ primes' = PrimeAttempts
    /\ stack' = <<>>
    /\ merged' = Empty

Stop(p) ==
    /\ phase' = p
    /\ UNCHANGED <<target, todo, primes, stack, merged>>

\* The batch was answered with data, or not.
Answered(data) ==
    /\ merged' = MergeNetdiag(merged, data)
    /\ primes' = 0
    /\ stack' = IF primes > 0 THEN Chunks(TlvsFor(phase, target)) ELSE Tail(stack)
    /\ UNCHANGED <<goal, phase, target, todo, leader, nodes, answers>>

\* Mutant of Unanswered: a single TLV is asked again.
UnansweredForever ==
    /\ IF primes > 0
       THEN primes' = primes - 1 /\ UNCHANGED stack
       ELSE /\ stack' = IF Len(Head(stack)) > 1 THEN Halves(Head(stack)) \o Tail(stack) ELSE stack
            /\ UNCHANGED primes
    /\ UNCHANGED <<goal, phase, target, todo, merged, leader, nodes, answers>>

Unanswered ==
    /\ IF primes > 0
       THEN primes' = primes - 1 /\ UNCHANGED stack
       ELSE /\ stack' = (IF Len(Head(stack)) > 1 THEN Halves(Head(stack)) ELSE <<>>) \o Tail(stack)
            /\ UNCHANGED primes
    /\ UNCHANGED <<goal, phase, target, todo, merged, leader, nodes, answers>>

-----------------------------------------------------------------------------
(* What the walk makes of a device's answer. *)

\* collect_children: a record per child of every router that answered, to be
\* upgraded in the order of the RLOC16s.  Of two routers that list the same
\* child, the higher one's record stays.
Children(as) ==
    LET lists(c) == {r \in DOMAIN as : c \in DOMAIN ParentChildren(r, as[r])}
    IN  [c \in UNION {DOMAIN ParentChildren(r, as[r]) : r \in DOMAIN as} |->
            LET r == Max(lists(c)) IN ParentChildren(r, as[r])[c]]

Ascending(S) ==
    CHOOSE q \in [1..Cardinality(S) -> S] : \A i, j \in DOMAIN q : i < j => q[i] < q[j]

\* A map with one entry.
Only(rloc, value) == [r \in {rloc} |-> value]

\* network_info reads the dataset that start fetched; a field that does not
\* parse makes an error of the finished walk.
SnapshotMade == Stop("done") \/ Stop("failed")

\* After the last router, the children; after the last child, the end.
Onward(ns, as) ==
    IF todo # <<>> THEN Ask(phase, Head(todo), Tail(todo)) /\ nodes' = ns
    ELSE LET children == Children(as)
             order == Ascending(DOMAIN children)
         IN  IF phase = "routers" /\ order # <<>>
             THEN Ask("children", Head(order), Tail(order)) /\ nodes' = Extend(ns, children)
             ELSE SnapshotMade /\ nodes' = ns

\* The leader's answer names it and the routers.
Discovered ==
    LET rloc == IF "mac" \in DOMAIN merged THEN merged["mac"] ELSE RouterRloc(merged["leader_data"])
        routers == IF "route64" \in DOMAIN merged
                   THEN Ascending({RouterRloc(e.id) : e \in merged["route64"]}) ELSE <<>>
        order == IF rloc \in Range(routers) THEN routers ELSE Append(routers, rloc)
    IN  /\ IF {"mac", "leader_data"} \cap DOMAIN merged = {}
           THEN Stop("failed") /\ UNCHANGED leader
           ELSE Ask("routers", Head(order), Tail(order)) /\ leader' = rloc
        /\ UNCHANGED <<nodes, answers>>

\* A child's direct answer is merged into its record.
RouterDone(found) ==
    LET role == IF target = leader THEN "leader" ELSE "router"
        node == IF found THEN FromDiag(target, role, merged)
                ELSE Skeleton(target, role, "unreachable")
    IN  /\ answers' = IF found THEN Extend(answers, Only(target, merged)) ELSE answers
        /\ Onward(Extend(nodes, Only(target, node)), answers')
        /\ UNCHANGED leader

ChildDone(found) ==
    /\ Onward(IF found THEN Extend(nodes, Only(target, MergeDiag(nodes[target], merged))) ELSE nodes,
              answers)
    /\ UNCHANGED <<leader, answers>>

\* collect_node: a silent child is looked up in its parent's child table.
NodeDone(found) ==
    /\ IF found
       THEN /\ nodes' = Only(target, FromDiag(target, ResolveRole(target, merged), merged))
            /\ Stop("done")
       ELSE IF IsChild(target)
       THEN Ask("parent", ParentRloc(target), <<>>) /\ UNCHANGED nodes
       ELSE /\ nodes' = Only(target, Skeleton(target, DefaultRole(target), "unreachable"))
            /\ Stop("done")
    /\ UNCHANGED <<leader, answers>>

ParentDone(found) ==
    LET children == IF found THEN ParentChildren(target, merged) ELSE Empty
    IN  /\ nodes' = Only(goal, IF goal \in DOMAIN children THEN children[goal]
                               ELSE Skeleton(goal, DefaultRole(goal), "unreachable"))
        /\ Stop("done")
        /\ UNCHANGED <<leader, answers>>

\* collect_diag has returned: every batch was asked, or no primer answered.
DeviceDone(found) ==
    /\ \/ phase = "discover" /\ found /\ Discovered
       \/ phase = "discover" /\ ~found /\ Stop("failed") /\ UNCHANGED <<leader, nodes, answers>>
       \/ phase = "routers" /\ RouterDone(found)
       \/ phase = "children" /\ ChildDone(found)
       \/ phase = "node" /\ NodeDone(found)
       \/ phase = "parent" /\ ParentDone(found)
    /\ UNCHANGED goal

-----------------------------------------------------------------------------
(* One request: diag_query. *)

Asking == Walking /\ (primes > 0 \/ stack # <<>>)

\* Without an answer the walk goes on with the next attempt or with smaller
\* batches; after the last attempt of the primer the device has no answer.
NoAnswer == IF primes = 1 THEN DeviceDone(FALSE) ELSE Unanswered

\* Mutant of MayAsk: the status is not looked at.
AlwaysAsks == TRUE

\* SessionStatus::Closed stops the walk before the request is made.
MayAsk == status = "active"

Total == faults.lost + faults.cut + faults.ended
Fault(kind) == Total < MaxFaults /\ faults' = [faults EXCEPT ![kind] = @ + 1]

\* External: what the device has of the batch, and whether it fits.
Held(batch) == Range(batch) \cap DOMAIN Mesh[Device]
Fits(tlvs) == MapThenSumSet(LAMBDA t : Size[t], tlvs) <= Cap

\* The device answers, and the answer decodes.
QueryAnswered ==
    /\ Asking /\ MayAsk /\ status = "active"
    /\ Device \in Reachable
    /\ Fits(Held(Batch))
    /\ Answered(Restrict(Mesh[Device], Held(Batch)))
    /\ UNCHANGED <<status, faults, unheard>>

\* The response was cut between two TLVs: it decodes without the others.
QueryCut ==
    /\ Asking /\ MayAsk /\ status = "active"
    /\ Device \in Reachable
    /\ ~Fits(Held(Batch))
    /\ \E n \in 0..(Len(Batch) - 1) :
        /\ Fits(Held(SubSeq(Batch, 1, n)))
        /\ Answered(Restrict(Mesh[Device], Held(SubSeq(Batch, 1, n))))
    /\ Fault("cut")
    /\ UNCHANGED <<status, unheard>>

\* No device, a batch rejected, or a response that does not decode.
QuerySilent ==
    /\ Asking /\ MayAsk /\ status = "active"
    /\ Device \in Reachable => ~Fits(Held(Batch))
    /\ NoAnswer
    /\ UNCHANGED <<status, faults, unheard>>

\* The request or the answer was lost, or the answer came after the deadline.
QueryLost ==
    /\ Asking /\ MayAsk /\ status = "active"
    /\ Device \in Reachable /\ Fits(Held(Batch))
    /\ NoAnswer
    /\ Fault("lost")
    /\ UNCHANGED <<status, unheard>>

\* The session ended after the status was read: InvalidState, which reads as
\* no answer.
QueryInactive ==
    /\ Asking /\ MayAsk
    /\ IF status = "active" THEN Fault("ended") ELSE UNCHANGED faults
    /\ status' = "closed"
    /\ NoAnswer
    /\ unheard' = unheard + 1

\* The session ended during the exchange: the error ends the walk.
QueryFails ==
    /\ Asking /\ MayAsk /\ status = "active"
    /\ Fault("ended")
    /\ status' = "closed"
    /\ Stop("failed")
    /\ UNCHANGED <<goal, leader, nodes, answers, unheard>>

\* The session was found closed.
SessionLost ==
    /\ Asking /\ ~MayAsk
    /\ Stop("failed")
    /\ UNCHANGED <<goal, leader, nodes, answers, status, faults, unheard>>

\* collect_diag returns what the device has answered.
BatchesDone ==
    /\ Walking /\ ~Asking
    /\ DeviceDone(TRUE)
    /\ UNCHANGED <<status, faults, unheard>>

SessionEnds ==
    /\ Walking /\ status = "active"
    /\ Fault("ended")
    /\ status' = "closed"
    /\ UNCHANGED <<walk, unheard>>

-----------------------------------------------------------------------------
\* A walk begins with a session and the mesh-local prefix of its dataset.
CollectorInit ==
    /\ goal \in Goals
    /\ phase = IF goal = None THEN "discover" ELSE "node"
    /\ target = goal
    /\ todo = <<>>
    /\ primes = PrimeAttempts
    /\ stack = <<>>
    /\ merged = Empty
    /\ leader = None
    /\ nodes = Empty
    /\ answers = Empty
    /\ status = "active"
    /\ faults = [lost |-> 0, cut |-> 0, ended |-> 0]
    /\ unheard = 0

Step ==
    \/ QueryAnswered \/ QueryCut \/ QuerySilent \/ QueryLost
    \/ QueryInactive \/ QueryFails \/ SessionLost \/ BatchesDone

CollectorNext == Step \/ SessionEnds

\* Every request ends by node_timeout and the walk then goes on.
CollectorSpec == CollectorInit /\ [][CollectorNext]_vars /\ WF_vars(Step)

-----------------------------------------------------------------------------
(* Properties. *)

\* What a device has of the TLVs a walk asks it for and shows.
Wanted(n) ==
    {t \in Range(IF n.role = "child" THEN ChildTlvs ELSE RouterTlvs) \ {"child_ipv6"} :
        t \in DOMAIN Mesh[n.rloc] /\ Size[t] <= Cap}

ListedChildren == UNION {{r + id : id \in Mesh[r]["child_table"]} : r \in RoutersOfMesh \cap Reachable}

\* The adaptive splitter (collect_diag) loses nothing: unless a response was
\* cut, a device that answered lacks no more TLVs than answers were lost, and
\* a device that answers is only passed over after PRIME_ATTEMPTS losses.
\* Without any loss the walk has found every router and every listed child.
SplittingLosesNothing ==
    (phase = "done" /\ faults.cut = 0 /\ status = "active") =>
        /\ \A r \in DOMAIN nodes :
            /\ nodes[r].discovery = "direct" =>
                    Cardinality(Wanted(nodes[r]) \ nodes[r].tlvs) <= faults.lost
            /\ (r \in Reachable /\ faults.lost < PrimeAttempts) => nodes[r].discovery = "direct"
        /\ (goal = None /\ faults.lost = 0) =>
                DOMAIN nodes = RoutersOfMesh \cup ListedChildren

\* How well `a` hears `b`.
Quality(a, b) == (CHOOSE e \in Mesh[a]["route64"] : RouterRloc(e.id) = b).in

\* The graph shows the mesh as it is (build_links, mesh_neighbors, own_view):
\* each router has one link to a neighbor, with the qualities from its own
\* side, whichever of the two answered; links between two devices that are
\* neighbors are only missing if neither told of its routes; and each child
\* hangs under the one parent that lists it.
GraphShowsTheMesh ==
    (phase = "done" /\ goal = None) =>
        /\ \A r \in DOMAIN nodes \ {c \in DOMAIN nodes : IsChild(c)} :
            LET shown == MeshNeighbors(MeshLinks(nodes), r)
                tells(x) == x \in DOMAIN nodes /\ "route64" \in nodes[x].tlvs
            IN  /\ {s.other : s \in shown} =
                        {o \in RoutersOfMesh \ {r} :
                            Quality(r, o) + Quality(o, r) > 0 /\ (tells(r) \/ tells(o))}
                /\ shown = {[other |-> s.other,
                             view |-> [in |-> Quality(r, s.other), out |-> Quality(s.other, r)]] :
                                s \in shown}
        /\ \A c \in {c \in DOMAIN nodes : IsChild(c)} :
            /\ {r \in DOMAIN nodes : c \in DrawnUnder(nodes, r)} = {ParentRloc(c)}
            /\ {l \in ChildLinks(nodes) : l.child = c} = {[parent |-> ParentRloc(c), child |-> c]}

\* A lost session stops the walk (diag_query): at most the one request that
\* was already past the status check is made without a session.
LostSessionStopsWalk == unheard <= 1

\* Every walk ends, with a snapshot or an error, however many batches are
\* refused (collect_diag splits down to single TLVs and skips those).
WalkEnds == <>~Walking
=============================================================================
