--------------------------- MODULE CollectorProofs ---------------------------
(***************************************************************************)
(* A mesh walk, for every mesh, all sizes of its TLVs and every way that   *)
(* requests are lost: what it misses was lost, and the graph drawn from it *)
(* shows the mesh.  The invariant has five parts: the device being asked,  *)
(* what of it is lost, the promises on the records made so far, what the   *)
(* records are made from, and what a walk without losses has found.        *)
(***************************************************************************)
EXTENDS TopologyProofs

-----------------------------------------------------------------------------
(* The inductive invariant *)

\* Children whose own answer is still to come.
Awaited == IF phase = "children" THEN {target} \cup Range(todo) ELSE {}

NodesInv ==
    phase # "failed" =>
        /\ \A r \in DOMAIN nodes :
            /\ IsNode(nodes[r], r)
            /\ Sound => Told(nodes[r], faults.lost)
            /\ (Sound /\ r \notin Awaited) => Heard(nodes[r], r, faults.lost)
        /\ phase \in {"discover", "node", "parent"} => nodes = Empty /\ answers = Empty
        /\ (phase = "parent" /\ goal \in Reachable /\ Sound) => PrimeAttempts <= faults.lost
        /\ phase \in {"discover", "routers", "children"} => goal = None
        /\ phase \in {"node", "parent"} => goal # None
        /\ phase = "node" => target = goal

\* The routers still to be asked are asked once.
RoutersAhead ==
    /\ {target} \cup Range(todo) \subseteq RoutersOfMesh
    /\ target \notin Range(todo) /\ IsInjective(todo)
    /\ ({target} \cup Range(todo)) \cap DOMAIN nodes = {}
    /\ \A r \in DOMAIN nodes : ~IsChild(r)

MeshInv ==
    (goal = None /\ phase # "failed") =>
        /\ Recorded(nodes, answers)
        /\ phase = "routers" => RoutersAhead
        /\ phase = "children" => {target} \cup Range(todo) \subseteq {c \in DOMAIN nodes : IsChild(c)}

\* What a walk that has lost nothing has found.
FoundInv ==
    (goal = None /\ phase # "failed" /\ Sound /\ faults.lost = 0) =>
        /\ \A r \in DOMAIN answers : "child_table" \in DOMAIN answers[r]
        /\ phase = "routers" => {target} \cup Range(todo) \cup DOMAIN nodes = RoutersOfMesh
        /\ phase = "routers" => Reachable \cap DOMAIN nodes \subseteq DOMAIN answers
        /\ phase \in {"children", "done"} => DOMAIN nodes = RoutersOfMesh \cup ListedChildren

\* The invariants of a walk.
WalkInv == WalkType /\ DeviceInv /\ LossInv /\ NodesInv /\ MeshInv /\ FoundInv

\* Losses only weaken what the records promise.
LEMMA PromisesKept ==
    ASSUME NEW n, NEW r, NEW a \in Nat, NEW b \in Nat, a <= b
    PROVE  (Told(n, a) => Told(n, b)) /\ (Heard(n, r, a) => Heard(n, r, b))
<1>1. IsFiniteSet(Wanted(n) \ n.tlvs)
    <2>1. Wanted(n) \ n.tlvs \subseteq Range(RouterTlvs)
        BY TlvContents, Zenon DEF Wanted
    <2>2. IsFiniteSet(Range(RouterTlvs))
        BY TlvsKnown, Zenon DEF Known
    <2>3. QED
        BY <2>1, <2>2, FS_Subset, Zenon
<1>2. Cardinality(Wanted(n) \ n.tlvs) \in Nat
    BY <1>1, FS_CardinalityType, Zenon
<1>3. PrimeAttempts \in Nat
    BY CollectorAssumption, Zenon
<1>4. QED
    BY <1>2, <1>3 DEF Told, Heard

-----------------------------------------------------------------------------
(* Going on to the next device *)

\* What may go wrong in a step.
Later ==
    /\ faults' \in [lost : Nat, cut : Nat, ended : Nat]
    /\ faults.lost <= faults'.lost
    /\ status' \in {"active", "closed"}
    /\ Sound' => Sound

\* collect_diag has returned, with an answer or after every attempt.
Finished(found) ==
    /\ Later
    /\ found => primes = 0 /\ stack = <<>>
    /\ (~found /\ Sound' /\ Device \in Reachable) => PrimeAttempts <= faults'.lost

\* The next state's promises on its records.
Promised(ns, awaited) ==
    \A r \in DOMAIN ns :
        /\ IsNode(ns[r], r)
        /\ Sound' => Told(ns[r], faults'.lost)
        /\ (Sound' /\ r \notin awaited) => Heard(ns[r], r, faults'.lost)

\* The ways onward.
LEMMA OnwardCases ==
    ASSUME NEW ns, NEW ans, RouterAnswers(ans), Onward(ns, ans)
    PROVE  \/ todo # <<>> /\ Ask(phase, Head(todo), Tail(todo)) /\ nodes' = ns
           \/ /\ todo = <<>> /\ phase = "routers"
              /\ \E order \in Seq(Nat) :
                    /\ order # <<>> /\ Range(order) = DOMAIN Children(ans)
                    /\ Ask("children", Head(order), Tail(order))
              /\ nodes' = Extend(ns, Children(ans))
           \/ /\ todo = <<>> /\ Stop("done") /\ nodes' = ns
              /\ phase = "routers" => DOMAIN Children(ans) = {}
           \/ Stop("failed")
<1> DEFINE D == DOMAIN Children(ans)
           order == Ascending(D)
<1>1. D \subseteq Nat /\ IsFiniteSet(D)
    BY ChildrenOf, Zenon
<1>2. order \in Seq(D) /\ Range(order) = D
    BY <1>1, AscendingOf, Zenon
<1>3. order \in Seq(Nat)
    BY <1>1, <1>2
<1>4. order = <<>> => D = {}
    <2>1. Range(<<>>) = {}
        BY DEF Range
    <2> HIDE DEF order, D
    <2>2. QED
        BY <1>2, <2>1, Zenon
<1>5. \/ todo # <<>> /\ Ask(phase, Head(todo), Tail(todo)) /\ nodes' = ns
      \/ /\ todo = <<>> /\ phase = "routers" /\ order # <<>>
         /\ Ask("children", Head(order), Tail(order)) /\ nodes' = Extend(ns, Children(ans))
      \/ /\ todo = <<>> /\ ~(phase = "routers" /\ order # <<>>)
         /\ Stop("done") /\ nodes' = ns
      \/ Stop("failed")
    BY Zenon DEF Onward, SnapshotMade
<1> HIDE DEF order, D
<1>6. QED
    BY <1>2, <1>3, <1>4, <1>5, Zenon DEF D

\* A step that asks the next device, or ends, keeps the invariants of one device.
LEMMA OnwardDevice ==
    ASSUME WalkType, phase \in {"routers", "children"}, Later,
           NEW ns, NEW ans, RouterAnswers(ans), Onward(ns, ans)
    PROVE  WalkType' /\ DeviceInv' /\ LossInv'
<1>1. CASE todo # <<>> /\ Ask(phase, Head(todo), Tail(todo)) /\ nodes' = ns
    <2>1. Tail(todo) \in Seq(Nat)
        BY <1>1 DEF WalkType
    <2>2. /\ DeviceInv' /\ LossInv'
          /\ todo' \in Seq(Nat) /\ primes' \in 0..PrimeAttempts /\ stack' \in Seq(Seq(Known))
        BY <1>1, <2>1, AskFresh, Zenon DEF Later
    <2>3. phase' = phase
        BY <1>1, Zenon DEF Ask
    <2>4. QED
        BY <2>2, <2>3, Zenon DEF WalkType, Later
<1>2. CASE \E order \in Seq(Nat) :
                    /\ order # <<>> /\ Range(order) = DOMAIN Children(ans)
                    /\ Ask("children", Head(order), Tail(order))
    <2>1. PICK order \in Seq(Nat) : order # <<>> /\ Ask("children", Head(order), Tail(order))
        BY <1>2, Zenon
    <2>2. Tail(order) \in Seq(Nat)
        BY <2>1
    <2>3. /\ DeviceInv' /\ LossInv'
          /\ todo' \in Seq(Nat) /\ primes' \in 0..PrimeAttempts /\ stack' \in Seq(Seq(Known))
        BY <2>1, <2>2, AskFresh, Zenon DEF Later
    <2>4. phase' = "children"
        BY <2>1, Zenon DEF Ask
    <2>5. QED
        BY <2>3, <2>4, Zenon DEF WalkType, Later
<1>3. CASE Stop("done") \/ Stop("failed")
    BY <1>3, Zenon DEF Stop, WalkType, Later, DeviceInv, LossInv, Walking
<1>4. QED
    BY <1>1, <1>2, <1>3, OnwardCases, Zenon

\* It keeps the promises on the records.
LEMMA OnwardNodes ==
    ASSUME WalkType, phase \in {"routers", "children"}, goal = None, goal' = goal,
           NEW ns, NEW ans, RouterAnswers(ans), Onward(ns, ans),
           Promised(ns, IF phase = "children" THEN Range(todo) ELSE {})
    PROVE  NodesInv'
<1> DEFINE Rest == IF phase = "children" THEN Range(todo) ELSE {}
<1>1. ASSUME NEW p \in {"routers", "children", "done"}, phase' = p, Promised(nodes', Awaited')
      PROVE  NodesInv'
    BY <1>1, Zenon DEF NodesInv, Promised
<1>2. CASE todo # <<>> /\ Ask(phase, Head(todo), Tail(todo)) /\ nodes' = ns
    <2>1. phase' = phase /\ target' = Head(todo) /\ todo' = Tail(todo)
        BY <1>2, Zenon DEF Ask
    <2>2. Range(todo) = {Head(todo)} \cup Range(Tail(todo))
        BY <1>2, FirstAndRest, Zenon DEF WalkType
    <2>3. Awaited' = Rest
        BY <2>1, <2>2, Zenon DEF Awaited
    <2>4. Promised(nodes', Awaited')
        BY <1>2, <2>3, Zenon
    <2>5. QED
        BY <1>1, <2>1, <2>4, Zenon
<1>3. CASE /\ todo = <<>> /\ phase = "routers"
           /\ \E order \in Seq(Nat) :
                    /\ order # <<>> /\ Range(order) = DOMAIN Children(ans)
                    /\ Ask("children", Head(order), Tail(order))
           /\ nodes' = Extend(ns, Children(ans))
    <2>1. PICK order \in Seq(Nat) : /\ order # <<>> /\ Range(order) = DOMAIN Children(ans)
                                    /\ Ask("children", Head(order), Tail(order))
        BY <1>3, Zenon
    <2>2. phase' = "children" /\ target' = Head(order) /\ todo' = Tail(order)
        BY <2>1, Zenon DEF Ask
    <2>3. Range(order) = {Head(order)} \cup Range(Tail(order))
        BY <2>1, FirstAndRest, Zenon
    <2>4. Awaited' = DOMAIN Children(ans)
        BY <2>1, <2>2, <2>3, Zenon DEF Awaited
    <2>5. ASSUME NEW r \in DOMAIN nodes'
          PROVE  /\ IsNode(nodes'[r], r)
                 /\ Sound' => Told(nodes'[r], faults'.lost)
                 /\ (Sound' /\ r \notin Awaited') => Heard(nodes'[r], r, faults'.lost)
        <3>1. CASE r \in DOMAIN Children(ans)
            <4>1. nodes'[r] = Children(ans)[r]
                BY <1>3, <3>1, Zenon DEF Extend
            <4>2. IsNode(nodes'[r], r) /\ nodes'[r].discovery = "parent-table"
                BY <3>1, <4>1, ChildrenOf, Zenon
            <4>3. QED
                BY <2>4, <3>1, <4>2, Zenon DEF Told
        <3>2. CASE r \notin DOMAIN Children(ans)
            <4>1. r \in DOMAIN ns /\ nodes'[r] = ns[r]
                BY <1>3, <3>2, <2>5, Zenon DEF Extend
            <4>2. QED
                BY <1>3, <4>1, Zenon DEF Promised
        <3>3. QED
            BY <3>1, <3>2, Zenon
    <2>6. QED
        BY <1>1, <2>2, <2>5, Zenon DEF Promised
<1>4. CASE todo = <<>> /\ Stop("done") /\ nodes' = ns
    <2>1. phase' = "done" /\ Awaited' = {}
        BY <1>4, Zenon DEF Stop, Awaited
    <2>2. Rest = {}
        BY <1>4 DEF Range
    <2>3. Promised(nodes', Awaited')
        BY <1>4, <2>1, <2>2, Zenon
    <2>4. QED
        BY <1>1, <2>1, <2>3, Zenon
<1>5. CASE Stop("failed")
    BY <1>5, Zenon DEF Stop, NodesInv
<1>6. QED
    BY <1>2, <1>3, <1>4, <1>5, OnwardCases, Zenon

\* The records after a router's or a child's answer say what was heard.
LEMMA OnwardMesh ==
    ASSUME WalkType, phase \in {"routers", "children"},
           NEW ns, NEW ans, RouterAnswers(ans), Onward(ns, ans), answers' = ans, Recorded(ns, ans),
           phase = "routers" =>
                /\ Range(todo) \subseteq RoutersOfMesh /\ IsInjective(todo)
                /\ Range(todo) \cap DOMAIN ns = {} /\ \A r \in DOMAIN ns : ~IsChild(r),
           phase = "children" => Range(todo) \subseteq {c \in DOMAIN ns : IsChild(c)}
    PROVE  MeshInv'
<1>1. CASE todo # <<>> /\ Ask(phase, Head(todo), Tail(todo)) /\ nodes' = ns
    <2>1. phase' = phase /\ target' = Head(todo) /\ todo' = Tail(todo)
        BY <1>1, Zenon DEF Ask
    <2>2. /\ Range(todo) = {Head(todo)} \cup Range(Tail(todo))
          /\ IsInjective(todo) => Head(todo) \notin Range(Tail(todo)) /\ IsInjective(Tail(todo))
        BY <1>1, FirstAndRest, Zenon DEF WalkType
    <2>3. Range(todo) = {target'} \cup Range(todo')
        BY <2>1, <2>2, Zenon
    <2>4. phase = "routers" => RoutersAhead'
        BY <1>1, <2>1, <2>2, <2>3, Zenon DEF RoutersAhead
    <2>5. QED
        BY <1>1, <2>1, <2>3, <2>4, Zenon DEF MeshInv
<1>2. CASE /\ todo = <<>> /\ phase = "routers"
           /\ \E order \in Seq(Nat) :
                    /\ order # <<>> /\ Range(order) = DOMAIN Children(ans)
                    /\ Ask("children", Head(order), Tail(order))
           /\ nodes' = Extend(ns, Children(ans))
    <2> DEFINE K == Children(ans)
    <2>1. PICK order \in Seq(Nat) : /\ order # <<>> /\ Range(order) = DOMAIN K
                                    /\ Ask("children", Head(order), Tail(order))
        BY <1>2, Zenon
    <2>2. phase' = "children" /\ target' = Head(order) /\ todo' = Tail(order)
        BY <2>1, Zenon DEF Ask
    <2>3. {target'} \cup Range(todo') = DOMAIN K
        BY <2>1, <2>2, FirstAndRest, Zenon
    <2>4. \A c \in DOMAIN K : IsChild(c) /\ ChildRecord(c, K, ans)
        BY ChildrenOf, Zenon
    <2> HIDE DEF K
    <2>5. /\ DOMAIN nodes' = DOMAIN ns \cup DOMAIN K
          /\ \A r \in DOMAIN nodes' : nodes'[r] = IF r \in DOMAIN K THEN K[r] ELSE ns[r]
        BY <1>2, Zenon DEF Extend, K
    <2>6. ASSUME NEW r \in DOMAIN nodes'
          PROVE  IF IsChild(r) THEN ChildRecord(r, nodes', ans) ELSE RouterRecord(r, nodes', ans)
        <3>1. CASE r \in DOMAIN K
            BY <2>4, <2>5, <3>1, Zenon DEF ChildRecord
        <3>2. CASE r \notin DOMAIN K
            <4>1. r \in DOMAIN ns /\ nodes'[r] = ns[r] /\ ~IsChild(r)
                BY <1>2, <2>5, <2>6, <3>2, Zenon
            <4>2. RouterRecord(r, ns, ans)
                BY <4>1, Zenon DEF Recorded
            <4>3. QED
                BY <4>1, <4>2, Zenon DEF RouterRecord
        <3>3. QED
            BY <3>1, <3>2, Zenon
    <2>7. Recorded(nodes', answers')
        BY <2>5, <2>6, Zenon DEF Recorded
    <2>8. QED
        BY <2>2, <2>3, <2>4, <2>5, <2>7, Zenon DEF MeshInv
<1>3. CASE (todo = <<>> /\ Stop("done") /\ nodes' = ns) \/ Stop("failed")
    BY <1>3, Zenon DEF Stop, MeshInv
<1>4. QED
    BY <1>1, <1>2, <1>3, OnwardCases, Zenon

\* If every router that answers was heard, its children are the ones it lists.
LEMMA AllListed ==
    ASSUME NEW ans, RouterAnswers(ans), DOMAIN ans = RoutersOfMesh \cap Reachable,
           \A r \in DOMAIN ans : Of(ans[r], r) /\ "child_table" \in DOMAIN ans[r]
    PROVE  DOMAIN Children(ans) = ListedChildren
<1>1. \A r \in DOMAIN ans : DOMAIN ParentChildren(r, ans[r]) = {r + id : id \in Mesh[r]["child_table"]}
    <2> TAKE r \in DOMAIN ans
    <2>1. ans[r]["child_table"] = Mesh[r]["child_table"] /\ "child_table" \in DOMAIN ans[r]
        BY Zenon DEF Of
    <2>2. DOMAIN ParentChildren(r, ans[r]) = {r + id : id \in ans[r]["child_table"]}
        BY <2>1, Zenon DEF ParentChildren
    <2>3. QED
        BY <2>1, <2>2, Zenon
<1>2. DOMAIN Children(ans) = UNION {DOMAIN ParentChildren(r, ans[r]) : r \in DOMAIN ans}
    BY ChildrenOf, Zenon
<1> DEFINE A(r) == DOMAIN ParentChildren(r, ans[r])
           B(r) == {r + id : id \in Mesh[r]["child_table"]}
<1>3. \A r \in DOMAIN ans : A(r) = B(r)
    BY <1>1, Zenon
<1>4. DOMAIN Children(ans) = UNION {A(r) : r \in DOMAIN ans}
    BY <1>2, Zenon
<1>5. ListedChildren = UNION {B(r) : r \in DOMAIN ans}
    BY Zenon DEF ListedChildren
<1> HIDE DEF A, B
<1>6. UNION {A(r) : r \in DOMAIN ans} = UNION {B(r) : r \in DOMAIN ans}
    BY <1>3, Zenon
<1>7. QED
    BY <1>4, <1>5, <1>6, Zenon

\* A walk that has lost nothing has found everything.
LEMMA OnwardFound ==
    ASSUME WalkType, phase \in {"routers", "children"},
           NEW ns, NEW ans, RouterAnswers(ans), Onward(ns, ans), answers' = ans, Recorded(ns, ans),
           (Sound' /\ faults'.lost = 0) =>
                /\ \A r \in DOMAIN ans : "child_table" \in DOMAIN ans[r]
                /\ phase = "routers" => /\ Range(todo) \cup DOMAIN ns = RoutersOfMesh
                                        /\ Reachable \cap DOMAIN ns \subseteq DOMAIN ans
                /\ phase = "children" => DOMAIN ns = RoutersOfMesh \cup ListedChildren
    PROVE  FoundInv'
<1> SUFFICES ASSUME Sound', faults'.lost = 0
             PROVE  /\ phase' = "routers" =>
                            {target'} \cup Range(todo') \cup DOMAIN nodes' = RoutersOfMesh
                    /\ phase' = "routers" => Reachable \cap DOMAIN nodes' \subseteq DOMAIN answers'
                    /\ phase' \in {"children", "done"} =>
                            DOMAIN nodes' = RoutersOfMesh \cup ListedChildren
    BY Zenon DEF FoundInv
<1>1. ASSUME todo = <<>>, phase = "routers"
      PROVE  DOMAIN ns = RoutersOfMesh /\ DOMAIN Children(ans) = ListedChildren
    <2>1. Range(todo) = {}
        BY <1>1 DEF Range
    <2>2. DOMAIN ns = RoutersOfMesh
        BY <1>1, <2>1, Zenon
    <2>3. DOMAIN ans = RoutersOfMesh \cap Reachable
        BY <1>1, <2>2, Zenon DEF Recorded
    <2>4. QED
        BY <2>2, <2>3, AllListed, Zenon DEF Recorded
<1>2. CASE todo # <<>> /\ Ask(phase, Head(todo), Tail(todo)) /\ nodes' = ns
    <2>1. phase' = phase /\ target' = Head(todo) /\ todo' = Tail(todo)
        BY <1>2, Zenon DEF Ask
    <2>2. Range(todo) = {Head(todo)} \cup Range(Tail(todo))
        BY <1>2, FirstAndRest, Zenon DEF WalkType
    <2>3. QED
        BY <1>2, <2>1, <2>2, Zenon
<1>3. CASE /\ todo = <<>> /\ phase = "routers"
           /\ \E order \in Seq(Nat) :
                    /\ order # <<>> /\ Range(order) = DOMAIN Children(ans)
                    /\ Ask("children", Head(order), Tail(order))
           /\ nodes' = Extend(ns, Children(ans))
    <2>1. phase' = "children"
        BY <1>3, Zenon DEF Ask
    <2>2. DOMAIN nodes' = DOMAIN ns \cup DOMAIN Children(ans)
        BY <1>3, Zenon DEF Extend
    <2>3. QED
        BY <1>1, <1>3, <2>1, <2>2, Zenon
<1>4. CASE /\ todo = <<>> /\ Stop("done") /\ nodes' = ns
           /\ phase = "routers" => DOMAIN Children(ans) = {}
    <2>1. phase' = "done"
        BY <1>4, Zenon DEF Stop
    <2>2. CASE phase = "routers"
        <3>1. DOMAIN ns = RoutersOfMesh /\ ListedChildren = {}
            BY <1>1, <1>4, <2>2, Zenon
        <3>2. QED
            BY <1>4, <2>1, <3>1, Zenon
    <2>3. CASE phase = "children"
        BY <1>4, <2>1, <2>3, Zenon
    <2>4. QED
        BY <2>2, <2>3, Zenon
<1>5. CASE Stop("failed")
    BY <1>5, Zenon DEF Stop
<1>6. QED
    BY <1>2, <1>3, <1>4, <1>5, OnwardCases, Zenon

-----------------------------------------------------------------------------
(* A device is done *)

\* A device that answered is reachable, and lacks no more than was lost.
LEMMA FoundTells ==
    ASSUME WalkType, DeviceInv, LossInv, Walking, Finished(TRUE)
    PROVE  /\ Device \in Reachable /\ Of(merged, Device) /\ DOMAIN merged \subseteq {"mac"} \cup Tlvs
           /\ IsFiniteSet(Obtainable \ DOMAIN merged)
           /\ Sound' => Cardinality(Obtainable \ DOMAIN merged) <= faults'.lost
<1>1. primes = 0 /\ stack = <<>> /\ faults.lost <= faults'.lost /\ (Sound' => Sound)
    BY Zenon DEF Finished, Later
<1>2. AllIn(stack) = {}
    BY <1>1 DEF AllIn
<1>3. Missed = Obtainable \ DOMAIN merged
    BY <1>2, Zenon DEF Missed
<1>4. IsFiniteSet(Obtainable \ DOMAIN merged)
    <2>1. Obtainable \ DOMAIN merged \subseteq Known /\ IsFiniteSet(Known)
        BY TlvsKnown, Zenon DEF Obtainable, Tlvs
    <2>2. QED
        BY <2>1, FS_Subset, Zenon
<1> DEFINE m == Cardinality(Obtainable \ DOMAIN merged)
<1>5. m \in Nat
    BY <1>4, FS_CardinalityType, Zenon
<1>6. Sound' => m <= faults.lost
    BY <1>1, <1>3, Zenon DEF LossInv
<1>7. faults.lost \in Nat /\ faults'.lost \in Nat
    BY Zenon DEF WalkType, Finished, Later
<1> HIDE DEF m
<1>8. Sound' => m <= faults'.lost
    BY <1>1, <1>5, <1>6, <1>7
<1>9. QED
    BY <1>1, <1>4, <1>8, Zenon DEF DeviceInv, m

\* Without a loss it lacks nothing.
LEMMA NothingLacks ==
    ASSUME WalkType, DeviceInv, LossInv, Walking, Finished(TRUE), Sound', faults'.lost = 0
    PROVE  Obtainable \subseteq DOMAIN merged
<1>1. IsFiniteSet(Obtainable \ DOMAIN merged) /\ Cardinality(Obtainable \ DOMAIN merged) <= 0
    BY FoundTells, Zenon
<1>2. Cardinality(Obtainable \ DOMAIN merged) \in Nat
    BY <1>1, FS_CardinalityType, Zenon
<1>3. Cardinality(Obtainable \ DOMAIN merged) = 0
    BY <1>1, <1>2
<1>4. Obtainable \ DOMAIN merged = {}
    BY <1>1, <1>3, FS_EmptySet, Zenon
<1>5. QED
    BY <1>4, Zenon

\* Its record lacks no more either.
LEMMA DirectTold ==
    ASSUME WalkType, DeviceInv, LossInv, Walking, phase # "discover", Finished(TRUE), Sound',
           NEW n, n.rloc = target, DOMAIN merged \ {"mac", "child_ipv6"} \subseteq n.tlvs,
           Tlvs = Range(IF n.role = "child" THEN ChildTlvs ELSE RouterTlvs)
    PROVE  Told(n, faults'.lost)
<1> DEFINE A == Wanted(n) \ n.tlvs
           B == Obtainable \ DOMAIN merged
<1>1. IsFiniteSet(B) /\ Cardinality(B) <= faults'.lost
    BY FoundTells, Zenon
<1>2. Device = target
    BY Zenon DEF Device
<1>3. "mac" \notin Tlvs
    <2>1. "mac" \notin Range(ChildTlvs) /\ "mac" \notin Range(RouterTlvs)
        BY TlvContents, Zenon
    <2>2. QED
        BY <2>1, Zenon
<1>4. Wanted(n) \subseteq Obtainable \ {"mac", "child_ipv6"}
    BY <1>2, <1>3, Zenon DEF Wanted, Obtainable
<1>5. A \subseteq B
    BY <1>4, Zenon
<1>6. IsFiniteSet(A) /\ Cardinality(A) <= Cardinality(B)
    BY <1>1, <1>5, FS_Subset, Zenon
<1> DEFINE a == Cardinality(A)
           b == Cardinality(B)
<1>7. a \in Nat /\ b \in Nat /\ a <= b /\ b <= faults'.lost
    BY <1>1, <1>6, FS_CardinalityType, Zenon
<1>8. faults'.lost \in Nat
    BY Zenon DEF Finished, Later
<1> HIDE DEF a, b
<1>9. a <= faults'.lost
    BY <1>7, <1>8
<1>10. QED
    BY <1>9, Zenon DEF a, Told

\* What was answered stays as good.
LEMMA RecordsKept ==
    ASSUME WalkType, NodesInv, phase # "failed", Later
    PROVE  \A r \in DOMAIN nodes :
                /\ IsNode(nodes[r], r)
                /\ Sound' => Told(nodes[r], faults'.lost)
                /\ (Sound' /\ r \notin Awaited) => Heard(nodes[r], r, faults'.lost)
<1> TAKE r \in DOMAIN nodes
<1>1. faults.lost \in Nat /\ faults'.lost \in Nat /\ faults.lost <= faults'.lost /\ (Sound' => Sound)
    BY Zenon DEF WalkType, Later
<1>2. /\ IsNode(nodes[r], r)
      /\ Sound => Told(nodes[r], faults.lost)
      /\ (Sound /\ r \notin Awaited) => Heard(nodes[r], r, faults.lost)
    BY Zenon DEF NodesInv
<1>3. /\ Told(nodes[r], faults.lost) => Told(nodes[r], faults'.lost)
      /\ Heard(nodes[r], r, faults.lost) => Heard(nodes[r], r, faults'.lost)
    BY <1>1, PromisesKept, Zenon
<1>4. QED
    BY <1>1, <1>2, <1>3, Zenon

\* A router's answer, or its silence, is recorded.
LEMMA RouterStep ==
    ASSUME WalkInv, phase = "routers", NEW found \in BOOLEAN, Finished(found),
           RouterDone(found), goal' = goal
    PROVE  WalkInv'
<1> DEFINE role == IF target = leader THEN "leader" ELSE "router"
           node == IF found THEN FromDiag(target, role, merged)
                   ELSE Skeleton(target, role, "unreachable")
           ns == Extend(nodes, Only(target, node))
           ans == answers'
<1>1. /\ ans = IF found THEN Extend(answers, Only(target, merged)) ELSE answers
      /\ Onward(ns, ans)
    BY Zenon DEF RouterDone
<1>2. /\ WalkType /\ DeviceInv /\ LossInv /\ NodesInv /\ MeshInv /\ FoundInv
      /\ goal = None /\ Walking /\ Later /\ Device = target
      /\ Recorded(nodes, answers) /\ RoutersAhead /\ Awaited = {}
    BY Zenon DEF WalkInv, NodesInv, MeshInv, Walking, Finished, Device, Awaited
<1>3. Tlvs = Range(RouterTlvs)
    BY Zenon DEF Tlvs, TlvsFor
<1>4. /\ target \in RoutersOfMesh /\ ~IsChild(target) /\ target \notin DOMAIN nodes
      /\ target \notin DOMAIN answers
    BY <1>2, Zenon DEF RoutersAhead, RoutersOfMesh, Recorded
<1>5. found => target \in Reachable /\ Of(merged, target)
    BY <1>2, FoundTells, Zenon
<1>6. role \in {"leader", "router"} /\ role # "child"
    BY Zenon
<1>7. /\ IsNode(node, target) /\ node.role = role
      /\ node.discovery = IF found THEN "direct" ELSE "unreachable"
      /\ found => DOMAIN merged \ {"mac", "child_ipv6"} \subseteq node.tlvs
    <2>1. CASE found
        BY <1>5, <2>1, DirectRecord
    <2>2. CASE ~found
        BY <2>2, SkeletonRecord
    <2>3. QED
        BY <2>1, <2>2, Zenon
<1>8. node = IF found THEN FromDiag(target, role, merged) ELSE Skeleton(target, role, "unreachable")
    BY Zenon
<1>9. /\ DOMAIN ns = DOMAIN nodes \cup {target} /\ ns[target] = node
      /\ \A r \in DOMAIN nodes : ns[r] = nodes[r]
    BY <1>4, Zenon DEF Extend, Only
<1>10. /\ DOMAIN ans = DOMAIN answers \cup (IF found THEN {target} ELSE {})
       /\ found => ans[target] = merged
       /\ \A r \in DOMAIN answers : ans[r] = answers[r]
    BY <1>1, <1>4, Zenon DEF Extend, Only
<1> HIDE DEF role, node, ns, ans
<1>11. Recorded(ns, ans)
    <2>1. ASSUME NEW r \in DOMAIN ans
          PROVE  r \in DOMAIN ns \cap Reachable /\ ~IsChild(r) /\ Of(ans[r], r)
        <3>1. CASE r \in DOMAIN answers
            BY <1>2, <1>9, <1>10, <3>1, Zenon DEF Recorded
        <3>2. CASE found /\ r = target
            BY <1>4, <1>5, <1>9, <1>10, <3>2
        <3>3. QED
            BY <1>10, <2>1, <3>1, <3>2, Zenon
    <2>2. ASSUME NEW r \in DOMAIN ns
          PROVE  IF IsChild(r) THEN ChildRecord(r, ns, ans) ELSE RouterRecord(r, ns, ans)
        <3>1. CASE r \in DOMAIN nodes
            <4>1. ~IsChild(r) /\ RouterRecord(r, nodes, answers) /\ r # target
                BY <1>2, <1>4, <3>1, Zenon DEF Recorded, RoutersAhead
            <4>2. r \in DOMAIN ans <=> r \in DOMAIN answers
                BY <1>10, <4>1, Zenon
            <4>3. ns[r] = nodes[r] /\ (r \in DOMAIN ans => ans[r] = answers[r])
                BY <1>9, <1>10, <3>1, <4>2, Zenon
            <4>4. QED
                BY <4>1, <4>2, <4>3, Zenon DEF RouterRecord
        <3>2. CASE r = target
            <4>1. r \in DOMAIN ans <=> found
                BY <1>4, <1>10, <3>2, Zenon
            <4>2. RouterRecord(r, ns, ans)
                BY <1>4, <1>6, <1>7, <1>8, <1>9, <1>10, <3>2, <4>1 DEF RouterRecord
            <4>3. QED
                BY <1>4, <3>2, <4>2, Zenon
        <3>3. QED
            BY <1>9, <2>2, <3>1, <3>2, Zenon
    <2>3. QED
        BY <2>1, <2>2, Zenon DEF Recorded
<1>12. RouterAnswers(ans)
    BY <1>11, AnswersOfRouters, Zenon
<1>13. Promised(ns, {})
    <2> SUFFICES ASSUME NEW r \in DOMAIN ns
                 PROVE  /\ IsNode(ns[r], r)
                        /\ Sound' => Told(ns[r], faults'.lost)
                        /\ Sound' => Heard(ns[r], r, faults'.lost)
        BY Zenon DEF Promised
    <2>1. CASE r \in DOMAIN nodes
        BY <1>2, <1>9, <2>1, RecordsKept, Zenon
    <2>2. CASE r = target
        <3>1. ns[r] = node /\ node.rloc = target
            BY <1>7, <1>9, <2>2, Zenon DEF IsNode
        <3>2. Sound' => Told(node, faults'.lost)
            <4>1. CASE found
                <5>1. Finished(TRUE)
                    BY <4>1, Zenon
                <5>2. Tlvs = Range(IF node.role = "child" THEN ChildTlvs ELSE RouterTlvs)
                    BY <1>3, <1>6, <1>7, Zenon
                <5>3. QED
                    BY <1>2, <1>7, <3>1, <4>1, <5>1, <5>2, DirectTold
            <4>2. CASE ~found
                BY <1>7, <4>2, Zenon DEF Told
            <4>3. QED
                BY <4>1, <4>2, Zenon
        <3>3. Sound' => Heard(node, target, faults'.lost)
            <4>1. CASE found
                BY <1>7, <4>1, Zenon DEF Heard
            <4>2. CASE ~found
                <5>1. (Sound' /\ target \in Reachable) => PrimeAttempts <= faults'.lost
                    BY <1>2, <4>2, Zenon DEF Finished
                <5>2. PrimeAttempts \in Nat /\ faults'.lost \in Nat
                    BY <1>2, CollectorAssumption, Zenon DEF Later
                <5>3. (Sound' /\ target \in Reachable) => ~(faults'.lost < PrimeAttempts)
                    BY <5>1, <5>2
                <5>4. QED
                    BY <5>3, Zenon DEF Heard
            <4>3. QED
                BY <4>1, <4>2, Zenon
        <3>4. QED
            BY <1>7, <2>2, <3>1, <3>2, <3>3, Zenon
    <2>3. QED
        BY <1>9, <2>1, <2>2, Zenon
<1>14. /\ Range(todo) \subseteq RoutersOfMesh /\ IsInjective(todo)
       /\ Range(todo) \cap DOMAIN ns = {} /\ \A r \in DOMAIN ns : ~IsChild(r)
    BY <1>2, <1>4, <1>9, Zenon DEF RoutersAhead
<1>15. ASSUME Sound', faults'.lost = 0
       PROVE  /\ \A r \in DOMAIN ans : "child_table" \in DOMAIN ans[r]
              /\ Range(todo) \cup DOMAIN ns = RoutersOfMesh
              /\ Reachable \cap DOMAIN ns \subseteq DOMAIN ans
    <2>1. Sound /\ faults.lost = 0
        <3>1. faults.lost \in Nat /\ faults.lost <= 0
            BY <1>2, <1>15, Zenon DEF WalkType, Later
        <3>2. QED
            BY <1>2, <1>15, <3>1 DEF Later
    <2>2. /\ \A r \in DOMAIN answers : "child_table" \in DOMAIN answers[r]
          /\ {target} \cup Range(todo) \cup DOMAIN nodes = RoutersOfMesh
          /\ Reachable \cap DOMAIN nodes \subseteq DOMAIN answers
        BY <1>2, <2>1, Zenon DEF FoundInv
    <2>3. found => "child_table" \in DOMAIN merged
        <3> SUFFICES ASSUME found PROVE "child_table" \in DOMAIN merged
            BY Zenon
        <3>1. Finished(TRUE)
            BY Zenon
        <3>2. Obtainable \subseteq DOMAIN merged
            BY <1>2, <1>15, <3>1, NothingLacks, Zenon
        <3>3. "child_table" \in Tlvs
            BY <1>3, TlvContents, Zenon
        <3>4. "child_table" \in DOMAIN Mesh[target] /\ Size["child_table"] <= Cap
            <4>1. "child_table" \in DOMAIN Mesh[target]
                BY <1>4, RlocAssumption
            <4>2. Size["child_table"] <= Cap
                BY SizesAssumption, Zenon
            <4>3. QED
                BY <4>1, <4>2
        <3>5. "child_table" \in Obtainable
            BY <1>2, <3>3, <3>4, Zenon DEF Obtainable
        <3>6. QED
            BY <3>2, <3>5, Zenon
    <2>4. (~found) => target \notin Reachable
        <3>1. (~found /\ target \in Reachable) => PrimeAttempts <= 0
            BY <1>2, <1>15, Zenon DEF Finished
        <3>2. PrimeAttempts \in Nat \ {0}
            BY CollectorAssumption, Zenon
        <3>3. QED
            BY <3>1, <3>2
    <2>5. \A r \in DOMAIN ans : "child_table" \in DOMAIN ans[r]
        BY <1>10, <2>2, <2>3, Zenon
    <2>6. Range(todo) \cup DOMAIN ns = RoutersOfMesh
        BY <1>9, <2>2, Zenon
    <2>7. Reachable \cap DOMAIN ns \subseteq DOMAIN ans
        BY <1>9, <1>10, <2>2, <2>4, Zenon
    <2>8. QED
        BY <2>5, <2>6, <2>7, Zenon
<1>16. WalkType' /\ DeviceInv' /\ LossInv'
    BY <1>1, <1>2, <1>12, OnwardDevice, Zenon
<1>17. NodesInv'
    BY <1>1, <1>2, <1>12, <1>13, OnwardNodes
<1>18. MeshInv'
    BY <1>1, <1>2, <1>11, <1>12, <1>14, OnwardMesh DEF ans
<1>19. FoundInv'
    BY <1>1, <1>2, <1>11, <1>12, <1>15, OnwardFound DEF ans
<1>20. QED
    BY <1>16, <1>17, <1>18, <1>19, Zenon DEF WalkInv

\* A child's own answer is merged into its record.
LEMMA ChildStep ==
    ASSUME WalkInv, phase = "children", NEW found \in BOOLEAN, Finished(found),
           ChildDone(found), goal' = goal
    PROVE  WalkInv'
<1> DEFINE node == IF found THEN MergeDiag(nodes[target], merged) ELSE nodes[target]
           ns == IF found THEN Extend(nodes, Only(target, MergeDiag(nodes[target], merged))) ELSE nodes
<1>1. Onward(ns, answers) /\ answers' = answers
    BY Zenon DEF ChildDone
<1>2. /\ WalkType /\ DeviceInv /\ LossInv /\ NodesInv /\ MeshInv /\ FoundInv
      /\ goal = None /\ Walking /\ Later /\ Device = target
      /\ Recorded(nodes, answers) /\ Awaited = {target} \cup Range(todo)
      /\ {target} \cup Range(todo) \subseteq {c \in DOMAIN nodes : IsChild(c)}
    BY Zenon DEF WalkInv, NodesInv, MeshInv, Walking, Finished, Device, Awaited
<1>3. Tlvs = Range(ChildTlvs)
    BY Zenon DEF Tlvs, TlvsFor
<1>4. /\ target \in DOMAIN nodes /\ IsChild(target) /\ ChildRecord(target, nodes, answers)
      /\ IsNode(nodes[target], target)
    BY <1>2, Zenon DEF Recorded, NodesInv
<1>5. found => target \in Reachable /\ DOMAIN merged \subseteq {"mac"} \cup Tlvs
    BY <1>2, FoundTells, Zenon
<1>6. {"route64", "child_table"} \cap ({"mac"} \cup Range(ChildTlvs)) = {}
    BY TlvContents, Zenon
<1>7. /\ IsNode(node, target) /\ node.role = nodes[target].role
      /\ node.parent = nodes[target].parent /\ node.routes = nodes[target].routes
      /\ node.children = nodes[target].children
      /\ found => /\ node.discovery = "direct"
                  /\ DOMAIN merged \ {"mac", "child_ipv6"} \subseteq node.tlvs
      /\ ~found => node = nodes[target]
    <2>1. CASE found
        <3>1. "route64" \notin DOMAIN merged /\ "child_table" \notin DOMAIN merged
            BY <1>3, <1>5, <1>6, <2>1, Zenon
        <3>2. QED
            BY <1>4, <1>5, <2>1, <3>1, MergedRecord
    <2>2. CASE ~found
        BY <1>4, <2>2, Zenon
    <2>3. QED
        BY <2>1, <2>2, Zenon
<1>8. /\ DOMAIN ns = DOMAIN nodes /\ ns[target] = node
      /\ \A r \in DOMAIN nodes : r # target => ns[r] = nodes[r]
    BY <1>4, Zenon DEF Extend, Only
<1> HIDE DEF node, ns
<1>9. Recorded(ns, answers)
    <2>1. ASSUME NEW r \in DOMAIN ns
          PROVE  IF IsChild(r) THEN ChildRecord(r, ns, answers) ELSE RouterRecord(r, ns, answers)
        <3>1. CASE r = target
            <4>1. ChildRecord(r, ns, answers)
                BY <1>4, <1>7, <1>8, <3>1, Zenon DEF ChildRecord
            <4>2. QED
                BY <1>4, <3>1, <4>1, Zenon
        <3>2. CASE r # target
            <4>1. r \in DOMAIN nodes /\ ns[r] = nodes[r]
                BY <1>8, <3>2, Zenon
            <4>2. IF IsChild(r) THEN ChildRecord(r, nodes, answers)
                  ELSE RouterRecord(r, nodes, answers)
                BY <1>2, <4>1, Zenon DEF Recorded
            <4>3. QED
                BY <4>1, <4>2, Zenon DEF ChildRecord, RouterRecord
        <3>3. QED
            BY <3>1, <3>2, Zenon
    <2>2. \A r \in DOMAIN answers : r \in DOMAIN ns \cap Reachable /\ ~IsChild(r) /\ Of(answers[r], r)
        BY <1>2, <1>8, Zenon DEF Recorded
    <2>3. QED
        BY <2>1, <2>2, Zenon DEF Recorded
<1>10. RouterAnswers(answers)
    BY <1>9, AnswersOfRouters, Zenon
<1>11. Promised(ns, Range(todo))
    <2> SUFFICES ASSUME NEW r \in DOMAIN ns
                 PROVE  /\ IsNode(ns[r], r)
                        /\ Sound' => Told(ns[r], faults'.lost)
                        /\ (Sound' /\ r \notin Range(todo)) => Heard(ns[r], r, faults'.lost)
        BY Zenon DEF Promised
    <2>1. /\ IsNode(nodes[r], r)
          /\ Sound' => Told(nodes[r], faults'.lost)
          /\ (Sound' /\ r \notin Awaited) => Heard(nodes[r], r, faults'.lost)
        BY <1>2, <1>8, RecordsKept, Zenon
    <2>2. CASE r # target
        BY <1>2, <1>8, <2>1, <2>2, Zenon
    <2>3. CASE r = target /\ found
        <3>1. ns[r] = node /\ node.rloc = target /\ Finished(TRUE)
            BY <1>7, <1>8, <2>3, Zenon DEF IsNode
        <3>2. Tlvs = Range(IF node.role = "child" THEN ChildTlvs ELSE RouterTlvs)
            BY <1>3, <1>4, <1>7, Zenon DEF ChildRecord
        <3>3. Sound' => Told(node, faults'.lost)
            BY <1>2, <1>7, <2>3, <3>1, <3>2, DirectTold, Zenon
        <3>4. Heard(node, r, faults'.lost)
            BY <1>7, <2>3, Zenon DEF Heard
        <3>5. QED
            BY <1>7, <2>3, <3>1, <3>3, <3>4
    <2>4. CASE r = target /\ ~found
        <3>1. ns[r] = nodes[r]
            BY <1>7, <1>8, <2>4, Zenon
        <3>2. (Sound' /\ r \in Reachable) => PrimeAttempts <= faults'.lost
            BY <1>2, <2>4, Zenon DEF Finished
        <3>3. PrimeAttempts \in Nat /\ faults'.lost \in Nat
            BY <1>2, CollectorAssumption, Zenon DEF Later
        <3>4. (Sound' /\ r \in Reachable) => ~(faults'.lost < PrimeAttempts)
            BY <3>2, <3>3
        <3>5. Sound' => Heard(nodes[r], r, faults'.lost)
            BY <3>4, Zenon DEF Heard
        <3>6. QED
            BY <2>1, <3>1, <3>5, Zenon
    <2>5. QED
        BY <2>2, <2>3, <2>4, Zenon
<1>12. Range(todo) \subseteq {c \in DOMAIN ns : IsChild(c)}
    BY <1>2, <1>8, Zenon
<1>13. ASSUME Sound', faults'.lost = 0
       PROVE  /\ \A r \in DOMAIN answers : "child_table" \in DOMAIN answers[r]
              /\ DOMAIN ns = RoutersOfMesh \cup ListedChildren
    <2>1. Sound /\ faults.lost = 0
        <3>1. faults.lost \in Nat /\ faults.lost <= 0
            BY <1>2, <1>13, Zenon DEF WalkType, Later
        <3>2. QED
            BY <1>2, <1>13, <3>1 DEF Later
    <2>2. QED
        BY <1>2, <1>8, <2>1, Zenon DEF FoundInv
<1>14. WalkType' /\ DeviceInv' /\ LossInv'
    BY <1>1, <1>2, <1>10, OnwardDevice, Zenon
<1>15. NodesInv'
    BY <1>1, <1>2, <1>10, <1>11, OnwardNodes
<1>16. MeshInv'
    BY <1>1, <1>2, <1>9, <1>10, <1>12, OnwardMesh
<1>17. FoundInv'
    BY <1>1, <1>2, <1>9, <1>10, <1>13, OnwardFound
<1>18. QED
    BY <1>14, <1>15, <1>16, <1>17, Zenon DEF WalkInv

\* A list over a set is one over a larger set.
LEMMA SeqWithin ==
    ASSUME NEW S, NEW T, S \subseteq T, NEW q \in Seq(S)
    PROVE  q \in Seq(T)
OBVIOUS

\* The walk ends.
LEMMA StopStep ==
    ASSUME WalkInv, Later, NEW p \in {"done", "failed"}, Stop(p), goal' = goal
    PROVE  WalkType' /\ DeviceInv' /\ LossInv' /\ (p = "failed" => WalkInv')
<1>1. phase' = p /\ todo' = todo /\ primes' = primes /\ stack' = stack
    BY Zenon DEF Stop
<1>2. WalkType'
    BY <1>1, Zenon DEF WalkInv, WalkType, Later
<1>3. DeviceInv' /\ LossInv'
    BY <1>1, Zenon DEF DeviceInv, LossInv, Walking
<1>4. p = "failed" => NodesInv' /\ MeshInv' /\ FoundInv'
    BY <1>1, Zenon DEF NodesInv, MeshInv, FoundInv
<1>5. QED
    BY <1>2, <1>3, <1>4, Zenon DEF WalkInv

\* The routers of the leader's Route64 are the routers.
LEMMA LeaderKnowsRouters ==
    {RouterRloc(e.id) : e \in Mesh[Leader]["route64"]} = RoutersOfMesh
<1>1. Leader \in RoutersOfMesh
    BY MeshAssumption, Zenon
<1>2. \A e \in Mesh[Leader]["route64"] : RouterRloc(e.id) \in RoutersOfMesh
    BY <1>1, MeshAssumption, Zenon
<1>3. ASSUME NEW o \in RoutersOfMesh PROVE \E e \in Mesh[Leader]["route64"] : o = RouterRloc(e.id)
    <2>1. PICK e \in Entries(Leader, o) : TRUE
        BY <1>1, MeshAssumption, Zenon
    <2>2. e \in Mesh[Leader]["route64"] /\ e.id = RouterId(o)
        BY DEF Entries
    <2>3. o \in Nat /\ ~IsChild(o)
        BY RlocAssumption DEF RoutersOfMesh
    <2>4. RouterRloc(RouterId(o)) = o
        BY <2>3, RlocOfRouter, Zenon
    <2>5. QED
        BY <2>2, <2>4, Zenon
<1>4. QED
    BY <1>2, <1>3, Zenon

\* The leader's answer gives the routers to ask.
LEMMA DiscoveredOrder ==
    ASSUME WalkInv, phase = "discover", Finished(TRUE), Discovered
    PROVE  \E order \in Seq(Nat) :
                /\ order # <<>> /\ IsInjective(order) /\ Range(order) \subseteq RoutersOfMesh
                /\ "route64" \in DOMAIN merged => Range(order) = RoutersOfMesh
                /\ Ask("routers", Head(order), Tail(order))
<1> DEFINE S == {RouterRloc(e.id) : e \in merged["route64"]}
           routers == IF "route64" \in DOMAIN merged THEN Ascending(S) ELSE <<>>
           order == IF Leader \in Range(routers) THEN routers ELSE Append(routers, Leader)
<1>1. WalkType /\ DeviceInv /\ LossInv /\ Walking /\ Device = Leader /\ primes = 0
    BY Zenon DEF WalkInv, Walking, Device, Finished
<1>2. "mac" \in DOMAIN merged /\ merged["mac"] = Leader
    <2>1. "mac" \in DOMAIN Mesh[Leader] /\ Mesh[Leader]["mac"] = Leader
        BY MeshAssumption, Zenon
    <2>2. "mac" \in DOMAIN merged /\ Of(merged, Leader)
        BY <1>1, <2>1, Zenon DEF DeviceInv
    <2>3. QED
        BY <2>1, <2>2, Zenon DEF Of
<1>3. Ask("routers", Head(order), Tail(order))
    BY <1>2 DEF Discovered
<1>4. Leader \in RoutersOfMesh /\ Leader \in Nat
    BY MeshAssumption, RlocAssumption DEF RoutersOfMesh
<1>5. CASE "route64" \in DOMAIN merged
    <2>1. S = RoutersOfMesh
        <3>1. merged["route64"] = Mesh[Leader]["route64"]
            BY <1>1, <1>5 DEF DeviceInv, Of
        <3>2. QED
            BY <3>1, LeaderKnowsRouters, Zenon
    <2>2. RoutersOfMesh \in SUBSET Nat /\ \A r \in RoutersOfMesh : r <= 65536
        <3>1. \A r \in DOMAIN Mesh : r \in Nat /\ r < 65536
            BY RlocAssumption
        <3>2. \A r \in RoutersOfMesh : r \in Nat /\ r <= 65536
            BY <3>1 DEF RoutersOfMesh
        <3>3. QED
            BY <3>2
    <2>3. IsFiniteSet(RoutersOfMesh)
        BY <2>2, FS_BoundedSetOfNaturals
    <2> DEFINE q == Ascending(RoutersOfMesh)
    <2>4. q \in Seq(RoutersOfMesh) /\ Range(q) = RoutersOfMesh /\ IsInjective(q)
        <3>1. RoutersOfMesh \subseteq Nat
            BY <2>2
        <3>2. QED
            BY <2>3, <3>1, AscendingOf, Zenon
    <2> HIDE DEF q
    <2>5. q \in Seq(Nat)
        <3>1. RoutersOfMesh \subseteq Nat /\ q \in Seq(RoutersOfMesh)
            BY <2>2, <2>4
        <3>2. QED
            BY <3>1, SeqWithin, Zenon
    <2>6. PICK i \in DOMAIN q : q[i] = Leader
        BY <1>4, <2>4 DEF Range
    <2>7. Leader \in Range(q) /\ q # <<>>
        BY <2>5, <2>6 DEF Range
    <2>8. order = q
        BY <1>5, <2>1, <2>7, Zenon DEF q
    <2>9. QED
        BY <1>3, <2>4, <2>5, <2>7, <2>8, Zenon
<1>6. CASE "route64" \notin DOMAIN merged
    <2>1. Leader \notin Range(<<>>)
        BY DEF Range
    <2>2. order = <<Leader>>
        BY <1>6, <2>1
    <2>3. /\ <<Leader>> \in Seq(Nat) /\ <<Leader>> # <<>> /\ Range(<<Leader>>) = {Leader}
          /\ IsInjective(<<Leader>>)
        BY <1>4 DEF Range, IsInjective
    <2>4. QED
        BY <1>3, <1>4, <1>6, <2>2, <2>3, Zenon
<1>7. QED
    BY <1>5, <1>6, Zenon

\* The leader's answer sends the walk to the routers it names, each once.
LEMMA DiscoverStep ==
    ASSUME WalkInv, phase = "discover", Finished(TRUE), Discovered, goal' = goal
    PROVE  WalkInv'
<1>1. PICK order \in Seq(Nat) :
                /\ order # <<>> /\ IsInjective(order) /\ Range(order) \subseteq RoutersOfMesh
                /\ "route64" \in DOMAIN merged => Range(order) = RoutersOfMesh
                /\ Ask("routers", Head(order), Tail(order))
    BY DiscoveredOrder
<1>2. phase' = "routers" /\ target' = Head(order) /\ todo' = Tail(order)
    BY <1>1 DEF Ask
<1>3. /\ Tail(order) \in Seq(Nat) /\ Range(order) = {target'} \cup Range(todo')
      /\ target' \notin Range(todo') /\ IsInjective(todo')
    BY <1>1, <1>2, FirstAndRest
<1>4. Later /\ nodes = Empty /\ answers = Empty /\ goal = None /\ nodes' = nodes /\ answers' = answers
    BY DEF WalkInv, NodesInv, Finished, Discovered
<1>5. DOMAIN nodes' = {} /\ DOMAIN answers' = {}
    BY <1>4 DEF Empty
<1>6. WalkType' /\ DeviceInv' /\ LossInv'
    <2>1. /\ DeviceInv' /\ LossInv'
          /\ todo' \in Seq(Nat) /\ primes' \in 0..PrimeAttempts /\ stack' \in Seq(Seq(Known))
        BY <1>1, <1>3, <1>4, AskFresh, Zenon DEF Later
    <2>2. QED
        BY <1>2, <1>4, <2>1 DEF WalkType, Later
<1>7. NodesInv'
    BY <1>2, <1>4, <1>5 DEF NodesInv
<1>8. MeshInv'
    <2>1. Recorded(nodes', answers')
        BY <1>5 DEF Recorded
    <2>2. RoutersAhead'
        BY <1>1, <1>3, <1>5 DEF RoutersAhead
    <2>3. QED
        BY <1>2, <2>1, <2>2 DEF MeshInv
<1>9. FoundInv'
    <2> SUFFICES ASSUME Sound', faults'.lost = 0
                 PROVE  {target'} \cup Range(todo') \cup DOMAIN nodes' = RoutersOfMesh
        BY <1>2, <1>5 DEF FoundInv
    <2>1. Obtainable \subseteq DOMAIN merged
        BY NothingLacks DEF WalkInv, Walking
    <2>2. "route64" \in Tlvs
        BY TlvContents DEF Tlvs, TlvsFor
    <2>3. "route64" \in DOMAIN Mesh[Leader]
        BY MeshAssumption
    <2>4. Size["route64"] <= Cap
        BY SizesAssumption
    <2>5. "route64" \in Obtainable
        BY <2>2, <2>3, <2>4 DEF Obtainable, Device
    <2>6. QED
        BY <1>1, <1>3, <1>5, <2>1, <2>5
<1>10. QED
    BY <1>6, <1>7, <1>8, <1>9 DEF WalkInv

\* A walk to one node ends with its record.
LEMMA OneRecord ==
    ASSUME WalkInv, Later, goal # None, goal' = goal, Stop("done"), NEW n, NEW r, nodes' = Only(r, n),
           IsNode(n, r), Sound' => Told(n, faults'.lost) /\ Heard(n, r, faults'.lost)
    PROVE  WalkInv'
<1>1. WalkType' /\ DeviceInv' /\ LossInv'
    BY StopStep
<1>2. phase' = "done"
    BY DEF Stop
<1>3. DOMAIN nodes' = {r} /\ nodes'[r] = n
    BY DEF Only
<1>4. NodesInv'
    BY <1>2, <1>3 DEF NodesInv
<1>5. MeshInv' /\ FoundInv'
    BY Zenon DEF MeshInv, FoundInv
<1>6. QED
    BY <1>1, <1>4, <1>5 DEF WalkInv

\* Enough losses excuse the walk.
LEMMA Excused ==
    ASSUME Later, NEW n, NEW r, (Sound' /\ r \in Reachable) => PrimeAttempts <= faults'.lost
    PROVE  Sound' => Heard(n, r, faults'.lost)
<1>1. PrimeAttempts \in Nat /\ faults'.lost \in Nat
    BY CollectorAssumption DEF Later
<1>2. (Sound' /\ r \in Reachable) => ~(faults'.lost < PrimeAttempts)
    BY <1>1
<1>3. QED
    BY <1>2 DEF Heard

\* The one node that is asked for.
LEMMA NodeStep ==
    ASSUME WalkInv, phase = "node", NEW found \in BOOLEAN, Finished(found), NodeDone(found), goal' = goal
    PROVE  WalkInv'
<1>1. /\ WalkType /\ DeviceInv /\ LossInv /\ NodesInv /\ Walking /\ Later
      /\ goal # None /\ target = goal /\ Device = target /\ nodes = Empty /\ answers = Empty
    BY DEF WalkInv, NodesInv, Walking, Finished, Device
<1>2. CASE found
    <2> DEFINE role == ResolveRole(target, merged)
               n == FromDiag(target, role, merged)
    <2>1. nodes' = Only(target, n) /\ Stop("done") /\ Finished(TRUE)
        BY <1>2, Zenon DEF NodeDone
    <2>2. target \in Reachable
        BY <1>1, <2>1, FoundTells
    <2>3. /\ IsNode(n, target) /\ n.discovery = "direct" /\ n.role = role /\ n.rloc = target
          /\ DOMAIN merged \ {"mac", "child_ipv6"} \subseteq n.tlvs
        BY <2>2, DirectRecord DEF IsNode
    <2>4. role = "child" <=> IsChild(target)
        BY DEF ResolveRole, DefaultRole
    <2> HIDE DEF role, n
    <2>5. Tlvs = Range(IF n.role = "child" THEN ChildTlvs ELSE RouterTlvs)
        BY <2>3, <2>4 DEF Tlvs, TlvsFor
    <2>6. Sound' => Told(n, faults'.lost)
        BY <1>1, <2>1, <2>3, <2>5, DirectTold
    <2>7. Heard(n, target, faults'.lost)
        BY <2>3 DEF Heard
    <2>8. QED
        BY <1>1, <2>1, <2>3, <2>6, <2>7, OneRecord, Zenon
<1>3. CASE ~found /\ IsChild(target)
    <2>1. Ask("parent", ParentRloc(target), <<>>) /\ nodes' = nodes /\ answers' = answers
        BY <1>3 DEF NodeDone
    <2>2. phase' = "parent" /\ <<>> \in Seq(Nat)
        BY <2>1 DEF Ask
    <2>3. /\ DeviceInv' /\ LossInv'
          /\ todo' \in Seq(Nat) /\ primes' \in 0..PrimeAttempts /\ stack' \in Seq(Seq(Known))
        BY <1>1, <2>1, <2>2, AskFresh, Zenon DEF Later
    <2>4. WalkType'
        BY <1>1, <2>2, <2>3 DEF WalkType, Later
    <2>5. (goal \in Reachable /\ Sound') => PrimeAttempts <= faults'.lost
        BY <1>1, <1>3 DEF Finished
    <2>6. DOMAIN nodes' = {}
        BY <1>1, <2>1 DEF Empty
    <2>7. NodesInv'
        BY <1>1, <2>1, <2>2, <2>5, <2>6 DEF NodesInv
    <2>8. MeshInv' /\ FoundInv'
        BY <1>1 DEF MeshInv, FoundInv
    <2>9. QED
        BY <2>3, <2>4, <2>7, <2>8 DEF WalkInv
<1>4. CASE ~found /\ ~IsChild(target)
    <2> DEFINE n == Skeleton(target, DefaultRole(target), "unreachable")
    <2>1. nodes' = Only(target, n) /\ Stop("done")
        BY <1>4 DEF NodeDone
    <2>2. IsNode(n, target) /\ n.discovery = "unreachable"
        BY SkeletonRecord
    <2> HIDE DEF n
    <2>3. (Sound' /\ target \in Reachable) => PrimeAttempts <= faults'.lost
        BY <1>1, <1>4 DEF Finished
    <2>4. Sound' => Told(n, faults'.lost) /\ Heard(n, target, faults'.lost)
        BY <1>1, <2>2, <2>3, Excused DEF Told
    <2>5. QED
        BY <1>1, <2>1, <2>2, <2>4, OneRecord
<1>5. QED
    BY <1>2, <1>3, <1>4

\* A silent child's parent.
LEMMA ParentStep ==
    ASSUME WalkInv, phase = "parent", NEW found \in BOOLEAN, Finished(found), ParentDone(found),
           goal' = goal
    PROVE  WalkInv'
<1> DEFINE children == IF found THEN ParentChildren(target, merged) ELSE Empty
           n == IF goal \in DOMAIN children THEN children[goal]
                ELSE Skeleton(goal, DefaultRole(goal), "unreachable")
<1>1. WalkType /\ NodesInv /\ Later /\ goal # None
    BY DEF WalkInv, NodesInv, Finished
<1>2. nodes' = Only(goal, n) /\ Stop("done")
    BY DEF ParentDone
<1>3. IsNode(n, goal) /\ n.discovery # "direct"
    <2>1. CASE goal \in DOMAIN children
        <3>1. found /\ children = ParentChildren(target, merged)
            BY <2>1 DEF Empty
        <3>2. QED
            BY <2>1, <3>1, ListedRecord
    <2>2. CASE goal \notin DOMAIN children
        BY <2>2, SkeletonRecord
    <2>3. QED
        BY <2>1, <2>2, Zenon
<1> HIDE DEF n, children
<1>4. (Sound' /\ goal \in Reachable) => PrimeAttempts <= faults'.lost
    <2>1. (Sound /\ goal \in Reachable) => PrimeAttempts <= faults.lost
        BY <1>1 DEF NodesInv
    <2>2. PrimeAttempts \in Nat /\ faults.lost \in Nat /\ faults'.lost \in Nat
        BY <1>1, CollectorAssumption DEF Later, WalkType
    <2>3. faults.lost <= faults'.lost /\ (Sound' => Sound)
        BY <1>1 DEF Later
    <2>4. QED
        BY <2>1, <2>2, <2>3
<1>5. Sound' => Told(n, faults'.lost) /\ Heard(n, goal, faults'.lost)
    BY <1>1, <1>3, <1>4, Excused DEF Told
<1>6. QED
    BY <1>1, <1>2, <1>3, <1>5, OneRecord

\* Whatever a device has answered, the walk goes on as it should.
LEMMA DeviceDoneStep ==
    ASSUME WalkInv, Walking, NEW found \in BOOLEAN, Finished(found), DeviceDone(found)
    PROVE  WalkInv'
<1>1. goal' = goal /\ Later
    BY DEF DeviceDone, Finished
<1>2. CASE phase = "discover" /\ found /\ Discovered
    BY <1>1, <1>2, DiscoverStep
<1>3. CASE phase = "discover" /\ ~found /\ Stop("failed") /\ UNCHANGED <<leader, nodes, answers>>
    BY <1>1, <1>3, StopStep
<1>4. CASE phase = "routers" /\ RouterDone(found)
    BY <1>1, <1>4, RouterStep
<1>5. CASE phase = "children" /\ ChildDone(found)
    BY <1>1, <1>5, ChildStep
<1>6. CASE phase = "node" /\ NodeDone(found)
    BY <1>1, <1>6, NodeStep
<1>7. CASE phase = "parent" /\ ParentDone(found)
    BY <1>1, <1>7, ParentStep
<1>8. QED
    BY <1>2, <1>3, <1>4, <1>5, <1>6, <1>7 DEF DeviceDone

-----------------------------------------------------------------------------
(* Requests *)

\* A step in which the walk stays where it is.
LEMMA SamePlace ==
    ASSUME WalkInv, Walking, Later, WalkType', DeviceInv', LossInv',
           phase' = phase, target' = target, goal' = goal, todo' = todo,
           nodes' = nodes, answers' = answers
    PROVE  WalkInv'
<1>1. WalkType /\ NodesInv /\ MeshInv /\ FoundInv /\ phase # "failed"
    BY DEF WalkInv, Walking
<1>2. Awaited' = Awaited
    BY DEF Awaited
<1>3. NodesInv'
    <2>1. \A r \in DOMAIN nodes :
                /\ IsNode(nodes[r], r)
                /\ Sound' => Told(nodes[r], faults'.lost)
                /\ (Sound' /\ r \notin Awaited) => Heard(nodes[r], r, faults'.lost)
        BY <1>1, RecordsKept
    <2>2. (phase = "parent" /\ goal \in Reachable /\ Sound') => PrimeAttempts <= faults'.lost
        <3>1. (phase = "parent" /\ goal \in Reachable /\ Sound) => PrimeAttempts <= faults.lost
            BY <1>1 DEF NodesInv
        <3>2. PrimeAttempts \in Nat /\ faults.lost \in Nat /\ faults'.lost \in Nat
            BY <1>1, CollectorAssumption DEF Later, WalkType
        <3>3. faults.lost <= faults'.lost /\ (Sound' => Sound)
            BY DEF Later
        <3>4. QED
            BY <3>1, <3>2, <3>3
    <2>3. /\ phase \in {"discover", "node", "parent"} => nodes = Empty /\ answers = Empty
          /\ phase \in {"discover", "routers", "children"} => goal = None
          /\ phase \in {"node", "parent"} => goal # None
          /\ phase = "node" => target = goal
        BY <1>1 DEF NodesInv
    <2>4. QED
        BY <1>2, <2>1, <2>2, <2>3 DEF NodesInv
<1>4. MeshInv'
    BY <1>1 DEF MeshInv, RoutersAhead
<1>5. FoundInv'
    <2>1. (Sound' /\ faults'.lost = 0) => (Sound /\ faults.lost = 0)
        <3>1. faults.lost \in Nat /\ faults'.lost \in Nat /\ faults.lost <= faults'.lost
            BY <1>1 DEF Later, WalkType
        <3>2. QED
            BY <3>1 DEF Later
    <2>2. QED
        BY <1>1, <2>1 DEF FoundInv
<1>6. QED
    BY <1>3, <1>4, <1>5 DEF WalkInv

\* What a fault counts.
LEMMA FaultCounts ==
    ASSUME WalkType, NEW kind \in {"lost", "cut", "ended"}, Fault(kind)
    PROVE  /\ faults' \in [lost : Nat, cut : Nat, ended : Nat]
           /\ faults'.lost = faults.lost + (IF kind = "lost" THEN 1 ELSE 0)
           /\ faults'.cut = faults.cut + (IF kind = "cut" THEN 1 ELSE 0)
BY DEF WalkType, Fault

\* The steps of a request that is answered.
LEMMA AnsweredStep ==
    ASSUME WalkInv, QueryAnswered
    PROVE  WalkInv'
<1>1. /\ WalkType /\ DeviceInv /\ LossInv /\ Asking /\ Walking /\ Device \in Reachable
      /\ Answered(Restrict(Mesh[Device], Held(Batch)))
      /\ status' = status /\ faults' = faults
    BY DEF WalkInv, QueryAnswered, Asking
<1>2. Later
    BY <1>1 DEF Later, WalkType, Sound
<1>3. /\ phase' = phase /\ target' = target /\ goal' = goal /\ todo' = todo
      /\ nodes' = nodes /\ answers' = answers /\ primes' = 0 /\ stack' \in Seq(Seq(Known))
    BY <1>1, AnsweredEffect, Zenon
<1>4. DeviceInv'
    BY <1>1, AnsweredDevice
<1>5. LossInv'
    BY <1>1, AnsweredLoss
<1>6. WalkType'
    BY <1>1, <1>2, <1>3, CollectorAssumption DEF WalkType, Later
<1>7. QED
    BY <1>1, <1>2, <1>3, <1>4, <1>5, <1>6, SamePlace

\* The steps of one whose answer is cut: never the primer's.
LEMMA CutStep ==
    ASSUME WalkInv, QueryCut
    PROVE  WalkInv'
<1>1. /\ WalkType /\ DeviceInv /\ LossInv /\ Asking /\ Walking /\ Device \in Reachable
      /\ status' = status /\ Fault("cut") /\ ~Fits(Held(Batch))
    BY DEF WalkInv, QueryCut, Asking
<1>2. PICK n \in 0..(Len(Batch) - 1) : Answered(Restrict(Mesh[Device], Held(SubSeq(Batch, 1, n))))
    BY DEF QueryCut
<1>3. /\ faults' \in [lost : Nat, cut : Nat, ended : Nat]
      /\ faults'.lost = faults.lost + 0 /\ faults'.cut = faults.cut + 1
    BY <1>1, FaultCounts
<1>4. ~Sound'
    <2>1. faults.cut \in Nat
        BY <1>1 DEF WalkType
    <2>2. QED
        BY <1>3, <2>1 DEF Sound
<1>5. Later
    BY <1>1, <1>3, <1>4 DEF Later, WalkType
<1>6. primes = 0
    BY <1>1, PrimerFits DEF WalkType
<1>7. Range(SubSeq(Batch, 1, n)) \subseteq Range(Batch)
    <2>1. Batch \in Seq(Known)
        BY <1>1, <1>6 DEF Batch, Asking, WalkType
    <2>2. n \in Nat /\ n <= Len(Batch)
        BY <2>1
    <2> DEFINE b == Batch
    <2>3. /\ DOMAIN SubSeq(b, 1, n) = 1..n /\ DOMAIN b = 1..Len(b)
          /\ \A i \in 1..n : SubSeq(b, 1, n)[i] = b[i] /\ i \in 1..Len(b)
        BY <2>1, <2>2
    <2> HIDE DEF b
    <2>4. QED
        BY <2>3 DEF Range, b
<1>8. /\ phase' = phase /\ target' = target /\ goal' = goal /\ todo' = todo
      /\ nodes' = nodes /\ answers' = answers /\ primes' = 0 /\ stack' \in Seq(Seq(Known))
    BY <1>1, <1>2, AnsweredEffect, Zenon
<1>9. DeviceInv'
    BY <1>1, <1>2, <1>6, <1>7, AnsweredDevice
<1>10. LossInv'
    BY <1>4 DEF LossInv
<1>11. WalkType'
    BY <1>1, <1>5, <1>8, CollectorAssumption DEF WalkType, Later
<1>12. QED
    BY <1>1, <1>5, <1>8, <1>9, <1>10, <1>11, SamePlace

\* The steps of a request without an answer: it is a loss, unless the device
\* cannot answer it.
LEMMA NoAnswerStep ==
    ASSUME WalkInv, Asking, NoAnswer, Later,
           \/ ~Sound'
           \/ /\ status' = status /\ faults'.cut = faults.cut
              /\ \/ faults'.lost = faults.lost /\ (Device \in Reachable => ~Fits(Held(Batch)))
                 \/ faults'.lost = faults.lost + 1
    PROVE  WalkInv'
<1>1. WalkType /\ DeviceInv /\ LossInv /\ Walking
    BY DEF WalkInv, Asking
<1>2. CASE primes = 1
    <2>1. DeviceDone(FALSE)
        BY <1>2, Zenon DEF NoAnswer
    <2>2. ASSUME Sound', Device \in Reachable PROVE PrimeAttempts <= faults'.lost
        <3>1. PrimeAttempts <= 1 + faults.lost
            BY <1>1, <1>2, <2>2 DEF LossInv, Later
        <3>2. Fits(Held(Batch))
            BY <1>2, PrimerFits
        <3>3. faults'.lost = faults.lost + 1
            BY <2>2, <3>2
        <3>4. PrimeAttempts \in Nat /\ faults.lost \in Nat
            BY <1>1, CollectorAssumption DEF WalkType
        <3>5. QED
            BY <3>1, <3>3, <3>4
    <2>3. Finished(FALSE)
        BY <2>2 DEF Finished
    <2>4. QED
        BY <1>1, <2>1, <2>3, DeviceDoneStep, Zenon
<1>3. CASE primes # 1
    <2>1. Unanswered
        BY <1>3 DEF NoAnswer
    <2>2. /\ phase' = phase /\ target' = target /\ goal' = goal /\ todo' = todo
          /\ nodes' = nodes /\ answers' = answers
          /\ primes' \in 0..PrimeAttempts /\ stack' \in Seq(Seq(Known))
        BY <1>1, <1>3, <2>1, UnansweredEffect
    <2>3. DeviceInv'
        BY <1>1, <1>3, <2>1, UnansweredDevice
    <2>4. LossInv'
        <3>1. CASE ~Sound'
            BY <3>1 DEF LossInv
        <3>2. CASE Sound'
            BY <1>1, <1>3, <2>1, <3>2, UnansweredLoss
        <3>3. QED
            BY <3>1, <3>2
    <2>5. WalkType'
        BY <1>1, <2>2 DEF WalkType, Later
    <2>6. QED
        BY <1>1, <2>2, <2>3, <2>4, <2>5, SamePlace
<1>4. QED
    BY <1>2, <1>3

\* Every step of a walk.
LEMMA WalkStep ==
    ASSUME WalkInv, CollectorNext
    PROVE  WalkInv'
<1> USE DEF Sound
<1>1. WalkType /\ DeviceInv /\ LossInv
    BY DEF WalkInv
<1>2. ASSUME status' = "closed", \/ faults' = faults \/ Fault("ended")
      PROVE  Later /\ ~Sound'
    <2>1. /\ faults' \in [lost : Nat, cut : Nat, ended : Nat]
          /\ faults.lost <= faults'.lost
        <3>1. CASE faults' = faults
            BY <1>1, <3>1 DEF WalkType
        <3>2. CASE Fault("ended")
            <4>1. /\ faults' \in [lost : Nat, cut : Nat, ended : Nat]
                  /\ faults'.lost = faults.lost + 0
                BY <1>1, <3>2, FaultCounts
            <4>2. faults.lost \in Nat
                BY <1>1 DEF WalkType
            <4>3. QED
                BY <4>1, <4>2
        <3>3. QED
            BY <1>2, <3>1, <3>2
    <2>2. QED
        BY <1>2, <2>1 DEF Later
<1>3. ASSUME UNCHANGED <<status, faults>> PROVE Later
    BY <1>1, <1>3 DEF Later, WalkType
<1>4. CASE QueryAnswered
    BY <1>4, AnsweredStep
<1>5. CASE QueryCut
    BY <1>5, CutStep
<1>6. CASE QuerySilent
    BY <1>3, <1>6, NoAnswerStep DEF QuerySilent
<1>7. CASE QueryLost
    <2>1. /\ faults' \in [lost : Nat, cut : Nat, ended : Nat]
          /\ faults'.lost = faults.lost + 1 /\ faults'.cut = faults.cut + 0
        BY <1>1, <1>7, FaultCounts DEF QueryLost
    <2>2. faults.lost \in Nat /\ faults.cut \in Nat /\ status' = status /\ status \in {"active", "closed"}
        BY <1>1, <1>7 DEF WalkType, QueryLost
    <2>3. Later /\ faults'.cut = faults.cut
        BY <2>1, <2>2 DEF Later
    <2>4. Asking /\ NoAnswer
        BY <1>7 DEF QueryLost
    <2>5. QED
        BY <2>1, <2>2, <2>3, <2>4, NoAnswerStep
<1>8. CASE QueryInactive
    BY <1>2, <1>8, NoAnswerStep DEF QueryInactive
<1>9. CASE QueryFails
    BY <1>2, <1>9, StopStep DEF QueryFails
<1>10. CASE SessionLost
    BY <1>3, <1>10, StopStep DEF SessionLost
<1>11. CASE BatchesDone
    <2>1. Walking /\ ~(primes > 0) /\ stack = <<>> /\ DeviceDone(TRUE)
        BY <1>11, Zenon DEF BatchesDone, Asking
    <2>2. PrimeAttempts \in Nat /\ primes \in 0..PrimeAttempts
        BY <1>1, CollectorAssumption DEF WalkType
    <2>3. primes = 0
        BY <2>1, <2>2
    <2>4. Later
        BY <1>3, <1>11 DEF BatchesDone
    <2>5. Finished(TRUE)
        BY <2>1, <2>3, <2>4 DEF Finished
    <2>6. QED
        BY <2>1, <2>5, DeviceDoneStep, Zenon
<1>12. CASE SessionEnds
    <2>1. Walking /\ UNCHANGED walk /\ Later /\ ~Sound'
        BY <1>2, <1>12 DEF SessionEnds
    <2>2. /\ phase' = phase /\ target' = target /\ goal' = goal /\ todo' = todo
          /\ nodes' = nodes /\ answers' = answers
          /\ primes' = primes /\ stack' = stack /\ merged' = merged
        BY <2>1 DEF walk
    <2>3. WalkType'
        BY <1>1, <2>1, <2>2 DEF WalkType, Later
    <2>4. DeviceInv'
        BY <1>1, <2>2 DEF DeviceInv, Walking, Device, Tlvs
    <2>5. LossInv'
        BY <2>1 DEF LossInv
    <2>6. QED
        BY <2>1, <2>2, <2>3, <2>4, <2>5, SamePlace
<1>13. QED
    BY <1>4, <1>5, <1>6, <1>7, <1>8, <1>9, <1>10, <1>11, <1>12 DEF CollectorNext, Step

-----------------------------------------------------------------------------
(* The walk *)

\* A walk that has asked nothing yet.
LEMMA WalkBegins == CollectorInit => WalkInv
<1> SUFFICES ASSUME CollectorInit PROVE WalkInv
    OBVIOUS
<1>1. /\ phase = (IF goal = None THEN "discover" ELSE "node") /\ target = goal /\ todo = <<>>
      /\ primes = PrimeAttempts /\ stack = <<>> /\ merged = Empty /\ nodes = Empty /\ answers = Empty
      /\ status = "active" /\ faults = [lost |-> 0, cut |-> 0, ended |-> 0]
    BY DEF CollectorInit
<1>2. PrimeAttempts \in Nat \ {0}
    BY CollectorAssumption
<1>3. DOMAIN nodes = {} /\ DOMAIN answers = {} /\ DOMAIN merged = {}
    BY <1>1 DEF Empty
<1>4. WalkType
    BY <1>1, <1>2 DEF WalkType
<1>5. DeviceInv
    <2>1. AllIn(stack) = {}
        BY <1>1 DEF AllIn
    <2>2. QED
        BY <1>1, <1>2, <1>3, <2>1 DEF DeviceInv, Of
<1>6. LossInv
    BY <1>1, <1>2 DEF LossInv
<1>7. NodesInv
    BY <1>1, <1>3 DEF NodesInv
<1>8. MeshInv
    BY <1>1, <1>3 DEF MeshInv, Recorded
<1>9. FoundInv
    BY <1>1, <1>3 DEF FoundInv
<1>10. QED
    BY <1>4, <1>5, <1>6, <1>7, <1>8, <1>9 DEF WalkInv

\* The invariant of a walk (collect_topology, collect_node) holds for every mesh,
\* every size of its TLVs, every goal and every fault.
THEOREM WalkInvariant == CollectorSpec => []WalkInv
<1>1. WalkInv /\ [CollectorNext]_vars => WalkInv'
    <2> SUFFICES ASSUME WalkInv, [CollectorNext]_vars PROVE WalkInv'
        OBVIOUS
    <2>1. CASE CollectorNext
        BY <2>1, WalkStep
    <2>2. CASE UNCHANGED vars
        <3>1. UNCHANGED <<goal, phase, target, todo, primes, stack, merged, leader, nodes, answers,
                          status, faults>>
            BY <2>2 DEF vars, walk
        <3>2. WalkType' /\ DeviceInv' /\ LossInv'
            BY <3>1, Zenon DEF WalkInv, WalkType, DeviceInv, LossInv, Walking, Device, Tlvs,
               Missed,
                        Obtainable, Sound
        <3>3. NodesInv' /\ MeshInv' /\ FoundInv'
            BY <3>1, Zenon DEF WalkInv, NodesInv, MeshInv, FoundInv, Awaited, RoutersAhead, Sound
        <3>4. QED
            BY <3>2, <3>3 DEF WalkInv
    <2>3. QED
        BY <2>1, <2>2
<1>2. QED
    BY <1>1, WalkBegins, PTL DEF CollectorSpec

\* The splitter (collect_diag) loses nothing, for every mesh: of a device that
\* answered no more TLVs are missing than answers were lost, a device that
\* answers is passed over only after PRIME_ATTEMPTS losses, and a walk without
\* losses finds every router and every listed child.
THEOREM NothingIsLost == CollectorSpec => []SplittingLosesNothing
<1>1. WalkInv => SplittingLosesNothing
    <2> SUFFICES ASSUME WalkInv, phase = "done", faults.cut = 0, status = "active"
                 PROVE  /\ \A r \in DOMAIN nodes :
                            /\ nodes[r].discovery = "direct" =>
                                    Cardinality(Wanted(nodes[r]) \ nodes[r].tlvs) <= faults.lost
                            /\ (r \in Reachable /\ faults.lost < PrimeAttempts) =>
                                    nodes[r].discovery = "direct"
                        /\ (goal = None /\ faults.lost = 0) =>
                                DOMAIN nodes = RoutersOfMesh \cup ListedChildren
        BY DEF SplittingLosesNothing
    <2>1. Sound /\ Awaited = {} /\ NodesInv /\ FoundInv
        BY DEF Sound, Awaited, WalkInv
    <2>2. \A r \in DOMAIN nodes : Told(nodes[r], faults.lost) /\ Heard(nodes[r], r, faults.lost)
        BY <2>1 DEF NodesInv
    <2>3. QED
        BY <2>1, <2>2, Zenon DEF Told, Heard, FoundInv
<1>2. QED
    BY <1>1, WalkInvariant, PTL

\* A request without a session is made once, and closes it.
UnheardInv == unheard = 0 \/ (unheard = 1 /\ status = "closed")

\* A walk makes at most one request without a session (diag_query).
THEOREM SessionStopsWalk == CollectorSpec => []LostSessionStopsWalk
<1>1. CollectorInit => UnheardInv
    BY DEF CollectorInit, UnheardInv
<1>2. UnheardInv /\ [CollectorNext]_vars => UnheardInv'
    <2> SUFFICES ASSUME UnheardInv, [CollectorNext]_vars PROVE UnheardInv'
        OBVIOUS
    <2>1. CASE QueryInactive
        <3>1. status = "active" /\ status' = "closed" /\ unheard' = unheard + 1
            BY <2>1 DEF QueryInactive, MayAsk
        <3>2. unheard = 0
            BY <3>1 DEF UnheardInv
        <3>3. QED
            BY <3>1, <3>2 DEF UnheardInv
    <2>2. CASE UNCHANGED unheard /\ (UNCHANGED status \/ status' = "closed")
        BY <2>2 DEF UnheardInv
    <2>3. CollectorNext => \/ QueryInactive
                           \/ UNCHANGED unheard /\ (UNCHANGED status \/ status' = "closed")
        BY Zenon DEF CollectorNext, Step, QueryAnswered, QueryCut, QuerySilent, QueryLost,
           QueryFails,
               SessionLost, BatchesDone, SessionEnds
    <2>4. UNCHANGED vars => UNCHANGED unheard /\ UNCHANGED status
        BY DEF vars
    <2>5. QED
        BY <2>1, <2>2, <2>3, <2>4
<1>3. UnheardInv => LostSessionStopsWalk
    BY DEF UnheardInv, LostSessionStopsWalk
<1>4. QED
    BY <1>1, <1>2, <1>3, PTL DEF CollectorSpec

\* The graph (build_links, mesh_neighbors, topology_ascii) shows every mesh as it
\* is, whatever part of it answered: one link per pair of neighbors with the
\* qualities from each side, and each child under the parent that lists it.
THEOREM GraphIsTheMesh == CollectorSpec => []GraphShowsTheMesh
<1>1. WalkInv => GraphShowsTheMesh
    <2> SUFFICES ASSUME WalkInv, phase = "done", goal = None
                 PROVE  GraphShowsTheMesh
        BY DEF GraphShowsTheMesh
    <2>1. Recorded(nodes, answers)
        BY ZenonT(60) DEF WalkInv, MeshInv
    <2>2. \A r \in DOMAIN nodes \ {c \in DOMAIN nodes : IsChild(c)} :
            LET shown == MeshNeighbors(MeshLinks(nodes), r)
                tells(x) == x \in DOMAIN nodes /\ "route64" \in nodes[x].tlvs
            IN  /\ {s.other : s \in shown} =
                        {o \in RoutersOfMesh \ {r} :
                            Quality(r, o) + Quality(o, r) > 0 /\ (tells(r) \/ tells(o))}
                /\ shown = {[other |-> s.other,
                             view |-> [in |-> Quality(r, s.other), out |-> Quality(s.other, r)]] :
                                s \in shown}
        <3> TAKE r \in DOMAIN nodes \ {c \in DOMAIN nodes : IsChild(c)}
        <3>1. r \in DOMAIN nodes /\ ~IsChild(r)
            OBVIOUS
        <3>2. QED
            BY <2>1, <3>1, ShowsNeighbors, ZenonT(60)
    <2>3. \A c \in {c \in DOMAIN nodes : IsChild(c)} :
            /\ {r \in DOMAIN nodes : c \in DrawnUnder(nodes, r)} = {ParentRloc(c)}
            /\ {l \in ChildLinks(nodes) : l.child = c} = {[parent |-> ParentRloc(c), child |-> c]}
        BY <2>1, HangsUnder
    <2>4. QED
        BY <2>2, <2>3, ZenonT(60) DEF GraphShowsTheMesh
<1>2. QED
    BY <1>1, WalkInvariant, PTL
=============================================================================
