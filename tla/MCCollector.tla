----------------------------- MODULE MCCollector -----------------------------
(***************************************************************************)
(* Three routers, of which one does not answer, and two children of the    *)
(* second, of which one sleeps.  Link qualities differ by direction, and   *)
(* two of the routers are not neighbors.  Network data never fits a        *)
(* response of an RLOC16; the child table and the addresses fit alone.     *)
(***************************************************************************)
EXTENDS Collector, TLC

R1 == 1024
R2 == 2048
R3 == 3072
C1 == R2 + 1
C2 == R2 + 2

MCHears ==
    [r \in {R1, R2, R3} |->
        CASE r = R1 -> (R1 :> 0) @@ (R2 :> 3) @@ (R3 :> 0)
          [] r = R2 -> (R1 :> 1) @@ (R2 :> 0) @@ (R3 :> 2)
          [] r = R3 -> (R1 :> 0) @@ (R2 :> 0) @@ (R3 :> 0)]

MCRoutes(r) ==
    {[id |-> RouterId(o), in |-> MCHears[r][o], out |-> MCHears[o][r]] : o \in {R1, R2, R3}}

MCTlv(r, t) ==
    CASE t = "mac" -> r
      [] t = "route64" -> MCRoutes(r)
      [] t = "leader_data" -> RouterId(R1)
      [] t = "child_table" -> IF r = R2 THEN {1, 2} ELSE {}
      [] t = "child_ipv6" -> {C1}
      [] OTHER -> None

MCRouterHas == ({"mac"} \cup Range(RouterTlvs)) \ {"battery", "timeout"}
MCChildHas == ({"mac"} \cup Range(ChildTlvs)) \ {"connectivity", "eui64"}

MCMesh ==
    [r \in {R1, R2, R3, C1, C2} |->
        [t \in (IF IsChild(r) THEN MCChildHas ELSE MCRouterHas) |-> MCTlv(r, t)]]

MCReachable == {R1, R2, C1}

MCGoals == {None, R1, R3, C1, C2}

MCSize ==
    [t \in {"mac"} \cup Range(RouterTlvs) |->
        CASE t = "network_data" -> 9
          [] t \in {"child_table", "ipv6"} -> 6
          [] OTHER -> 1]
=============================================================================
