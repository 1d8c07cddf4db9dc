---------------------------- MODULE Reachability ----------------------------
(***************************************************************************)
(* The verdict on a pair of nodes (internal/store/reachability.go): the     *)
(* rules of one engine that apply to each direction are sorted into kinds,  *)
(* one reason is decided from them, and the engines are fused.             *)
(*                                                                         *)
(* A rule is the record NetworkPolicy!NewRule makes, keyed by the node it   *)
(* protects; rules is the NodeRules of one engine as a set of such records. *)
(* idIndex is the set of nodes of WorkloadByID.                            *)
(***************************************************************************)
EXTENDS Cluster

\* Mutant: only a range is covered by a range.
cidrNodeCoversRange(id, peer, idIndex) ==
    /\ id \in idIndex /\ NodeType(id) = "cidr"
    /\ peer \in idIndex /\ NodeType(peer) = "cidr"
    /\ CidrContains(id[2], peer[2])

\* A range speaks for a peer that is a range it holds, and for any workload or
\* namespace unless it is a LAN range.
cidrNodeCoversPeer(id, peer, idIndex) ==
    /\ id \in idIndex /\ NodeType(id) = "cidr"
    /\ IF peer \in idIndex /\ NodeType(peer) = "cidr"
       THEN CidrContains(id[2], peer[2])
       ELSE CidrType(id[2]) # "lan"

\* The rule names the peer, its namespace node, or a range that covers it.
NamesPeer(rule, peer, peerNs, idIndex) ==
    \/ rule.peer = peer \/ rule.peer = peerNs
    \/ cidrNodeCoversPeer(rule.peer, peer, idIndex)

policiesAllowingPeerSpecifically(allows, peer, peerNs, idIndex) ==
    {r.contributor : r \in {a \in allows : NamesPeer(a, peer, peerNs, idIndex)}}

\* Mutant: whoever's except it is.
TrimsAnyPolicy(carveOut, allow) ==
    /\ NodeType(allow.peer) = "cidr" /\ NodeType(carveOut.peer) = "cidr"
    /\ allow.ports = carveOut.ports
    /\ CidrContains(allow.peer[2], carveOut.peer[2])

\* Both carry ranges, of one policy and with the same ports, and the allow's
\* range holds the excepted one.
Trims(carveOut, allow) ==
    /\ NodeType(allow.peer) = "cidr" /\ NodeType(carveOut.peer) = "cidr"
    /\ allow.contributor = carveOut.contributor
    /\ allow.ports = carveOut.ports
    /\ CidrContains(allow.peer[2], carveOut.peer[2])

anyCarveOutTrims(allow, carveOuts) == \E c \in carveOuts : Trims(c, allow)

\* Mutant: an allow is looked for before the carve-outs.
decideAllowFirst(matches) ==
    CASE matches.deny # {} -> "explicit-deny"
      [] matches.deny = {} /\ matches.allow # {} -> "permitted"
      [] matches.deny = {} /\ matches.allow = {} ->
            IF matches.otherAllow # {} THEN "locked-no-match"
            ELSE IF matches.denyAll # {} THEN "default-deny" ELSE "no-opinion"

decideDirectionVerdict(matches) ==
    CASE matches.deny # {} -> "explicit-deny"
      [] matches.deny = {} /\ matches.carveOut # {} ->
            IF \E a \in matches.allow : ~anyCarveOutTrims(a, matches.carveOut)
            THEN "permitted" ELSE "carved-out"
      [] matches.deny = {} /\ matches.carveOut = {} ->
            CASE matches.allow # {} -> "permitted"
              [] matches.allow = {} /\ matches.otherAllow # {} -> "locked-no-match"
              [] matches.allow = {} /\ matches.otherAllow = {} ->
                    IF matches.denyAll # {} THEN "default-deny" ELSE "no-opinion"

\* Mutant: a lock is blamed on the deny-all policies.
CulpritsDenyAll(matches, reason) ==
    {r.contributor : r \in CASE reason = "explicit-deny" -> matches.deny
                             [] reason = "carved-out"    -> matches.carveOut
                             [] reason \in {"locked-no-match", "default-deny"} -> matches.denyAll
                             [] OTHER                    -> {}}

\* The policies named for a block.
Culprits(matches, reason) ==
    {r.contributor : r \in CASE reason = "explicit-deny"   -> matches.deny
                             [] reason = "carved-out"      -> matches.carveOut
                             [] reason = "locked-no-match" -> matches.otherAllow
                             [] reason = "default-deny"    -> matches.denyAll
                             [] OTHER                      -> {}}

\* One direction: the rules at node and at its namespace node, about peer.
collect(rules, direction, node, nodeNs, peer, peerNs, idIndex) ==
    LET bucket   == {r \in rules : r.direction = direction /\ r.node \in {node, nodeNs}}
        allows   == {r \in bucket : r.action = "allow"}
        allowing == policiesAllowingPeerSpecifically(allows, peer, peerNs, idIndex)
        denyAll  == {r \in allows : r.coverage = "deny all"}
        allow    == {r \in allows \ denyAll : \/ r.coverage = "allow all"
                                              \/ NamesPeer(r, peer, peerNs, idIndex)}
        other    == {r \in allows \ (denyAll \cup allow) : r.coverage # "unenforced"}
        denies   == {r \in bucket \ allows :
                        IF r.coverage = "deny all" THEN r.contributor \notin allowing
                        ELSE NamesPeer(r, peer, peerNs, idIndex)}
        carveOut == {r \in denies : r.coverage = "except"}
        matches  == [denyAll |-> denyAll, allow |-> allow, otherAllow |-> other,
                     deny |-> denies \ carveOut, carveOut |-> carveOut]
        reason   == decideDirectionVerdict(matches)
    IN  [matches |-> matches, reason |-> reason, culprits |-> Culprits(matches, reason),
         allPorts |-> \E r \in allow : r.ports = {},
         ports |-> UNION {r.ports : r \in allow}]

collectToSide(rules, src, dst, idIndex) ==
    collect(rules, "egress", src, NsIdOf(src), dst, NsIdOf(dst), idIndex)

collectFromSide(rules, src, dst, idIndex) ==
    collect(rules, "ingress", dst, NsIdOf(dst), src, NsIdOf(src), idIndex)

Permits(reason) == reason \in {"permitted", "no-opinion"}

\* Mutant: one side that permits is enough.
EngineStatusEither(rules, src, dst, idIndex) ==
    LET egress  == collectToSide(rules, src, dst, idIndex).reason
        ingress == collectFromSide(rules, src, dst, idIndex).reason
    IN  IF Permits(egress) \/ Permits(ingress) THEN "allow" ELSE "deny"

EngineStatus(rules, src, dst, idIndex) ==
    LET egress  == collectToSide(rules, src, dst, idIndex).reason
        ingress == collectFromSide(rules, src, dst, idIndex).reason
    IN  CASE egress = "no-opinion" /\ ingress = "no-opinion" -> "not enforced"
          [] ~Permits(egress) \/ ~Permits(ingress) -> "deny"
          [] OTHER -> "allow"

\* engines: engine name -> its rules.  One engine that denies is enough.
PoliciesCanReach(engines, src, dst, idIndex) ==
    LET blockedBy == {e \in DOMAIN engines :
                         EngineStatus(engines[e], src, dst, idIndex) = "deny"}
    IN  [verdict |-> IF blockedBy = {} THEN "allow" ELSE "deny", blockedBy |-> blockedBy]
=============================================================================
