------------------------------- MODULE Issues -------------------------------
(***************************************************************************)
(* The findings (internal/store/buildIssues.go, layering.go, node-info.go,  *)
(* mesh/istio/detect.go): pairs one policy allows and another blocks, pairs  *)
(* the mesh blocks, workloads that cannot resolve names, and workloads whose *)
(* policies leave out the port the mesh tunnels through.                    *)
(*                                                                         *)
(* engines maps each engine's name to its rules, records as in Reachability; *)
(* idIndex is WorkloadByID; mesh is MeshMembership.                         *)
(***************************************************************************)
EXTENDS Reachability, Mesh

DNSPort == 53
ZtunnelHBONEPort == 15008

\* The two ends of a rule, however its direction stores them.
SrcID(r) == IF r.direction = "egress" THEN r.node ELSE r.peer
DstID(r) == IF r.direction = "egress" THEN r.peer ELSE r.node

\* AllowByNs and DenyByNs of an engine: rules are filed by who they protect.
ByNs(rules, ns) == {r \in rules : NsIdOf(r.node) = ns}

(***************************************************************************)
(* Layering: a coarse block over finer allows is not a conflict.            *)
(***************************************************************************)
isInternalCidrAggregate(id) == NodeType(id) = "cidr" /\ CidrType(id[2]) \in {"pod", "svc"}

\* The rules of an engine that allow something finer between the same two
\* namespaces.
finerPolicies(rules, src, dst, idIndex) ==
    {r \in UNION {ByNs(rules, ns) : ns \in {NsIdOf(src), NsIdOf(dst)} \ {Empty}} :
        /\ r.action = "allow"
        /\ SrcID(r) \in idIndex /\ DstID(r) \in idIndex /\ SrcID(r) # DstID(r)
        /\ NsIdOf(SrcID(r)) = NsIdOf(src) /\ NsIdOf(DstID(r)) = NsIdOf(dst)
        /\ {NodeType(SrcID(r)), NodeType(DstID(r))} # {"namespace"}}

isLayeredPolicy(engines, e, src, dst, idIndex) ==
    \/ isInternalCidrAggregate(src) \/ isInternalCidrAggregate(dst)
    \/ /\ "namespace" \in {NodeType(src), NodeType(dst)}
       /\ \E r \in finerPolicies(engines[e], src, dst, idIndex) :
             PoliciesCanReach(engines, SrcID(r), DstID(r), idIndex).verdict = "allow"

\* The engine allows a range strictly inside the one the peer stands for.
subsetAllowCidr(peer, unmatched) ==
    /\ NodeType(peer) = "cidr" /\ CidrType(peer[2]) # "wan"
    /\ \E r \in unmatched : /\ NodeType(r.peer) = "cidr" /\ r.peer # peer
                            /\ CidrContains(peer[2], r.peer[2])

(***************************************************************************)
(* Policy and mesh conflicts.                                              *)
(***************************************************************************)

\* Mutant: one pair for each source.
CheckedPairsBySource(engines, idIndex) ==
    LET pairs == {<<SrcID(r), DstID(r)>> :
                     r \in {a \in UNION {engines[e] : e \in DOMAIN engines} : a.action = "allow"}}
        known == {p \in pairs : p[1] \in idIndex /\ p[2] \in idIndex}
    IN  {CHOOSE p \in known : p[1] = s : s \in {p[1] : p \in known}}

\* The pairs some rule allows, each looked at once, both ends known.
CheckedPairs(engines, idIndex) ==
    {p \in {<<SrcID(r), DstID(r)>> :
               r \in {a \in UNION {engines[e] : e \in DOMAIN engines} : a.action = "allow"}} :
        p[1] \in idIndex /\ p[2] \in idIndex}

\* The finding of one engine that blocks a pair.
BlockedPair(engines, e, src, dst, idIndex) ==
    LET egress  == collectToSide(engines[e], src, dst, idIndex)
        ingress == collectFromSide(engines[e], src, dst, idIndex)
        narrow  == \/ subsetAllowCidr(dst, egress.matches.otherAllow)
                   \/ subsetAllowCidr(src, ingress.matches.otherAllow)
    IN  [type |-> CASE isLayeredPolicy(engines, e, src, dst, idIndex) -> "partial access"
                    [] ~isLayeredPolicy(engines, e, src, dst, idIndex) /\ narrow ->
                          "cidr scope mismatch"
                    [] OTHER -> "policy conflict",
         engine |-> e, src |-> src, dst |-> dst,
         ingressCulprits |-> ingress.culprits, egressCulprits |-> egress.culprits]

PolicyConflicts(engines, idIndex) ==
    UNION {{BlockedPair(engines, e, p[1], p[2], idIndex) :
               e \in PoliciesCanReach(engines, p[1], p[2], idIndex).blockedBy} :
               p \in CheckedPairs(engines, idIndex)}

\* Namespace nodes have no membership of their own to ask about.
MeshConflicts(engines, idIndex, mesh) ==
    {[type |-> "mesh conflict", src |-> p[1], dst |-> p[2],
      culprit |-> MeshReachability(mesh, p[1], p[2]).effective] :
        p \in {q \in CheckedPairs(engines, idIndex) :
                  /\ "namespace" \notin {NodeType(q[1]), NodeType(q[2])}
                  /\ MeshReachability(mesh, q[1], q[2]).verdict = "deny"}}

(***************************************************************************)
(* DNS.  The resolver is the first node of an unordered match.             *)
(***************************************************************************)
allowsFullPortAccess(rules, id, port) ==
    \E r \in rules : /\ r.node = id /\ r.direction = "egress" /\ r.action = "allow"
                     /\ r.coverage = "allow all" /\ port \in r.ports

\* Mutant: whoever may talk to the resolver may ask it.
DnsPortMissed(side) == side.reason # "permitted"

\* What makes one engine's answer on the way to the resolver a finding.
DnsBlocked(side) ==
    /\ side.reason # "no-opinion"
    /\ side.reason = "permitted" => ~side.allPorts /\ DNSPort \notin side.ports

MissingDns(engines, idIndex, resolver) ==
    UNION {LET Side(id) == collectToSide(engines[e], id, resolver, idIndex)
               Blanket(id) == \E n \in {id, NsIdOf(id)} : allowsFullPortAccess(engines[e], n, DNSPort)
               Named(id) == IF Side(id).reason = "permitted"
                            THEN {r.contributor : r \in Side(id).matches.allow}
                            ELSE Side(id).culprits
           IN  {[type |-> "no dns", engine |-> e, src |-> id, culprits |-> Named(id)] :
                   id \in {n \in IndexedNodes \ {resolver} : /\ NodeType(n) = "workload"
                                                             /\ ~Blanket(n)
                                                             /\ DnsBlocked(Side(n))}} :
               e \in DOMAIN engines}

(***************************************************************************)
(* The tunnel.                                                             *)
(***************************************************************************)

\* The rules of its namespace a node is the source of.
GetNodeData(rules, id) == {r \in ByNs(rules, NsIdOf(id)) : SrcID(r) = id}

PeerEnd(r) == IF r.direction = "ingress" THEN SrcID(r) ELSE DstID(r)

ruleGloballyAdmitsHBONE(r) ==
    r.action = "allow" /\ PeerEnd(r) = Empty /\ (r.ports = {} \/ ZtunnelHBONEPort \in r.ports)

detectGlobalHBONEOpen(rules, direction) ==
    \E r \in rules : r.direction = direction /\ ruleGloballyAdmitsHBONE(r)

LacksHBONE(r) == r.ports # {} /\ ZtunnelHBONEPort \notin r.ports

\* The policies that restrict a mesh peer's ports and leave the tunnel out.  A
\* policy with several rules for one peer is flagged or not by their order; it
\* is listed here when some order flags it.
ValidateExternalRules(rules, id, mesh) ==
    LET own == GetNodeData(rules, id) IN
    IF ~Membership(mesh, id).inMesh THEN {}
    ELSE {[type |-> "mesh transport blocked", node |-> id, direction |-> r.direction,
           culprit |-> r.contributor] :
              r \in {a \in own : /\ ~detectGlobalHBONEOpen(own, a.direction)
                                 /\ PeerEnd(a) \in IndexedNodes /\ participatesInMesh(PeerEnd(a))
                                 /\ a.action = "allow" /\ LacksHBONE(a)}}
=============================================================================
