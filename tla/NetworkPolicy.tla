--------------------------- MODULE NetworkPolicy ---------------------------
(***************************************************************************)
(* The Kubernetes engine (internal/policy/k8spolicy): how NetworkPolicies   *)
(* become rules between nodes, which policies select a node, and the        *)
(* status digest of a workload.                                            *)
(*                                                                         *)
(* A policy is                                                             *)
(*   [namespace, podSelector, policyTypes, ingress, egress]                 *)
(* where policyTypes is a set of directions and ingress and egress are sets *)
(* of [peers, ports]; ports = {} means all ports.  A peer is                *)
(*   [podSelector, namespaceSelector, ipBlock] with Nil for an unset field  *)
(* and ipBlock = [cidr, except].  The policy is its own identity: the       *)
(* contributor of a rule is the policy it came from.                       *)
(***************************************************************************)
EXTENDS Cluster

CONSTANTS
    NetPols,        \* every NetworkPolicy that may be applied
    ApiServerCidrs  \* apiServerCIDRs of the configuration

VARIABLE netpols    \* the NetworkPolicies in the cluster now

Directions == {"ingress", "egress"}

RulesOf(p, direction) == IF direction = "egress" THEN p.egress ELSE p.ingress

\* The API server rejects a peer that names nobody, an ipBlock beside a selector
\* and an exception that is not a strict part of its block.
ASSUME NetPolAssumption ==
    /\ ApiServerCidrs \subseteq Cidrs
    /\ \A p \in NetPols :
        /\ p.namespace \in Namespaces
        /\ p.podSelector \in Selectors
        /\ p.policyTypes \subseteq Directions
        /\ \A r \in p.ingress \cup p.egress : \A peer \in r.peers :
              /\ (peer.ipBlock = Nil) = (peer.podSelector # Nil \/ peer.namespaceSelector # Nil)
              /\ peer.ipBlock # Nil => \A c \in {peer.ipBlock.cidr} \cup peer.ipBlock.except :
                    c \in Cidrs /\ CidrContains(peer.ipBlock.cidr, c)
              /\ peer.ipBlock # Nil => \A c \in peer.ipBlock.except :
                    ~CidrContains(c, peer.ipBlock.cidr)

(***************************************************************************)
(* Rules.                                                                  *)
(***************************************************************************)

\* Mutant: the label index of every namespace.
getSourceNodesAnyNs(p) ==
    IF isCatchAll(p.podSelector) THEN {NsId(p.namespace)}
                                 ELSE UNION {IndexLabelMatch(p.podSelector, n) : n \in Namespaces}

\* The nodes a policy protects: the namespace node for the catch-all selector,
\* else whatever the label index holds for the labels.
getSourceNodes(p) ==
    IF isCatchAll(p.podSelector) THEN {NsId(p.namespace)}
                                 ELSE IndexLabelMatch(p.podSelector, p.namespace)

egressLocked(p) == "egress" \in p.policyTypes

ingressLocked(p) == p.policyTypes = {} \/ "ingress" \in p.policyTypes

Locked(p, direction) == IF direction = "egress" THEN egressLocked(p) ELSE ingressLocked(p)

\* A rule before buildAllowRulesByNs fills in the node it protects.
NewRule(p, direction, peer, coverage, action, ports) ==
    [node |-> Empty, peer |-> peer, direction |-> direction, coverage |-> coverage,
     action |-> action, ports |-> ports, contributor |-> p]

PeerNamespaces(p, peer) ==
    IF peer.namespaceSelector = Nil
    THEN {p.namespace}
    ELSE {n \in Namespaces : LabelsMatch(peer.namespaceSelector, NsLabels[n])}

\* The nodes a selector peer stands for.  A namespaceSelector that catches all
\* namespaces, alone, is dropped.
PeerNodes(p, peer) ==
    CASE peer.podSelector = Nil /\ peer.namespaceSelector = Nil -> {}
      [] peer.podSelector = Nil /\ peer.namespaceSelector # Nil ->
            {NsId(n) : n \in {m \in PeerNamespaces(p, peer) : ~isCatchAll(peer.namespaceSelector)}}
      [] OTHER ->
            IF isCatchAll(peer.podSelector)
            THEN {NsId(n) : n \in PeerNamespaces(p, peer)}
            ELSE UNION {IndexLabelMatch(peer.podSelector, n) : n \in PeerNamespaces(p, peer)}

BlockNodes(peer) == IF peer.ipBlock = Nil THEN {} ELSE {CidrId(peer.ipBlock.cidr)}

ExceptNodes(peer) == IF peer.ipBlock = Nil THEN {} ELSE {CidrId(c) : c \in peer.ipBlock.except}

\* Mutant: the ports of the rule are not copied to its peers' rules.
expandPeerRulesAllPorts(p, direction, peer, ports) ==
    {NewRule(p, direction, id, "restricted", "allow", {}) :
        id \in PeerNodes(p, peer) \cup BlockNodes(peer)}

expandPeerRules(p, direction, peer, ports) ==
    LET coverage == IF peer.podSelector # Nil /\ isCatchAll(peer.podSelector)
                    THEN "allow all ns" ELSE "restricted"
    IN  {NewRule(p, direction, id, coverage, "allow", ports) :
            id \in PeerNodes(p, peer) \cup BlockNodes(peer)}
        \cup
        {NewRule(p, direction, id, "except", "deny", ports) : id \in ExceptNodes(peer)}

\* One direction of a policy: a marker when it has no rules, an allow-all rule
\* for a rule without peers, else the expansion of each peer.
expandRules(p, direction) ==
    IF RulesOf(p, direction) = {}
    THEN {NewRule(p, direction, Empty,
                  IF Locked(p, direction) THEN "deny all" ELSE "unenforced", "allow", {})}
    ELSE UNION {IF r.peers = {}
                THEN {NewRule(p, direction, Empty, "allow all", "allow", r.ports)}
                ELSE UNION {expandPeerRules(p, direction, peer, r.ports) : peer \in r.peers} :
                r \in RulesOf(p, direction)}

expandEgressRules(p) == expandRules(p, "egress")

expandIngressRules(p) == expandRules(p, "ingress")

\* NodeRules of the engine: every rule at every node its policy protects.
buildAllowRulesByNs ==
    UNION {{[r EXCEPT !.node = id] : r \in expandEgressRules(p) \cup expandIngressRules(p),
                                     id \in getSourceNodes(p)} : p \in netpols}

\* The CIDR nodes the engine adds to the id index, whoever the policy protects.
CidrNodes ==
    UNION {UNION {BlockNodes(peer) \cup ExceptNodes(peer) : peer \in r.peers} :
              r \in UNION {p.ingress \cup p.egress : p \in netpols}}

(***************************************************************************)
(* Status.                                                                 *)
(***************************************************************************)

\* The policies of its namespace that select a node.
getNodePolicies(id) ==
    {p \in netpols : /\ NsId(p.namespace) = NsIdOf(id)
                     /\ IF NodeType(id) = "namespace" THEN isCatchAll(p.podSelector)
                        ELSE LabelsMatch(p.podSelector, LabelsOf(id))}

PeersOf(p, direction) == UNION {r.peers : r \in RulesOf(p, direction)}

IsIpBlockInternetAccess(block) == block.cidr = WanCidr

IsIpBlockApiServerAccess(block) == \E c \in ApiServerCidrs : CidrContains(c, block.cidr)

IsIpBlockClusterInternal(block) ==
    CidrContains(PodCidr, block.cidr) \/ CidrContains(SvcCidr, block.cidr)

IsIpBlockLanAccess(block) ==
    /\ ~IsIpBlockInternetAccess(block)
    /\ ~IsIpBlockClusterInternal(block)
    /\ ~IsIpBlockApiServerAccess(block)

HasBlock(p, direction, Is(_)) ==
    \E peer \in PeersOf(p, direction) : peer.ipBlock # Nil /\ Is(peer.ipBlock)

\* The peer names another namespace than the policy's, or none by name.
NamesOtherNs(p, peer) ==
    /\ peer.namespaceSelector # Nil
    /\ NameLabel[p.namespace] \notin peer.namespaceSelector.labels

\* Every pod of the policy's own namespace.
NamesOwnNs(p, peer) ==
    /\ peer.ipBlock = Nil
    /\ peer.podSelector = Nil \/ isCatchAll(peer.podSelector)
    /\ peer.namespaceSelector = Nil \/ NameLabel[p.namespace] \in peer.namespaceSelector.labels

buildPolicyStatus(ps) ==
    [ingressLocked   |-> \E p \in ps : p.policyTypes = {} \/ "ingress" \in p.policyTypes,
     egressLocked    |-> \E p \in ps : \/ "egress" \in p.policyTypes
                                       \/ p.policyTypes = {} /\ p.egress # {},
     crossNs         |-> \E p \in ps, d \in Directions : \E peer \in PeersOf(p, d) :
                             NamesOtherNs(p, peer),
     internetEgress  |-> \E p \in ps : HasBlock(p, "egress", IsIpBlockInternetAccess),
     internetIngress |-> \E p \in ps : HasBlock(p, "ingress", IsIpBlockInternetAccess),
     apiServerEgress |-> \E p \in ps : HasBlock(p, "egress", IsIpBlockApiServerAccess),
     lanEgress       |-> \E p \in ps : HasBlock(p, "egress", IsIpBlockLanAccess),
     lanIngress      |-> \E p \in ps : HasBlock(p, "ingress", IsIpBlockLanAccess),
     innerNsEgress   |-> \E p \in ps : \E peer \in PeersOf(p, "egress") : NamesOwnNs(p, peer),
     innerNsIngress  |-> \E p \in ps : \E peer \in PeersOf(p, "ingress") : NamesOwnNs(p, peer),
     hasL7           |-> FALSE]
============================================================================
