------------------------------- MODULE Calico -------------------------------
(***************************************************************************)
(* The Calico engine (internal/policy/calico): GlobalNetworkPolicies are    *)
(* sorted by precedence, and for each workload, direction and bucket, a     *)
(* range and a port some policy names, the first policy with a rule for the *)
(* bucket wins.                                                            *)
(*                                                                         *)
(* A policy is                                                             *)
(*   [name, tier, order, selector, nsSelector, types, ingress, egress]      *)
(* with Nil for an unset tier, order or nsSelector, and sequences of rules  *)
(*   [action, nets, notNets, protocol, sourcePorts, destinationPorts,       *)
(*    unsupported]                                                          *)
(* in array order.  nets and notNets are those of the peer, the source of an *)
(* ingress rule and the destination of an egress rule; the protocol is Nil   *)
(* when unset.  unsupported stands for a peer or port the engine cannot      *)
(* read.  Names are numbers: only their order matters.                     *)
(***************************************************************************)
EXTENDS Cluster, Naturals, Sequences

CONSTANTS
    GlobalPols,     \* every GlobalNetworkPolicy that may be applied
    DefaultTier,    \* the tier of a policy that names none
    TierRank,       \* tier -> the place of its name in string order
    MaxOrder        \* math.MaxFloat64: no order is above it

VARIABLE gnps       \* the GlobalNetworkPolicies in the cluster now

\* models.Port{}, the port of a bucket for all ports.
AllPorts == [port |-> 0, protocol |-> Nil]

Protocols == {"TCP", "UDP", "SCTP", "ICMP"}

PolicyRules ==
    [action : {"Allow", "Deny", "Pass", "Log"}, nets : SUBSET Cidrs, notNets : SUBSET Cidrs,
     protocol : Protocols \cup {Nil},
     sourcePorts : SUBSET (Nat \ {0}), destinationPorts : SUBSET (Nat \ {0}),
     unsupported : BOOLEAN]

ASSUME CalicoAssumption ==
    /\ DefaultTier \in DOMAIN TierRank /\ MaxOrder \in Nat
    /\ \A t \in DOMAIN TierRank : TierRank[t] \in Nat
    /\ \A p \in GlobalPols :
        /\ p.name \in Nat
        /\ p.order # Nil => p.order \in 0..MaxOrder
        /\ p.tier # Nil => p.tier \in DOMAIN TierRank
        /\ p.types \subseteq {"ingress", "egress"}
        /\ p.ingress \in Seq(PolicyRules) /\ p.egress \in Seq(PolicyRules)

(***************************************************************************)
(* Decoding.                                                               *)
(***************************************************************************)

\* A selector says which labels are there and which are not.
selectorMatches(selector, labels) ==
    selector.has \subseteq labels /\ selector.lacks \cap labels = {}

tierOf(p) == IF p.tier = Nil THEN DefaultTier ELSE p.tier

normalizeOrder(order) == IF order = Nil THEN MaxOrder ELSE order

\* The rules that decide, by their place in the policy: Log rules are dropped.
rulesFor(p, direction) == {i \in DOMAIN p[direction] : p[direction][i].action # "Log"}

PeerPorts(rule, direction) ==
    IF direction = "ingress" THEN rule.sourcePorts ELSE rule.destinationPorts

\* The ports the engine keeps of a rule: those of its peer, each with the rule's
\* protocol.  The workload's own ports, and a protocol without a port, are lost.
convertPorts(rule, direction) ==
    {[port |-> n, protocol |-> rule.protocol] : n \in PeerPorts(rule, direction)}

\* Whether the policy governs a direction; unset types follow from the rules.
deriveTypes(p, direction) ==
    IF p.types # {} THEN direction \in p.types
    ELSE IF direction = "egress" THEN p.egress # <<>>
                                 ELSE p.ingress # <<>> \/ p.egress = <<>>

\* getPolicies fails, and the evaluation with it, when one policy cannot be read.
decodes(p) ==
    \A d \in {"ingress", "egress"} : \A i \in rulesFor(p, d) : ~p[d][i].unsupported

(***************************************************************************)
(* Precedence and selection.                                               *)
(***************************************************************************)

\* Mutant: the name decides before the order.
precedesByName(p, q) ==
    \/ TierRank[tierOf(p)] < TierRank[tierOf(q)]
    \/ tierOf(p) = tierOf(q) /\ p.name < q.name

sortByPrecedence(p, q) ==
    \/ TierRank[tierOf(p)] < TierRank[tierOf(q)]
    \/ /\ tierOf(p) = tierOf(q)
       /\ \/ normalizeOrder(p.order) < normalizeOrder(q.order)
          \/ normalizeOrder(p.order) = normalizeOrder(q.order) /\ p.name < q.name

FirstOf(ps) == CHOOSE p \in ps : \A q \in ps \ {p} : sortByPrecedence(p, q)

nsSelectingPolicies(n) ==
    {p \in gnps : p.nsSelector = Nil \/ selectorMatches(p.nsSelector, NsLabels[n])}

\* What a policy's selector is matched with: nothing, for a namespace node.
LabelsForSelector(id) == IF NodeType(id) = "namespace" THEN {} ELSE PodLabels[id[2]]

workloadSelectingPolicies(id) ==
    {p \in nsSelectingPolicies(NsIdOf(id)[2]) : selectorMatches(p.selector, LabelsForSelector(id))}

(***************************************************************************)
(* Buckets.                                                                *)
(***************************************************************************)
destinationBuckets(ps, direction) ==
    {[cidr |-> WanCidr, port |-> AllPorts]} \cup
    UNION {LET ports == convertPorts(r, direction)
           IN  {[cidr |-> c, port |-> port] : c \in IF r.nets = {} THEN {WanCidr} ELSE r.nets,
                                              port \in IF ports = {} THEN {AllPorts} ELSE ports} :
               r \in UNION {{p[direction][i] : i \in rulesFor(p, direction)} : p \in ps}}

\* A rule covers a range its nets hold and no one of its notNets holds.
netsCover(rule, cidr) ==
    /\ \A c \in rule.notNets : ~CidrContains(c, cidr)
    /\ rule.nets = {} \/ \E c \in rule.nets : CidrContains(c, cidr)

\* A rule for some ports says nothing of all ports.
portsCover(rulePorts, port) ==
    rulePorts = {} \/ (port # AllPorts /\ port \in rulePorts)

Covering(p, direction, bucket) ==
    {i \in rulesFor(p, direction) :
        /\ netsCover(p[direction][i], bucket.cidr)
        /\ portsCover(convertPorts(p[direction][i], direction), bucket.port)}

\* The first rule of a policy for a bucket.
FirstRule(p, direction, bucket) ==
    LET is == Covering(p, direction, bucket)
    IN  p[direction][CHOOSE i \in is : \A j \in is : i <= j]

\* The policies with an opinion on a bucket: a Pass ends the policy's.
buildBucketCandidates(ps, direction, bucket) ==
    {p \in ps : /\ Covering(p, direction, bucket) # {}
                /\ FirstRule(p, direction, bucket).action # "Pass"}

mapAction(action) == IF action = "Deny" THEN "deny" ELSE "allow"

DirectionWide(edge) == edge.cidr = WanCidr /\ edge.port = AllPorts

\* Drops the edges that only repeat what the direction-wide one says.
dropRestatedEdges(edges) ==
    {e \in edges : ~\E w \in edges : /\ DirectionWide(w) /\ e.cidr # w.cidr
                                     /\ e.port = w.port /\ e.action = w.action
                                     /\ e.winner = w.winner}

\* The verdict of the first match on each bucket of the node's namespace.
resolveDirection(id, direction) ==
    LET ps == nsSelectingPolicies(NsIdOf(id)[2])
        Matching(b) == {p \in buildBucketCandidates(ps, direction, b) :
                           selectorMatches(p.selector, LabelsForSelector(id))}
        Edge(b) == LET w == FirstOf(Matching(b))
                   IN  [cidr |-> b.cidr, port |-> b.port, winner |-> w,
                        action |-> mapAction(FirstRule(w, direction, b).action)]
    IN  dropRestatedEdges({Edge(b) : b \in {c \in destinationBuckets(ps, direction) :
                                               Matching(c) # {}}})

(***************************************************************************)
(* Rules, as Reachability reads them.                                      *)
(***************************************************************************)
coverageFor(edge) ==
    IF ~DirectionWide(edge) THEN "restricted"
    ELSE IF edge.action = "allow" THEN "allow all" ELSE "deny all"

\* A rule for 0.0.0.0/0 has no peer, whatever its ports.
buildRulesForWorkload(id, edges, direction) ==
    {[node |-> id, direction |-> direction, coverage |-> coverageFor(e), action |-> e.action,
      peer |-> IF e.cidr = WanCidr THEN Empty ELSE CidrId(e.cidr),
      ports |-> {e.port.port} \ {AllPorts.port}, protocol |-> e.port.protocol,
      contributor |-> e.winner] : e \in edges}

anyGoverns(selecting, direction) == \E p \in selecting : deriveTypes(p, direction)

hasCatchAll(edges) == \E e \in edges : DirectionWide(e)

denyAllBaseline(id, direction, p) ==
    [node |-> id, direction |-> direction, coverage |-> "deny all", action |-> "deny",
     peer |-> Empty, ports |-> {}, protocol |-> Nil, contributor |-> p]

unenforcedRule(id, direction, p) ==
    [node |-> id, direction |-> direction, coverage |-> "unenforced", action |-> "allow",
     peer |-> Empty, ports |-> {}, protocol |-> Nil, contributor |-> p]

\* One direction of a node: the resolved edges and, when no edge speaks for the
\* whole direction, the default deny or the mark of an ungoverned direction.
resolveWorkload(id, direction) ==
    LET selecting == workloadSelectingPolicies(id)
        edges     == resolveDirection(id, direction)
    IN  IF selecting = {} THEN {}
        ELSE buildRulesForWorkload(id, edges, direction) \cup
             (IF ~anyGoverns(selecting, direction)
              THEN {unenforcedRule(id, direction, FirstOf(selecting))}
              ELSE IF hasCatchAll(edges) THEN {}
                   ELSE {denyAllBaseline(id, direction, FirstOf(selecting))})

\* NodeRules of the engine and the CIDR nodes it adds to the id index, when every
\* policy decodes; otherwise the cycle fails, as in CacheRefresh.
CalicoRules ==
    UNION {resolveWorkload(id, d) : id \in IndexedNodes, d \in {"ingress", "egress"}}

CalicoNodes(rules) == {r.peer : r \in rules} \ {Empty}

\* The digest of a node: the locks of whoever selects it, the reach of the edges
\* that allow.  internet and lan are the ranges classified so.
buildCalicoStatus(id, internet, lan) ==
    LET selecting == workloadSelectingPolicies(id)
        Reaches(d, ranges) == \E e \in resolveDirection(id, d) : e.action = "allow" /\ e.cidr \in ranges
    IN  [ingressLocked   |-> anyGoverns(selecting, "ingress"),
         egressLocked    |-> anyGoverns(selecting, "egress"),
         internetEgress  |-> Reaches("egress", internet),
         internetIngress |-> Reaches("ingress", internet),
         lanEgress       |-> Reaches("egress", lan),
         lanIngress      |-> Reaches("ingress", lan),
         crossNs |-> FALSE, apiServerEgress |-> FALSE, innerNsEgress |-> FALSE,
         innerNsIngress |-> FALSE, hasL7 |-> FALSE]
============================================================================
