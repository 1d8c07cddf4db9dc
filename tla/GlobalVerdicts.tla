--------------------------- MODULE GlobalVerdicts ---------------------------
(***************************************************************************)
(* What the Calico engine and the fused verdict are worth: PolicyVerdicts'  *)
(* cluster, with the GlobalNetworkPolicy API of Calico written independently *)
(* of the engine.                                                          *)
(***************************************************************************)
EXTENDS PolicyVerdicts

(***************************************************************************)
(* What Calico does, within one tier.                                      *)
(***************************************************************************)
RulesNamed(p) == UNION {{p[d][i] : i \in DOMAIN p[d]} : d \in Directions}

GlobalRules == UNION {RulesNamed(p) : p \in gnps}

\* A packet has a protocol and the ports it leaves from and goes to; Nil and 0
\* stand for a protocol and a port that no policy names.
Packets ==
    [protocol : {r.protocol : r \in GlobalRules} \cup {Nil},
     sourcePort : {0} \cup UNION {r.sourcePorts : r \in GlobalRules},
     destinationPort : {0} \cup UNION {r.destinationPorts : r \in GlobalRules}]

\* The rule meets a packet whose peer has the address a.
HitsPacket(r, a, packet) ==
    /\ r.nets = {} \/ \E c \in r.nets : a \in AddrsOf[c]
    /\ \A c \in r.notNets : a \notin AddrsOf[c]
    /\ r.protocol \in {Nil, packet.protocol}
    /\ r.sourcePorts = {} \/ packet.sourcePort \in r.sourcePorts
    /\ r.destinationPorts = {} \/ packet.destinationPort \in r.destinationPorts

CalicoGoverns(p, direction) ==
    \/ direction \in p.types
    \/ p.types = {} /\ CASE direction = "egress"  -> Len(p.egress) > 0
                         [] direction = "ingress" -> Len(p.ingress) > 0 \/ Len(p.egress) = 0

Globals(id, direction) ==
    {p \in gnps : /\ CalicoGoverns(p, direction)
                  /\ p.nsSelector # Nil => selectorMatches(p.nsSelector, NsLabels[NsOf[id[2]]])
                  /\ selectorMatches(p.selector, PodLabels[id[2]])}

\* The rules of a policy that decide a packet, by their place in it.
Deciding(p, direction, a, packet) ==
    {i \in DOMAIN p[direction] : /\ p[direction][i].action # "Log"
                                 /\ HitsPacket(p[direction][i], a, packet)}

Sooner(p, q) ==
    \/ q.order = Nil /\ p.order # Nil
    \/ q.order # Nil /\ p.order # Nil /\ p.order < q.order
    \/ q.order = p.order /\ p.name < q.name

\* The action that meets the packet first; what nothing meets is denied.
FirstMatch(id, direction, a, packet) ==
    LET deciders == {p \in Globals(id, direction) : Deciding(p, direction, a, packet) # {}}
        first    == CHOOSE p \in deciders : \A q \in deciders \ {p} : Sooner(p, q)
        places   == Deciding(first, direction, a, packet)
    IN  IF deciders = {} THEN "Deny"
        ELSE first[direction][CHOOSE i \in places : \A j \in places : i <= j].action

\* Some packet gets through.
CalicoAllowed(id, direction, a) ==
    \/ Globals(id, direction) = {}
    \/ \E packet \in Packets : FirstMatch(id, direction, a, packet) = "Allow"

----------------------------------------------------------------------------
(***************************************************************************)
(* The fragment of GlobalNetworkPolicy the engine resolves as Calico does.  *)
(***************************************************************************)
\* The engine reads the rule's ports as they are meant: those of the peer alone,
\* with the protocol.  It drops the workload's own ports and a protocol without a
\* port, and takes ports without a protocol for those of a protocol of their own.
ReadsPorts(r, direction) ==
    /\ (IF direction = "ingress" THEN r.destinationPorts ELSE r.sourcePorts) = {}
    /\ PeerPorts(r, direction) = {} <=> r.protocol = Nil

\* The rule allows everything, or everything but some ranges.
AllowsWan(r) ==
    r.action = "Allow" /\ (r.nets = {} \/ \E c \in r.nets : CidrContains(c, WanCidr))

\* The engine sorts tiers by name, lets the next policy of the tier go on after a
\* Pass, ties the highest order with no order, and reads rules of a direction types
\* leave out; the ranges an allow of everything makes exceptions of get no bucket.
OneTier(p) ==
    /\ decodes(p) /\ p.tier = Nil /\ p.order # MaxOrder
    /\ \A r \in RulesNamed(p) : r.action # "Pass" /\ (AllowsWan(r) => r.notNets = {})
    /\ \A d \in Directions : /\ p[d] # <<>> => CalicoGoverns(p, d)
                            /\ \A i \in rulesFor(p, d) : ReadsPorts(p[d][i], d)

\* A selector that the empty label set satisfies hits the namespace node, and
\* through it every workload of the namespace: fine for all(), wrong for !has(x).
MissesNs(p) == p.selector.lacks = {}

\* A rule for 0.0.0.0/0 has no peer, whatever its ports, so a deny of some ports of
\* it or one above an allow closes 0.0.0.0/0 altogether: denies of everything come
\* last and name no port.
DeniesWhole(p) ==
    \A d \in Directions : \A i \in rulesFor(p, d) :
        LET r == p[d][i]
        IN  r.action = "Deny" /\ (r.nets = {} \/ \E c \in r.nets : CidrContains(c, WanCidr))
            => PeerPorts(r, d) = {} /\ \A j \in rulesFor(p, d) : j <= i

NamesNoPort(r) == r.sourcePorts = {} /\ r.destinationPorts = {}

\* On top of that, the shape a verdict on two workloads reads right: allows of
\* ranges, which alone may name ports, over one deny of everything.
AllowsOverDeny(p) ==
    /\ OneTier(p) /\ MissesNs(p)
    /\ \A r \in RulesNamed(p) :
        /\ r.notNets = {}
        /\ \A c \in r.nets : PlainRange(c)
        /\ r.action = "Deny" => r.nets = {} /\ NamesNoPort(r)
        /\ r.nets = {} \/ WanCidr \in r.nets => NamesNoPort(r)
    /\ \A d \in Directions : \A i, j \in rulesFor(p, d) : p[d][i].action = "Deny" => j <= i

InNs(id) == nsSelectingPolicies(NsOf[id[2]])

----------------------------------------------------------------------------
(***************************************************************************)
(* Properties.                                                             *)
(***************************************************************************)

\* The addresses of a range that are in no range a rule names below it.
Typical(c, named) == {a \in AddrsOf[c] : \A x \in named : a \in AddrsOf[x] => CidrContains(x, c)}

\* The packets of a bucket's port: the peer sends from it to a workload, or gets them
\* there; those of AllPorts have a port no policy names, and any protocol.
PacketsOf(direction, port) ==
    {packet \in Packets :
        /\ (IF direction = "ingress" THEN packet.sourcePort ELSE packet.destinationPort) = port.port
        /\ port # AllPorts => packet.protocol = port.protocol}

\* What the rules of a node say of a bucket: the rule for that range and port,
\* else the rule for the whole direction.
Says(calico, id, direction, b) ==
    LET mine == {r \in calico : r.node = id /\ r.direction = direction}
        own  == {r \in mine : /\ r.peer = IF b.cidr = WanCidr THEN Empty ELSE CidrId(b.cidr)
                              /\ r.ports = {b.port.port} \ {AllPorts.port}
                              /\ r.protocol = b.port.protocol}
        wide == {r \in mine : r.coverage \in {"allow all", "deny all"}}
    IN  {r.action : r \in IF own # {} THEN own ELSE wide}

\* Resolving ranges by containment, sharing candidates between the workloads of
\* a namespace and dropping restated edges loses nothing: for every range and
\* port of a peer a policy names, the workload's rules say what the first matching
\* rule does to a packet there, whatever else the packet is.
BucketsAreFirstMatch ==
    LET calico == CalicoRules IN
    \A id \in LiveIds, d \in Directions :
        /\ Globals(id, d) # {}
        /\ \A p \in InNs(id) : OneTier(p)
        => LET named == UNION {r.nets \cup r.notNets : r \in GlobalRules}
           IN  \A b \in destinationBuckets(InNs(id), d) :
               \A a \in Typical(b.cidr, named), packet \in PacketsOf(d, b.port) :
                  Says(calico, id, d, b) =
                     {IF FirstMatch(id, d, a, packet) = "Allow" THEN "allow" ELSE "deny"}

\* What the Calico engine's verdicts are made from: its rules and WorkloadByID.
CalicoEvaluation ==
    LET calico == CalicoRules
    IN  [rules |-> calico, nodes |-> IndexedNodes \cup CidrNodes \cup CalicoNodes(calico)]

\* FEATURES.md: "policies are walked in precedence order and the first whose
\* selector matches the workload wins": with several policies as well.
FirstMatchDecides ==
    LET eval == CalicoEvaluation IN
    \A id \in LiveIds, q \in LiveIds, d \in Directions :
        /\ id # q
        /\ \A p \in InNs(id) : AllowsOverDeny(p)
        /\ ~Permits(Side(eval, d, id, q).reason)
        => ~CalicoAllowed(id, d, AddrOf[q[2]])

\* The status of a node, from both engines.
StatusOf(id) ==
    IntersectPolicyStatus(
        [k8s    |-> buildPolicyStatus(getNodePolicies(id)),
         calico |-> buildCalicoStatus(id, {c \in Cidrs : IsIpBlockInternetAccess([cidr |-> c])},
                                          {c \in Cidrs : IsIpBlockLanAccess([cidr |-> c])})])

\* The badges come from a second pass over the policies and a fusion of their
\* own: a workload badged open to the internet in a direction is blocked from
\* 0.0.0.0/0 by no engine (within DeniesWhole), one badged for a LAN by
\* NetworkPolicies has a LAN range it is not blocked from, and in a direction
\* without a lock no engine blocks anybody.
BadgesMatchVerdicts ==
    LET engines == {Evaluation, CalicoEvaluation}
        Opens(d, id, q) == \A e \in engines : Permits(Side(e, d, id, q).reason)
    IN  \A id \in LiveIds :
            LET status == StatusOf(id)
                keys   == DeriveStatusKeys(status)
                LanOpen(d) == \E c \in Cidrs \ {WanCidr} :
                                 CidrId(c) \in CidrNodes /\ Opens(d, id, CidrId(c))
            IN  InFragment(id) /\ Cardinality(InNs(id)) <= 1
                   /\ (\A p \in InNs(id) : OneTier(p) /\ MissesNs(p)) =>
                /\ CidrId(WanCidr) \in CidrNodes /\ (\A p \in InNs(id) : DeniesWhole(p)) =>
                      /\ keys \cap {"internet-full", "internet-egress"} # {}
                         => Opens("egress", id, CidrId(WanCidr))
                      /\ keys \cap {"internet-full", "internet-ingress"} # {}
                         => Opens("ingress", id, CidrId(WanCidr))
                /\ InNs(id) = {} =>
                      /\ keys \cap {"lan-full", "lan-egress"} # {} => LanOpen("egress")
                      /\ keys \cap {"lan-full", "lan-ingress"} # {} => LanOpen("ingress")
                /\ ~status.egressLocked => \A q \in LiveIds : Opens("egress", id, q)
                /\ ~status.ingressLocked => \A q \in LiveIds : Opens("ingress", id, q)

\* The answer on a pair is the cluster's: each end must let the traffic through,
\* by its NetworkPolicies and by its GlobalNetworkPolicies.  The pairs left out
\* are those with a "no-opinion" the NetworkPolicies do not justify (see
\* NoOpinionMeansUngoverned) and those two GlobalNetworkPolicies share (see
\* FirstMatchDecides).
VerdictIsReal ==
    LET k8s == Evaluation
        calico == CalicoEvaluation
        Judged(d, id, q) == Side(k8s, d, id, q).reason = "no-opinion" => Isolating(id, d) = {}
        Read(id) == /\ InFragment(id) /\ Cardinality(InNs(id)) <= 1
                    /\ \A p \in InNs(id) : AllowsOverDeny(p)
        Open(id, d, q) == Allowed(id, d, q) /\ CalicoAllowed(id, d, AddrOf[q[2]])
    IN  \A src \in LiveIds, dst \in LiveIds :
            /\ src # dst /\ Read(src) /\ Read(dst)
            /\ Judged("egress", src, dst) /\ Judged("ingress", dst, src)
            => (PoliciesCanReach([k8s |-> k8s.rules, calico |-> calico.rules],
                                 src, dst, calico.nodes).verdict = "allow")
               = (Open(src, "egress", dst) /\ Open(dst, "ingress", src))
=============================================================================
