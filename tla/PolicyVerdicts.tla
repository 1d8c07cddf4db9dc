--------------------------- MODULE PolicyVerdicts ---------------------------
(***************************************************************************)
(* A cluster whose workloads and policies come and go, what the server      *)
(* answers about each of its states, and what Kubernetes does there.        *)
(*                                                                         *)
(* CacheRefresh says when a state of the cluster is evaluated and served;   *)
(* this module says what the evaluation of a state is worth.  The engine    *)
(* and the verdicts keep no state, so they are operators of the cluster.   *)
(***************************************************************************)
EXTENDS NetworkPolicy, Calico, Reachability, PolicyStatus, FiniteSets

CONSTANT MaxPolicies    \* policies in the cluster at one time

ASSUME BoundAssumption == MaxPolicies \in 1..8

vars == <<live, netpols, gnps>>

Init == live = {} /\ netpols = {} /\ gnps = {}

Deploy(w) == w \notin live /\ live' = live \cup {w} /\ UNCHANGED <<netpols, gnps>>

Remove(w) == w \in live /\ live' = live \ {w} /\ UNCHANGED <<netpols, gnps>>

Room == Cardinality(netpols) + Cardinality(gnps) < MaxPolicies

Apply(p) ==
    /\ p \notin netpols /\ Room
    /\ netpols' = netpols \cup {p}
    /\ UNCHANGED <<live, gnps>>

Delete(p) == p \in netpols /\ netpols' = netpols \ {p} /\ UNCHANGED <<live, gnps>>

\* The name of a GlobalNetworkPolicy is its identity in the cluster.
ApplyGlobal(p) ==
    /\ \A q \in gnps : q.name # p.name
    /\ Room
    /\ gnps' = gnps \cup {p}
    /\ UNCHANGED <<live, netpols>>

DeleteGlobal(p) == p \in gnps /\ gnps' = gnps \ {p} /\ UNCHANGED <<live, netpols>>

Next ==
    \/ \E w \in Workloads : Deploy(w) \/ Remove(w)
    \/ \E p \in NetPols : Apply(p) \/ Delete(p)
    \/ \E p \in GlobalPols : ApplyGlobal(p) \/ DeleteGlobal(p)

Spec == Init /\ [][Next]_vars

----------------------------------------------------------------------------
(***************************************************************************)
(* What the server answers.                                                *)
(***************************************************************************)

\* What the k8s engine's verdicts are made from: its rules, and of WorkloadByID
\* the nodes of the namespaces and its own CIDR nodes.  The other engines' CIDR
\* nodes count only when one of them is asked about, which is not done here.
Evaluation == [rules |-> buildAllowRulesByNs, nodes |-> IndexedNodes \cup CidrNodes]

\* One direction of an engine's verdict: id on one side, peer on the other.
Side(eval, direction, id, peer) ==
    IF direction = "egress" THEN collectToSide(eval.rules, id, peer, eval.nodes)
                            ELSE collectFromSide(eval.rules, peer, id, eval.nodes)

LiveIds == {WorkloadId(w) : w \in live}

\* A range of one address is an endpoint like a pod; a wider one is allowed in
\* part, which a verdict cannot say.
Hosts == {q \in CidrNodes : \E a \in AddrsOf[q[2]] : AddrsOf[q[2]] = {a}}

----------------------------------------------------------------------------
(***************************************************************************)
(* What Kubernetes does: the NetworkPolicy API, written independently of    *)
(* the engine.                                                             *)
(***************************************************************************)

Selects(p, id) ==
    p.namespace = NsOf[id[2]] /\ p.podSelector.labels \subseteq PodLabels[id[2]]

Governs(p, direction) ==
    IF direction = "ingress"
    THEN p.policyTypes = {} \/ "ingress" \in p.policyTypes
    ELSE "egress" \in p.policyTypes \/ (p.policyTypes = {} /\ p.egress # {})

Isolating(id, direction) == {p \in netpols : Selects(p, id) /\ Governs(p, direction)}

Addresses(id) == IF NodeType(id) = "cidr" THEN AddrsOf[id[2]] ELSE {AddrOf[id[2]]}

HeldByBlock(block, id) ==
    Addresses(id) \subseteq AddrsOf[block.cidr] \ UNION {AddrsOf[c] : c \in block.except}

MatchedBySelectors(p, peer, id) ==
    /\ NodeType(id) = "workload"
    /\ IF peer.namespaceSelector = Nil THEN NsOf[id[2]] = p.namespace
       ELSE peer.namespaceSelector.labels \subseteq NsLabels[NsOf[id[2]]]
    /\ peer.podSelector # Nil => peer.podSelector.labels \subseteq PodLabels[id[2]]

PeerMatches(p, peer, id) ==
    IF peer.ipBlock # Nil THEN HeldByBlock(peer.ipBlock, id) ELSE MatchedBySelectors(p, peer, id)

\* The rules that let id talk to q in that direction.
AllowingRules(id, direction, q) ==
    UNION {{r \in RulesOf(p, direction) :
               r.peers = {} \/ \E peer \in r.peers : PeerMatches(p, peer, q)} :
               p \in Isolating(id, direction)}

Allowed(id, direction, q) ==
    Isolating(id, direction) = {} \/ AllowingRules(id, direction, q) # {}

----------------------------------------------------------------------------
(***************************************************************************)
(* The fragment of NetworkPolicy the engine claims.  FEATURES.md lists      *)
(* matchExpressions and the bare catch-all namespaceSelector as not read.   *)
(* The other conditions are where the engine departs from Kubernetes        *)
(* without saying so; the README describes each.                           *)
(***************************************************************************)
PeerSelectors(p) ==
    UNION {{peer.podSelector, peer.namespaceSelector} \ {Nil} :
              peer \in PeersOf(p, "ingress") \cup PeersOf(p, "egress")}

ReadsSelectors(p) ==
    /\ \A s \in PeerSelectors(p) \cup {p.podSelector} : ~s.exprs
    /\ \A peer \in PeersOf(p, "ingress") \cup PeersOf(p, "egress") :
          peer.podSelector = Nil /\ peer.namespaceSelector # Nil
             => ~isCatchAll(peer.namespaceSelector)

\* A pod selector that a Namespace object's labels satisfy hits the ns node.
ReadsPodLabels(p) ==
    \A s \in {p.podSelector} \cup
             ({peer.podSelector : peer \in PeersOf(p, "ingress") \cup PeersOf(p, "egress")} \ {Nil}) :
        s.labels # {} => \A n \in Namespaces : ~LabelsMatch(s, NsLabels[n])

\* Rules of a direction policyTypes leaves out are dead in Kubernetes.
NoDeadRules(p) == \A d \in Directions : RulesOf(p, d) # {} => Governs(p, d)

\* A range holds the whole pod range or none of it, and a service range is
\* not used for pods.
PlainRange(c) ==
    \/ CidrContains(c, PodCidr)
    \/ AddrsOf[c] \cap AddrsOf[PodCidr] = {} /\ CidrType(c) = "lan"

Blocks(p, direction) == {peer.ipBlock : peer \in PeersOf(p, direction)} \ {Nil}

\* No other block of the policy holds a range that one of its blocks excepts.
OwnExcepts(p) ==
    \A d \in Directions : \A a, b \in Blocks(p, d) :
        a # b => \A c \in b.except : ~CidrContains(a.cidr, c)

PlainBlocks(p) ==
    /\ \A d \in Directions : \A b \in Blocks(p, d) : \A c \in b.except \cup {b.cidr} : PlainRange(c)
    /\ OwnExcepts(p)

Supported(p) ==
    ReadsSelectors(p) /\ ReadsPodLabels(p) /\ NoDeadRules(p) /\ PlainBlocks(p)

\* Nothing outside the fragment is in the namespace of the workload.
InFragment(id) == \A p \in netpols : p.namespace = NsOf[id[2]] => Supported(p)

\* A policy that selects id and has nothing to say on the direction leaves a
\* marker with an empty peer.
Unenforced(id, direction) ==
    \E p \in netpols : Selects(p, id) /\ ~Governs(p, direction)

----------------------------------------------------------------------------
(***************************************************************************)
(* Properties.                                                             *)
(***************************************************************************)

\* A direction reported "permitted" is open in Kubernetes.  For an address
\* outside the cluster this needs that no selecting policy leaves the direction
\* unenforced: the marker's empty peer equals the address' empty namespace id.
PermitsAreReal ==
    LET eval == Evaluation IN
    \A id \in LiveIds, q \in LiveIds \cup Hosts, d \in Directions :
        /\ id # q /\ InFragment(id)
        /\ q \in Hosts => ~Unenforced(id, d)
        /\ Side(eval, d, id, q).reason = "permitted"
        => Allowed(id, d, q)

\* A direction reported blocked, for whatever reason, is closed in Kubernetes.
BlocksAreReal ==
    LET eval == Evaluation IN
    \A id \in LiveIds, q \in LiveIds \cup Hosts, d \in Directions :
        /\ id # q /\ InFragment(id)
        /\ ~Permits(Side(eval, d, id, q).reason)
        => ~Allowed(id, d, q)

\* The ports a permitted direction reports are the ports Kubernetes opens, where
\* no carve-out trimmed an allow.
ReportedPortsAreOpen ==
    LET eval == Evaluation IN
    \A id \in LiveIds, q \in LiveIds, d \in Directions :
        LET side == Side(eval, d, id, q)
            open == {r.ports : r \in AllowingRules(id, d, q)}
        IN  /\ id # q /\ InFragment(id)
            /\ side.reason = "permitted" /\ side.matches.carveOut = {}
            => side.allPorts = ({} \in open) /\ side.ports = UNION open

\* A block names at least one policy, and each one named isolates the workload
\* in that direction: editing it can matter.
CulpritsIsolate ==
    LET eval == Evaluation IN
    \A id \in LiveIds, q \in LiveIds \cup Hosts, d \in Directions :
        LET side == Side(eval, d, id, q) IN
        id # q /\ InFragment(id) /\ ~Permits(side.reason)
        => side.culprits # {} /\ side.culprits \subseteq Isolating(id, d)

\* A policy of another namespace, whatever is in it, changes no direction of a
\* workload.
ForeignPolicyIsInert ==
    [][LET changed == (netpols \cup netpols') \ (netpols \cap netpols')
           before  == Evaluation
           after   == Evaluation'
       IN  live' = live =>
           \A id \in LiveIds :
              (\A p \in changed : p.namespace # NsOf[id[2]]) =>
              \A q \in LiveIds, d \in Directions :
                 Side(before, d, id, q).reason = Side(after, d, id, q).reason]_vars

\* NetworkPolicies add up: one more of them never closes what was permitted.
AllowsAreAdditive ==
    [][LET before == Evaluation
           after  == Evaluation'
       IN  netpols \subseteq netpols' /\ live' = live =>
           \A id \in LiveIds, q \in LiveIds \cup Hosts, d \in Directions :
              Side(before, d, id, q).reason = "permitted"
              => Side(after, d, id, q).reason = "permitted"]_vars

\* FEATURES.md: "no-opinion (nothing governs)".
NoOpinionMeansUngoverned ==
    LET eval == Evaluation IN
    \A id \in LiveIds, q \in LiveIds, d \in Directions :
        /\ id # q /\ InFragment(id)
        /\ Side(eval, d, id, q).reason = "no-opinion"
        => Isolating(id, d) = {}
=============================================================================
