--------------------------- MODULE VerdictProofs ---------------------------
(***************************************************************************)
(* What the Kubernetes engine's verdicts are worth in every cluster, for    *)
(* every policy of the fragment.                                           *)
(*                                                                         *)
(* Most of it is about one state: which rules the engine files for a        *)
(* workload, how a verdict follows from them, and that the rules that name  *)
(* a peer are the rules Kubernetes lets that peer in by.  The theorems put   *)
(* the state lemmas under an invariant that only says what is deployed and  *)
(* applied.                                                                *)
(***************************************************************************)
EXTENDS PolicyVerdicts, TLAPS

----------------------------------------------------------------------------
(***************************************************************************)
(* Node ids.                                                               *)
(***************************************************************************)

\* The tag of an id tells workloads, namespaces, ranges and nobody apart.
LEMMA Ids ==
    /\ NodeType(Empty) = "none"
    /\ \A x : /\ NodeType(WorkloadId(x)) = "workload" /\ WorkloadId(x)[2] = x
              /\ NodeType(NsId(x)) = "namespace" /\ NsId(x)[2] = x
              /\ NodeType(CidrId(x)) = "cidr" /\ CidrId(x)[2] = x
              /\ NsIdOf(WorkloadId(x)) = NsId(NsOf[x])
              /\ NsIdOf(CidrId(x)) = Empty
              /\ LabelsOf(WorkloadId(x)) = PodLabels[x]
              /\ LabelsOf(NsId(x)) = NsLabels[x]
    BY DEF NodeType, Empty, WorkloadId, NsId, CidrId, NsIdOf, LabelsOf

\* Ids of one kind differ when what they stand for does.
LEMMA IdsDiffer ==
    \A x, y : /\ WorkloadId(x) # NsId(y) /\ WorkloadId(x) # CidrId(y) /\ NsId(x) # CidrId(y)
              /\ Empty \notin {WorkloadId(x), NsId(x), CidrId(x)}
              /\ NsId(x) = NsId(y) => x = y
              /\ WorkloadId(x) = WorkloadId(y) => x = y
              /\ CidrId(x) = CidrId(y) => x = y
    BY DEF Empty, WorkloadId, NsId, CidrId

\* Nothing but workloads and namespaces is in the label index.
LEMMA IndexHolds ==
    ASSUME NEW s, NEW n, NEW id \in IndexLabelMatch(s, n)
    PROVE  /\ s.labels # {} /\ s.labels \subseteq LabelsOf(id)
           /\ \/ id = NsId(n)
              \/ \E v \in live : NsOf[v] = n /\ id = WorkloadId(v)
    BY DEF IndexLabelMatch, NsWorkloads, LabelsMatch

----------------------------------------------------------------------------
(***************************************************************************)
(* The rules the engine makes of a policy.                                 *)
(***************************************************************************)

\* The rule of a direction without rules.
MarkerOf(p, d, r) ==
    /\ RulesOf(p, d) = {} /\ r.peer = Empty /\ r.action = "allow"
    /\ r.coverage = IF Locked(p, d) THEN "deny all" ELSE "unenforced"

\* The rule of a rule without peers.
OpenOf(rule, r) ==
    /\ rule.peers = {} /\ r.peer = Empty /\ r.action = "allow"
    /\ r.coverage = "allow all" /\ r.ports = rule.ports

\* A rule of a rule's peer.
AllowOf(p, rule, peer, r) ==
    /\ peer \in rule.peers /\ r.peer \in PeerNodes(p, peer) \cup BlockNodes(peer)
    /\ r.action = "allow" /\ r.coverage \in {"allow all ns", "restricted"}
    /\ r.ports = rule.ports

\* A rule of an exception of a peer's block.
ExceptOf(rule, peer, r) ==
    /\ peer \in rule.peers /\ r.peer \in ExceptNodes(peer)
    /\ r.action = "deny" /\ r.coverage = "except" /\ r.ports = rule.ports

ShapeOf(p, d, r) ==
    \/ MarkerOf(p, d, r)
    \/ \E rule \in RulesOf(p, d) :
          \/ OpenOf(rule, r)
          \/ \E peer \in rule.peers : AllowOf(p, rule, peer, r) \/ ExceptOf(rule, peer, r)

\* A rule is a record of these fields.
IsRule(r) ==
    r = [node |-> r.node, peer |-> r.peer, direction |-> r.direction, coverage |-> r.coverage,
         action |-> r.action, ports |-> r.ports, contributor |-> r.contributor]

\* Every rule of a policy's direction has one of the four shapes.
LEMMA ExpandShapes ==
    ASSUME NEW p, NEW d, NEW r \in expandRules(p, d)
    PROVE  ShapeOf(p, d, r) /\ r.direction = d /\ r.contributor = p /\ IsRule(r)
<1>1. CASE RulesOf(p, d) = {}
    <2>1. r = NewRule(p, d, Empty, IF Locked(p, d) THEN "deny all" ELSE "unenforced", "allow", {})
        BY <1>1 DEF expandRules
    <2>2. /\ IsRule(r) /\ r.direction = d /\ r.contributor = p /\ r.peer = Empty
          /\ r.coverage = (IF Locked(p, d) THEN "deny all" ELSE "unenforced") /\ r.action = "allow"
        BY <2>1 DEF NewRule, IsRule
    <2> QED BY <1>1, <2>2 DEF ShapeOf, MarkerOf
<1>2. CASE RulesOf(p, d) # {}
    <2>1. PICK rule \in RulesOf(p, d) :
              r \in IF rule.peers = {}
                    THEN {NewRule(p, d, Empty, "allow all", "allow", rule.ports)}
                    ELSE UNION {expandPeerRules(p, d, peer, rule.ports) : peer \in rule.peers}
        BY <1>2 DEF expandRules
    <2>2. CASE rule.peers = {}
        <3>1. r = NewRule(p, d, Empty, "allow all", "allow", rule.ports)
            BY <2>1, <2>2
        <3>2. /\ IsRule(r) /\ r.direction = d /\ r.contributor = p /\ r.peer = Empty
              /\ r.coverage = "allow all" /\ r.action = "allow" /\ r.ports = rule.ports
            BY <3>1 DEF NewRule, IsRule
        <3> QED BY <2>2, <3>2 DEF ShapeOf, OpenOf
    <2>3. CASE rule.peers # {}
        <3>1. PICK peer \in rule.peers : r \in expandPeerRules(p, d, peer, rule.ports)
            BY <2>1, <2>3
        <3>2. ASSUME NEW id \in PeerNodes(p, peer) \cup BlockNodes(peer),
                     NEW c \in {"allow all ns", "restricted"},
                     r = NewRule(p, d, id, c, "allow", rule.ports)
              PROVE  ShapeOf(p, d, r) /\ r.direction = d /\ r.contributor = p /\ IsRule(r)
            <4>1. /\ IsRule(r) /\ r.direction = d /\ r.contributor = p /\ r.peer = id
                  /\ r.coverage = c /\ r.action = "allow" /\ r.ports = rule.ports
                BY <3>2 DEF NewRule, IsRule
            <4> QED BY <4>1 DEF ShapeOf, AllowOf
        <3>3. ASSUME NEW id \in ExceptNodes(peer),
                     r = NewRule(p, d, id, "except", "deny", rule.ports)
              PROVE  ShapeOf(p, d, r) /\ r.direction = d /\ r.contributor = p /\ IsRule(r)
            <4>1. /\ IsRule(r) /\ r.direction = d /\ r.contributor = p /\ r.peer = id
                  /\ r.coverage = "except" /\ r.action = "deny" /\ r.ports = rule.ports
                BY <3>3 DEF NewRule, IsRule
            <4> QED BY <4>1 DEF ShapeOf, ExceptOf
        <3> QED BY <3>1, <3>2, <3>3 DEF expandPeerRules
    <2> QED BY <2>2, <2>3
<1> QED BY <1>1, <1>2

\* A rule at a node comes from a policy that protects the node.
LEMMA RulesComeFrom ==
    ASSUME NEW r \in buildAllowRulesByNs
    PROVE  /\ r.contributor \in netpols /\ r.direction \in Directions
           /\ r.node \in getSourceNodes(r.contributor)
           /\ ShapeOf(r.contributor, r.direction, r)
<1>0. PICK p \in netpols :
          \E r0 \in expandEgressRules(p) \cup expandIngressRules(p), id \in getSourceNodes(p) :
             r = [r0 EXCEPT !.node = id]
    BY DEF buildAllowRulesByNs
<1>1. PICK r0 \in expandEgressRules(p) \cup expandIngressRules(p), id \in getSourceNodes(p) :
          r = [r0 EXCEPT !.node = id]
    BY <1>0
<1>2. PICK d \in Directions : r0 \in expandRules(p, d)
    BY DEF expandEgressRules, expandIngressRules, Directions
<1>3. ShapeOf(p, d, r0) /\ r0.direction = d /\ r0.contributor = p /\ IsRule(r0)
    BY <1>2, ExpandShapes
<1>4. /\ r.node = id /\ r.peer = r0.peer /\ r.direction = d /\ r.coverage = r0.coverage
      /\ r.action = r0.action /\ r.ports = r0.ports /\ r.contributor = p
    BY <1>1, <1>3 DEF IsRule
<1>5. ShapeOf(p, d, r)
    BY <1>3, <1>4 DEF ShapeOf, MarkerOf, OpenOf, AllowOf, ExceptOf
<1> QED BY <1>4, <1>5

\* And a policy files each of its rules at each node it protects.
LEMMA RulesAreFiled ==
    ASSUME NEW p \in netpols, NEW d \in Directions, NEW n \in getSourceNodes(p),
           NEW peer, NEW c, NEW a, NEW ports,
           NewRule(p, d, peer, c, a, ports) \in expandRules(p, d)
    PROVE  [node |-> n, peer |-> peer, direction |-> d, coverage |-> c, action |-> a,
            ports |-> ports, contributor |-> p] \in buildAllowRulesByNs
<1> DEFINE r0 == NewRule(p, d, peer, c, a, ports)
<1>1. r0 \in expandEgressRules(p) \cup expandIngressRules(p)
    BY DEF Directions, expandEgressRules, expandIngressRules
<1>2. [r0 EXCEPT !.node = n] \in buildAllowRulesByNs
    BY <1>1 DEF buildAllowRulesByNs
<1>3. [r0 EXCEPT !.node = n] =
          [node |-> n, peer |-> peer, direction |-> d, coverage |-> c, action |-> a,
           ports |-> ports, contributor |-> p]
    BY DEF NewRule
<1> QED BY <1>2, <1>3

----------------------------------------------------------------------------
(***************************************************************************)
(* What the verdict on a direction is made of.                             *)
(***************************************************************************)

\* The rules of a direction filed at a node or at its namespace node.
RulesAt(rules, d, id) == {r \in rules : r.direction = d /\ r.node \in {id, NsIdOf(id)}}

Names(r, q, nodes) == NamesPeer(r, q, NsIdOf(q), nodes)

\* The rules that let q in, those that name it, those that carve it out.
AllowsFor(rules, d, id, q, nodes) ==
    {r \in RulesAt(rules, d, id) : /\ r.action = "allow" /\ r.coverage # "deny all"
                                   /\ r.coverage = "allow all" \/ Names(r, q, nodes)}

CarvesFor(rules, d, id, q, nodes) ==
    {r \in RulesAt(rules, d, id) : r.action # "allow" /\ Names(r, q, nodes)}

DenyAllAt(rules, d, id) ==
    {r \in RulesAt(rules, d, id) : r.action = "allow" /\ r.coverage = "deny all"}

OtherAllows(rules, d, id, q, nodes) ==
    {r \in RulesAt(rules, d, id) : /\ r.action = "allow"
                                   /\ r.coverage \notin {"deny all", "unenforced", "allow all"}
                                   /\ ~Names(r, q, nodes)}

\* An engine whose only denies are exceptions.
OnlyExceptsDeny(rules) == \A r \in rules : r.action # "allow" => r.coverage = "except"

\* Asking for the egress or the ingress of id is asking collect for that
\* direction.
LEMMA SideIsCollect ==
    ASSUME NEW eval, NEW d \in Directions, NEW id, NEW q
    PROVE  Side(eval, d, id, q) =
              collect(eval.rules, d, id, NsIdOf(id), q, NsIdOf(q), eval.nodes)
    BY DEF Directions, Side, collectToSide, collectFromSide

\* What collect sorts the rules of such an engine into.
LEMMA SideMatches ==
    ASSUME NEW eval, NEW d \in Directions, NEW id, NEW q, OnlyExceptsDeny(eval.rules)
    PROVE  /\ Side(eval, d, id, q).matches.deny = {}
           /\ Side(eval, d, id, q).matches.allow = AllowsFor(eval.rules, d, id, q, eval.nodes)
           /\ Side(eval, d, id, q).matches.carveOut = CarvesFor(eval.rules, d, id, q, eval.nodes)
           /\ Side(eval, d, id, q).matches.denyAll = DenyAllAt(eval.rules, d, id)
           /\ Side(eval, d, id, q).matches.otherAllow = OtherAllows(eval.rules, d, id, q, eval.nodes)
<1> DEFINE S == collect(eval.rules, d, id, NsIdOf(id), q, NsIdOf(q), eval.nodes)
<1>1. S.matches.allow = AllowsFor(eval.rules, d, id, q, eval.nodes)
    BY DEF collect, AllowsFor, Names, RulesAt
<1>2. S.matches.denyAll = DenyAllAt(eval.rules, d, id)
    BY DEF collect, DenyAllAt, RulesAt
<1>3. S.matches.otherAllow = OtherAllows(eval.rules, d, id, q, eval.nodes)
    BY DEF collect, OtherAllows, Names, RulesAt
<1>4. S.matches.deny = {}
    BY DEF collect, OnlyExceptsDeny
<1>5. S.matches.carveOut = CarvesFor(eval.rules, d, id, q, eval.nodes)
    BY DEF collect, OnlyExceptsDeny, CarvesFor, Names, RulesAt
<1> HIDE DEF S
<1>6. Side(eval, d, id, q) = S
    BY SideIsCollect DEF S
<1> QED BY <1>1, <1>2, <1>3, <1>4, <1>5, <1>6

\* What collect says of them.
LEMMA SideDecides ==
    ASSUME NEW eval, NEW d \in Directions, NEW id, NEW q
    PROVE  LET side == Side(eval, d, id, q)
           IN  /\ side.reason = decideDirectionVerdict(side.matches)
               /\ side.culprits = Culprits(side.matches, side.reason)
<1> DEFINE S == collect(eval.rules, d, id, NsIdOf(id), q, NsIdOf(q), eval.nodes)
<1>1. S.reason = decideDirectionVerdict(S.matches)
    BY DEF collect
<1>2. S.culprits = Culprits(S.matches, S.reason)
    BY DEF collect
<1> HIDE DEF S
<1>3. Side(eval, d, id, q) = S
    BY SideIsCollect DEF S
<1> QED BY <1>1, <1>2, <1>3

\* And of their ports.
PortsOf(rules) == {r.ports : r \in rules}

LEMMA SidePorts ==
    ASSUME NEW eval, NEW d \in Directions, NEW id, NEW q
    PROVE  LET side == Side(eval, d, id, q)
           IN  /\ side.allPorts \in BOOLEAN
               /\ side.allPorts <=> {} \in PortsOf(side.matches.allow)
               /\ side.ports = UNION PortsOf(side.matches.allow)
<1> DEFINE S == collect(eval.rules, d, id, NsIdOf(id), q, NsIdOf(q), eval.nodes)
<1>1. S.allPorts = (\E r \in S.matches.allow : r.ports = {})
    BY DEF collect
<1>2. S.ports = UNION PortsOf(S.matches.allow)
    BY DEF collect, PortsOf
<1> HIDE DEF S
<1>3. S.allPorts \in BOOLEAN
    BY <1>1, Zenon
<1>4. S.allPorts <=> {} \in PortsOf(S.matches.allow)
    BY <1>1 DEF PortsOf
<1>5. Side(eval, d, id, q) = S
    BY SideIsCollect DEF S
<1> QED BY <1>2, <1>3, <1>4, <1>5

\* A direction is permitted by an allow no carve-out trims, and only then.
Untrimmed(rules, d, id, q, nodes) ==
    {a \in AllowsFor(rules, d, id, q, nodes) :
        ~anyCarveOutTrims(a, CarvesFor(rules, d, id, q, nodes))}

LEMMA ReasonIs ==
    ASSUME NEW eval, NEW d \in Directions, NEW id, NEW q, OnlyExceptsDeny(eval.rules)
    PROVE  /\ Side(eval, d, id, q).reason = "permitted"
                 <=> Untrimmed(eval.rules, d, id, q, eval.nodes) # {}
           /\ LET side == Side(eval, d, id, q)
              IN  ~Permits(side.reason) =>
                     \/ /\ side.reason = "carved-out"
                        /\ CarvesFor(eval.rules, d, id, q, eval.nodes) # {}
                        /\ side.culprits = {r.contributor : r \in CarvesFor(eval.rules, d, id, q, eval.nodes)}
                     \/ /\ side.reason = "locked-no-match"
                        /\ OtherAllows(eval.rules, d, id, q, eval.nodes) # {}
                        /\ side.culprits = {r.contributor : r \in OtherAllows(eval.rules, d, id, q, eval.nodes)}
                     \/ /\ side.reason = "default-deny"
                        /\ DenyAllAt(eval.rules, d, id) # {}
                        /\ side.culprits = {r.contributor : r \in DenyAllAt(eval.rules, d, id)}
<1> DEFINE m == Side(eval, d, id, q).matches
           reason == Side(eval, d, id, q).reason
           A == AllowsFor(eval.rules, d, id, q, eval.nodes)
           C == CarvesFor(eval.rules, d, id, q, eval.nodes)
           O == OtherAllows(eval.rules, d, id, q, eval.nodes)
           L == DenyAllAt(eval.rules, d, id)
<1>1. /\ m.deny = {} /\ m.allow = A /\ m.carveOut = C /\ m.otherAllow = O /\ m.denyAll = L
    BY SideMatches
<1>0. reason = decideDirectionVerdict(m) /\ Side(eval, d, id, q).culprits = Culprits(m, reason)
    BY SideDecides
<1> HIDE DEF m, reason, A, C, O, L
<1>2. /\ C # {} => reason = IF \E a \in A : ~anyCarveOutTrims(a, C) THEN "permitted" ELSE "carved-out"
      /\ C = {} /\ A # {} => reason = "permitted"
      /\ C = {} /\ A = {} /\ O # {} => reason = "locked-no-match"
      /\ C = {} /\ A = {} /\ O = {} => reason = IF L # {} THEN "default-deny" ELSE "no-opinion"
    BY <1>0, <1>1 DEF decideDirectionVerdict
<1>3. C = {} => \A a \in A : ~anyCarveOutTrims(a, C)
    BY DEF anyCarveOutTrims
<1>4. reason = "permitted" <=> (\E a \in A : ~anyCarveOutTrims(a, C))
    BY <1>2, <1>3
<1>5. /\ reason = "carved-out" => Culprits(m, reason) = {r.contributor : r \in C}
      /\ reason = "locked-no-match" => Culprits(m, reason) = {r.contributor : r \in O}
      /\ reason = "default-deny" => Culprits(m, reason) = {r.contributor : r \in L}
    BY <1>1 DEF Culprits
<1>6. ~Permits(reason) =>
         \/ reason = "carved-out" /\ C # {}
         \/ reason = "locked-no-match" /\ O # {}
         \/ reason = "default-deny" /\ L # {}
    BY <1>2 DEF Permits
<1> QED BY <1>0, <1>4, <1>5, <1>6 DEF reason, A, C, O, L, Untrimmed

\* The Kubernetes engine is such an engine.
LEMMA K8sOnlyExceptsDeny == OnlyExceptsDeny(Evaluation.rules)
<1>1. Evaluation.rules = buildAllowRulesByNs
    BY DEF Evaluation
<1> QED BY <1>1, RulesComeFrom DEF OnlyExceptsDeny, ShapeOf, MarkerOf, OpenOf, AllowOf, ExceptOf

----------------------------------------------------------------------------
(***************************************************************************)
(* Whom a policy protects and whom it names, in its own terms and in the    *)
(* engine's.                                                               *)
(***************************************************************************)

\* All that the verdicts need to know of a state.
Deployed == live \subseteq Workloads /\ netpols \subseteq NetPols

\* The nodes a policy is filed at lie in its namespace.
LEMMA SourcesAreNear ==
    ASSUME NEW p, NEW n \in getSourceNodes(p)
    PROVE  n = NsId(p.namespace) \/ \E v \in live : n = WorkloadId(v) /\ NsOf[v] = p.namespace
    BY IndexHolds DEF getSourceNodes

\* A policy of the fragment is filed at a workload or at its namespace exactly
\* when it selects the workload.
LEMMA FiledWhereSelected ==
    ASSUME Deployed, NEW w \in live, NEW p \in netpols, InFragment(WorkloadId(w))
    PROVE  (\E n \in getSourceNodes(p) : n \in {WorkloadId(w), NsId(NsOf[w])})
              <=> Selects(p, WorkloadId(w))
<1>1. WorkloadId(w)[2] = w /\ w \in Workloads /\ p \in NetPols /\ p.namespace \in Namespaces
    BY Ids, NetPolAssumption DEF Deployed
<1>2. CASE p.namespace # NsOf[w]
    <2>1. ~Selects(p, WorkloadId(w))
        BY <1>1, <1>2 DEF Selects
    <2>2. ASSUME NEW n \in getSourceNodes(p), n \in {WorkloadId(w), NsId(NsOf[w])}
          PROVE  FALSE
        BY <1>2, <2>2, SourcesAreNear, IdsDiffer
    <2> QED BY <2>1, <2>2
<1>3. CASE p.namespace = NsOf[w]
    <2>1. Supported(p)
        BY <1>1, <1>3 DEF InFragment
    <2>2. ~p.podSelector.exprs
        BY <2>1 DEF Supported, ReadsSelectors
    <2>3. CASE p.podSelector.labels = {}
        <3>1. getSourceNodes(p) = {NsId(NsOf[w])}
            BY <1>3, <2>2, <2>3 DEF getSourceNodes, isCatchAll
        <3> QED BY <3>1, <1>1, <1>3, <2>3 DEF Selects
    <2>4. CASE p.podSelector.labels # {}
        <3>1. getSourceNodes(p) = IndexLabelMatch(p.podSelector, p.namespace)
            BY <2>4 DEF getSourceNodes, isCatchAll
        <3>2. ~LabelsMatch(p.podSelector, NsLabels[p.namespace])
            BY <1>1, <2>1, <2>4 DEF Supported, ReadsPodLabels
        <3>3. NsId(NsOf[w]) \notin IndexLabelMatch(p.podSelector, p.namespace)
            BY <3>2, <1>3, Ids DEF IndexLabelMatch
        <3>4. WorkloadId(w) \in NsWorkloads(p.namespace)
            BY <1>3 DEF NsWorkloads
        <3>5. (WorkloadId(w) \in IndexLabelMatch(p.podSelector, p.namespace))
                 <=> (p.podSelector.labels \subseteq PodLabels[w])
            BY <3>4, <2>4, Ids DEF IndexLabelMatch, LabelsMatch
        <3> QED BY <3>1, <3>3, <3>5, <1>1, <1>3 DEF Selects
    <2> QED BY <2>3, <2>4
<1> QED BY <1>2, <1>3

\* What the API server and the fragment say of a peer of a supported policy.
LEMMA PeerFacts ==
    ASSUME NEW p \in NetPols, Supported(p), NEW d \in Directions,
           NEW rule \in RulesOf(p, d), NEW peer \in rule.peers
    PROVE  /\ (peer.ipBlock = Nil) = (peer.podSelector # Nil \/ peer.namespaceSelector # Nil)
           /\ peer.podSelector # Nil =>
                 /\ ~peer.podSelector.exprs
                 /\ peer.podSelector.labels # {} =>
                       \A n \in Namespaces : ~(peer.podSelector.labels \subseteq NsLabels[n])
           /\ peer.namespaceSelector # Nil =>
                 /\ ~peer.namespaceSelector.exprs
                 /\ peer.podSelector = Nil => peer.namespaceSelector.labels # {}
           /\ peer.ipBlock # Nil =>
                 /\ peer.ipBlock \in Blocks(p, d)
                 /\ \A c \in {peer.ipBlock.cidr} \cup peer.ipBlock.except :
                       c \in Cidrs /\ PlainRange(c) /\ CidrContains(peer.ipBlock.cidr, c)
<1>1. rule \in p.ingress \cup p.egress
    BY DEF RulesOf
<1>2. peer \in PeersOf(p, d) /\ peer \in PeersOf(p, "ingress") \cup PeersOf(p, "egress")
    BY DEF PeersOf, Directions
<1>3. /\ (peer.ipBlock = Nil) = (peer.podSelector # Nil \/ peer.namespaceSelector # Nil)
      /\ peer.ipBlock # Nil => \A c \in {peer.ipBlock.cidr} \cup peer.ipBlock.except :
            c \in Cidrs /\ CidrContains(peer.ipBlock.cidr, c)
    BY <1>1, NetPolAssumption
<1>4. {peer.podSelector, peer.namespaceSelector} \ {Nil} \subseteq PeerSelectors(p)
    BY <1>2 DEF PeerSelectors
<1>5. /\ peer.podSelector # Nil => ~peer.podSelector.exprs
      /\ peer.namespaceSelector # Nil => ~peer.namespaceSelector.exprs
      /\ peer.podSelector = Nil /\ peer.namespaceSelector # Nil
            => peer.namespaceSelector.labels # {}
    BY <1>2, <1>4 DEF Supported, ReadsSelectors, isCatchAll
<1>6. peer.podSelector # Nil /\ peer.podSelector.labels # {} =>
         \A n \in Namespaces : ~(peer.podSelector.labels \subseteq NsLabels[n])
    BY <1>2 DEF Supported, ReadsPodLabels, LabelsMatch
<1>7. peer.ipBlock # Nil =>
         /\ peer.ipBlock \in Blocks(p, d)
         /\ \A c \in {peer.ipBlock.cidr} \cup peer.ipBlock.except : PlainRange(c)
    BY <1>2 DEF Blocks, Supported, PlainBlocks
<1> QED BY <1>3, <1>5, <1>6, <1>7

\* A selector peer stands for a node of a running workload exactly when it
\* matches the workload.
LEMMA SelectorsMatch ==
    ASSUME Deployed, NEW p \in netpols, Supported(p), NEW d \in Directions,
           NEW rule \in RulesOf(p, d), NEW peer \in rule.peers, NEW v \in live
    PROVE  (\E n \in PeerNodes(p, peer) : n \in {WorkloadId(v), NsId(NsOf[v])})
              <=> (peer.ipBlock = Nil /\ MatchedBySelectors(p, peer, WorkloadId(v)))
<1> DEFINE home == NsOf[v]
<1>1. /\ v \in Workloads /\ home \in Namespaces /\ p \in NetPols
      /\ WorkloadId(v)[2] = v /\ NodeType(WorkloadId(v)) = "workload"
    BY Ids, ClusterAssumption DEF Deployed
<1>2. /\ (peer.ipBlock = Nil) = (peer.podSelector # Nil \/ peer.namespaceSelector # Nil)
      /\ peer.podSelector # Nil =>
            /\ ~peer.podSelector.exprs
            /\ peer.podSelector.labels # {} =>
                  \A n \in Namespaces : ~(peer.podSelector.labels \subseteq NsLabels[n])
      /\ peer.namespaceSelector # Nil =>
            /\ ~peer.namespaceSelector.exprs
            /\ peer.podSelector = Nil => peer.namespaceSelector.labels # {}
    BY <1>1, PeerFacts
<1>3. p.namespace \in Namespaces
    BY <1>1, NetPolAssumption
<1>4. home \in PeerNamespaces(p, peer) <=>
         (IF peer.namespaceSelector = Nil THEN home = p.namespace
          ELSE peer.namespaceSelector.labels \subseteq NsLabels[home])
    BY <1>1 DEF PeerNamespaces, LabelsMatch
<1>5. PeerNamespaces(p, peer) \subseteq Namespaces
    BY <1>3 DEF PeerNamespaces
<1>6. MatchedBySelectors(p, peer, WorkloadId(v)) <=>
         (/\ home \in PeerNamespaces(p, peer)
          /\ peer.podSelector # Nil => peer.podSelector.labels \subseteq PodLabels[v])
    BY <1>1, <1>4 DEF MatchedBySelectors
<1>7. CASE peer.podSelector = Nil /\ peer.namespaceSelector = Nil
    BY <1>2, <1>7 DEF PeerNodes
<1>8. CASE peer.podSelector = Nil /\ peer.namespaceSelector # Nil
    <2>1. PeerNodes(p, peer) = {NsId(n) : n \in PeerNamespaces(p, peer)}
        BY <1>2, <1>8 DEF PeerNodes, isCatchAll
    <2>2. (\E n \in PeerNodes(p, peer) : n \in {WorkloadId(v), NsId(home)})
             <=> home \in PeerNamespaces(p, peer)
        BY <2>1, IdsDiffer
    <2> QED BY <2>2, <1>2, <1>6, <1>8
<1>9. CASE peer.podSelector # Nil /\ peer.podSelector.labels = {}
    <2>1. PeerNodes(p, peer) = {NsId(n) : n \in PeerNamespaces(p, peer)}
        BY <1>2, <1>9 DEF PeerNodes, isCatchAll
    <2>2. (\E n \in PeerNodes(p, peer) : n \in {WorkloadId(v), NsId(home)})
             <=> home \in PeerNamespaces(p, peer)
        BY <2>1, IdsDiffer
    <2> QED BY <2>2, <1>2, <1>6, <1>9
<1>10. CASE peer.podSelector # Nil /\ peer.podSelector.labels # {}
    <2>1. PeerNodes(p, peer) =
             UNION {IndexLabelMatch(peer.podSelector, n) : n \in PeerNamespaces(p, peer)}
        BY <1>10 DEF PeerNodes, isCatchAll
    <2>2. ASSUME NEW n \in PeerNamespaces(p, peer), NsId(home) \in IndexLabelMatch(peer.podSelector, n)
          PROVE  FALSE
        BY <2>2, <1>1, <1>2, <1>10, IndexHolds, Ids
    <2>3. ASSUME NEW n \in PeerNamespaces(p, peer),
                 WorkloadId(v) \in IndexLabelMatch(peer.podSelector, n)
          PROVE  n = home /\ peer.podSelector.labels \subseteq PodLabels[v]
        BY <2>3, IndexHolds, Ids, IdsDiffer
    <2>4. peer.podSelector.labels \subseteq PodLabels[v]
             => WorkloadId(v) \in IndexLabelMatch(peer.podSelector, home)
        BY <1>10, Ids DEF IndexLabelMatch, NsWorkloads, LabelsMatch
    <2>5. ASSUME NEW n \in PeerNodes(p, peer), n \in {WorkloadId(v), NsId(home)}
          PROVE  home \in PeerNamespaces(p, peer) /\ peer.podSelector.labels \subseteq PodLabels[v]
        BY <2>1, <2>2, <2>3, <2>5
    <2>6. home \in PeerNamespaces(p, peer) /\ peer.podSelector.labels \subseteq PodLabels[v]
             => WorkloadId(v) \in PeerNodes(p, peer)
        BY <2>1, <2>4
    <2> QED BY <2>5, <2>6, <1>2, <1>6, <1>10
<1> QED BY <1>7, <1>8, <1>9, <1>10

----------------------------------------------------------------------------
(***************************************************************************)
(* The peers asked about, each an endpoint with one address, and the ranges *)
(* that name them.                                                         *)
(***************************************************************************)
Endpoint(q, a) ==
    /\ Addresses(q) = {a}
    /\ \/ \E v \in live : q = WorkloadId(v) /\ a = AddrOf[v]
       \/ \E c : q = CidrId(c) /\ q \in CidrNodes /\ AddrsOf[c] = {a}

LEMMA Endpoints ==
    ASSUME NEW q \in LiveIds \cup Hosts
    PROVE  \E a : Endpoint(q, a)
<1>1. CASE q \in LiveIds
    <2>1. PICK v \in live : q = WorkloadId(v)
        BY <1>1 DEF LiveIds
    <2> QED BY <2>1, Ids DEF Endpoint, Addresses
<1>2. CASE q \in Hosts
    <2>1. q \in CidrNodes /\ \E a : AddrsOf[q[2]] = {a}
        BY <1>2 DEF Hosts
    <2>2. PICK c : q = CidrId(c)
        BY <2>1 DEF CidrNodes, BlockNodes, ExceptNodes
    <2>3. PICK a : AddrsOf[c] = {a}
        BY <2>1, <2>2, Ids
    <2>4. Addresses(q) = {a}
        BY <2>2, <2>3, Ids DEF Addresses
    <2> QED BY <2>1, <2>2, <2>3, <2>4 DEF Endpoint
<1> QED BY <1>1, <1>2

\* A plain range is a LAN range exactly when it holds no pod.
LEMMA PlainRangeHoldsPods ==
    ASSUME Deployed, NEW c \in Cidrs, PlainRange(c), NEW v \in live
    PROVE  CidrType(c) # "lan" <=> AddrOf[v] \in AddrsOf[c]
<1>1. AddrOf[v] \in AddrsOf[PodCidr]
    BY ClusterAssumption DEF Deployed
<1>2. CASE CidrContains(c, PodCidr)
    BY <1>1, <1>2 DEF CidrContains, CidrType
<1>3. CASE AddrsOf[c] \cap AddrsOf[PodCidr] = {} /\ CidrType(c) = "lan"
    BY <1>1, <1>3
<1> QED BY <1>2, <1>3 DEF PlainRange

\* The rule for a plain range names an endpoint exactly when the range holds it.
LEMMA RangeNames ==
    ASSUME Deployed, NEW c \in Cidrs, PlainRange(c), CidrId(c) \in CidrNodes,
           NEW r, r.peer = CidrId(c), NEW q, NEW a, Endpoint(q, a)
    PROVE  Names(r, q, Evaluation.nodes) <=> a \in AddrsOf[c]
<1>1. CidrId(c) \in Evaluation.nodes /\ CidrNodes \subseteq Evaluation.nodes
    BY DEF Evaluation
<1>2. CASE \E v \in live : q = WorkloadId(v) /\ a = AddrOf[v]
    <2>1. PICK v \in live : q = WorkloadId(v) /\ a = AddrOf[v]
        BY <1>2
    <2>2. Names(r, q, Evaluation.nodes) <=> CidrType(c) # "lan"
        BY <1>1, <2>1, Ids, IdsDiffer DEF Names, NamesPeer, cidrNodeCoversPeer
    <2> QED BY <2>1, <2>2, PlainRangeHoldsPods
<1>3. CASE \E x : q = CidrId(x) /\ q \in CidrNodes /\ AddrsOf[x] = {a}
    <2>1. PICK x : q = CidrId(x) /\ q \in CidrNodes /\ AddrsOf[x] = {a}
        BY <1>3
    <2>2. Names(r, q, Evaluation.nodes) <=> c = x \/ CidrContains(c, x)
        BY <1>1, <2>1, Ids, IdsDiffer DEF Names, NamesPeer, cidrNodeCoversPeer
    <2> QED BY <2>1, <2>2 DEF CidrContains
<1> QED BY <1>2, <1>3 DEF Endpoint

\* The rule for a node of the index names an endpoint exactly when it is the
\* endpoint or its namespace.
LEMMA NodeNames ==
    ASSUME NEW r, NodeType(r.peer) # "cidr", r.peer # Empty, NEW q, NEW a, Endpoint(q, a)
    PROVE  Names(r, q, Evaluation.nodes)
              <=> \E v \in live : q = WorkloadId(v) /\ r.peer \in {WorkloadId(v), NsId(NsOf[v])}
<1>1. CASE \E v \in live : q = WorkloadId(v)
    BY <1>1, Ids, IdsDiffer DEF Names, NamesPeer, cidrNodeCoversPeer
<1>2. CASE \E x : q = CidrId(x)
    BY <1>2, Ids, IdsDiffer DEF Names, NamesPeer, cidrNodeCoversPeer
<1> QED BY <1>1, <1>2 DEF Endpoint

\* The marker of a direction names no workload.
LEMMA MarkerNames ==
    ASSUME NEW r, r.peer = Empty, NEW q, NEW a, Endpoint(q, a), Names(r, q, Evaluation.nodes)
    PROVE  q \notin LiveIds
    BY Ids, IdsDiffer DEF LiveIds, Names, NamesPeer, cidrNodeCoversPeer

\* Peers are nodes of the index.
LEMMA PeerNodesAreNodes ==
    ASSUME NEW p, NEW peer, NEW n \in PeerNodes(p, peer)
    PROVE  NodeType(n) # "cidr" /\ n # Empty
    BY IndexHolds, Ids, IdsDiffer DEF PeerNodes

\* The ranges of a rule of an applied policy are nodes the verdicts know.
LEMMA RangesAreNodes ==
    ASSUME NEW p \in netpols, NEW d \in Directions, NEW rule \in RulesOf(p, d),
           NEW peer \in rule.peers, peer.ipBlock # Nil,
           NEW c \in {peer.ipBlock.cidr} \cup peer.ipBlock.except
    PROVE  CidrId(c) \in CidrNodes
<1>1. rule \in UNION {u.ingress \cup u.egress : u \in netpols}
    BY DEF RulesOf
<1>2. CidrId(c) \in BlockNodes(peer) \cup ExceptNodes(peer)
    BY DEF BlockNodes, ExceptNodes
<1> QED BY <1>1, <1>2 DEF CidrNodes

----------------------------------------------------------------------------
(***************************************************************************)
(* The rules that let a peer in, in the engine and in Kubernetes.          *)
(***************************************************************************)
Filed(d, id) == RulesAt(Evaluation.rules, d, id)

\* A rule filed for a workload is of a policy that selects it.
LEMMA FiledAreSelecting ==
    ASSUME Deployed, NEW w \in live, InFragment(WorkloadId(w)), NEW d \in Directions,
           NEW r \in Filed(d, WorkloadId(w))
    PROVE  /\ r.contributor \in netpols /\ r.contributor \in NetPols
           /\ Selects(r.contributor, WorkloadId(w)) /\ Supported(r.contributor)
           /\ ShapeOf(r.contributor, d, r)
<1>1. r \in buildAllowRulesByNs /\ r.direction = d /\ r.node \in {WorkloadId(w), NsId(NsOf[w])}
    BY Ids DEF Filed, RulesAt, Evaluation
<1>2. /\ r.contributor \in netpols /\ r.node \in getSourceNodes(r.contributor)
      /\ ShapeOf(r.contributor, d, r)
    BY <1>1, RulesComeFrom
<1>3. Selects(r.contributor, WorkloadId(w))
    BY <1>1, <1>2, FiledWhereSelected
<1>4. Supported(r.contributor)
    BY <1>2, <1>3 DEF InFragment, Selects
<1> QED BY <1>2, <1>3, <1>4 DEF Deployed

\* A rule of these fields is filed for the workload.
FiledAs(w, d, p, peer, c, a, ports) ==
    \E r \in Filed(d, WorkloadId(w)) :
       /\ r.peer = peer /\ r.coverage = c /\ r.action = a /\ r.ports = ports
       /\ r.contributor = p

\* And every rule of a selecting policy is filed.
LEMMA SelectingAreFiled ==
    ASSUME Deployed, NEW w \in live, InFragment(WorkloadId(w)), NEW d \in Directions,
           NEW p \in netpols, Selects(p, WorkloadId(w)), NEW peer, NEW c, NEW a, NEW ports,
           NewRule(p, d, peer, c, a, ports) \in expandRules(p, d)
    PROVE  FiledAs(w, d, p, peer, c, a, ports)
<1>1. PICK n \in getSourceNodes(p) : n \in {WorkloadId(w), NsId(NsOf[w])}
    BY FiledWhereSelected
<1> DEFINE r == [node |-> n, peer |-> peer, direction |-> d, coverage |-> c, action |-> a,
                 ports |-> ports, contributor |-> p]
<1>2. r \in buildAllowRulesByNs
    BY RulesAreFiled
<1>3. /\ r.node = n /\ r.direction = d /\ r.peer = peer /\ r.coverage = c /\ r.action = a
      /\ r.ports = ports /\ r.contributor = p
    OBVIOUS
<1> HIDE DEF r
<1>4. r \in Filed(d, WorkloadId(w))
    BY <1>1, <1>2, <1>3, Ids DEF Filed, RulesAt, Evaluation
<1> QED BY <1>3, <1>4 DEF FiledAs

\* A policy with rules in a direction governs it, and a marker says whether it
\* does.
LEMMA RulesGovern ==
    ASSUME NEW p, Supported(p), NEW d \in Directions, NEW r, ShapeOf(p, d, r)
    PROVE  /\ r.coverage # "unenforced" => Governs(p, d)
           /\ ~MarkerOf(p, d, r) => Governs(p, d)
           /\ MarkerOf(p, d, r) /\ r.coverage # "deny all" => ~Governs(p, d)
<1>1. RulesOf(p, d) # {} => Governs(p, d)
    BY DEF Supported, NoDeadRules
<1>2. RulesOf(p, d) = {} => (Locked(p, d) <=> Governs(p, d))
    BY DEF Directions, RulesOf, Locked, Governs, egressLocked, ingressLocked
<1>3. ~MarkerOf(p, d, r) => RulesOf(p, d) # {}
    BY DEF ShapeOf
<1> QED BY <1>1, <1>2, <1>3 DEF MarkerOf

\* A rule that is not the mark of an ungoverned direction is of a policy that
\* isolates the workload.
LEMMA FiledIsolate ==
    ASSUME Deployed, NEW w \in live, InFragment(WorkloadId(w)), NEW d \in Directions,
           NEW r \in Filed(d, WorkloadId(w)), r.coverage # "unenforced"
    PROVE  r.contributor \in Isolating(WorkloadId(w), d)
    BY FiledAreSelecting, RulesGovern DEF Isolating

\* The rule of one of a block's exceptions, which names the endpoints in it.
CarvesOutOf(peer, x, q, a) ==
    \E e \in peer.ipBlock.except :
       /\ peer.ipBlock # Nil /\ x.peer = CidrId(e)
       /\ Names(x, q, Evaluation.nodes) <=> a \in AddrsOf[e]

LEMMA ExceptNames ==
    ASSUME Deployed, NEW p \in netpols, p \in NetPols, Supported(p), NEW d \in Directions,
           NEW rule \in RulesOf(p, d), NEW peer, NEW x, ExceptOf(rule, peer, x),
           NEW q, NEW a, Endpoint(q, a)
    PROVE  CarvesOutOf(peer, x, q, a)
<1>1. peer \in rule.peers /\ x.peer \in ExceptNodes(peer)
    BY DEF ExceptOf
<1>2. PICK e \in peer.ipBlock.except : peer.ipBlock # Nil /\ x.peer = CidrId(e)
    BY <1>1 DEF ExceptNodes
<1>3. e \in Cidrs /\ PlainRange(e)
    BY <1>1, <1>2, PeerFacts
<1>4. CidrId(e) \in CidrNodes
    BY <1>1, <1>2, RangesAreNodes
<1> QED BY <1>2, <1>3, <1>4, RangeNames DEF CarvesOutOf

\* The rules a rule, its peers and their exceptions expand to.
LEMMA ExpandHas ==
    ASSUME NEW p, NEW d, NEW rule \in RulesOf(p, d)
    PROVE  /\ rule.peers = {} =>
                 NewRule(p, d, Empty, "allow all", "allow", rule.ports) \in expandRules(p, d)
           /\ \A peer \in rule.peers :
                 /\ \A n \in PeerNodes(p, peer) \cup BlockNodes(peer) :
                       \E c \in {"allow all ns", "restricted"} :
                          NewRule(p, d, n, c, "allow", rule.ports) \in expandRules(p, d)
                 /\ \A n \in ExceptNodes(peer) :
                       NewRule(p, d, n, "except", "deny", rule.ports) \in expandRules(p, d)
<1>1. (IF rule.peers = {} THEN {NewRule(p, d, Empty, "allow all", "allow", rule.ports)}
       ELSE UNION {expandPeerRules(p, d, peer, rule.ports) : peer \in rule.peers})
         \subseteq expandRules(p, d)
    BY DEF expandRules
<1>2. ASSUME NEW peer \in rule.peers
      PROVE  /\ expandPeerRules(p, d, peer, rule.ports) \subseteq expandRules(p, d)
             /\ \A n \in PeerNodes(p, peer) \cup BlockNodes(peer) :
                   \E c \in {"allow all ns", "restricted"} :
                      NewRule(p, d, n, c, "allow", rule.ports)
                         \in expandPeerRules(p, d, peer, rule.ports)
             /\ \A n \in ExceptNodes(peer) :
                   NewRule(p, d, n, "except", "deny", rule.ports)
                      \in expandPeerRules(p, d, peer, rule.ports)
    <2>1. rule.peers # {}
        OBVIOUS
    <2>2. expandPeerRules(p, d, peer, rule.ports) \subseteq expandRules(p, d)
        BY <1>1, <2>1
    <2> QED BY <2>2 DEF expandPeerRules
<1> QED BY <1>1, <1>2

\* An allow nothing trims comes from a rule that lets the peer in, with its
\* ports.
LEMMA AllowMeansMatch ==
    ASSUME Deployed, NEW w \in live, InFragment(WorkloadId(w)), NEW d \in Directions,
           NEW q, NEW a, Endpoint(q, a), q \notin LiveIds => ~Unenforced(WorkloadId(w), d),
           NEW x \in Untrimmed(Evaluation.rules, d, WorkloadId(w), q, Evaluation.nodes)
    PROVE  \E rule \in AllowingRules(WorkloadId(w), d, q) : rule.ports = x.ports
<1> DEFINE id == WorkloadId(w)
           p  == x.contributor
<1>1. /\ x \in Filed(d, id) /\ x.action = "allow" /\ x.coverage # "deny all"
      /\ x.coverage = "allow all" \/ Names(x, q, Evaluation.nodes)
      /\ ~\E y \in CarvesFor(Evaluation.rules, d, id, q, Evaluation.nodes) : Trims(y, x)
    BY DEF Untrimmed, AllowsFor, Filed, anyCarveOutTrims
<1>2. p \in netpols /\ p \in NetPols /\ Selects(p, id) /\ Supported(p) /\ ShapeOf(p, d, x)
    BY <1>1, FiledAreSelecting
<1> HIDE DEF p
<1>3. ~MarkerOf(p, d, x)
    <2>1. SUFFICES ASSUME MarkerOf(p, d, x) PROVE FALSE
        OBVIOUS
    <2>2. ~Governs(p, d)
        BY <1>1, <1>2, <2>1, RulesGovern
    <2>3. Names(x, q, Evaluation.nodes) /\ x.peer = Empty
        BY <1>1, <2>1 DEF MarkerOf
    <2>4. q \notin LiveIds
        BY <2>3, MarkerNames
    <2> QED BY <1>2, <2>2, <2>4 DEF Unenforced
<1>4. p \in Isolating(id, d)
    BY <1>2, <1>3, RulesGovern DEF Isolating
<1>5. PICK rule \in RulesOf(p, d) :
          OpenOf(rule, x) \/ \E peer \in rule.peers : AllowOf(p, rule, peer, x)
    BY <1>1, <1>2, <1>3 DEF ShapeOf, ExceptOf
<1>6. (rule.peers = {} \/ \E peer \in rule.peers : PeerMatches(p, peer, q))
         => rule \in AllowingRules(id, d, q)
    BY <1>4, <1>5 DEF AllowingRules
<1>7. CASE OpenOf(rule, x)
    BY <1>6, <1>7 DEF OpenOf
<1>8. CASE \E peer \in rule.peers : AllowOf(p, rule, peer, x)
    <2>1. PICK peer \in rule.peers : AllowOf(p, rule, peer, x)
        BY <1>8
    <2>2. Names(x, q, Evaluation.nodes) /\ x.ports = rule.ports
        BY <1>1, <2>1 DEF AllowOf
    <2>3. CASE x.peer \in PeerNodes(p, peer)
        <3>1. PICK v \in live : q = WorkloadId(v) /\ x.peer \in {WorkloadId(v), NsId(NsOf[v])}
            BY <2>2, <2>3, PeerNodesAreNodes, NodeNames
        <3>2. peer.ipBlock = Nil /\ MatchedBySelectors(p, peer, q)
            BY <1>2, <2>3, <3>1, SelectorsMatch
        <3> QED BY <1>6, <2>2, <3>2 DEF PeerMatches
    <2>4. CASE x.peer \in BlockNodes(peer)
        <3>1. peer.ipBlock # Nil /\ x.peer = CidrId(peer.ipBlock.cidr)
            BY <2>4 DEF BlockNodes
        <3>2. /\ peer.ipBlock.cidr \in Cidrs /\ PlainRange(peer.ipBlock.cidr)
              /\ CidrId(peer.ipBlock.cidr) \in CidrNodes
            BY <1>2, <3>1, PeerFacts, RangesAreNodes
        <3>3. a \in AddrsOf[peer.ipBlock.cidr]
            BY <2>2, <3>1, <3>2, RangeNames
        <3>4. ASSUME NEW e \in peer.ipBlock.except, a \in AddrsOf[e]
              PROVE  FALSE
            <4>1. CidrId(e) \in ExceptNodes(peer)
                BY <3>1 DEF ExceptNodes
            <4>2. NewRule(p, d, CidrId(e), "except", "deny", rule.ports) \in expandRules(p, d)
                BY <4>1, ExpandHas
            <4>3. PICK y \in Filed(d, id) : /\ y.peer = CidrId(e) /\ y.action = "deny"
                                            /\ y.ports = rule.ports /\ y.contributor = p
                <5>1. FiledAs(w, d, p, CidrId(e), "except", "deny", rule.ports)
                    BY <1>2, <4>2, SelectingAreFiled
                <5> QED BY <5>1 DEF FiledAs
            <4>4. /\ e \in Cidrs /\ PlainRange(e) /\ CidrContains(peer.ipBlock.cidr, e)
                  /\ CidrId(e) \in CidrNodes
                BY <1>2, <3>1, PeerFacts, RangesAreNodes
            <4>5. Names(y, q, Evaluation.nodes)
                BY <3>4, <4>3, <4>4, RangeNames
            <4>6. y \in CarvesFor(Evaluation.rules, d, id, q, Evaluation.nodes)
                BY <4>3, <4>5 DEF CarvesFor, Filed
            <4>7. Trims(y, x)
                BY <2>2, <3>1, <4>3, <4>4, Ids DEF Trims, p
            <4> QED BY <1>1, <4>6, <4>7
        <3>5. PeerMatches(p, peer, q)
            BY <3>1, <3>3, <3>4 DEF PeerMatches, HeldByBlock, Endpoint
        <3> QED BY <1>6, <2>2, <3>5
    <2> QED BY <2>1, <2>3, <2>4 DEF AllowOf
<1> QED BY <1>5, <1>7, <1>8

\* A rule that lets the peer in has an allow nothing trims, with its ports.
LEMMA MatchMeansAllow ==
    ASSUME Deployed, NEW w \in live, InFragment(WorkloadId(w)), NEW d \in Directions,
           NEW q, NEW a, Endpoint(q, a), NEW rule \in AllowingRules(WorkloadId(w), d, q)
    PROVE  \E x \in Untrimmed(Evaluation.rules, d, WorkloadId(w), q, Evaluation.nodes) :
              x.ports = rule.ports
<1> DEFINE id == WorkloadId(w)
<1>1. PICK p \in Isolating(id, d) :
          /\ rule \in RulesOf(p, d)
          /\ rule.peers = {} \/ \E peer \in rule.peers : PeerMatches(p, peer, q)
    BY DEF AllowingRules
<1>2. p \in netpols /\ p \in NetPols /\ Selects(p, id) /\ Supported(p)
    BY <1>1 DEF Isolating, InFragment, Selects, Deployed
<1>3. CASE rule.peers = {}
    <2>1. NewRule(p, d, Empty, "allow all", "allow", rule.ports) \in expandRules(p, d)
        BY <1>1, <1>3, ExpandHas
    <2>2. PICK x \in Filed(d, id) : /\ x.peer = Empty /\ x.coverage = "allow all"
                                    /\ x.action = "allow" /\ x.ports = rule.ports
                                    /\ x.contributor = p
        <3>1. FiledAs(w, d, p, Empty, "allow all", "allow", rule.ports)
            BY <1>2, <2>1, SelectingAreFiled
        <3> QED BY <3>1 DEF FiledAs
    <2>3. x \in AllowsFor(Evaluation.rules, d, id, q, Evaluation.nodes)
        BY <2>2 DEF AllowsFor, Filed
    <2>4. \A y : ~Trims(y, x)
        BY <2>2, Ids DEF Trims
    <2> QED BY <2>2, <2>3, <2>4 DEF Untrimmed, anyCarveOutTrims
<1>4. ASSUME NEW peer \in rule.peers, PeerMatches(p, peer, q)
      PROVE  \E x \in Untrimmed(Evaluation.rules, d, id, q, Evaluation.nodes) :
                x.ports = rule.ports
    <2>1. CASE peer.ipBlock = Nil
        <3>1. MatchedBySelectors(p, peer, q)
            BY <1>4, <2>1 DEF PeerMatches
        <3>2. PICK v \in live : q = WorkloadId(v)
            BY <3>1, Ids DEF Endpoint, MatchedBySelectors
        <3>3. PICK n \in PeerNodes(p, peer) : n \in {WorkloadId(v), NsId(NsOf[v])}
            BY <1>1, <1>2, <2>1, <3>1, <3>2, SelectorsMatch
        <3>4. PICK c \in {"allow all ns", "restricted"} :
                  NewRule(p, d, n, c, "allow", rule.ports) \in expandRules(p, d)
            BY <1>1, ExpandHas
        <3>5. PICK x \in Filed(d, id) : /\ x.peer = n /\ x.coverage = c
                                        /\ x.action = "allow" /\ x.ports = rule.ports
                                        /\ x.contributor = p
            <4>1. FiledAs(w, d, p, n, c, "allow", rule.ports)
                BY <1>2, <3>4, SelectingAreFiled
            <4> QED BY <4>1 DEF FiledAs
        <3>6. NodeType(n) # "cidr" /\ n # Empty
            BY PeerNodesAreNodes
        <3>7. Names(x, q, Evaluation.nodes)
            BY <3>2, <3>3, <3>5, <3>6, NodeNames
        <3>8. x \in AllowsFor(Evaluation.rules, d, id, q, Evaluation.nodes)
            BY <3>5, <3>7 DEF AllowsFor, Filed
        <3>9. \A y : ~Trims(y, x)
            BY <3>5, <3>6 DEF Trims
        <3> QED BY <3>5, <3>8, <3>9 DEF Untrimmed, anyCarveOutTrims
    <2>2. CASE peer.ipBlock # Nil
        <3> DEFINE c == peer.ipBlock.cidr
        <3>1. a \in AddrsOf[c] /\ \A e \in peer.ipBlock.except : a \notin AddrsOf[e]
            BY <1>4, <2>2 DEF PeerMatches, HeldByBlock, Endpoint
        <3>2. c \in Cidrs /\ PlainRange(c) /\ CidrId(c) \in CidrNodes /\ peer.ipBlock \in Blocks(p, d)
            BY <1>1, <1>2, <2>2, PeerFacts, RangesAreNodes
        <3>3. CidrId(c) \in BlockNodes(peer)
            BY <2>2 DEF BlockNodes
        <3>4. PICK k \in {"allow all ns", "restricted"} :
                  NewRule(p, d, CidrId(c), k, "allow", rule.ports) \in expandRules(p, d)
            BY <1>1, <3>3, ExpandHas
        <3>5. PICK x \in Filed(d, id) : /\ x.peer = CidrId(c) /\ x.coverage = k
                                        /\ x.action = "allow" /\ x.ports = rule.ports
                                        /\ x.contributor = p
            <4>1. FiledAs(w, d, p, CidrId(c), k, "allow", rule.ports)
                BY <1>2, <3>4, SelectingAreFiled
            <4> QED BY <4>1 DEF FiledAs
        <3>6. Names(x, q, Evaluation.nodes)
            BY <3>1, <3>2, <3>5, RangeNames
        <3>7. x \in AllowsFor(Evaluation.rules, d, id, q, Evaluation.nodes)
            BY <3>5, <3>6 DEF AllowsFor, Filed
        <3>8. ASSUME NEW y \in CarvesFor(Evaluation.rules, d, id, q, Evaluation.nodes), Trims(y, x)
              PROVE  FALSE
            <4>1. /\ y \in Filed(d, id) /\ y.action # "allow" /\ Names(y, q, Evaluation.nodes)
                  /\ y.contributor = p
                BY <3>5, <3>8 DEF CarvesFor, Filed, Trims
            <4>2. ShapeOf(p, d, y)
                BY <4>1, FiledAreSelecting
            <4>3. PICK rule2 \in RulesOf(p, d) : \E peer2 : ExceptOf(rule2, peer2, y)
                BY <4>1, <4>2 DEF ShapeOf, MarkerOf, OpenOf, AllowOf
            <4>4. PICK peer2 : ExceptOf(rule2, peer2, y)
                BY <4>3
            <4>5. PICK e \in peer2.ipBlock.except :
                      /\ peer2.ipBlock # Nil /\ y.peer = CidrId(e)
                      /\ Names(y, q, Evaluation.nodes) <=> a \in AddrsOf[e]
                <5>1. CarvesOutOf(peer2, y, q, a)
                    BY <1>2, <4>3, <4>4, ExceptNames
                <5> QED BY <5>1 DEF CarvesOutOf
            <4>6. a \in AddrsOf[e]
                BY <4>1, <4>5
            <4>7. peer2.ipBlock # peer.ipBlock
                BY <3>1, <4>6
            <4>8. peer2.ipBlock \in Blocks(p, d)
                BY <1>2, <4>3, <4>4, <4>5, PeerFacts DEF ExceptOf
            <4>9. ~CidrContains(c, e)
                BY <1>2, <3>2, <4>5, <4>7, <4>8 DEF Supported, PlainBlocks, OwnExcepts
            <4>10. x.peer[2] = c /\ y.peer[2] = e
                BY <3>5, <4>5, Ids
            <4>11. CidrContains(c, e)
                BY <3>8, <4>10 DEF Trims
            <4> QED BY <4>9, <4>11
        <3> QED BY <3>5, <3>7, <3>8 DEF Untrimmed, anyCarveOutTrims
    <2> QED BY <2>1, <2>2
<1> QED BY <1>1, <1>3, <1>4

----------------------------------------------------------------------------
(***************************************************************************)
(* The invariants.                                                         *)
(***************************************************************************)

\* Only what may run runs, and only what may be applied is applied.
LEMMA DeployedInvariant == Spec => []Deployed
<1>1. Init => Deployed
    BY DEF Init, Deployed
<1>2. Deployed /\ [Next]_vars => Deployed'
    BY DEF Deployed, Next, vars, Deploy, Remove, Apply, Delete, ApplyGlobal, DeleteGlobal
<1> QED BY <1>1, <1>2, PTL DEF Spec

\* A direction the engine permits has an allow nothing trims, hence a rule of
\* Kubernetes.
LEMMA PermitsState == Deployed => PermitsAreReal
<1> SUFFICES ASSUME Deployed, NEW id \in LiveIds, NEW q \in LiveIds \cup Hosts,
                    NEW d \in Directions, InFragment(id), q \in Hosts => ~Unenforced(id, d),
                    Side(Evaluation, d, id, q).reason = "permitted"
             PROVE  Allowed(id, d, q)
    BY DEF PermitsAreReal
<1>1. PICK w \in live : id = WorkloadId(w)
    BY DEF LiveIds
<1>2. PICK a : Endpoint(q, a)
    BY Endpoints
<1>3. PICK x \in Untrimmed(Evaluation.rules, d, id, q, Evaluation.nodes) : TRUE
    BY K8sOnlyExceptsDeny, ReasonIs
<1>4. AllowingRules(id, d, q) # {}
    BY <1>1, <1>2, <1>3, AllowMeansMatch
<1> QED BY <1>4 DEF Allowed

\* A direction the engine closes is one a policy of the workload isolates and no
\* rule opens.
LEMMA BlockedState ==
    ASSUME Deployed, NEW w \in live, InFragment(WorkloadId(w)), NEW d \in Directions,
           NEW q \in LiveIds \cup Hosts,
           ~Permits(Side(Evaluation, d, WorkloadId(w), q).reason)
    PROVE  /\ ~Allowed(WorkloadId(w), d, q)
           /\ Side(Evaluation, d, WorkloadId(w), q).culprits # {}
           /\ Side(Evaluation, d, WorkloadId(w), q).culprits \subseteq Isolating(WorkloadId(w), d)
<1> DEFINE id   == WorkloadId(w)
           side == Side(Evaluation, d, id, q)
           C == CarvesFor(Evaluation.rules, d, id, q, Evaluation.nodes)
           O == OtherAllows(Evaluation.rules, d, id, q, Evaluation.nodes)
           L == DenyAllAt(Evaluation.rules, d, id)
<1>1. /\ side.reason = "permitted" <=> Untrimmed(Evaluation.rules, d, id, q, Evaluation.nodes) # {}
      /\ \/ C # {} /\ side.culprits = {r.contributor : r \in C}
         \/ O # {} /\ side.culprits = {r.contributor : r \in O}
         \/ L # {} /\ side.culprits = {r.contributor : r \in L}
    BY K8sOnlyExceptsDeny, ReasonIs
<1>2. \A r \in C \cup O \cup L : r \in Filed(d, id) /\ r.coverage # "unenforced"
    BY K8sOnlyExceptsDeny DEF Filed, CarvesFor, OtherAllows, DenyAllAt, RulesAt, OnlyExceptsDeny
<1> HIDE DEF side, C, O, L
<1>3. \A r \in C \cup O \cup L : r.contributor \in Isolating(id, d)
    BY <1>2, FiledIsolate
<1>4. side.culprits # {} /\ side.culprits \subseteq Isolating(id, d)
    BY <1>1, <1>3
<1>5. AllowingRules(id, d, q) = {}
    <2>1. SUFFICES ASSUME NEW rule \in AllowingRules(id, d, q) PROVE FALSE
        OBVIOUS
    <2>2. PICK a : Endpoint(q, a)
        BY Endpoints
    <2>3. Untrimmed(Evaluation.rules, d, id, q, Evaluation.nodes) # {}
        BY <2>1, <2>2, MatchMeansAllow
    <2> QED BY <1>1, <2>3 DEF side, Permits
<1> QED BY <1>4, <1>5 DEF Allowed, side

LEMMA BlocksState == Deployed => BlocksAreReal
    BY BlockedState DEF BlocksAreReal, LiveIds

LEMMA CulpritsState == Deployed => CulpritsIsolate
    BY BlockedState DEF CulpritsIsolate, LiveIds

\* With no carve-out, the allows of a permitted direction have the ports of the
\* rules of Kubernetes, and those of the rules have them.
LEMMA PortsState == Deployed => ReportedPortsAreOpen
<1> SUFFICES ASSUME Deployed, NEW id \in LiveIds, NEW q \in LiveIds, NEW d \in Directions,
                    InFragment(id),
                    Side(Evaluation, d, id, q).matches.carveOut = {}
             PROVE  LET side == Side(Evaluation, d, id, q)
                        open == {r.ports : r \in AllowingRules(id, d, q)}
                    IN  side.allPorts = ({} \in open) /\ side.ports = UNION open
    BY DEF ReportedPortsAreOpen
<1> DEFINE A == AllowsFor(Evaluation.rules, d, id, q, Evaluation.nodes)
           open == {r.ports : r \in AllowingRules(id, d, q)}
<1>1. PICK w \in live : id = WorkloadId(w)
    BY DEF LiveIds
<1>2. PICK a : Endpoint(q, a)
    BY Endpoints
<1>3. A = Untrimmed(Evaluation.rules, d, id, q, Evaluation.nodes)
    BY K8sOnlyExceptsDeny, SideMatches DEF Untrimmed, anyCarveOutTrims
<1>4. \A x \in A : \E rule \in AllowingRules(id, d, q) : rule.ports = x.ports
    BY <1>1, <1>2, <1>3, AllowMeansMatch
<1>5. \A rule \in AllowingRules(id, d, q) : \E x \in A : x.ports = rule.ports
    BY <1>1, <1>2, <1>3, MatchMeansAllow
<1>6. /\ Side(Evaluation, d, id, q).allPorts = ({} \in PortsOf(A))
      /\ Side(Evaluation, d, id, q).ports = UNION PortsOf(A)
    <2>1. Side(Evaluation, d, id, q).matches.allow = A
        BY K8sOnlyExceptsDeny, SideMatches
    <2> QED BY <2>1, SidePorts
<1> HIDE DEF A
<1>7. PortsOf(A) = open
    BY <1>4, <1>5 DEF PortsOf
<1> QED BY <1>6, <1>7 DEF open

\* Whatever is deployed and applied, for any labels, ranges and policies of the
\* fragment: what the engine permits, Kubernetes lets through.
THEOREM PermitsReal == Spec => []PermitsAreReal
    BY DeployedInvariant, PermitsState, PTL

\* What it blocks, Kubernetes blocks.
THEOREM BlocksReal == Spec => []BlocksAreReal
    BY DeployedInvariant, BlocksState, PTL

\* Whoever it names for a block isolates the workload.
THEOREM CulpritsReal == Spec => []CulpritsIsolate
    BY DeployedInvariant, CulpritsState, PTL

\* The ports it reports are the ports Kubernetes opens.
THEOREM PortsReal == Spec => []ReportedPortsAreOpen
    BY DeployedInvariant, PortsState, PTL

----------------------------------------------------------------------------
(***************************************************************************)
(* The action properties.  They need no invariant: what a policy that stays *)
(* is expanded to depends on the workloads alone.                           *)
(***************************************************************************)

\* While the workloads stay, so do the rules and the nodes of a policy.
LEMMA PoliciesStay ==
    ASSUME live' = live, NEW p
    PROVE  /\ getSourceNodes(p)' = getSourceNodes(p)
           /\ expandEgressRules(p)' = expandEgressRules(p)
           /\ expandIngressRules(p)' = expandIngressRules(p)
<1>1. \A s, n : IndexLabelMatch(s, n)' = IndexLabelMatch(s, n)
    BY DEF IndexLabelMatch, NsWorkloads
<1>2. \A peer : PeerNodes(p, peer)' = PeerNodes(p, peer)
    BY <1>1 DEF PeerNodes
<1>3. \A d, peer, ports : expandPeerRules(p, d, peer, ports)' = expandPeerRules(p, d, peer, ports)
    BY <1>2 DEF expandPeerRules
<1>4. \A d : expandRules(p, d)' = expandRules(p, d)
    <2> TAKE d
    <2> DEFINE Made(rule) == UNION {expandPeerRules(p, d, peer, rule.ports) : peer \in rule.peers}
               Of(rule) == IF rule.peers = {}
                           THEN {NewRule(p, d, Empty, "allow all", "allow", rule.ports)}
                           ELSE Made(rule)
    <2>1. \A rule : Made(rule)' = Made(rule)
        BY <1>3
    <2> HIDE DEF Made
    <2>2. UNION {Of(rule)' : rule \in RulesOf(p, d)} = UNION {Of(rule) : rule \in RulesOf(p, d)}
        BY <2>1
    <2> QED BY <2>2 DEF expandRules, Made
<1> QED BY <1>1, <1>4 DEF getSourceNodes, expandEgressRules, expandIngressRules

\* The rules of a policy that is there before and after are there before and
\* after.
LEMMA RulesStay ==
    ASSUME live' = live, NEW r
    PROVE  /\ r \in buildAllowRulesByNs /\ r.contributor \in netpols' => r \in buildAllowRulesByNs'
           /\ r \in buildAllowRulesByNs' /\ r.contributor \in netpols => r \in buildAllowRulesByNs
           /\ r \in buildAllowRulesByNs' => r.contributor \in netpols'
<1> DEFINE Has(p) == \E r0 \in expandEgressRules(p) \cup expandIngressRules(p),
                        n \in getSourceNodes(p) : r = [r0 EXCEPT !.node = n]
<1>1. r \in buildAllowRulesByNs <=> \E p \in netpols : Has(p)
    BY DEF buildAllowRulesByNs
<1>2. r \in buildAllowRulesByNs' <=> \E p \in netpols' : Has(p)
    <2>1. r \in buildAllowRulesByNs' <=>
             \E p \in netpols' :
                \E r0 \in expandEgressRules(p)' \cup expandIngressRules(p)',
                   n \in getSourceNodes(p)' : r = [r0 EXCEPT !.node = n]
        BY DEF buildAllowRulesByNs
    <2> QED BY <2>1, PoliciesStay
<1>3. ASSUME NEW p, Has(p)
      PROVE  r.contributor = p
    <2>1. PICK r0 \in expandEgressRules(p) \cup expandIngressRules(p), n \in getSourceNodes(p) :
              r = [r0 EXCEPT !.node = n]
        BY <1>3
    <2>2. PICK d \in Directions : r0 \in expandRules(p, d)
        BY <2>1 DEF expandEgressRules, expandIngressRules, Directions
    <2>3. r0.contributor = p /\ IsRule(r0)
        BY <2>2, ExpandShapes
    <2> QED BY <2>1, <2>3 DEF IsRule
<1> HIDE DEF Has
<1> QED BY <1>1, <1>2, <1>3

\* The policies of the rules are there and protect their nodes.
RuleOrigins == \A r \in buildAllowRulesByNs :
                  r.contributor \in netpols /\ r.node \in getSourceNodes(r.contributor)

LEMMA RuleOriginsNext == RuleOrigins'
<1>1. RuleOrigins
    BY RulesComeFrom DEF RuleOrigins
<1> QED BY <1>1, PTL

\* The ranges of the rules are nodes the verdicts know.
LEMMA RuleRanges == \A r \in buildAllowRulesByNs : NodeType(r.peer) = "cidr" => r.peer \in CidrNodes
<1> SUFFICES ASSUME NEW r \in buildAllowRulesByNs, NodeType(r.peer) = "cidr"
             PROVE  r.peer \in CidrNodes
    OBVIOUS
<1>1. r.contributor \in netpols /\ ShapeOf(r.contributor, r.direction, r)
    BY RulesComeFrom
<1>2. PICK rule \in RulesOf(r.contributor, r.direction) :
          \E peer \in rule.peers :
             AllowOf(r.contributor, rule, peer, r) \/ ExceptOf(rule, peer, r)
    BY <1>1, Ids DEF ShapeOf, MarkerOf, OpenOf, AllowOf, ExceptOf
<1>3. PICK peer \in rule.peers :
          AllowOf(r.contributor, rule, peer, r) \/ ExceptOf(rule, peer, r)
    BY <1>2
<1>4. r.peer \in BlockNodes(peer) \cup ExceptNodes(peer)
    BY <1>3, PeerNodesAreNodes DEF AllowOf, ExceptOf
<1>5. rule \in UNION {p.ingress \cup p.egress : p \in netpols}
    BY <1>1, <1>2 DEF RulesOf
<1> QED BY <1>3, <1>4, <1>5 DEF CidrNodes

LEMMA RuleRangesNext == (\A r \in buildAllowRulesByNs : NodeType(r.peer) = "cidr" => r.peer \in CidrNodes)'
    BY RuleRanges, PTL

LEMMA OnlyExceptsDenyNext == OnlyExceptsDeny(Evaluation'.rules)
<1>1. OnlyExceptsDeny(Evaluation.rules)'
    BY K8sOnlyExceptsDeny, PTL
<1> QED BY <1>1 DEF OnlyExceptsDeny

\* A rule names the peers it named while its range and theirs stay known.
LEMMA NamesStay ==
    ASSUME NEW r, NEW q, NEW M, NEW N,
           NodeType(r.peer) = "cidr" => (r.peer \in M /\ r.peer \in N),
           NodeType(q) = "cidr" => (q \in M /\ q \in N)
    PROVE  Names(r, q, M) <=> Names(r, q, N)
    BY DEF Names, NamesPeer, cidrNodeCoversPeer

\* Another namespace's policies, whatever they say, decide nothing of a workload.
THEOREM ForeignInert == Spec => ForeignPolicyIsInert
<1> DEFINE changed == (netpols \cup netpols') \ (netpols \cap netpols')
           P == live' = live =>
                   \A id \in LiveIds :
                      (\A p \in changed : p.namespace # NsOf[id[2]]) =>
                      \A q \in LiveIds, d \in Directions :
                         Side(Evaluation, d, id, q).reason = Side(Evaluation', d, id, q).reason
<1>1. P
    <2> SUFFICES ASSUME live' = live, NEW id \in LiveIds, NEW q \in LiveIds, NEW d \in Directions,
                        \A p \in changed : p.namespace # NsOf[id[2]]
                 PROVE  Side(Evaluation, d, id, q).reason = Side(Evaluation', d, id, q).reason
        OBVIOUS
    <2> DEFINE e == Evaluation
               f == Evaluation'
    <2>1. PICK w \in live : id = WorkloadId(w) /\ id[2] = w /\ NsIdOf(id) = NsId(NsOf[w])
        BY Ids DEF LiveIds
    <2>2. NodeType(q) = "workload"
        BY Ids DEF LiveIds
    <2>3. /\ e.rules = buildAllowRulesByNs /\ f.rules = buildAllowRulesByNs'
          /\ CidrNodes \subseteq e.nodes /\ CidrNodes' \subseteq f.nodes
        BY DEF Evaluation
    <2>4. ASSUME NEW r, r.node \in {id, NsIdOf(id)}
          PROVE  r \in e.rules <=> r \in f.rules
        <3>1. ASSUME NEW p, NEW n \in getSourceNodes(p), n \in {id, NsIdOf(id)}
              PROVE  p.namespace = NsOf[w]
            BY <2>1, <3>1, SourcesAreNear, IdsDiffer
        <3>2. ASSUME r \in buildAllowRulesByNs
              PROVE  r.contributor \in netpols'
            <4>1. r.contributor \in netpols /\ r.node \in getSourceNodes(r.contributor)
                BY <3>2, RulesComeFrom
            <4>2. r.contributor.namespace = NsOf[w]
                BY <2>4, <3>1, <4>1
            <4> QED BY <2>1, <4>1, <4>2
        <3>3. ASSUME r \in buildAllowRulesByNs'
              PROVE  r.contributor \in netpols
            <4>1. r.contributor \in netpols' /\ r.node \in getSourceNodes(r.contributor)'
                BY <3>3, RuleOriginsNext DEF RuleOrigins
            <4>2. r.contributor.namespace = NsOf[w]
                BY <2>4, <3>1, <4>1, PoliciesStay
            <4> QED BY <2>1, <4>1, <4>2
        <3> QED BY <2>3, <3>2, <3>3, RulesStay
    <2>5. RulesAt(e.rules, d, id) = RulesAt(f.rules, d, id)
        BY <2>4 DEF RulesAt
    <2>6. ASSUME NEW r \in RulesAt(e.rules, d, id)
          PROVE  Names(r, q, e.nodes) <=> Names(r, q, f.nodes)
        <3>1. r \in e.rules /\ r \in f.rules
            BY <2>5 DEF RulesAt
        <3>2. NodeType(r.peer) = "cidr" => r.peer \in e.nodes /\ r.peer \in f.nodes
            BY <2>3, <3>1, RuleRanges, RuleRangesNext
        <3> QED BY <2>2, <3>2, NamesStay
    <2> HIDE DEF e, f
    <2>7. /\ AllowsFor(e.rules, d, id, q, e.nodes) = AllowsFor(f.rules, d, id, q, f.nodes)
          /\ CarvesFor(e.rules, d, id, q, e.nodes) = CarvesFor(f.rules, d, id, q, f.nodes)
          /\ OtherAllows(e.rules, d, id, q, e.nodes) = OtherAllows(f.rules, d, id, q, f.nodes)
          /\ DenyAllAt(e.rules, d, id) = DenyAllAt(f.rules, d, id)
        BY <2>5, <2>6 DEF AllowsFor, CarvesFor, OtherAllows, DenyAllAt
    <2>8. OnlyExceptsDeny(e.rules) /\ OnlyExceptsDeny(f.rules)
        BY K8sOnlyExceptsDeny, OnlyExceptsDenyNext DEF e, f
    <2> DEFINE m == Side(e, d, id, q).matches
               n == Side(f, d, id, q).matches
    <2>9. /\ m.deny = {} /\ n.deny = {} /\ m.allow = n.allow /\ m.carveOut = n.carveOut
          /\ m.denyAll = n.denyAll /\ m.otherAllow = n.otherAllow
        BY <2>7, <2>8, SideMatches
    <2>10. /\ Side(e, d, id, q).reason = decideDirectionVerdict(m)
           /\ Side(f, d, id, q).reason = decideDirectionVerdict(n)
        BY SideDecides
    <2> HIDE DEF m, n
    <2>11. decideDirectionVerdict(m) = decideDirectionVerdict(n)
        BY <2>9 DEF decideDirectionVerdict
    <2> QED BY <2>10, <2>11 DEF e, f
<1>2. [P]_vars
    BY <1>1
<1> QED BY <1>2, PTL DEF ForeignPolicyIsInert

\* More policies never close what was open.
THEOREM Additive == Spec => AllowsAreAdditive
<1> DEFINE P == netpols \subseteq netpols' /\ live' = live =>
                   \A id \in LiveIds, q \in LiveIds \cup Hosts, d \in Directions :
                      Side(Evaluation, d, id, q).reason = "permitted"
                      => Side(Evaluation', d, id, q).reason = "permitted"
<1>1. P
    <2> SUFFICES ASSUME netpols \subseteq netpols', live' = live,
                        NEW id \in LiveIds, NEW q \in LiveIds \cup Hosts, NEW d \in Directions,
                        Side(Evaluation, d, id, q).reason = "permitted"
                 PROVE  Side(Evaluation', d, id, q).reason = "permitted"
        OBVIOUS
    <2> DEFINE e == Evaluation
               f == Evaluation'
    <2>1. /\ e.rules = buildAllowRulesByNs /\ f.rules = buildAllowRulesByNs'
          /\ CidrNodes \subseteq e.nodes /\ CidrNodes' \subseteq f.nodes
        BY DEF Evaluation
    <2>2. CidrNodes \subseteq CidrNodes'
        BY DEF CidrNodes
    <2>3. NodeType(q) = "cidr" => q \in e.nodes /\ q \in f.nodes
        BY <2>1, <2>2, Ids DEF LiveIds, Hosts
    <2>4. ASSUME NEW r \in e.rules
          PROVE  /\ r \in f.rules /\ r.contributor \in netpols
                 /\ Names(r, q, e.nodes) <=> Names(r, q, f.nodes)
        <3>1. r.contributor \in netpols
            BY <2>1, RulesComeFrom
        <3>2. NodeType(r.peer) = "cidr" => r.peer \in e.nodes /\ r.peer \in f.nodes
            BY <2>1, <2>2, RuleRanges
        <3>3. r \in f.rules
            BY <2>1, <3>1, RulesStay
        <3> QED BY <2>3, <3>1, <3>2, <3>3, NamesStay
    <2>5. OnlyExceptsDeny(e.rules) /\ OnlyExceptsDeny(f.rules)
        BY K8sOnlyExceptsDeny, OnlyExceptsDenyNext
    <2>6. ASSUME NEW r \in f.rules, r.contributor \in netpols
          PROVE  r \in e.rules
        BY <2>1, <2>6, RulesStay
    <2> HIDE DEF e, f
    <2>7. PICK x \in AllowsFor(e.rules, d, id, q, e.nodes) :
              ~\E y \in CarvesFor(e.rules, d, id, q, e.nodes) : Trims(y, x)
        <3>1. Untrimmed(e.rules, d, id, q, e.nodes) # {}
            BY <2>5, ReasonIs DEF e
        <3> QED BY <3>1 DEF Untrimmed, anyCarveOutTrims
    <2>8. x \in AllowsFor(f.rules, d, id, q, f.nodes)
        BY <2>4 DEF AllowsFor, RulesAt
    <2>9. ASSUME NEW y \in CarvesFor(f.rules, d, id, q, f.nodes), Trims(y, x)
          PROVE  FALSE
        <3>1. y.contributor = x.contributor
            BY <2>9 DEF Trims
        <3>2. x \in e.rules /\ y \in f.rules
            BY <2>7 DEF AllowsFor, CarvesFor, RulesAt
        <3>3. y \in e.rules
            BY <2>4, <2>6, <3>1, <3>2
        <3>4. y \in CarvesFor(e.rules, d, id, q, e.nodes)
            BY <2>4, <3>3 DEF CarvesFor, RulesAt
        <3> QED BY <2>7, <2>9, <3>4
    <2>10. Untrimmed(f.rules, d, id, q, f.nodes) # {}
        BY <2>8, <2>9 DEF Untrimmed, anyCarveOutTrims
    <2> QED BY <2>5, <2>10, ReasonIs DEF f
<1>2. [P]_vars
    BY <1>1
<1> QED BY <1>2, PTL DEF AllowsAreAdditive
=============================================================================
