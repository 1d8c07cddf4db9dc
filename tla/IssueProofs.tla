----------------------------- MODULE IssueProofs -----------------------------
(***************************************************************************)
(* What a finding of the scan is worth in every cluster.  On two workloads *)
(* there is a policy conflict exactly when a NetworkPolicy lets one talk to *)
(* the other by name and an engine's policies close an end; the ends are   *)
(* GlobalProofs', and what is left is which pairs are looked at, and that  *)
(* each finding is one pair's and one engine's.  A workload has a DNS      *)
(* finding exactly when its NetworkPolicies close the resolver's port to it. *)
(***************************************************************************)
EXTENDS Findings, GlobalProofs

----------------------------------------------------------------------------
(***************************************************************************)
(* The rules that name a workload.                                         *)
(***************************************************************************)

\* A rule of the engine at the workload id that allows the workload q.
FiledFor(id, d, q) ==
    \E r \in buildAllowRulesByNs :
       r.node = id /\ r.direction = d /\ r.action = "allow" /\ r.peer = q

\* A policy is filed at the workload itself exactly when it selects it by labels.
LEMMA FiledAtWorkload ==
    ASSUME Deployed, NEW w \in live, InFragment(WorkloadId(w)), NEW p \in netpols
    PROVE  WorkloadId(w) \in getSourceNodes(p)
              <=> Selects(p, WorkloadId(w)) /\ p.podSelector.labels # {}
<1> DEFINE id == WorkloadId(w)
<1>1. p \in NetPols /\ p.namespace \in Namespaces
    BY NetPolAssumption DEF Deployed
<1>2. ASSUME id \in getSourceNodes(p)
      PROVE  Selects(p, id) /\ p.podSelector.labels # {}
    <2>1. Selects(p, id)
        BY <1>2, FiledWhereSelected
    <2>2. id \in IndexLabelMatch(p.podSelector, p.namespace)
        BY <1>2, IdsDiffer DEF getSourceNodes
    <2> QED BY <2>1, <2>2, IndexHolds
<1>3. ASSUME Selects(p, id), p.podSelector.labels # {}
      PROVE  id \in getSourceNodes(p)
    <2>1. PICK n \in getSourceNodes(p) : n \in {id, NsId(NsOf[w])}
        BY <1>3, FiledWhereSelected
    <2>2. Supported(p)
        BY <1>3 DEF InFragment, Selects
    <2>3. getSourceNodes(p) = IndexLabelMatch(p.podSelector, p.namespace)
        BY <1>3 DEF getSourceNodes, isCatchAll
    <2>4. \A x \in Namespaces : ~(p.podSelector.labels \subseteq NsLabels[x])
        BY <1>3, <2>2 DEF Supported, ReadsPodLabels, LabelsMatch
    <2>5. NsOf[w] \in Namespaces
        BY ClusterAssumption DEF Deployed
    <2>6. n # NsId(NsOf[w])
        BY <2>1, <2>3, <2>4, <2>5, IndexHolds, Ids
    <2> QED BY <2>1, <2>6
<1> QED BY <1>2, <1>3

\* A peer stands for the workload itself exactly when it picks it by labels.
LEMMA NamesWorkload ==
    ASSUME Deployed, NEW p \in netpols, Supported(p), NEW d \in Directions,
           NEW rule \in RulesOf(p, d), NEW peer \in rule.peers, NEW v \in live
    PROVE  WorkloadId(v) \in PeerNodes(p, peer)
              <=> /\ peer.podSelector # Nil /\ ~isCatchAll(peer.podSelector)
                  /\ PeerMatches(p, peer, WorkloadId(v))
<1> DEFINE q == WorkloadId(v)
<1>1. p \in NetPols /\ NsOf[v] \in Namespaces
    BY ClusterAssumption DEF Deployed
<1>2. /\ (peer.ipBlock = Nil) = (peer.podSelector # Nil \/ peer.namespaceSelector # Nil)
      /\ peer.podSelector # Nil =>
            /\ ~peer.podSelector.exprs
            /\ peer.podSelector.labels # {} =>
                  \A n \in Namespaces : ~(peer.podSelector.labels \subseteq NsLabels[n])
    BY <1>1, PeerFacts
<1>3. (\E n \in PeerNodes(p, peer) : n \in {q, NsId(NsOf[v])})
         <=> (peer.ipBlock = Nil /\ MatchedBySelectors(p, peer, q))
    BY SelectorsMatch
<1>4. ASSUME q \in PeerNodes(p, peer)
      PROVE  /\ peer.podSelector # Nil /\ ~isCatchAll(peer.podSelector)
             /\ PeerMatches(p, peer, q)
    <2>1. peer.podSelector # Nil /\ ~isCatchAll(peer.podSelector)
        BY <1>4, IdsDiffer DEF PeerNodes
    <2>2. PeerMatches(p, peer, q)
        BY <1>3, <1>4 DEF PeerMatches
    <2> QED BY <2>1, <2>2
<1>5. ASSUME peer.podSelector # Nil, ~isCatchAll(peer.podSelector), PeerMatches(p, peer, q)
      PROVE  q \in PeerNodes(p, peer)
    <2>1. peer.ipBlock = Nil /\ MatchedBySelectors(p, peer, q) /\ peer.podSelector.labels # {}
        BY <1>2, <1>5 DEF PeerMatches, isCatchAll
    <2>2. PICK n \in PeerNodes(p, peer) : n \in {q, NsId(NsOf[v])}
        BY <1>3, <2>1
    <2>3. PICK x : n \in IndexLabelMatch(peer.podSelector, x)
        BY <1>5, <2>2 DEF PeerNodes
    <2>4. n # NsId(NsOf[v])
        BY <1>1, <1>2, <1>5, <2>1, <2>3, IndexHolds, Ids
    <2> QED BY <2>2, <2>4
<1> QED BY <1>4, <1>5

\* The engine has a rule of one workload for another exactly when a policy names
\* it.
LEMMA NamedIsFiled ==
    ASSUME Deployed, NEW w \in live, InFragment(WorkloadId(w)), NEW d \in Directions, NEW v \in live
    PROVE  FiledFor(WorkloadId(w), d, WorkloadId(v))
              <=> \E p \in netpols : NamedBy(p, WorkloadId(w), d, WorkloadId(v))
<1> DEFINE id == WorkloadId(w)
           q  == WorkloadId(v)
<1>1. ASSUME NEW p \in netpols, Selects(p, id) PROVE Supported(p)
    BY <1>1 DEF InFragment, Selects
<1>2. ASSUME NEW r \in buildAllowRulesByNs, r.node = id, r.direction = d, r.action = "allow", r.peer = q
      PROVE  \E p \in netpols : NamedBy(p, id, d, q)
    <2> DEFINE p == r.contributor
    <2>1. p \in netpols /\ id \in getSourceNodes(p) /\ ShapeOf(p, d, r)
        BY <1>2, RulesComeFrom
    <2> HIDE DEF p
    <2>2. Selects(p, id) /\ p.podSelector.labels # {} /\ Supported(p)
        BY <1>1, <2>1, FiledAtWorkload
    <2>3. PICK rule \in RulesOf(p, d) : \E peer \in rule.peers : AllowOf(p, rule, peer, r)
        BY <1>2, <2>1, IdsDiffer DEF ShapeOf, MarkerOf, OpenOf, ExceptOf
    <2>4. PICK peer \in rule.peers : AllowOf(p, rule, peer, r)
        BY <2>3
    <2>5. q \in PeerNodes(p, peer)
        BY <1>2, <2>4, IdsDiffer DEF AllowOf, BlockNodes
    <2>6. peer.podSelector # Nil /\ ~isCatchAll(peer.podSelector) /\ PeerMatches(p, peer, q)
        BY <2>1, <2>2, <2>5, NamesWorkload
    <2> QED BY <2>1, <2>2, <2>6 DEF NamedBy
<1>3. ASSUME NEW p \in netpols, NamedBy(p, id, d, q)
      PROVE  FiledFor(id, d, q)
    <2>1. Selects(p, id) /\ p.podSelector.labels # {} /\ Supported(p)
        BY <1>1, <1>3 DEF NamedBy
    <2>2. PICK rule \in RulesOf(p, d) : \E peer \in rule.peers :
              /\ peer.podSelector # Nil /\ ~isCatchAll(peer.podSelector)
              /\ PeerMatches(p, peer, q)
        BY <1>3 DEF NamedBy
    <2>3. PICK peer \in rule.peers : q \in PeerNodes(p, peer)
        BY <2>1, <2>2, NamesWorkload
    <2>4. PICK c : NewRule(p, d, q, c, "allow", rule.ports) \in expandRules(p, d)
        BY <2>3, ExpandHas
    <2>5. id \in getSourceNodes(p)
        BY <2>1, FiledAtWorkload
    <2> DEFINE r == [node |-> id, peer |-> q, direction |-> d, coverage |-> c, action |-> "allow",
                     ports |-> rule.ports, contributor |-> p]
    <2>6. r \in buildAllowRulesByNs
        BY <2>4, <2>5, RulesAreFiled
    <2>7. r.node = id /\ r.direction = d /\ r.action = "allow" /\ r.peer = q
        OBVIOUS
    <2> HIDE DEF r
    <2> QED BY <2>6, <2>7 DEF FiledFor
<1> QED BY <1>2, <1>3 DEF FiledFor

----------------------------------------------------------------------------
(***************************************************************************)
(* Which pairs of workloads are looked at, and what is found on each.       *)
(***************************************************************************)

\* The mesh's steps leave the policies alone.
LEMMA FindingsInvariant == FindingsSpec => []GInv
<1>1. FindingsInit => GInv
    BY FS_EmptySet DEF FindingsInit, Init, GInv, Deployed
<1>2. [FindingsNext]_allVars => [Next]_vars
    BY DEF FindingsNext, allVars, ClusterStep, ApplyAuth, DeleteAuth, EditAuth, ListFails,
           ListRecovers
<1> QED BY <1>1, <1>2, GInvStep, PTL DEF FindingsSpec

\* Calico rules are about ranges, or everything.
LEMMA CalicoNamesRanges ==
    ASSUME NEW r \in CalicoRules
    PROVE  r.peer = Empty \/ \E c : r.peer = CidrId(c)
<1>1. PICK id \in IndexedNodes, d \in {"ingress", "egress"} : r \in resolveWorkload(id, d)
    BY DEF CalicoRules
<1>2. \/ r \in buildRulesForWorkload(id, resolveDirection(id, d), d)
      \/ r = unenforcedRule(id, d, FirstOf(workloadSelectingPolicies(id)))
      \/ r = denyAllBaseline(id, d, FirstOf(workloadSelectingPolicies(id)))
    BY <1>1 DEF resolveWorkload
<1>3. CASE r \in buildRulesForWorkload(id, resolveDirection(id, d), d)
    BY <1>3 DEF buildRulesForWorkload
<1>4. CASE r = unenforcedRule(id, d, FirstOf(workloadSelectingPolicies(id)))
    BY <1>4 DEF unenforcedRule
<1>5. CASE r = denyAllBaseline(id, d, FirstOf(workloadSelectingPolicies(id)))
    BY <1>5 DEF denyAllBaseline
<1> QED BY <1>2, <1>3, <1>4, <1>5

\* A pair of workloads is looked at when the Kubernetes engine has a rule of one
\* for the other.
LEMMA PairsChecked ==
    ASSUME GInv, NEW src \in LiveIds, NEW dst \in LiveIds
    PROVE  <<src, dst>> \in CheckedPairs(Engines, WorkloadByID)
              <=> FiledFor(src, "egress", dst) \/ FiledFor(dst, "ingress", src)
<1> DEFINE allows == {a \in UNION {Engines[e] : e \in DOMAIN Engines} : a.action = "allow"}
<1>1. /\ DOMAIN Engines = {"k8s", "calico"}
      /\ Engines["k8s"] = buildAllowRulesByNs /\ Engines["calico"] = CalicoRules
    BY DEF Engines
<1>2. src \in WorkloadByID /\ dst \in WorkloadByID
    BY AtWorkload DEF LiveIds, WorkloadByID
<1>3. <<src, dst>> \in CheckedPairs(Engines, WorkloadByID)
         <=> \E r \in allows : SrcID(r) = src /\ DstID(r) = dst
    BY <1>2 DEF CheckedPairs
<1>4. \A r : r \in allows <=> r.action = "allow" /\ (r \in buildAllowRulesByNs \/ r \in CalicoRules)
    BY <1>1
<1> HIDE DEF allows
<1>5. ASSUME NEW r \in CalicoRules PROVE r.peer # src /\ r.peer # dst
    BY <1>5, CalicoNamesRanges, IdsDiffer DEF LiveIds
<1>6. ASSUME NEW r \in allows, SrcID(r) = src, DstID(r) = dst
      PROVE  FiledFor(src, "egress", dst) \/ FiledFor(dst, "ingress", src)
    <2>1. src = r.peer \/ dst = r.peer
        BY <1>6 DEF SrcID, DstID
    <2>2. r \in buildAllowRulesByNs /\ r.action = "allow"
        BY <1>4, <1>5, <2>1
    <2>3. r.direction \in Directions
        BY <2>2, RulesComeFrom
    <2> QED BY <1>6, <2>2, <2>3 DEF FiledFor, SrcID, DstID, Directions
<1>7. ASSUME FiledFor(src, "egress", dst) \/ FiledFor(dst, "ingress", src)
      PROVE  \E r \in allows : SrcID(r) = src /\ DstID(r) = dst
    BY <1>4, <1>7 DEF FiledFor, SrcID, DstID
<1> QED BY <1>3, <1>6, <1>7

\* The findings on a pair are the engines that block it, when it is looked at.
LEMMA FoundOnPair ==
    ASSUME NEW engines, NEW nodes, NEW src, NEW dst
    PROVE  {f.engine : f \in {g \in PolicyConflicts(engines, nodes) : g.src = src /\ g.dst = dst}}
              = IF <<src, dst>> \in CheckedPairs(engines, nodes)
                THEN {e \in DOMAIN engines : EngineStatus(engines[e], src, dst, nodes) = "deny"}
                ELSE {}
<1> DEFINE found == PolicyConflicts(engines, nodes)
           pairs == CheckedPairs(engines, nodes)
           blocked(p) == {e \in DOMAIN engines : EngineStatus(engines[e], p[1], p[2], nodes) = "deny"}
<1>1. \A e, x, y : LET f == BlockedPair(engines, e, x, y, nodes)
                   IN  f.engine = e /\ f.src = x /\ f.dst = y
    BY DEF BlockedPair
<1>2. \A x, y : PoliciesCanReach(engines, x, y, nodes).blockedBy = blocked(<<x, y>>)
    BY DEF PoliciesCanReach
<1>3. \A p \in pairs : p = <<p[1], p[2]>>
    BY DEF CheckedPairs
<1>4. \A f : f \in found <=> \E p \in pairs : \E e \in blocked(p) :
                               f = BlockedPair(engines, e, p[1], p[2], nodes)
    <2>1. found = UNION {{BlockedPair(engines, e, p[1], p[2], nodes) :
                             e \in PoliciesCanReach(engines, p[1], p[2], nodes).blockedBy} :
                             p \in pairs}
        BY DEF PolicyConflicts
    <2>2. \A p \in pairs : PoliciesCanReach(engines, p[1], p[2], nodes).blockedBy = blocked(p)
        BY <1>2, <1>3
    <2> HIDE DEF found, pairs, blocked
    <2> QED BY <2>1, <2>2
<1>5. <<src, dst>>[1] = src /\ <<src, dst>>[2] = dst
    OBVIOUS
<1> HIDE DEF found, pairs, blocked
<1>6. ASSUME NEW f \in found, f.src = src, f.dst = dst
      PROVE  <<src, dst>> \in pairs /\ f.engine \in blocked(<<src, dst>>)
    <2>1. PICK p \in pairs : \E e \in blocked(p) : f = BlockedPair(engines, e, p[1], p[2], nodes)
        BY <1>4
    <2>2. PICK e \in blocked(p) : f = BlockedPair(engines, e, p[1], p[2], nodes)
        BY <2>1
    <2>3. f.engine = e /\ f.src = p[1] /\ f.dst = p[2]
        BY <1>1, <2>2
    <2>4. p = <<src, dst>>
        BY <1>3, <1>6, <2>3
    <2> QED BY <2>2, <2>3, <2>4
<1>7. ASSUME <<src, dst>> \in pairs, NEW e \in blocked(<<src, dst>>)
      PROVE  \E f \in found : f.src = src /\ f.dst = dst /\ f.engine = e
    <2>1. BlockedPair(engines, e, src, dst, nodes) \in found
        BY <1>4, <1>5, <1>7
    <2> QED BY <1>1, <2>1
<1>8. {f.engine : f \in {g \in found : g.src = src /\ g.dst = dst}}
         = IF <<src, dst>> \in pairs THEN blocked(<<src, dst>>) ELSE {}
    BY <1>6, <1>7
<1> QED BY <1>5, <1>8 DEF found, pairs, blocked

LEMMA ConflictsState == GInv => ConflictsAreTheDisagreements
<1> DEFINE Named(src, dst) ==
               \E p \in netpols : NamedBy(p, src, "egress", dst) \/ NamedBy(p, dst, "ingress", src)
           Closed(e, src, dst) ==
               IF e = "k8s" THEN ~(Allowed(src, "egress", dst) /\ Allowed(dst, "ingress", src))
               ELSE ~(/\ CalicoAllowed(src, "egress", AddrOf[dst[2]])
                      /\ CalicoAllowed(dst, "ingress", AddrOf[src[2]]))
           Found(src, dst) ==
               {f.engine : f \in {g \in PolicyConflicts(Engines, WorkloadByID) :
                                     g.src = src /\ g.dst = dst}}
           Blocked(src, dst) ==
               {e \in DOMAIN Engines : EngineStatus(Engines[e], src, dst, WorkloadByID) = "deny"}
<1> SUFFICES ASSUME GInv, NEW src \in LiveIds, NEW dst \in LiveIds, src # dst,
                    ReadRight(src), ReadRight(dst),
                    JudgedRight("egress", src, dst), JudgedRight("ingress", dst, src)
             PROVE  Found(src, dst) = IF Named(src, dst)
                                      THEN {e \in {"k8s", "calico"} : Closed(e, src, dst)} ELSE {}
    BY DEF ConflictsAreTheDisagreements, ReadRight, JudgedRight
<1>1. Found(src, dst) = IF <<src, dst>> \in CheckedPairs(Engines, WorkloadByID)
                        THEN Blocked(src, dst) ELSE {}
    BY FoundOnPair
<1>2. <<src, dst>> \in CheckedPairs(Engines, WorkloadByID) <=> Named(src, dst)
    <2>1. PICK w \in live : src = WorkloadId(w)
        BY DEF LiveIds
    <2>2. PICK v \in live : dst = WorkloadId(v)
        BY DEF LiveIds
    <2>3. Deployed /\ InFragment(src) /\ InFragment(dst)
        BY DEF GInv, ReadRight
    <2>4. "egress" \in Directions /\ "ingress" \in Directions
        BY DEF Directions
    <2>5. /\ FiledFor(src, "egress", dst) <=> \E p \in netpols : NamedBy(p, src, "egress", dst)
          /\ FiledFor(dst, "ingress", src) <=> \E p \in netpols : NamedBy(p, dst, "ingress", src)
        BY <2>1, <2>2, <2>3, <2>4, NamedIsFiled
    <2> QED BY <2>5, PairsChecked
<1>3. /\ DOMAIN Engines = {"k8s", "calico"}
      /\ Engines["k8s"] = Evaluation.rules /\ Engines["calico"] = CalicoEvaluation.rules
      /\ WorkloadByID = CalicoEvaluation.nodes
    BY DEF Engines, Evaluation, CalicoEvaluation, WorkloadByID
<1>4. \A e \in {"k8s", "calico"} :
         EngineStatus(Engines[e], src, dst, WorkloadByID) = "deny" <=> Closed(e, src, dst)
    BY <1>3, EndsAreReal
<1>5. Blocked(src, dst) = {e \in {"k8s", "calico"} : Closed(e, src, dst)}
    BY <1>3, <1>4
<1> HIDE DEF Found, Named, Blocked, Closed
<1> QED BY <1>1, <1>2, <1>5

\* A policy conflict is a disagreement, and every disagreement is one
\* (buildIssues.go: CheckedPairs and PolicyConflicts): on two workloads there is a
\* finding against an engine exactly when a NetworkPolicy lets one talk to the
\* other by name and that engine's policies close an end.
THEOREM ConflictsReal == FindingsSpec => []ConflictsAreTheDisagreements
    BY FindingsInvariant, ConflictsState, PTL

----------------------------------------------------------------------------
(***************************************************************************)
(* Who cannot resolve names.                                               *)
(***************************************************************************)

\* A rule of the engine for everybody on the resolver's port.
Blanket(rules, id) == \E n \in {id, NsIdOf(id)} : allowsFullPortAccess(rules, n, DNSPort)

\* The findings against the Kubernetes engine, one for each workload without such a
\* rule whose answer on the way to the resolver blocks it.
LEMMA DnsFound ==
    ASSUME NEW engines, "k8s" \in DOMAIN engines, NEW nodes, NEW resolver, NEW id
    PROVE  id \in {f.src : f \in {g \in MissingDns(engines, nodes, resolver) : g.engine = "k8s"}}
              <=> /\ id \in IndexedNodes \ {resolver} /\ NodeType(id) = "workload"
                  /\ ~Blanket(engines["k8s"], id)
                  /\ DnsBlocked(collectToSide(engines["k8s"], id, resolver, nodes))
<1> DEFINE found == MissingDns(engines, nodes, resolver)
           who(e) == {n \in IndexedNodes \ {resolver} :
                         /\ NodeType(n) = "workload" /\ ~Blanket(engines[e], n)
                         /\ DnsBlocked(collectToSide(engines[e], n, resolver, nodes))}
           named(e, n) ==
               IF collectToSide(engines[e], n, resolver, nodes).reason = "permitted"
               THEN {r.contributor : r \in collectToSide(engines[e], n, resolver, nodes).matches.allow}
               ELSE collectToSide(engines[e], n, resolver, nodes).culprits
           finding(e, n) == [type |-> "no dns", engine |-> e, src |-> n, culprits |-> named(e, n)]
<1>1. found = UNION {{finding(e, n) : n \in who(e)} : e \in DOMAIN engines}
    BY DEF MissingDns, Blanket
<1>2. \A e, n : finding(e, n).engine = e /\ finding(e, n).src = n
    OBVIOUS
<1> HIDE DEF found, who, finding
<1>3. \A f : f \in found <=> \E e \in DOMAIN engines : \E n \in who(e) : f = finding(e, n)
    BY <1>1
<1>4. id \in {f.src : f \in {g \in found : g.engine = "k8s"}} <=> id \in who("k8s")
    <2>1. ASSUME NEW f \in found, f.engine = "k8s" PROVE f.src \in who("k8s")
        BY <1>2, <1>3, <2>1
    <2>2. ASSUME id \in who("k8s") PROVE \E f \in found : f.engine = "k8s" /\ f.src = id
        <3>1. finding("k8s", id) \in found
            BY <1>3, <2>2
        <3> QED BY <1>2, <3>1
    <2> QED BY <2>1, <2>2
<1> QED BY <1>4 DEF found, who

\* Such a rule opens the port in Kubernetes.
LEMMA BlanketOpens ==
    ASSUME Deployed, NEW w \in live, InFragment(WorkloadId(w)), NEW v \in live,
           Blanket(Evaluation.rules, WorkloadId(w))
    PROVE  \E r \in AllowingRules(WorkloadId(w), "egress", WorkloadId(v)) : DNSPort \in r.ports
<1> DEFINE id == WorkloadId(w)
           q  == WorkloadId(v)
           C  == CarvesFor(Evaluation.rules, "egress", id, q, Evaluation.nodes)
<1>1. PICK x \in Evaluation.rules : /\ x.node \in {id, NsIdOf(id)} /\ x.direction = "egress"
                                    /\ x.action = "allow" /\ x.coverage = "allow all"
                                    /\ DNSPort \in x.ports
    BY DEF Blanket, allowsFullPortAccess
<1>2. "egress" \in Directions /\ q \in LiveIds /\ \E a : Endpoint(q, a)
    BY Endpoints DEF Directions, LiveIds
<1>3. x \in AllowsFor(Evaluation.rules, "egress", id, q, Evaluation.nodes)
    BY <1>1 DEF AllowsFor, RulesAt
<1>4. x.peer = Empty
    BY <1>1, RulesComeFrom DEF Evaluation, ShapeOf, MarkerOf, OpenOf, AllowOf, ExceptOf
<1>5. ~anyCarveOutTrims(x, C)
    BY <1>4, Ids DEF anyCarveOutTrims, Trims
<1>6. x \in Untrimmed(Evaluation.rules, "egress", id, q, Evaluation.nodes)
    BY <1>3, <1>5 DEF Untrimmed
<1>7. \E r \in AllowingRules(id, "egress", q) : r.ports = x.ports
    BY <1>2, <1>6, AllowMeansMatch
<1> QED BY <1>1, <1>7

\* Nothing isolates the workload: no opinion.
LEMMA OpenIsUnspoken ==
    ASSUME Deployed, NEW w \in live, InFragment(WorkloadId(w)), NEW v \in live,
           NEW d \in Directions, Isolating(WorkloadId(w), d) = {}
    PROVE  Side(Evaluation, d, WorkloadId(w), WorkloadId(v)).reason = "no-opinion"
<1> DEFINE id == WorkloadId(w)
           q  == WorkloadId(v)
<1>1. q \in LiveIds \cup Hosts /\ q \in LiveIds
    BY DEF LiveIds
<1>2. Permits(Side(Evaluation, d, id, q).reason)
    BY <1>1, BlockedState
<1>3. Side(Evaluation, d, id, q).reason # "permitted"
    <2>1. SUFFICES ASSUME Side(Evaluation, d, id, q).reason = "permitted" PROVE FALSE
        OBVIOUS
    <2>2. PICK x \in Untrimmed(Evaluation.rules, d, id, q, Evaluation.nodes) : TRUE
        BY <2>1, K8sOnlyExceptsDeny, ReasonIs
    <2>3. \E a : Endpoint(q, a)
        BY <1>1, Endpoints
    <2>4. AllowingRules(id, d, q) # {}
        BY <1>1, <2>2, <2>3, AllowMeansMatch
    <2> QED BY <2>4 DEF AllowingRules
<1> QED BY <1>2, <1>3 DEF Permits

LEMMA DnsState == GInv => DnsFindingsAreReal
<1> DEFINE Found(resolver) ==
               {f.src : f \in {g \in MissingDns(Engines, WorkloadByID, resolver) : g.engine = "k8s"}}
           Answer(id, resolver) == Side(Evaluation, "egress", id, resolver)
           Kept(id, resolver) ==
               /\ Isolating(id, "egress") # {}
               /\ \A r \in AllowingRules(id, "egress", resolver) : r.ports # {} /\ DNSPort \notin r.ports
           Answered(id, resolver) ==
               \/ Isolating(id, "egress") = {}
               \/ /\ Answer(id, resolver).reason # "no-opinion"
                  /\ Answer(id, resolver).reason = "permitted" =>
                        Answer(id, resolver).matches.carveOut = {}
<1> SUFFICES ASSUME GInv, NEW resolver \in LiveIds, NEW id \in LiveIds \ {resolver},
                    InFragment(id), Answered(id, resolver)
             PROVE  (id \in Found(resolver)) = Kept(id, resolver)
    BY Zenon DEF DnsFindingsAreReal
<1> HIDE DEF Answered
<1>2. PICK w \in live : id = WorkloadId(w)
    BY DEF LiveIds
<1>3. PICK v \in live : resolver = WorkloadId(v)
    BY DEF LiveIds
<1>4. /\ Deployed /\ "egress" \in Directions /\ NodeType(resolver) # "cidr"
      /\ id \in IndexedNodes \ {resolver} /\ NodeType(id) = "workload"
    <2>1. id \in IndexedNodes
        BY <1>2, AtWorkload
    <2>2. NodeType(id) = "workload" /\ NodeType(resolver) # "cidr"
        BY <1>2, <1>3, Ids
    <2> QED BY <2>1, <2>2 DEF GInv, Directions
<1> DEFINE side == Answer(id, resolver)
           open == {r.ports : r \in AllowingRules(id, "egress", resolver)}
<1>5. id \in Found(resolver) <=> ~Blanket(Evaluation.rules, id) /\ DnsBlocked(side)
    <2> DEFINE asked == collectToSide(Engines["k8s"], id, resolver, WorkloadByID)
    <2>1. "k8s" \in DOMAIN Engines /\ Engines["k8s"] = Evaluation.rules
          /\ WorkloadByID = CalicoEvaluation.nodes
        BY DEF Engines, Evaluation, CalicoEvaluation, WorkloadByID
    <2>2. id \in Found(resolver) <=> ~Blanket(Evaluation.rules, id) /\ DnsBlocked(asked)
        BY <1>4, <2>1, DnsFound
    <2>3. asked = Side([rules |-> Evaluation.rules, nodes |-> CalicoEvaluation.nodes],
                       "egress", id, resolver)
        BY <2>1 DEF Side
    <2>4. asked.reason = side.reason /\ asked.ports = side.ports /\ (asked.allPorts <=> side.allPorts)
        BY <1>4, <2>3, K8sStays
    <2> HIDE DEF asked, side
    <2>5. DnsBlocked(asked) <=> DnsBlocked(side)
        BY <2>4 DEF DnsBlocked
    <2> QED BY <2>2, <2>5
<1> HIDE DEF Found
<1>6. ASSUME Isolating(id, "egress") = {} PROVE id \in Found(resolver) <=> Kept(id, resolver)
    <2>1. side.reason = "no-opinion"
        BY <1>2, <1>3, <1>4, <1>6, OpenIsUnspoken
    <2>2. ~DnsBlocked(side)
        BY <2>1 DEF DnsBlocked
    <2> HIDE DEF side
    <2> QED BY <1>5, <1>6, <2>2
<1>7. ASSUME Isolating(id, "egress") # {} PROVE id \in Found(resolver) <=> Kept(id, resolver)
    <2>1. side.reason # "no-opinion" /\ (side.reason = "permitted" => side.matches.carveOut = {})
        BY <1>7 DEF Answered
    <2>2. Kept(id, resolver) => ~Blanket(Evaluation.rules, id)
        BY <1>2, <1>3, <1>4, BlanketOpens
    <2>3. Kept(id, resolver) <=> {} \notin open /\ DNSPort \notin UNION open
        BY <1>7
    <2>4. CASE side.reason = "permitted"
        <3>1. side.allPorts = ({} \in open) /\ side.ports = UNION open
            BY <1>4, <2>1, <2>4, PortsState DEF ReportedPortsAreOpen
        <3> HIDE DEF side, open
        <3>2. DnsBlocked(side) <=> {} \notin open /\ DNSPort \notin UNION open
            BY <2>4, <3>1 DEF DnsBlocked
        <3> QED BY <1>5, <2>2, <2>3, <3>2
    <2>5. CASE side.reason # "permitted"
        <3>1. DnsBlocked(side) /\ ~Permits(side.reason)
            BY <2>1, <2>5 DEF DnsBlocked, Permits
        <3>2. AllowingRules(id, "egress", resolver) = {}
            BY <1>2, <1>4, <3>1, BlockedState DEF Allowed
        <3>3. Kept(id, resolver)
            BY <1>7, <3>2
        <3> HIDE DEF side
        <3> QED BY <1>5, <2>2, <3>1, <3>3
    <2> QED BY <2>4, <2>5
<1>8. id \in Found(resolver) <=> Kept(id, resolver)
    BY <1>6, <1>7
<1>9. (id \in Found(resolver)) \in BOOLEAN /\ Kept(id, resolver) \in BOOLEAN
    OBVIOUS
<1> HIDE DEF Kept
<1> QED BY <1>8, <1>9, Zenon

\* A workload is reported cut off from DNS exactly when its NetworkPolicies keep it
\* from the resolver's port 53 (buildIssues.go: MissingDns), whichever running
\* resolver the map yields.
THEOREM DnsReal == FindingsSpec => []DnsFindingsAreReal
    BY FindingsInvariant, DnsState, PTL
=============================================================================
