----------------------------- MODULE PolicyData -----------------------------
(***************************************************************************)
(* The UI's vocabulary (data/policies.ts, FilterPanel/parts/constants.ts): *)
(* the records the server sends, the severity scales, and the folding of   *)
(* conflict findings into rows.                                            *)
(*                                                                         *)
(* An id is a pair: <<"w", uid>> for a workload, <<"cidr", block>> for an  *)
(* ipBlock, NsId(ns) for the node `ns-<ns>`, NoId for the empty string.    *)
(* Lists whose order the code never uses are sets; the findings are a      *)
(* function from positions, since the first of a group gives the row its   *)
(* identity, and a filter keeps positions.                                 *)
(***************************************************************************)
EXTENDS Integers, FiniteSets, Sequences

NsId(ns) == <<"ns", ns>>
NoId == <<"", "">>

-----------------------------------------------------------------------------
(* Status keys, severities, tiers.                                         *)

SEVERITY_TIERS == <<"critical", "high", "warning", "caution", "info", "secure">>
Severities == {SEVERITY_TIERS[i] : i \in 1..6}

StatusesOf ==
    [critical |-> {"internet-full"},
     high     |-> {"internet-egress", "internet-ingress"},
     warning  |-> {"ns-full-access", "lan-full"},
     caution  |-> {"ns-egress-access", "ns-ingress-access", "lan-egress", "lan-ingress"},
     info     |-> {"cross-namespace", "api-server-egress"},
     secure   |-> {"air-gapped", "l7-applied"}]

StatusKeys == UNION {StatusesOf[s] : s \in Severities}

STATUS_CFG == [k \in StatusKeys |-> CHOOSE s \in Severities : k \in StatusesOf[s]]

TypesOf ==
    [high    |-> {"policy conflict", "mesh conflict", "mesh transport blocked",
                  "node lockout", "failed to fetch"},
     warning |-> {"no dns", "cidr scope mismatch"},
     info    |-> {"partial access", "layer", "mesh policy"}]

ALL_ISSUE_TYPES == UNION {TypesOf[s] : s \in DOMAIN TypesOf}

TYPE_SEVERITY ==
    [t \in ALL_ISSUE_TYPES |-> CHOOSE s \in DOMAIN TypesOf : t \in TypesOf[s]]

SEVERITY_TIER ==
    [critical |-> "blocking", high |-> "blocking", warning |-> "warning",
     caution |-> "warning", info |-> "info", secure |-> "info"]

\* The severity the server put on a finding wins over the table.
issueSeverity(issue) ==
    IF issue.severity # "" THEN issue.severity ELSE TYPE_SEVERITY[issue.type]

issueTier(type) == SEVERITY_TIER[TYPE_SEVERITY[type]]
issueTierOf(issue) == SEVERITY_TIER[issueSeverity(issue)]

isLayeringType(type) == type \in {"partial access", "layer"}

ALL_NODE_TYPES == {"deployment", "statefulset", "daemonset", "cronjob", "job", "pod",
                   "cidr", "namespace"}

\* The worst severity among status keys, "none" without any.
WorstOf(keys) ==
    LET hit == {i \in 1..6 : \E k \in keys : STATUS_CFG[k] = SEVERITY_TIERS[i]}
    IN IF hit = {} THEN "none"
       ELSE SEVERITY_TIERS[CHOOSE i \in hit : \A j \in hit : i <= j]

-----------------------------------------------------------------------------
(* Records of the graph and of the mesh.                                   *)

WorkloadNode(id, label, namespace, type, statuses) ==
    [id |-> id, label |-> label, namespace |-> namespace, type |-> type,
     statuses |-> statuses]

NoNode == WorkloadNode(NoId, "", "", "", {})

PolicyEdge(source, target, direction, level, ref, action, coverage) ==
    [source |-> source, target |-> target, direction |-> direction, level |-> level,
     policySource |-> ref.source, namespace |-> ref.namespace, policyName |-> ref.name,
     action |-> action, coverage |-> coverage]

PolicyRef(source, namespace, name) ==
    [source |-> source, namespace |-> namespace, name |-> name]

EdgeRef(e) == PolicyRef(e.policySource, e.namespace, e.policyName)

\* What the mesh map says of an id; an id it does not hold is out of the mesh.
Membership(meshStatus, id) ==
    IF id \in DOMAIN meshStatus THEN meshStatus[id]
    ELSE [inMesh |-> FALSE, verdict |-> "unset"]

\* The verdict phrase of the badge, and the filter tag a click on it toggles.
meshBadgeMeta(m) == IF m.inMesh THEN m.verdict ELSE "out"

-----------------------------------------------------------------------------
(* Findings.                                                               *)

Issue(type, severity, message, engine, src, dst, node) ==
    [type |-> type, severity |-> severity, message |-> message, engine |-> engine,
     engines |-> {}, src |-> src, dst |-> dst, node |-> node,
     egressCulprits |-> {}, ingressCulprits |-> {},
     egressAllowed |-> {}, ingressAllowed |-> {},
     egressReason |-> "", ingressReason |-> "", culprits |-> {}]

isEdge(issue) == issue.src # NoNode /\ issue.dst # NoNode

BlockReasons == {"default-deny", "locked-no-match", "explicit-deny", "carved-out"}
isBlockReason(reason) == reason \in BlockReasons

\* The policies cited, with the direction each was cited for.
issueCulprits(issue) ==
    {[ref |-> r,
      direction |-> IF r \in issue.egressCulprits \cap issue.ingressCulprits THEN "both"
                    ELSE IF r \in issue.egressCulprits THEN "egress" ELSE "ingress"] :
        r \in issue.egressCulprits \cup issue.ingressCulprits}

First(indices) == CHOOSE i \in indices : \A j \in indices : i <= j

\* Broken variant: the first defined reason stands.
mergeReasonFirst(reasons, group) ==
    LET defined == {i \in group : reasons[i] # ""}
    IN IF defined = {} THEN "" ELSE reasons[First(defined)]

\* The first blocking reason of a group, or else the first one given.
mergeReason(reasons, group) ==
    LET blocking == {i \in group : isBlockReason(reasons[i])}
        defined == {i \in group : reasons[i] # ""}
    IN IF blocking # {} THEN reasons[First(blocking)]
       ELSE IF defined # {} THEN reasons[First(defined)] ELSE ""

\* Identity of an endpoint: namespace and label, never the id.
nodeKey(node) == <<node.namespace, node.label>>

\* One row of the findings at the indices group, all with one key.
MergedRow(issues, group) ==
    [issues[First(group)] EXCEPT
        !.egressCulprits  = UNION {issues[i].egressCulprits : i \in group},
        !.ingressCulprits = UNION {issues[i].ingressCulprits : i \in group},
        !.egressAllowed   = UNION {issues[i].egressAllowed : i \in group},
        !.ingressAllowed  = UNION {issues[i].ingressAllowed : i \in group},
        !.egressReason  = mergeReason([i \in group |-> issues[i].egressReason], group),
        !.ingressReason = mergeReason([i \in group |-> issues[i].ingressReason], group),
        !.engines = {issues[i].engine : i \in group} \ {""}]

mergeIssuesByPair(issues) ==
    LET Key(i) == <<issues[i].type, nodeKey(issues[i].src), nodeKey(issues[i].dst)>>
        pairs == {i \in DOMAIN issues : isEdge(issues[i])}
    IN {MergedRow(issues, {j \in pairs : Key(j) = Key(i)}) : i \in pairs}
       \cup {issues[i] : i \in DOMAIN issues \ pairs}
=============================================================================
