--------------------------- MODULE ClusterStatus ---------------------------
(***************************************************************************)
(* The status page (store/clusterStats.ts, components/ClusterStatusView/): *)
(* counts over the filtered data, and the drill-downs its rows and chips   *)
(* lead to.  Percentages, bars and the cluster-wide column, which the      *)
(* server computes, are left out.                                          *)
(***************************************************************************)
EXTENDS Tables

COVERAGE_CLASSES == {"restricted", "deny all", "allow all ns", "allow all", "unenforced", "audit"}

\* Rules by the namespace of their policy; `' is never selected, so the policies of
\* the cluster scope are left out.
scopedPolicyEdges(d, s) ==
    {e \in d.edges : e.namespace \in s.selectedNamespaces /\ edgeMatchesPolicyFilters(s, e)}

\* Policies per class; a carve-out has no class of its own.
coverageStats(edges) ==
    LET Class(e) == IF e.coverage = "" THEN "restricted" ELSE e.coverage
    IN [byClass |-> [c \in COVERAGE_CLASSES |->
                        Cardinality({EdgeRef(e) : e \in {x \in edges : Class(x) = c}})],
        policyTotal |-> Cardinality({EdgeRef(e) : e \in edges})]

\* Namespaces per level of protection.
protectionStats(nodes, edges) ==
    LET ns == computeCoverage(edges, nodes).ns
    IN [ns |-> ns, counts |-> [level \in {"workload", "namespace", "none"} |->
                                  Cardinality({n \in DOMAIN ns : ns[n] = level})]]

IssueNamespaces(issue) ==
    {issue.src.namespace, issue.dst.namespace, issue.node.namespace} \ {""}

Touches(issue, namespaces) ==
    IssueNamespaces(issue) = {} \/ IssueNamespaces(issue) \cap namespaces # {}

\* Broken variant: every namespace of the finding must be selected.
scopedIssuesWithin(issues, namespaces) ==
    [i \in {k \in DOMAIN issues : IssueNamespaces(issues[k]) \subseteq namespaces} |-> issues[i]]

scopedIssues(issues, namespaces) ==
    [i \in {k \in DOMAIN issues : Touches(issues[k], namespaces)} |-> issues[i]]

Actionable(issues) == {r \in mergeIssuesByPair(issues) : issueTierOf(r) # "info"}

\* Each node in the bucket of its worst status.
nodeSeverityStats(nodes) ==
    [b \in Severities \cup {"none"} |->
        Cardinality({n \in nodes : WorstOf(n.statuses) = b})]

IsWorkload(n) == n.type # "namespace"

nodeIsInternetFacing(n) == n.statuses \cap InternetStatuses # {}

NamespaceStat(ns, workloads, policies, issues, protection) ==
    LET own == {n \in workloads : n.namespace = ns}
    IN [namespace |-> ns, workloads |-> Cardinality(own),
        policies |-> Cardinality(policies),
        issues |-> Cardinality({r \in issues : ns \in IssueNamespaces(r)}),
        protection |-> IF ns \in DOMAIN protection THEN protection[ns] ELSE "none",
        stale |-> policies # {} /\ own = {},
        gap |-> own # {} /\ policies = {} /\ \E n \in own : nodeIsInternetFacing(n)]

\* Broken variant: the namespace's own node counts as a workload.
namespaceStatsAll(nodes, edges, issues, protection) ==
    LET PoliciesOf(ns) == {EdgeRef(e) : e \in {x \in edges : x.namespace = ns}}
        all == Occupied(nodes) \cup ({e.namespace : e \in edges} \ {""})
    IN {NamespaceStat(ns, nodes, PoliciesOf(ns), Actionable(issues), protection) : ns \in all}

\* A row per namespace with workloads or policies.
namespaceStats(nodes, edges, issues, protection) ==
    LET workloads == {n \in nodes : IsWorkload(n)}
        PoliciesOf(ns) == {EdgeRef(e) : e \in {x \in edges : x.namespace = ns}}
        all == Occupied(workloads) \cup ({e.namespace : e \in edges} \ {""})
    IN {NamespaceStat(ns, workloads, PoliciesOf(ns), Actionable(issues), protection) : ns \in all}

\* Facing the internet, and covered neither by a visible rule nor by a status.
exposedUnpolicedNodes(nodes, edges) ==
    {n \in nodes : /\ IsWorkload(n) /\ nodeIsInternetFacing(n)
                   /\ n.id \notin computeCoverage(edges, nodes).workload}

\* Worst status, findings (one by one) and rules of each workload worth a look; the
\* page shows the first ten.
topRiskyWorkloads(nodes, edges, issues) ==
    LET Findings(n) == {i \in DOMAIN issues :
            /\ issueTierOf(issues[i]) # "info"
            /\ n.id \in {issues[i].src.id, issues[i].dst.id, issues[i].node.id}}
        Worst(n) == WorstOf(n.statuses)
        EdgeCount(n) == Cardinality({e \in edges : e.source = n.id})
                        + Cardinality({e \in edges : e.target = n.id})
    IN {[node |-> n, worstSeverity |-> Worst(n), issueCount |-> Cardinality(Findings(n)),
         edgeCount |-> EdgeCount(n)] :
            n \in {x \in nodes : /\ IsWorkload(x)
                                 /\ Worst(x) \in {"critical", "high", "warning", "caution"}
                                    \/ Findings(x) # {}}}

-----------------------------------------------------------------------------
(* The mesh section.                                                       *)

\* Workloads per tag.
MeshRollup(d, nodes) ==
    LET workloads == {n \in nodes : IsWorkload(n)}
    IN [t \in MESH_FILTERS |->
           Cardinality({n \in workloads : t \in MeshTags(Membership(d.mesh, n.id))})]

-----------------------------------------------------------------------------
(* The page.                                                               *)

actionableIssues(d, s) == Actionable(scopedIssues(d.issues, s.selectedNamespaces))

NamespaceTable(d, s) ==
    LET nodes == filteredNodes(d, s)
    IN namespaceStats(nodes, scopedPolicyEdges(d, s),
                      scopedIssues(d.issues, s.selectedNamespaces),
                      protectionStats(nodes, filteredEdges(d, s)).ns)

\* The headline counts and the lists.
ClusterStatusView(d, s) ==
    LET nodes == filteredNodes(d, s)
        renderedEdges == filteredEdges(d, s)
        inScope == scopedIssues(d.issues, s.selectedNamespaces)
        preEngine == scopedPolicyEdges(d, [s EXCEPT !.selectedPolicySources =
                                                      s.availablePolicySources])
    IN [workloads |-> Cardinality(nodes),
        coverage |-> coverageStats(scopedPolicyEdges(d, s)),
        actionableIssues |-> actionableIssues(d, s),
        exposed |-> exposedUnpolicedNodes(nodes, renderedEdges),
        issueChips |-> IssueRollup(inScope),
        engineChips |-> EngineRollup(preEngine, s.availablePolicySources),
        statusChips |-> StatusRollup(nodes),
        nodeSeverity |-> nodeSeverityStats(nodes),
        mesh |-> MeshRollup(d, nodes),
        risky |-> topRiskyWorkloads(nodes, renderedEdges, inScope),
        nsRows |-> NamespaceTable(d, s)]

\* Broken variant: the two assignments are swapped.
openTablesSwapped(s, tab) == [s EXCEPT !.tablesTab = "tables", !.view = tab]

openTables(s, tab) == [s EXCEPT !.tablesTab = tab, !.view = "tables"]

NamespaceRow(s, ns) == openInGraph(selectNamespaceOnly(s, ns))

\* Mesh chips without workloads are disabled.
MeshChip(s, tag) == openInGraph(toggle(s, "selectedMeshFilters", tag))

\* Rows of the risky table and of the callout open the node, here or in the graph.
NodeClicks(s, n) == {setSelectedNode(s, n), openInGraph(setSelectedNode(s, n))}

StatusClicks(d, s) ==
    LET page == ClusterStatusView(d, s)
    IN {openTables(s, t) : t \in {"workloads", "policies", "issues"}}
       \cup {NamespaceRow(s, r.namespace) : r \in page.nsRows}
       \cup {MeshChip(s, t) : t \in {x \in MESH_FILTERS : page.mesh[x] > 0}}
       \cup CheckBoxes(s, "selectedIssueTypes", IssueChips \cap Clicks)
       \cup CheckBoxes(s, "selectedPolicySources", s.availablePolicySources)
       \cup CheckBoxes(s, "selectedStatuses", DOMAIN page.statusChips)
       \cup UNION {NodeClicks(s, n) : n \in page.exposed \cup {r.node : r \in page.risky}}
=============================================================================
