------------------------------- MODULE Tables -------------------------------
(***************************************************************************)
(* The tables (components/TablesView/) and the issues drawer: the rows of  *)
(* the three tabs, the badges on the tabs, the roll-up chips above them,   *)
(* the "cause & fix" groups of a finding, and the clicks.                  *)
(*                                                                         *)
(* A row is a record; the order of rows is left out.                       *)
(***************************************************************************)
EXTENDS GraphView

-----------------------------------------------------------------------------
(* Indexes of the findings (issueIndex.ts).                                *)

Listed(issues, types) ==
    {i \in DOMAIN issues : types = {} \/ issues[i].type \in types}

\* Node id -> findings it has a role in.
indexIssuesByNode(issues, types) ==
    LET Roles(i) == {issues[i].src.id, issues[i].dst.id, issues[i].node.id} \ {NoId}
        listed == Listed(issues, types)
    IN [id \in UNION {Roles(i) : i \in listed} |-> {i \in listed : id \in Roles(i)}]

\* Policy -> findings that cite it for a direction.
indexIssuesByPolicy(issues, types) ==
    LET Cited(i) == {c.ref : c \in issueCulprits(issues[i])}
        listed == Listed(issues, types)
    IN [ref \in UNION {Cited(i) : i \in listed} |-> {i \in listed : ref \in Cited(i)}]

Lookup(index, key) == IF key \in DOMAIN index THEN index[key] ELSE {}

-----------------------------------------------------------------------------
(* What each tab is given (TablesView/index.tsx).                          *)

statusFilteredNodes(d, s) ==
    {n \in filteredNodes(d, s) :
        s.selectedStatuses = {} \/ n.statuses \cap s.selectedStatuses # {}}

tableNodes(d, s) ==
    {n \in statusFilteredNodes(d, s) :
        \/ s.selectedIssueTypes = {}
        \/ n.id \in DOMAIN indexIssuesByNode(d.issues, s.selectedIssueTypes)}

tableEdges(d, s) ==
    {e \in policyTableEdges(d, s) :
        \/ s.selectedIssueTypes = {}
        \/ EdgeRef(e) \in DOMAIN indexIssuesByPolicy(d.issues, s.selectedIssueTypes)}

\* The filtered findings, in their order.
tableIssues(d, s) == [i \in Listed(d.issues, s.selectedIssueTypes) |-> d.issues[i]]

\* The counts on the tabs.  Findings are counted one by one, not as rows.
TabBadges(d, s) ==
    [workloads |-> Cardinality(tableNodes(d, s)),
     policies |-> Cardinality({EdgeRef(e) : e \in tableEdges(d, s)}),
     issues |-> Cardinality(DOMAIN tableIssues(d, s))]

\* The roll-up ignores the engine filter, which its chips are.
edgesPreEngine(d, s) ==
    policyTableEdges(d, [s EXCEPT !.selectedPolicySources = s.availablePolicySources])

-----------------------------------------------------------------------------
(* Rows.                                                                   *)

policyCountByNode(edges, id, engine) ==
    Cardinality({e \in edges : e.source = id /\ e.policySource = engine})
    + Cardinality({e \in edges : e.target = id /\ e.policySource = engine})

\* The findings of a row are not filtered by type.
WorkloadsTable(d, s) ==
    LET edges == filteredEdges(d, s)
        index == indexIssuesByNode(d.issues, {})
    IN {[node |-> n,
         policies |-> [g \in s.availablePolicySources |-> policyCountByNode(edges, n.id, g)],
         issues |-> Lookup(index, n.id),
         mesh |-> meshBadgeMeta(Membership(d.mesh, n.id))] : n \in tableNodes(d, s)}

PolicyRow(d, edges, ref) ==
    LET own == {e \in edges : EdgeRef(e) = ref}
    IN [ref |-> ref, edges |-> own,
        actionCounts |-> [a \in {e.action : e \in own} |->
                             Cardinality({e \in own : e.action = a})],
        directions |-> {e.direction : e \in own},
        srcCount |-> Cardinality({e.source : e \in own} \ {NoId}),
        dstCount |-> Cardinality({e.target : e \in own} \ {NoId}),
        issues |-> Lookup(indexIssuesByPolicy(d.issues, {}), ref)]

PoliciesTable(d, s) ==
    LET edges == tableEdges(d, s)
    IN {PolicyRow(d, edges, EdgeRef(e)) : e \in edges}

\* Findings in the open, expected layering in a collapsed group.
IssuesTable(d, s) ==
    LET rows == mergeIssuesByPair(tableIssues(d, s))
    IN [findings |-> {r \in rows : ~isLayeringType(r.type)},
        infoRows |-> {r \in rows : isLayeringType(r.type)}]

\* Every row of the issues tab, the collapsed ones included.
IssueRows(d, s) == IssuesTable(d, s).findings \cup IssuesTable(d, s).infoRows

-----------------------------------------------------------------------------
(* Roll-up chips: a count per key.                                         *)

StatusRollup(nodes) ==
    LET keys == UNION {n.statuses : n \in nodes}
    IN [k \in keys |-> Cardinality({n \in nodes : k \in n.statuses})]

\* Broken variant: counts the rules, not the policies.
EngineRollupRules(edges, sources) ==
    [g \in sources |-> Cardinality({e \in edges : e.policySource = g})]

EngineRollup(edges, sources) ==
    [g \in sources |-> Cardinality({EdgeRef(e) : e \in {x \in edges : x.policySource = g}})]

\* The chips; `failed to fetch' has none.
IssueChips == ALL_ISSUE_TYPES \ {"failed to fetch"}

IssueRollup(issues) ==
    [t \in IssueChips |-> Cardinality({r \in mergeIssuesByPair(issues) : r.type = t})]

-----------------------------------------------------------------------------
(* Cause and fix (CulpritActions.tsx): one group per direction shown.      *)

GroupKind(type, reason) ==
    CASE reason = "permitted" -> "allowed"
      [] isLayeringType(type) -> "layered"
      [] type = "cidr scope mismatch" -> "scope"
      [] type = "mesh conflict" -> "mesh"
      [] type = "mesh transport blocked" -> "transport"
      [] OTHER -> "blocked"

\* The policies named by chips: the confirmed side names those that admit the
\* peer, the others the culprits.
CulpritGroup(direction, type, culprits, allowed, reason, engines) ==
    LET kind == GroupKind(type, reason)
    IN [direction |-> direction, kind |-> kind,
        chips |-> CASE kind = "allowed" -> allowed
                    [] kind \in {"layered", "scope"} -> allowed \cup culprits
                    [] OTHER -> culprits,
        engines |-> LET named == {r.source : r \in IF culprits # {} THEN culprits ELSE allowed}
                    IN IF named # {} THEN named ELSE engines]

ShowsDirection(culprits, reason) ==
    culprits # {} \/ isBlockReason(reason) \/ reason = "permitted"

MeshPolicyRow(issue) ==
    [direction |-> "none", kind |-> "mesh policy", chips |-> issue.culprits, engines |-> {"pa"}]

CulpritActions(issue) ==
    LET engines == IF issue.engines # {} THEN issue.engines ELSE {issue.engine} \ {""}
        egress == CulpritGroup("egress", issue.type, issue.egressCulprits,
                               issue.egressAllowed, issue.egressReason, engines)
        ingress == CulpritGroup("ingress", issue.type, issue.ingressCulprits,
                                issue.ingressAllowed, issue.ingressReason, engines)
    IN IF issue.type = "mesh policy" THEN {MeshPolicyRow(issue)}
       ELSE {g \in {egress, ingress} :
                IF g.direction = "egress"
                THEN ShowsDirection(issue.egressCulprits, issue.egressReason)
                ELSE ShowsDirection(issue.ingressCulprits, issue.ingressReason)}

ChipRefs(issue) == UNION {g.chips : g \in CulpritActions(issue)}

-----------------------------------------------------------------------------
(* The issues drawer.                                                      *)

IssuesDrawer(issues) ==
    LET merged == mergeIssuesByPair(issues)
    IN [blocking |-> {r \in merged : issueTierOf(r) = "blocking"},
        warnings |-> {r \in merged : issueTierOf(r) = "warning"},
        informational |-> {r \in merged : issueTierOf(r) = "info"}]

-----------------------------------------------------------------------------
(* Clicks: the stores they lead to.                                        *)

openIssue(s, issue) ==
    IF isEdge(issue) THEN showReachability(s, issue.src, issue.dst)
    ELSE IF issue.node # NoNode THEN setSelectedNode(s, issue.node) ELSE s

\* Nothing to select for a policy without edges: the manifest opens instead.
selectPolicyByRef(d, s, ref) ==
    LET matching == {e \in d.edges : EdgeRef(e) = ref}
    IN IF matching = {} THEN s ELSE setSelectedEdges(s, matching)

openInGraph(s) == [s EXCEPT !.view = "graph"]

\* Clicks on a finding, wherever it is listed: its body and its policy chips.
FindingClicks(d, s, issue) ==
    {openIssue(s, issue)} \cup {selectPolicyByRef(d, s, ref) : ref \in ChipRefs(issue)}

\* The popover of a row's issue chip lists that row's findings one by one.
IssuesPopover(d, s, indices) == UNION {FindingClicks(d, s, d.issues[i]) : i \in indices}

WorkloadClicks(d, s) ==
    {toggle(s, "selectedStatuses", k) : k \in DOMAIN StatusRollup(filteredNodes(d, s))}
    \cup UNION {{setSelectedNode(s, r.node), openInGraph(setSelectedNode(s, r.node))}
                \cup IssuesPopover(d, s, r.issues) : r \in WorkloadsTable(d, s)}

PolicyClicks(d, s) ==
    CheckBoxes(s, "selectedPolicySources", s.availablePolicySources)
    \cup UNION {{setSelectedEdges(s, r.edges), openInGraph(setSelectedEdges(s, r.edges))}
                \cup IssuesPopover(d, s, r.issues) : r \in PoliciesTable(d, s)}

IssueClicks(d, s) ==
    CheckBoxes(s, "selectedIssueTypes", IssueChips \cap Clicks)
    \cup UNION {FindingClicks(d, s, r) : r \in IssueRows(d, s)}

\* The clicks of the tab shown, and on the tabs.
TablesView(d, s) ==
    (CASE s.tablesTab = "workloads" -> WorkloadClicks(d, s)
       [] s.tablesTab = "policies" -> PolicyClicks(d, s)
       [] s.tablesTab = "issues" -> IssueClicks(d, s))
    \cup {[s EXCEPT !.tablesTab = t] : t \in {"workloads", "policies", "issues"} \ {s.tablesTab}}

DrawerClicks(d, s) ==
    {openIssue(s, r) : r \in mergeIssuesByPair(d.issues)}
    \cup {[s EXCEPT !.issuesDrawerOpen = FALSE]}
=============================================================================
