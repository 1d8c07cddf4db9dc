------------------------------ MODULE Explorer ------------------------------
(***************************************************************************)
(* The explorer: one user steering filters, graph, tables, status page,    *)
(* drawer and detail panel over one store, while refreshes bring other     *)
(* snapshots of the cluster.                                               *)
(*                                                                         *)
(* GraphStore models the fetches of the panel and their races; here an     *)
(* answer arrives whole, but the graph, the findings and the mesh arrive   *)
(* one by one.  Behaviours are endless; MaxDeviations bounds how far the   *)
(* store is from its initial value at any time.                            *)
(***************************************************************************)
EXTENDS ClusterStatus, FiniteSetsExt

CONSTANTS
    World,         \* World[r] is what the server answers from its r-th snapshot
    MaxDeviations  \* largest distance of a store from the initial one

\* A node the server sends has an id and known status keys.
IsNode(n) == n.id # NoId /\ n.statuses \subseteq StatusKeys

\* A finding is about a pair of nodes, about one node, or about none; the hygiene of
\* mesh policies is never about a pair.  Its severity, when sent, is its type's: the
\* server stamps it (buildIssues.go) from the table the browser has too.
IsFinding(i) ==
    /\ DOMAIN i = DOMAIN Issue("", "", "", "", NoNode, NoNode, NoNode)
    /\ i.type \in ALL_ISSUE_TYPES /\ i.severity \in {"", TYPE_SEVERITY[i.type]}
    /\ \A n \in {i.src, i.dst, i.node} : n = NoNode \/ IsNode(n)
    /\ isEdge(i) => i.node = NoNode /\ i.type # "mesh policy"

\* A node of the graph is of a known type, and its label is one of the cluster's.
IsListed(n) == IsNode(n) /\ n.type \in ALL_NODE_TYPES /\ n.label \in Names

\* There is no cluster without namespaces, hence without nodes; an answer is finite.
ASSUME WorldAssumption ==
    /\ MaxDeviations \in Nat /\ 1 \in DOMAIN World
    /\ IsFiniteSet(World[1].namespaces) /\ IsFiniteSet(World[1].sources)
    /\ \A r \in DOMAIN World :
         /\ World[r].nodes # {} /\ \A n \in World[r].nodes : IsListed(n)
         /\ IsFiniteSet(World[r].nodes) /\ IsFiniteSet(World[r].edges)
         /\ DOMAIN World[r].issues \subseteq Nat /\ IsFiniteSet(DOMAIN World[r].issues)
         /\ \A k \in DOMAIN World[r].issues : IsFinding(World[r].issues[k])
         /\ \A id \in DOMAIN World[r].mesh : World[r].mesh[id].verdict \in DOMAIN MtlsTag

VARIABLES
    st,    \* the part of the store the user steers
    data   \* the part the server fills: nodes, edges, issues, mesh

vars == <<st, data>>

-----------------------------------------------------------------------------
(* The detail panel.                                                       *)

groupEdgesByPair(edges) ==
    {{x \in edges : x.source = e.source /\ x.target = e.target} : e \in edges}

\* The findings a node's panel lists, and those of a pair in either orientation.
useScopedNodeIssues(d, id) ==
    {r \in mergeIssuesByPair(d.issues) : id \in {r.node.id, r.src.id, r.dst.id}}

useNodeIssueCount(d, id) ==
    Cardinality({r \in useScopedNodeIssues(d, id) : issueTierOf(r) # "info"})

PairIssues(d, src, dst) ==
    {r \in mergeIssuesByPair(d.issues) :
        isEdge(r) /\ <<r.src.id, r.dst.id>> \in {<<src, dst>>, <<dst, src>>}}

\* The views stacked in the panel.  A verdict hides the workload (while the call for
\* it has failed it does not, which is GraphStore's matter).
DetailPanel(s) ==
    {v \in {"reachability", "workload", "bundle", "edge"} :
        CASE v = "reachability" -> s.reachabilitySource # NoNode
          [] v = "workload" -> s.selectedNode # NoNode /\ s.reachabilityTarget = NoNode
          [] v = "bundle" -> Cardinality(groupEdgesByPair(s.selectedEdges)) > 1
          [] v = "edge" -> Cardinality(groupEdgesByPair(s.selectedEdges)) = 1}

close(s) == clearReachability(TapBackground(s))

\* The findings listed in the panel.
PanelFindings(d, s) ==
    (IF "workload" \in DetailPanel(s) THEN useScopedNodeIssues(d, s.selectedNode.id) ELSE {})
    \cup (IF "edge" \in DetailPanel(s)
          THEN UNION {PairIssues(d, e.source, e.target) : e \in s.selectedEdges} ELSE {})

\* A finding here has a button only when it is about a pair.
PanelFindingClicks(d, s, r) ==
    {showReachability(s, r.src, r.dst) : x \in {y \in {r} : isEdge(y)}}
    \cup {selectPolicyByRef(d, s, ref) : ref \in ChipRefs(r)}

DetailClicks(d, s) ==
    {close(s) : v \in DetailPanel(s)}
    \cup {showReachability(s, dst, s.reachabilitySource) :
             dst \in {s.reachabilityTarget} \ {NoNode}}
    \cup {pinReachabilitySource(s, n) :
             n \in {x \in {s.selectedNode} \ {NoNode} : s.reachabilitySource = NoNode}}
    \cup {setSelectedEdges(s, pair) :
             pair \in {p \in groupEdgesByPair(s.selectedEdges) : "bundle" \in DetailPanel(s)}}
    \cup UNION {PanelFindingClicks(d, s, r) : r \in PanelFindings(d, s)}

-----------------------------------------------------------------------------
(* Steps.                                                                  *)

\* The store once the cluster state has been answered.
InitialStore(namespaces, sources) ==
    [availableNamespaces |-> namespaces, availablePolicySources |-> sources,
     selectedNamespaces |-> namespaces, selectedPolicySources |-> sources,
     selectedNodeTypes |-> ALL_NODE_TYPES, selectedStatuses |-> {},
     selectedActions |-> Actions, selectedDirections |-> Directions,
     selectedMeshFilters |-> {}, selectedIssueTypes |-> {},
     showNamespaceEdges |-> TRUE, showConnectedNamespaces |-> FALSE,
     aggregateByNamespace |-> FALSE, showEngineIcons |-> FALSE, showMeshOverlay |-> FALSE,
     searchQuery |-> Names, selectedNode |-> NoNode, selectedEdges |-> {},
     reachabilitySource |-> NoNode, reachabilityTarget |-> NoNode,
     view |-> "graph", tablesTab |-> "workloads", issuesDrawerOpen |-> FALSE]

Pins == {"reachabilitySource", "reachabilityTarget"}
Places == {"view", "tablesTab"}

\* Chips and flags away from the initial ones, plus one each for a selection, for
\* pins and for a place.
Deviations(s) ==
    LET home == InitialStore(s.availableNamespaces, s.availablePolicySources)
        moved == {f \in DOMAIN s : s[f] # home[f]}
        filters == moved \cap (DOMAIN Full(s) \cup EmptyFilters)
    IN MapThenSumSet(LAMBDA f : Cardinality((s[f] \ home[f]) \cup (home[f] \ s[f])), filters)
       + Cardinality(moved \ (filters \cup Pins \cup Places))
       + Cardinality({g \in {Pins, Places} : g \cap moved # {}})

\* The user does one of the things that lead to the stores in next.
Click(next) ==
    /\ \E s \in next : Deviations(s) <= MaxDeviations /\ st' = s
    /\ UNCHANGED data

ChooseNamespaces == Click(NamespaceDropdown(st))
ChooseStatuses == Click(StatusDropdown(st))
ChooseSources == Click(PolicySourceDropdown(st))
ChooseNodeTypes == Click(NodeTypeDropdown(st))
ChooseActions == Click(ActionDropdown(st))
ChooseDirections == Click(DirectionDropdown(st))
ChooseMesh == Click(MeshDropdown(st))
ChooseIssueTypes == Click(IssueTypeDropdown(data, st))
UseToolbar == Click(FilterPanel(st))

UseGraph ==
    /\ st.view = "graph"
    /\ \/ Click(TapNode(data, st))
       \/ Click(RightClickNode(data, st))
       \/ Click(TapEdge(data, st))
       \/ Click({TapBackground(st)})
       \/ Click(ClickMeshMark(data, st))

UseTables == st.view = "tables" /\ Click(TablesView(data, st))
UseStatusPage == st.view = "status" /\ Click(StatusClicks(data, st))
UseDrawer == st.issuesDrawerOpen /\ Click(DrawerClicks(data, st))
UseDetails == Click(DetailClicks(data, st))

\* The answer to a (re)load of the graph, from whichever snapshot: calls of two
\* refreshes may be answered out of order.  The findings and the mesh are asked for
\* after it; the selection stays.
loadGraph ==
    /\ \E r \in DOMAIN World :
         data' = [data EXCEPT !.nodes = World[r].nodes, !.edges = World[r].edges]
    /\ UNCHANGED st

loadIssues ==
    /\ data.nodes # {}
    /\ \E r \in DOMAIN World : data' = [data EXCEPT !.issues = World[r].issues]
    /\ UNCHANGED st

loadMeshStatus ==
    /\ data.nodes # {}
    /\ \E r \in DOMAIN World : data' = [data EXCEPT !.mesh = World[r].mesh]
    /\ UNCHANGED st

Init ==
    /\ st = InitialStore(World[1].namespaces, World[1].sources)
    /\ data = [nodes |-> {}, edges |-> {}, issues |-> <<>>, mesh |-> <<>>]

Next ==
    \/ ChooseNamespaces \/ ChooseStatuses \/ ChooseSources \/ ChooseNodeTypes
    \/ ChooseActions \/ ChooseDirections \/ ChooseMesh \/ ChooseIssueTypes
    \/ UseToolbar \/ UseGraph \/ UseTables \/ UseStatusPage \/ UseDrawer \/ UseDetails
    \/ loadGraph \/ loadIssues \/ loadMeshStatus

Spec == Init /\ [][Next]_vars

-----------------------------------------------------------------------------
(* Properties.                                                             *)

\* Some finding has the workload at both ends: one engine lets its pods talk to each
\* other, another does not.
IsSelfPair(id) ==
    \E r \in DOMAIN World : \E k \in DOMAIN World[r].issues :
        LET i == World[r].issues[k] IN isEdge(i) /\ i.src.id = id /\ i.dst.id = id

\* Type invariant of the store the user steers and of what has been answered.
TypeOK ==
    /\ DOMAIN st = DOMAIN InitialStore({}, {})
    /\ st.view \in {"graph", "tables", "status"}
    /\ st.tablesTab \in {"workloads", "policies", "issues"}
    /\ st.searchQuery \in Searches \cup {Names}
    /\ st.selectedNodeTypes \subseteq ALL_NODE_TYPES
    /\ st.selectedStatuses \subseteq StatusKeys
    /\ st.selectedMeshFilters \subseteq MESH_FILTERS
    /\ st.selectedIssueTypes \subseteq ALL_ISSUE_TYPES
    /\ st.selectedEdges \subseteq UNION {World[r].edges : r \in DOMAIN World}
    /\ data.nodes = {} => data.issues = <<>>

\* Whatever was clicked in whichever view, the panel asks one question: a node or
\* some rules are selected, never both; a target is pinned only next to a source, and
\* the source itself only when a finding is about traffic within one workload
\* (setSelectedNode, setSelectedEdges, showReachability, pinReachabilitySource of
\* graphStore.ts).
PanelAsksOneQuestion ==
    /\ st.selectedNode = NoNode \/ st.selectedEdges = {}
    /\ st.reachabilityTarget # NoNode =>
         /\ st.reachabilitySource # NoNode
         /\ st.reachabilitySource.id = st.reachabilityTarget.id =>
              IsSelfPair(st.reachabilitySource.id)

\* Every arrow handed to cytoscape, which throws on a dangling one, joins two
\* elements of the same build, in both display modes and under every filter
\* (buildElements, buildAggregatedElements, filteredEdges).
DrawnEdgesHaveEnds ==
    LET g == PolicyGraph(data, st)
    IN \A a \in g.arrows : {a.source, a.target} \subseteq Ids(g.nodes)

\* An arrow has one colour and one line style: the rules behind it all allow or all
\* deny, and are all carve-outs or none is; in the flat mode every visible rule is
\* behind exactly one arrow (bundleEdges).
ArrowSpeaksForItsRules ==
    LET g == PolicyGraph(data, st)
    IN /\ \A a \in g.arrows, e \in UNION {x.policies : x \in g.arrows} :
            e \in a.policies => e.action = a.action /\ (e.coverage = "except") = a.except
       /\ ~st.aggregateByNamespace =>
            \A e \in filteredEdges(data, st) :
                Cardinality({a \in g.arrows : e \in a.policies}) = 1

\* Narrowing the namespaces never hides a cluster-scoped policy from the policies
\* tab: its row is there for every selection if it is there for the widest one
\* (policyTableEdges).
ClusterScopedAreListed ==
    LET Refs(s) == {r.ref : r \in {x \in PoliciesTable(data, s) : x.ref.namespace = ""}}
    IN st.selectedNamespaces \subseteq st.availableNamespaces =>
         Refs(st) = Refs(WideOpen(st))

\* A count announces the rows behind it: the badges of the workloads and policies
\* tabs are their row counts, and each roll-up chip is the number of rows its tab
\* has once the filter is set to that chip alone (EngineRollup, StatusRollup,
\* IssueRollup against the tables).
CountsAnnounceRows ==
    LET base == [st EXCEPT !.selectedIssueTypes = {}]
        engines == EngineRollup(edgesPreEngine(data, st), st.availablePolicySources)
        statuses == StatusRollup(filteredNodes(data, st))
        types == IssueRollup(data.issues)
    IN /\ TabBadges(data, st).workloads = Cardinality(WorkloadsTable(data, st))
       /\ TabBadges(data, st).policies = Cardinality(PoliciesTable(data, st))
       /\ \A g \in DOMAIN engines : engines[g] =
            Cardinality(PoliciesTable(data, [base EXCEPT !.selectedPolicySources = {g}]))
       /\ \A k \in DOMAIN statuses : statuses[k] =
            Cardinality(WorkloadsTable(data, [base EXCEPT !.selectedStatuses = {k}]))
       /\ \A t \in DOMAIN types : types[t] =
            Cardinality(IssueRows(data, [base EXCEPT !.selectedIssueTypes = {t}]))

\* A direction that some engine blocks is never shown as confirmed: the row its
\* finding is folded into has a group for the direction that is not the green
\* "allowed" one, whichever engine reported first (mergeReason, CulpritActions).
BlockedSideIsNotConfirmed ==
    LET rows == mergeIssuesByPair(data.issues)
        RowsOf(i) == {r \in rows : /\ isEdge(r) /\ r.type = i.type
                                   /\ nodeKey(r.src) = nodeKey(i.src)
                                   /\ nodeKey(r.dst) = nodeKey(i.dst)}
        Kinds(i, direction) == {g.kind : g \in {x \in UNION {CulpritActions(r) : r \in RowsOf(i)} :
                                                   x.direction = direction}}
        NotConfirmed(i, direction) ==
            Kinds(i, direction) # {} /\ "allowed" \notin Kinds(i, direction)
    IN \A k \in DOMAIN data.issues :
         LET i == data.issues[k]
         IN isEdge(i) => /\ isBlockReason(i.egressReason) => NotConfirmed(i, "egress")
                         /\ isBlockReason(i.ingressReason) => NotConfirmed(i, "ingress")

\* The graph and the drawer count alike: the marks of either display mode add up to
\* the rows of the drawer's blocking and warning groups that name a place
\* (buildIssueMarks against IssuesDrawer).
MarksAddUpToDrawer ==
    LET marks == buildIssueMarks(data.issues, st.aggregateByNamespace)
        drawer == IssuesDrawer(data.issues)
    IN MapThenSumSet(LAMBDA k : marks[k].count, DOMAIN marks)
       = Cardinality({r \in drawer.blocking \cup drawer.warnings :
                         isEdge(r) \/ r.node # NoNode})

\* The status page's headline is the drawer's: its actionable issues are the drawer's
\* blocking and warning rows that touch a selected namespace, although the page
\* narrows before it folds and the drawer folds first (scopedIssues).
HeadlineMatchesDrawer ==
    LET drawer == IssuesDrawer(data.issues)
    IN actionableIssues(data, st)
       = {r \in drawer.blocking \cup drawer.warnings : Touches(r, st.selectedNamespaces)}

\* A drill-down from the status page shows what was counted: the namespace row's
\* workloads and policies are those left after the click, and with no mesh filter a
\* mesh chip's count is the number of workloads left after the click (NamespaceTable,
\* MeshRollup).  With "Connections" on a click also brings peers.
DrillDownShowsCounted ==
    LET chips == MeshRollup(data, filteredNodes(data, st))
        Shown(s) == {n \in filteredNodes(data, s) : IsWorkload(n)}
    IN ~st.showConnectedNamespaces =>
         /\ \A r \in NamespaceTable(data, st) :
               LET after == NamespaceRow(st, r.namespace)
               IN /\ r.workloads =
                       Cardinality({n \in Shown(after) : n.namespace = r.namespace})
                  /\ r.policies = coverageStats(scopedPolicyEdges(data, after)).policyTotal
         /\ st.selectedMeshFilters = {} =>
               \A t \in MESH_FILTERS :
                   chips[t] = Cardinality(Shown(MeshChip(st, t)))

\* "Reset filters" undoes every narrowing: afterwards no filter counts as active, and
\* without a search text every node of a listed namespace is visible (use-filter-reset).
\* A selection that holds a namespace the store does not list is left out: there the
\* sizes may agree by accident.
ResetShowsEverything ==
    LET after == resetAll(st)
    IN st.selectedNamespaces \subseteq st.availableNamespaces =>
         /\ activeCount(after) = 0
         /\ st.searchQuery = Names =>
              {n \in data.nodes : n.namespace \in {""} \cup st.availableNamespaces}
              \subseteq filteredNodes(data, after)
=============================================================================
