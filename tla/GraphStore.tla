----------------------------- MODULE GraphStore -----------------------------
(***************************************************************************)
(* The UI's zustand store (graphStore.ts): a single-threaded event loop in *)
(* which user actions and the continuations of HTTP calls interleave.      *)
(* Every action of the store is synchronous up to its fetches; the answer  *)
(* of a fetch comes at any later time, in any order, or the fetch fails.   *)
(*                                                                         *)
(* st is the store object, so set({a: v}) reads [st EXCEPT !.a = v].       *)
(* Server data is abstracted to the revision of the snapshot it was        *)
(* computed from (0: not loaded); a list of selected edges to its first    *)
(* edge, the only one the store looks at.  Node and edge sets do not vary  *)
(* between snapshots.                                                      *)
(***************************************************************************)
EXTENDS Integers, FiniteSets

CONSTANTS
    Nodes,        \* workload nodes, by id
    Edges,        \* policy edges [source, target, level]
    IssuePairs,   \* the pairs the findings of the issue scan are about
    NsNames,      \* namespaces of the cluster
    Scenarios,    \* scenario presets [namespaces]
    Landing,      \* the scenario named by the URL, or None
    None,         \* null
    MaxRev,       \* bound on the snapshots the server publishes
    MaxInFlight,  \* the user waits rather than have more calls outstanding
    MaxLoads,     \* bound on how often the graph is loaded
    MaxFaults     \* bound on failing calls

EdgeRecords == [source : Nodes \cup {None}, target : Nodes \cup {None},
                level : {"workload", "namespace"}]

ASSUME StoreAssumption ==
    /\ Edges \subseteq EdgeRecords
    /\ IssuePairs \subseteq Nodes \X Nodes
    /\ None \notin Nodes /\ None \notin Edges
    /\ None \notin [src : Nodes, dst : Nodes, rev : 1..MaxRev]
    /\ Scenarios \subseteq [namespaces : SUBSET NsNames]
    /\ Landing \in Scenarios \cup {None}
    /\ MaxRev \in Nat \ {0} /\ MaxInFlight \in Nat
    /\ MaxLoads \in Nat /\ MaxFaults \in Nat

VARIABLES
    served,    \* revision of the snapshot the server answers from
    st,        \* the store
    inflight,  \* how many identical calls are outstanding: [Fetches -> Nat]
    total,     \* their number, for the bound
    loads,     \* times loadGraph ran
    landed,    \* useScenario's landed ref
    faults     \* calls that have failed

vars == <<served, st, inflight, total, loads, landed, faults>>

-----------------------------------------------------------------------------
(* Calls.  from and to are what the continuation's closure captured; since *)
(* is the revision served when the call was made, so the answer is of that *)
(* revision or of a later one.                                             *)

Revs == 1..MaxRev
LoadCalls == {"state", "graph", "issues", "mesh", "metrics"}
Fetches ==
    [call : LoadCalls, from : {None}, to : {None}, since : Revs] \cup
    [call : {"nodeInfo"}, from : Nodes, to : {None}, since : Revs] \cup
    [call : {"forward", "reverse"}, from : Nodes, to : Nodes, since : Revs] \cup
    [call : {"edge"}, from : Edges, to : {None}, since : Revs]

Fetch(call, from, to) == [call |-> call, from |-> from, to |-> to, since |-> served]
Load(call) == Fetch(call, None, None)

One(b) == IF b THEN 1 ELSE 0

Send(calls) ==
    /\ total' = total + Cardinality(calls)
    /\ total' <= MaxInFlight
    /\ inflight' = [f \in Fetches |-> inflight[f] + One(f \in calls)]

Exchange(f, calls) ==
    /\ inflight[f] > 0
    /\ total' = total - 1 + Cardinality(calls)
    /\ inflight' = [g \in Fetches |-> inflight[g] - One(g = f) + One(g \in calls)]

-----------------------------------------------------------------------------
(* The store object.                                                       *)

NodeInfos == [id : Nodes, rev : Revs]
Results == [src : Nodes, dst : Nodes, rev : Revs]
Stores ==
    [graph : 0..MaxRev, loading : BOOLEAN, error : BOOLEAN,
     issues : 0..MaxRev, issuesLoading : BOOLEAN,
     meshStatus : 0..MaxRev, clusterMetrics : 0..MaxRev,
     availableNamespaces : SUBSET NsNames, selectedNamespaces : SUBSET NsNames,
     selectedNode : Nodes \cup {None}, selectedEdges : Edges \cup {None},
     nodeInfo : NodeInfos \cup {None}, nodeInfoLoading : BOOLEAN,
     reachabilitySource : Nodes \cup {None}, reachabilityTarget : Nodes \cup {None},
     reachability : Results \cup {None}, reachabilityLoading : BOOLEAN,
     reachabilityReverse : Results \cup {None}, reachabilityReverseLoading : BOOLEAN,
     reachabilityReverseError : BOOLEAN,
     edgeReachability : Results \cup {None}, edgeReachabilityLoading : BOOLEAN]

InitialStore ==
    [graph |-> 0, loading |-> FALSE, error |-> FALSE,
     issues |-> 0, issuesLoading |-> FALSE, meshStatus |-> 0, clusterMetrics |-> 0,
     availableNamespaces |-> {}, selectedNamespaces |-> {},
     selectedNode |-> None, selectedEdges |-> None,
     nodeInfo |-> None, nodeInfoLoading |-> FALSE,
     reachabilitySource |-> None, reachabilityTarget |-> None,
     reachability |-> None, reachabilityLoading |-> FALSE,
     reachabilityReverse |-> None, reachabilityReverseLoading |-> FALSE,
     reachabilityReverseError |-> FALSE,
     edgeReachability |-> None, edgeReachabilityLoading |-> FALSE]

-----------------------------------------------------------------------------
(* Synchronous writes of the store's actions.                              *)

\* Every toggle of a data filter, setSelectedNamespaces and selectNamespaceOnly
\* drop the selection.
deselect(s) == [s EXCEPT !.selectedNode = None, !.selectedEdges = None]

selectNode(s, node) ==
    [s EXCEPT !.selectedNode = node, !.selectedEdges = None, !.nodeInfo = None]

selectEdges(s, edge) ==
    [s EXCEPT !.selectedEdges = edge, !.selectedNode = None, !.nodeInfo = None,
              !.edgeReachability = None]

clearReachability(s) ==
    [s EXCEPT !.reachabilitySource = None, !.reachability = None,
              !.reachabilityTarget = None, !.reachabilityLoading = FALSE,
              !.reachabilityReverse = None, !.reachabilityReverseLoading = FALSE,
              !.reachabilityReverseError = FALSE]

\* The writes setSelectedNode (source pinned) and showReachability share.
askReachability(s, src, dst) ==
    [s EXCEPT !.reachabilitySource = src, !.reachabilityTarget = dst,
              !.reachability = None, !.reachabilityLoading = TRUE,
              !.reachabilityReverse = None, !.reachabilityReverseLoading = TRUE,
              !.reachabilityReverseError = FALSE]

BothDirections(src, dst) == {Fetch("forward", src, dst), Fetch("reverse", src, dst)}

-----------------------------------------------------------------------------
(* The server.                                                             *)

SnapshotPublished ==
    /\ served < MaxRev
    /\ served' = served + 1
    /\ UNCHANGED <<st, inflight, total, loads, landed, faults>>

-----------------------------------------------------------------------------
(* Loads.                                                                  *)

startLoadGraph(s) == [s EXCEPT !.loading = TRUE, !.error = FALSE]

\* App's effect: loadClusterState and loadGraph, on mount and again each time a
\* preview route is left.
Mount ==
    /\ loads < MaxLoads
    /\ loads' = loads + 1
    /\ st' = startLoadGraph(st)
    /\ Send({Load("state"), Load("graph")})
    /\ UNCHANGED <<served, landed, faults>>

\* The refresh button, disabled while a graph is loading.
Refresh ==
    /\ loads > 0 /\ loads < MaxLoads
    /\ ~st.loading
    /\ loads' = loads + 1
    /\ st' = startLoadGraph(st)
    /\ Send({Load("graph")})
    /\ UNCHANGED <<served, landed, faults>>

\* What a continuation that got its answer, or that caught an error, changes.
Arrives(f, s, calls) ==
    /\ st' = s
    /\ Exchange(f, calls)
    /\ UNCHANGED <<served, loads, landed, faults>>

Fails(f, s) ==
    /\ faults < MaxFaults
    /\ faults' = faults + 1
    /\ st' = s
    /\ Exchange(f, {})
    /\ UNCHANGED <<served, loads, landed>>

Answers(f) == f.since..served

StateSettles(f) ==
    /\ f.call = "state"
    /\ \/ Arrives(f, [st EXCEPT !.availableNamespaces = NsNames,
                                !.selectedNamespaces = NsNames], {})
       \/ Fails(f, [st EXCEPT !.error = TRUE])

\* The graph is stored, and in the same turn the detail of the selected node,
\* the issues, the mesh status and the metrics are asked for.
GraphSettles(f) ==
    /\ f.call = "graph"
    /\ \/ \E rev \in Answers(f) :
             IF st.selectedNode # None
             THEN Arrives(f, [st EXCEPT !.graph = rev, !.loading = FALSE,
                                        !.issuesLoading = TRUE, !.nodeInfoLoading = TRUE],
                          {Load("issues"), Load("mesh"), Load("metrics"),
                           Fetch("nodeInfo", st.selectedNode, None)})
             ELSE Arrives(f, [st EXCEPT !.graph = rev, !.loading = FALSE,
                                        !.issuesLoading = TRUE],
                          {Load("issues"), Load("mesh"), Load("metrics")})
       \/ Fails(f, [st EXCEPT !.loading = FALSE, !.error = TRUE])

\* Broken variant: only a successful scan clears the flag.
IssuesSettleKeepsSpinner(f) ==
    /\ f.call = "issues"
    /\ \/ \E rev \in Answers(f) :
             Arrives(f, [st EXCEPT !.issues = rev, !.issuesLoading = FALSE], {})
       \/ Fails(f, [st EXCEPT !.error = TRUE])

IssuesSettle(f) ==
    /\ f.call = "issues"
    /\ \/ \E rev \in Answers(f) :
             Arrives(f, [st EXCEPT !.issues = rev, !.issuesLoading = FALSE], {})
       \/ Fails(f, [st EXCEPT !.issuesLoading = FALSE, !.error = TRUE])

MeshStatusSettles(f) ==
    /\ f.call = "mesh"
    /\ \/ \E rev \in Answers(f) : Arrives(f, [st EXCEPT !.meshStatus = rev], {})
       \/ Fails(f, [st EXCEPT !.error = TRUE])

ClusterMetricsSettle(f) ==
    /\ f.call = "metrics"
    /\ \/ \E rev \in Answers(f) : Arrives(f, [st EXCEPT !.clusterMetrics = rev], {})
       \/ Fails(f, [st EXCEPT !.error = TRUE])

\* Broken variants: no bail; an answer for a node whose detail is already there
\* is dropped.
NodeInfoSettlesUnchecked(f) ==
    /\ f.call = "nodeInfo"
    /\ \/ \E rev \in Answers(f) :
             Arrives(f, [st EXCEPT !.nodeInfo = [id |-> f.from, rev |-> rev],
                                   !.nodeInfoLoading = FALSE], {})
       \/ Fails(f, [st EXCEPT !.nodeInfoLoading = FALSE])
NodeInfoSettlesOnce(f) ==
    /\ f.call = "nodeInfo"
    /\ \/ \E rev \in Answers(f) :
             Arrives(f, IF st.selectedNode # f.from \/ st.nodeInfo # None THEN st
                        ELSE [st EXCEPT !.nodeInfo = [id |-> f.from, rev |-> rev],
                                        !.nodeInfoLoading = FALSE], {})
       \/ Fails(f, [st EXCEPT !.nodeInfoLoading = FALSE])

\* Bails, leaving the flag as it is, when another node or none is selected; an
\* error clears the flag whatever is selected.
NodeInfoSettles(f) ==
    /\ f.call = "nodeInfo"
    /\ \/ \E rev \in Answers(f) :
             Arrives(f, IF st.selectedNode # f.from THEN st
                        ELSE [st EXCEPT !.nodeInfo = [id |-> f.from, rev |-> rev],
                                        !.nodeInfoLoading = FALSE], {})
       \/ Fails(f, [st EXCEPT !.nodeInfoLoading = FALSE])

-----------------------------------------------------------------------------
(* Reachability.                                                           *)

\* The user unpinned the source or chose another target.
MovedOn(f) == st.reachabilitySource # f.from \/ st.reachabilityTarget # f.to

ForwardSettles(f) ==
    /\ f.call = "forward"
    /\ \/ \E rev \in Answers(f) :
             Arrives(f, IF MovedOn(f) THEN st
                        ELSE [st EXCEPT !.reachability = [src |-> f.from, dst |-> f.to,
                                                          rev |-> rev],
                                        !.reachabilityLoading = FALSE], {})
       \/ Fails(f, [st EXCEPT !.reachabilityLoading = FALSE])

\* Broken variant: a failed reverse call only clears the flag.
ReverseSettlesSilently(f) ==
    /\ f.call = "reverse"
    /\ \/ \E rev \in Answers(f) :
             Arrives(f, IF MovedOn(f) THEN st
                        ELSE [st EXCEPT !.reachabilityReverse = [src |-> f.to, dst |-> f.from,
                                                                 rev |-> rev],
                                        !.reachabilityReverseLoading = FALSE], {})
       \/ Fails(f, [st EXCEPT !.reachabilityReverseLoading = FALSE])

ReverseSettles(f) ==
    /\ f.call = "reverse"
    /\ \/ \E rev \in Answers(f) :
             Arrives(f, IF MovedOn(f) THEN st
                        ELSE [st EXCEPT !.reachabilityReverse = [src |-> f.to, dst |-> f.from,
                                                                 rev |-> rev],
                                        !.reachabilityReverseLoading = FALSE], {})
       \/ Fails(f, IF MovedOn(f) THEN st
                   ELSE [st EXCEPT !.reachabilityReverseLoading = FALSE,
                                   !.reachabilityReverseError = TRUE])

\* RenderEdges never assigns PolicyEdge.ID, so every edge the server sends has
\* the same, empty id.
EdgeId(edge) == ""

EdgeVerdictSettles(f) ==
    /\ f.call = "edge"
    /\ \/ \E rev \in Answers(f) :
             Arrives(f, IF st.selectedEdges = None THEN st
                        ELSE IF EdgeId(st.selectedEdges) # EdgeId(f.from) THEN st
                        ELSE [st EXCEPT !.edgeReachability = [src |-> f.from.source,
                                                              dst |-> f.from.target,
                                                              rev |-> rev],
                                        !.edgeReachabilityLoading = FALSE], {})
       \/ Fails(f, [st EXCEPT !.edgeReachabilityLoading = FALSE])

Settles(f) ==
    \/ StateSettles(f) \/ GraphSettles(f) \/ IssuesSettle(f)
    \/ MeshStatusSettles(f) \/ ClusterMetricsSettle(f)
    \/ NodeInfoSettles(f) \/ ForwardSettles(f) \/ ReverseSettles(f)
    \/ EdgeVerdictSettles(f)

-----------------------------------------------------------------------------
(* User actions.                                                           *)

UserActs(s, calls) ==
    /\ st' = s
    /\ Send(calls)
    /\ UNCHANGED <<served, loads, landed, faults>>

\* A filter toggle; only the namespace filter is kept, the others do not
\* interact with anything here.
ToggleFilter ==
    /\ loads > 0
    /\ \/ UserActs(deselect(st), {})
       \/ \E chosen \in SUBSET NsNames :
             UserActs([deselect(st) EXCEPT !.selectedNamespaces = chosen], {})

\* setSelectedNode, a source pinned and another node clicked.
ClickTarget(node) ==
    /\ st.reachabilitySource \notin {None, node}
    /\ UserActs(askReachability(st, st.reachabilitySource, node),
                BothDirections(st.reachabilitySource, node))

\* setSelectedNode, otherwise.
ClickNode(node) ==
    /\ st.reachabilitySource \in {None, node}
    /\ UserActs([selectNode(st, node) EXCEPT !.nodeInfoLoading = TRUE],
                {Fetch("nodeInfo", node, None)})

\* Broken variant: the endpoints are not looked up first.
ClickEdgeUnchecked(edge) ==
    IF edge.level = "namespace"
    THEN UserActs(selectEdges(st, edge), {})
    ELSE UserActs([selectEdges(st, edge) EXCEPT !.edgeReachabilityLoading = TRUE],
                  {Fetch("edge", edge, None)})

\* setSelectedEdges; a namespace edge, or one without two known endpoints, has
\* no verdict to fetch.
ClickEdge(edge) ==
    IF edge.level = "namespace" \/ edge.source = None \/ edge.target = None
    THEN UserActs(selectEdges(st, edge), {})
    ELSE UserActs([selectEdges(st, edge) EXCEPT !.edgeReachabilityLoading = TRUE],
                  {Fetch("edge", edge, None)})

\* A second click on the focused node: setSelectedNode(null).
ClickFocused == UserActs(selectNode(st, None), {})

\* A click on the background: setSelectedNode(null), setSelectedEdges([]).
ClickBackground == UserActs(selectEdges(selectNode(st, None), None), {})

\* The panel's close button also unpins.
ClosePanel == UserActs(clearReachability(selectEdges(selectNode(st, None), None)), {})

\* Broken variant: the old target stays with the new source.
PinKeepsTarget(node) ==
    UserActs([st EXCEPT !.reachabilitySource = node, !.reachability = None], {})

pinReachabilitySource(node) ==
    UserActs([st EXCEPT !.reachabilitySource = node, !.reachability = None,
                        !.reachabilityTarget = None], {})

\* A click on a finding offers its pair, the swap button the pair shown.
Offered(src, dst) ==
    \/ st.issues # 0 /\ <<src, dst>> \in IssuePairs
    \/ st.reachabilitySource = dst /\ st.reachabilityTarget = src

showReachability(src, dst) ==
    UserActs(askReachability(selectNode(st, None), src, dst), BothDirections(src, dst))

User ==
    \/ ToggleFilter
    \/ /\ st.graph # 0
       /\ \/ \E node \in Nodes :
                ClickTarget(node) \/ ClickNode(node) \/ pinReachabilitySource(node)
          \/ \E edge \in Edges : ClickEdge(edge)
          \/ ClickFocused
          \/ ClickBackground
          \/ ClosePanel
          \/ \E src, dst \in Nodes : Offered(src, dst) /\ showReachability(src, dst)

-----------------------------------------------------------------------------
(* Scenario links.                                                         *)

scenarioState(scenario) ==
    [selectEdges(selectNode(clearReachability(st), None), None) EXCEPT
        !.selectedNamespaces = IF scenario.namespaces # {} THEN scenario.namespaces
                               ELSE st.availableNamespaces]

\* The landing state, then the target: none (no target, tables view or
\* unresolved), the pair of an issue, or a node (of an issue, or of the graph).
applyScenario(scenario) ==
    \/ st' = scenarioState(scenario) /\ Send({})
    \/ /\ st.issues # 0
       /\ \E src, dst \in Nodes :
             /\ <<src, dst>> \in IssuePairs
             /\ st' = askReachability(scenarioState(scenario), src, dst)
             /\ Send(BothDirections(src, dst))
    \/ /\ st.graph # 0
       /\ \E node \in Nodes :
             /\ st' = [selectNode(scenarioState(scenario), node) EXCEPT !.nodeInfoLoading = TRUE]
             /\ Send({Fetch("nodeInfo", node, None)})

\* useScenario's effect, once, when the graph is in and no issue scan is running.
ScenarioLands ==
    /\ ~landed
    /\ st.graph # 0
    /\ ~st.issuesLoading
    /\ landed' = TRUE
    /\ IF Landing = None THEN UNCHANGED <<st, inflight, total>> ELSE applyScenario(Landing)
    /\ UNCHANGED <<served, loads, faults>>

\* A click in the scenario bar.
ScenarioPicked ==
    /\ loads > 0
    /\ \E scenario \in Scenarios : applyScenario(scenario)
    /\ UNCHANGED <<served, loads, landed, faults>>

-----------------------------------------------------------------------------
Init ==
    /\ served = 1
    /\ st = InitialStore
    /\ inflight = [f \in Fetches |-> 0]
    /\ total = 0
    /\ loads = 0
    /\ landed = FALSE
    /\ faults = 0

Next ==
    \/ SnapshotPublished
    \/ Mount
    \/ Refresh
    \/ \E f \in Fetches : Settles(f)
    \/ User
    \/ ScenarioLands
    \/ ScenarioPicked

Spec == Init /\ [][Next]_vars

\* Fairness: every HTTP call ends, with an answer or an error, and its
\* continuation runs.  Nothing makes the user act or the server refresh.
FairSpec == Spec /\ \A f \in Fetches : WF_vars(Settles(f))

-----------------------------------------------------------------------------
(* Properties.                                                             *)

\* Every field of the store, every captured argument and every count of
\* outstanding calls has its type.
TypeOK ==
    /\ served \in Revs
    /\ st \in Stores
    /\ inflight \in [Fetches -> Nat]
    /\ loads \in Nat /\ landed \in BOOLEAN /\ faults \in Nat

\* The detail in the panel is that of the selected node, whatever order the
\* node-info answers of earlier selections arrive in (loadNodeInfo's bail and
\* the resets of setSelectedNode, setSelectedEdges and showReachability).
NodeInfoIsForSelection ==
    st.selectedNode # None /\ st.nodeInfo # None => st.nodeInfo.id = st.selectedNode

\* The two verdicts the reachability panel shows are for the pinned pair, in
\* the right direction, however often the user re-pins, swaps or re-targets
\* while calls are outstanding.
VerdictsAreForPair ==
    st.reachabilityTarget # None =>
        /\ st.reachability # None =>
              /\ st.reachability.src = st.reachabilitySource
              /\ st.reachability.dst = st.reachabilityTarget
        /\ st.reachabilityReverse # None =>
              /\ st.reachabilityReverse.src = st.reachabilityTarget
              /\ st.reachabilityReverse.dst = st.reachabilitySource

Quiet == \A f \in Fetches : inflight[f] = 0

\* Once no call is outstanding nothing that is on screen is still loading, and
\* the reverse verdict of a shown pair is there or its failure is flagged: a
\* bail never eats the answer the panel waits for.
SettledPanelIsComplete ==
    Quiet => /\ ~st.loading /\ ~st.issuesLoading
             /\ st.selectedNode # None => ~st.nodeInfoLoading
             /\ st.reachabilityTarget # None =>
                   /\ ~st.reachabilityLoading /\ ~st.reachabilityReverseLoading
                   /\ st.reachabilityReverse # None \/ st.reachabilityReverseError

\* The refresh button comes back, the issue spinner ends, and so does that of
\* the detail panel unless the user selects something else, even while the user
\* keeps clicking and refreshing.
SpinnersEnd ==
    /\ st.loading ~> ~st.loading
    /\ st.issuesLoading ~> ~st.issuesLoading
    /\ \A n \in Nodes :
          st.selectedNode = n /\ st.nodeInfoLoading
             ~> ~st.nodeInfoLoading \/ st.selectedNode # n

\* setSelectedEdges says its continuation bails when "selectedEdges replaced or
\* cleared" mid-fetch, so the banner's verdict is for the selected edge.
EdgeVerdictIsForSelection ==
    st.selectedEdges # None /\ st.edgeReachability # None =>
        /\ st.edgeReachability.src = st.selectedEdges.source
        /\ st.edgeReachability.dst = st.selectedEdges.target
=============================================================================
