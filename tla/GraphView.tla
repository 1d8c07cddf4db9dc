----------------------------- MODULE GraphView -----------------------------
(***************************************************************************)
(* The graph canvas (components/PolicyGraph/): the elements drawn in the   *)
(* flat and in the aggregated mode, their colours and markers, the focus,  *)
(* and what a click on an element does to the store.                       *)
(*                                                                         *)
(* An element is a node [id, ntype, parent, workload, cov] or an arrow     *)
(* [source, target, action, except, policies, direction]; layout, labels   *)
(* and the placing of overlays are left out.                               *)
(***************************************************************************)
EXTENDS Filters

CONSTANT Tapped \* ids of the nodes the user taps on the canvas

BoxId(ns) == <<"nsbox", ns>>

-----------------------------------------------------------------------------
(* Coverage: who is under a policy (coverage.ts).                          *)

InternetStatuses == {"internet-egress", "internet-ingress", "internet-full"}

NamespaceOf(nodes, id) == {n.namespace : n \in {x \in nodes : x.id = id}} \ {""}

\* A blanket rule's empty endpoint counts as covered too, which colours nothing.
computeCoverage(edges, nodes) ==
    LET workloadEdges == {e \in edges : e.level = "workload"}
        protected == {n \in nodes : n.statuses \ InternetStatuses # {}}
        ends == UNION {{e.source, e.target} : e \in workloadEdges}
        nsWorkload == Occupied(protected) \cup UNION {NamespaceOf(nodes, id) : id \in ends}
        nsNamespace == UNION {{e.source, e.target} : e \in edges \ workloadEdges}
    IN [ns |-> [ns \in Occupied(nodes) |->
                   IF ns \in nsWorkload THEN "workload"
                   ELSE IF NsId(ns) \in nsNamespace THEN "namespace" ELSE "none"],
        workload |-> ends \cup Ids(protected)]

-----------------------------------------------------------------------------
(* Arrows: the rules between two ends, one arrow per action and with the   *)
(* carve-outs apart (bundling.ts).                                         *)

aggregateDirection(policies) ==
    LET dirs == {e.direction : e \in policies}
    IN IF "both" \in dirs \/ Directions \subseteq dirs THEN "both"
       ELSE IF "egress" \in dirs THEN "egress" ELSE "ingress"

Arrow(source, target, policies) ==
    [source |-> source, target |-> target, policies |-> policies,
     action |-> (CHOOSE e \in policies : TRUE).action,
     except |-> \A e \in policies : e.coverage = "except",
     direction |-> aggregateDirection(policies)]

\* Broken variant: one arrow per pair of ends, whatever the action.
bundleEdgesMixed(edges) ==
    {Arrow(e.source, e.target,
           {x \in edges : x.source = e.source /\ x.target = e.target}) : e \in edges}

bundleEdges(edges) ==
    LET Key(e) == <<e.source, e.target, e.action, e.coverage = "except">>
    IN {Arrow(e.source, e.target, {x \in edges : Key(x) = Key(e)}) : e \in edges}

edgeEngines(policies) == {e.policySource : e \in policies}

-----------------------------------------------------------------------------
(* Elements (elements.ts).                                                 *)

NodeElement(id, ntype, parent, workload, cov) ==
    [id |-> id, ntype |-> ntype, parent |-> parent, workload |-> workload, cov |-> cov]

\* The node of a namespace, if the server sent one.
nsNodeById(nodes, ns) ==
    LET found == {n \in nodes : n.type = "namespace" /\ n.id = NsId(ns)}
    IN IF found = {} THEN NoNode ELSE CHOOSE n \in found : TRUE

\* A workload's element.  Its id may be that of a namespace label, which is added
\* first: cytoscape keeps the first element of an id.
WorkloadElement(w, cov, parent) ==
    NodeElement(w.id, "workload", parent, w,
                IF w.id \in cov.workload THEN "workload" ELSE "none")

buildElements(workloads, edges, nodes) ==
    LET cov == computeCoverage(edges, nodes)
        labels == {NsId(ns) : ns \in Occupied(workloads)}
    IN [nodes |->
          {NodeElement(BoxId(ns), "namespace-box", NoId, NoNode, cov.ns[ns]) :
              ns \in Occupied(workloads)}
          \cup {NodeElement(NsId(ns), "namespace", BoxId(ns), nsNodeById(nodes, ns),
                            cov.ns[ns]) : ns \in Occupied(workloads)}
          \cup {WorkloadElement(w, cov, IF w.namespace = "" THEN NoId
                                        ELSE BoxId(w.namespace)) :
                  w \in {x \in workloads : x.id \notin labels}},
        arrows |-> bundleEdges(edges)]

\* One node per namespace; arrows stand for every rule between two namespaces,
\* the filters on rules not applied.
buildAggregatedElements(workloads, edges, nodes) ==
    LET cov == computeCoverage(edges, nodes)
        occupied == Occupied(workloads)
        external == {w \in workloads : w.namespace = ""}
        valid == {NsId(ns) : ns \in occupied} \cup Ids(external)
        groupOf(id) == IF NamespaceOf(nodes, id) = {} THEN id
                       ELSE NsId(CHOOSE ns \in NamespaceOf(nodes, id) : TRUE)
        Ends(e) == IF e.level = "namespace" THEN <<e.source, e.target>>
                   ELSE <<groupOf(e.source), groupOf(e.target)>>
        Key(e) == <<Ends(e), e.action, e.coverage = "except">>
        drawn == {e \in edges : /\ Ends(e)[1] # Ends(e)[2]
                                /\ Ends(e)[1] \in valid /\ Ends(e)[2] \in valid}
    IN [nodes |->
          {NodeElement(NsId(ns), "namespace-agg", NoId, nsNodeById(nodes, ns), cov.ns[ns]) :
              ns \in occupied}
          \cup {WorkloadElement(w, cov, NoId) : w \in external},
        arrows |-> {Arrow(Ends(e)[1], Ends(e)[2], {x \in drawn : Key(x) = Key(e)}) :
                       e \in drawn}]

\* What the canvas shows: rebuilt whenever the data or a filter changes.
PolicyGraph(d, s) ==
    IF s.aggregateByNamespace
    THEN buildAggregatedElements(filteredNodes(d, s), d.edges, d.nodes)
    ELSE buildElements(filteredNodes(d, s), filteredEdges(d, s), d.nodes)

-----------------------------------------------------------------------------
(* Markers: findings, engines, mesh membership.                            *)

Mark(rows) ==
    [tier |-> IF \E r \in rows : issueTier(r.type) = "blocking" THEN "blocking" ELSE "warning",
     count |-> Cardinality(rows)]

\* The marks of a set of rows: on a node when both ends fall together, else on the
\* pair of ends.
MarksOf(rows, aggregate) ==
    LET endpointKey(n) == IF aggregate /\ n.namespace # "" THEN NsId(n.namespace) ELSE n.id
        Key(r) == IF isEdge(r) THEN <<endpointKey(r.src), endpointKey(r.dst)>>
                  ELSE <<endpointKey(r.node), endpointKey(r.node)>>
        marked == {r \in rows : /\ issueTier(r.type) # "info"
                                /\ isEdge(r) \/ r.node # NoNode}
    IN [k \in {Key(r) : r \in marked} |-> Mark({r \in marked : Key(r) = k})]

\* Broken variant: findings are counted one by one, not as rows.
buildIssueMarksRaw(issues, aggregate) ==
    MarksOf({issues[i] : i \in DOMAIN issues}, aggregate)

buildIssueMarks(issues, aggregate) == MarksOf(mergeIssuesByPair(issues), aggregate)

\* The marks with an element to sit on; a pair's goes on one of its arrows.
ShownMarks(d, s, g) ==
    LET marks == buildIssueMarks(d.issues, s.aggregateByNamespace)
        spots == {<<n.id, n.id>> : n \in g.nodes}
                 \cup {<<a.source, a.target>> : a \in g.arrows}
    IN [k \in DOMAIN marks \cap spots |-> marks[k]]

Clickable(g) == {n \in g.nodes : n.ntype # "namespace-box"}

meshFilterFor(d, id) ==
    LET m == Membership(d.mesh, id) IN IF m.inMesh THEN MtlsTag[m.verdict] ELSE "out-of-mesh"

\* The filter tag of the chip on each node; no chips without the overlay.
MeshMarks(d, s, g) ==
    {[id |-> n.id, tag |-> meshFilterFor(d, n.id)] :
        n \in {x \in Clickable(g) : s.showMeshOverlay}}

EdgeIcons(s, g) ==
    {[arrow |-> a, engines |-> edgeEngines(a.policies)] :
        a \in {x \in g.arrows : s.showEngineIcons}}

-----------------------------------------------------------------------------
(* Focus: the ids of the nodes that stay lit; nothing is lit, and nothing  *)
(* dimmed, while a reachability source is pinned.                          *)

Lit(g, ids) == (ids \cup {n.parent : n \in {x \in g.nodes : x.id \in ids}}) \ {NoId}

applyDimming(s, g) ==
    LET node == s.selectedNode
        neighbours == {a.target : a \in {x \in g.arrows : x.source = node.id}}
                      \cup {a.source : a \in {x \in g.arrows : x.target = node.id}}
        matching == {n.id : n \in {x \in g.nodes :
                        /\ x.ntype = "workload"
                        /\ x.workload.statuses \cap s.selectedStatuses # {}}}
    IN IF s.reachabilitySource # NoNode THEN {}
       ELSE IF node # NoNode
            THEN IF node.id \in Ids(g.nodes) THEN Lit(g, {node.id} \cup neighbours) ELSE {}
            ELSE Lit(g, matching)

-----------------------------------------------------------------------------
(* The store's selection (graphStore.ts); its fetches are GraphStore's.    *)

setSelectedNode(s, node) ==
    IF s.reachabilitySource # NoNode /\ node # NoNode /\ node.id # s.reachabilitySource.id
    THEN [s EXCEPT !.reachabilityTarget = node]
    ELSE [s EXCEPT !.selectedNode = node, !.selectedEdges = {}]

setSelectedEdges(s, edges) == [s EXCEPT !.selectedEdges = edges, !.selectedNode = NoNode]

\* Broken variant: the old target stays.
pinKeepingTarget(s, node) == [s EXCEPT !.reachabilitySource = node]

pinReachabilitySource(s, node) ==
    [s EXCEPT !.reachabilitySource = node, !.reachabilityTarget = NoNode]

showReachability(s, src, dst) ==
    [s EXCEPT !.reachabilitySource = src, !.reachabilityTarget = dst,
              !.selectedNode = NoNode, !.selectedEdges = {}]

clearReachability(s) ==
    [s EXCEPT !.reachabilitySource = NoNode, !.reachabilityTarget = NoNode]

-----------------------------------------------------------------------------
(* Clicks on the canvas: the stores they lead to.                          *)

\* A namespace the server sent no node for gets one made up.
resolveClickedWorkload(n) ==
    IF n.workload # NoNode THEN n.workload
    ELSE WorkloadNode(n.id, n.id[2], n.id[2], "namespace", {})

\* A tap on a lit node clears the selection.
TapNode(d, s) ==
    LET g == PolicyGraph(d, s)
        focused == applyDimming(s, g)
    IN {setSelectedNode(s, IF n.id \in focused THEN NoNode ELSE resolveClickedWorkload(n)) :
           n \in {x \in Clickable(g) : x.id \in Tapped}}

RightClickNode(d, s) ==
    {pinReachabilitySource(s, resolveClickedWorkload(n)) :
        n \in {x \in Clickable(PolicyGraph(d, s)) : x.id \in Tapped}}

TapEdge(d, s) == {setSelectedEdges(s, a.policies) : a \in PolicyGraph(d, s).arrows}

TapBackground(s) == setSelectedEdges(setSelectedNode(s, NoNode), {})

ClickMeshMark(d, s) ==
    {toggle(s, "selectedMeshFilters", m.tag) : m \in MeshMarks(d, s, PolicyGraph(d, s))}
=============================================================================
