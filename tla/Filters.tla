------------------------------ MODULE Filters ------------------------------
(***************************************************************************)
(* The filters of the toolbar (FilterPanel/) and what they leave visible   *)
(* (store/filters.ts, store/policyTableEdges.ts).                          *)
(*                                                                         *)
(* d is the loaded data [nodes, edges, mesh, issues]; s is the part of the *)
(* store the user steers.  A toggle is a new store; a drop-down is the set *)
(* of stores one click in it leads to.  The search text is the set of the  *)
(* names that contain it, so the empty text is Names.                      *)
(***************************************************************************)
EXTENDS PolicyData

CONSTANTS
    Names,    \* labels and namespaces of the cluster
    Searches, \* texts the user types, each as the names that contain it
    Clicks    \* node types, status keys, issue types and mesh tags the user clicks

ASSUME FilterAssumption == Searches \subseteq SUBSET Names

Actions == {0, 1}
Directions == {"ingress", "egress"}
MtlsTag == [strict |-> "mtls-strict", permissive |-> "mtls-permissive",
            disable |-> "mtls-disable", unset |-> "mtls-unset"]
MESH_FILTERS == {"in-mesh", "out-of-mesh"} \cup {MtlsTag[v] : v \in DOMAIN MtlsTag}

-----------------------------------------------------------------------------
(* What is visible.                                                        *)

MeshTags(m) == IF m.inMesh THEN {"in-mesh", MtlsTag[m.verdict]} ELSE {"out-of-mesh"}

nodeMatchesMeshFilter(d, s, n) ==
    \/ s.selectedMeshFilters = {}
    \/ s.selectedMeshFilters \cap MeshTags(Membership(d.mesh, n.id)) # {}

BaseNodes(d, s) ==
    {n \in d.nodes :
        /\ n.namespace = "" \/ n.namespace \in s.selectedNamespaces
        /\ n.type \in s.selectedNodeTypes
        /\ n.label \in s.searchQuery \/ n.namespace \in s.searchQuery
        /\ nodeMatchesMeshFilter(d, s, n)}

Ids(nodes) == {n.id : n \in nodes}

\* With "Connections" on, the peers of the base nodes come along, whatever their
\* namespace and name.
filteredNodes(d, s) ==
    LET base == BaseNodes(d, s)
        workloadEdges == {e \in d.edges : e.level = "workload"}
        peers == {e.target : e \in {x \in workloadEdges : x.source \in Ids(base)}}
                 \cup {e.source : e \in {x \in workloadEdges : x.target \in Ids(base)}}
    IN IF ~s.showConnectedNamespaces THEN base
       ELSE base \cup {n \in d.nodes : /\ n.id \in peers
                                       /\ n.type \in s.selectedNodeTypes
                                       /\ nodeMatchesMeshFilter(d, s, n)}

Occupied(nodes) == {n.namespace : n \in nodes} \ {""}

edgeMatchesPolicyFilters(s, e) ==
    /\ e.policySource \in s.selectedPolicySources
    /\ e.action \in s.selectedActions
    /\ IF e.direction = "both" THEN s.selectedDirections # {}
       ELSE e.direction \in s.selectedDirections

\* Broken variant: a selected namespace counts even when nothing of it is visible.
filteredEdgesAnyNs(d, s) ==
    LET visible == Ids(filteredNodes(d, s)) \cup {NsId(ns) : ns \in s.selectedNamespaces}
    IN {e \in d.edges : /\ edgeMatchesPolicyFilters(s, e)
                        /\ e.level = "namespace" => s.showNamespaceEdges
                        /\ e.source \in visible /\ e.target \in visible}

filteredEdges(d, s) ==
    LET nodes == filteredNodes(d, s)
        nsSource == IF s.showConnectedNamespaces THEN Occupied(nodes)
                    ELSE s.selectedNamespaces \cap Occupied(nodes)
        visible == Ids(nodes) \cup {NsId(ns) : ns \in nsSource}
    IN {e \in d.edges : /\ edgeMatchesPolicyFilters(s, e)
                        /\ e.level = "namespace" => s.showNamespaceEdges
                        /\ e.source \in visible /\ e.target \in visible}

\* A rule with one endpoint states a posture, not a relation between peers.
isBlanket(e) == e.source = NoId \/ e.target = NoId

WideOpen(s) == [s EXCEPT !.selectedNamespaces = s.availableNamespaces]

BlanketEdges(d, s, scope) ==
    LET visible == Ids(filteredNodes(d, scope)) \cup {NsId(ns) : ns \in s.availableNamespaces}
    IN {e \in d.edges : /\ isBlanket(e)
                        /\ {e.source, e.target} \cap visible # {}
                        /\ e.namespace = "" \/ e.namespace \in s.selectedNamespaces
                        /\ edgeMatchesPolicyFilters(s, e)}

\* Broken variant: the namespace selection also hides cluster-scoped policies.
policyTableEdgesScoped(d, s) == filteredEdges(d, s) \cup BlanketEdges(d, s, s)

edgeIdentity(e) == <<EdgeRef(e), e.action, e.source, e.target, e.direction>>

\* The policies tab: the arrows of the graph, and, one per identity not there yet,
\* those of cluster-scoped policies in every namespace and the blanket rules, which
\* have no arrow.
policyTableEdges(d, s) ==
    LET scoped == filteredEdges(d, s)
        seen == {edgeIdentity(e) : e \in scoped}
        more == {e \in {x \in filteredEdges(d, WideOpen(s)) : x.namespace = ""}
                      \cup BlanketEdges(d, s, WideOpen(s)) : edgeIdentity(e) \notin seen}
    IN scoped \cup {CHOOSE x \in more : edgeIdentity(x) = edgeIdentity(e) : e \in more}

-----------------------------------------------------------------------------
(* Toggles of the store.  Every filter but the issue types drops the       *)
(* selection.                                                              *)

deselect(s) == [s EXCEPT !.selectedNode = NoNode, !.selectedEdges = {}]

Changed(s, field, value) ==
    LET t == [s EXCEPT ![field] = value]
    IN IF field = "selectedIssueTypes" THEN t ELSE deselect(t)

toggle(s, field, v) ==
    Changed(s, field, IF v \in s[field] THEN s[field] \ {v} ELSE s[field] \cup {v})

CheckBoxes(s, field, values) == {toggle(s, field, v) : v \in values}

\* The "all" and "none" links toggle the values listed that differ, one by one.
Links(s, field, values) ==
    {Changed(s, field, set) : set \in {s[field] \cup values, s[field] \ values} \ {s[field]}}

selectNamespaceOnly(s, ns) == Changed(s, "selectedNamespaces", {ns})

-----------------------------------------------------------------------------
(* The drop-downs.                                                         *)

NamespaceDropdown(s) ==
    CheckBoxes(s, "selectedNamespaces", s.availableNamespaces)
    \cup Links(s, "selectedNamespaces", s.availableNamespaces)

StatusDropdown(s) ==
    CheckBoxes(s, "selectedStatuses", StatusKeys \cap Clicks)
    \cup Links(s, "selectedStatuses", StatusKeys \cap Clicks)

PolicySourceDropdown(s) ==
    CheckBoxes(s, "selectedPolicySources", s.availablePolicySources)
    \cup Links(s, "selectedPolicySources", s.availablePolicySources)

NodeTypeDropdown(s) ==
    CheckBoxes(s, "selectedNodeTypes", ALL_NODE_TYPES \cap Clicks)
    \cup Links(s, "selectedNodeTypes", ALL_NODE_TYPES)

ActionDropdown(s) == CheckBoxes(s, "selectedActions", Actions)

DirectionDropdown(s) == CheckBoxes(s, "selectedDirections", Directions)

\* Check boxes and "clear".
MeshDropdown(s) ==
    CheckBoxes(s, "selectedMeshFilters", MESH_FILTERS \cap Clicks)
    \cup {Changed(s, "selectedMeshFilters", {}) : t \in s.selectedMeshFilters}

countIssuesByType(issues) ==
    [t \in ALL_ISSUE_TYPES |-> Cardinality({i \in DOMAIN issues : issues[i].type = t})]

\* The box of a type nothing was found of is disabled; the links are not.
IssueTypeDropdown(d, s) ==
    LET found == {t \in ALL_ISSUE_TYPES : countIssuesByType(d.issues)[t] > 0}
    IN CheckBoxes(s, "selectedIssueTypes", found \cap Clicks)
       \cup Links(s, "selectedIssueTypes", ALL_ISSUE_TYPES \cap Clicks)
       \cup {[s EXCEPT !.issuesDrawerOpen = TRUE] : t \in found}

\* Display options; the layout only moves things.
DisplayDropdown(s) ==
    {[s EXCEPT ![flag] = ~@] :
        flag \in {"aggregateByNamespace", "showConnectedNamespaces",
                  "showEngineIcons", "showMeshOverlay"}}

-----------------------------------------------------------------------------
(* Reset filters.                                                          *)

\* Filters that start with everything selected, and those that start empty.
Full(s) ==
    [selectedNamespaces |-> s.availableNamespaces, selectedNodeTypes |-> ALL_NODE_TYPES,
     selectedPolicySources |-> s.availablePolicySources,
     selectedActions |-> Actions, selectedDirections |-> Directions]
EmptyFilters == {"selectedStatuses", "selectedIssueTypes", "selectedMeshFilters"}

\* Narrowed is told from the sizes alone.
Narrowed(s) ==
    {f \in DOMAIN Full(s) : Cardinality(s[f]) < Cardinality(Full(s)[f])}
    \cup {f \in EmptyFilters : s[f] # {}}

activeCount(s) == Cardinality(Narrowed(s))

\* Broken variant: the mesh filters are left alone.
resetAllButMesh(s) ==
    LET set == [f \in DOMAIN s |->
                   IF f \notin Narrowed(s) THEN s[f]
                   ELSE IF f \in DOMAIN Full(s) THEN s[f] \cup Full(s)[f]
                   ELSE IF f = "selectedMeshFilters" THEN s[f] ELSE {}]
    IN IF Narrowed(s) \subseteq {"selectedIssueTypes"} THEN set ELSE deselect(set)

\* Adds what is missing of the full filters and empties the others.
resetAll(s) ==
    LET set == [f \in DOMAIN s |->
                   IF f \notin Narrowed(s) THEN s[f]
                   ELSE IF f \in DOMAIN Full(s) THEN s[f] \cup Full(s)[f] ELSE {}]
    IN IF Narrowed(s) \subseteq {"selectedIssueTypes"} THEN set ELSE deselect(set)

\* The first row of the toolbar: view, search, display options (graph only) and
\* reset (enabled while something is narrowed).  Refresh is Explorer's.
FilterPanel(s) ==
    {[s EXCEPT !.view = v] : v \in {"graph", "tables", "status"} \ {s.view}}
    \cup {[s EXCEPT !.searchQuery = q] : q \in (Searches \cup {Names}) \ {s.searchQuery}}
    \cup {t \in DisplayDropdown(s) : s.view = "graph"}
    \cup {t \in {resetAll(s)} : activeCount(s) > 0}
=============================================================================
