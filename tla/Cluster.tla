------------------------------ MODULE Cluster ------------------------------
(***************************************************************************)
(* What every policy engine and the reachability questions are given: the  *)
(* namespaces, the workloads that run, their labels, and the node ids the  *)
(* server makes of them (internal/graph/buildNodes.go, models/node.go,     *)
(* utils/labels.go, policy/networkPolicyHelpers.go).                       *)
(*                                                                         *)
(* A label is one key=value pair.  A CIDR is the set of addresses it holds, *)
(* at the granularity of AddrsOf: the address ranges no policy splits.     *)
(***************************************************************************)
CONSTANTS
    Namespaces,     \* every namespace of the cluster
    Workloads,      \* every workload that may run
    NsOf,           \* workload -> its namespace
    AddrOf,         \* workload -> the address its pods have
    Labels,         \* key=value pairs
    PodLabels,      \* workload -> labels of its pod template
    NsLabels,       \* namespace -> labels of the Namespace object
    NameLabel,      \* namespace -> its kubernetes.io/metadata.name label
    Cidrs,          \* address ranges policies name
    AddrsOf,        \* range -> the addresses in it
    WanCidr,        \* 0.0.0.0/0
    PodCidr,        \* podCIDR of the configuration
    SvcCidr,        \* svcCIDR of the configuration
    Nil             \* a nil pointer in a policy

VARIABLE live       \* the workloads that run now

Selectors == [labels : SUBSET Labels, exprs : BOOLEAN]

ASSUME ClusterAssumption ==
    /\ NsOf \in [Workloads -> Namespaces]
    /\ PodLabels \in [Workloads -> SUBSET Labels]
    /\ NsLabels \in [Namespaces -> SUBSET Labels]
    /\ \A n \in Namespaces : NameLabel[n] \in NsLabels[n]
    /\ {WanCidr, PodCidr, SvcCidr} \subseteq Cidrs
    /\ \A c \in Cidrs : AddrsOf[c] # {} /\ AddrsOf[c] \subseteq AddrsOf[WanCidr]
    /\ \A w \in Workloads : AddrOf[w] \in AddrsOf[PodCidr]
    /\ Nil \notin Selectors

(***************************************************************************)
(* Node ids.  UIDs, "ns-" names and "cidr:" names never collide            *)
(* (models/node.go), which the tag of the pair stands for.  Empty is the    *)
(* empty string: the peer of a rule that names nobody.                     *)
(***************************************************************************)
Empty == <<"none", Nil>>
WorkloadId(w) == <<"workload", w>>
NsId(n) == <<"namespace", n>>
CidrId(c) == <<"cidr", c>>

NodeType(id) == id[1]

LabelsOf(id) == IF NodeType(id) = "namespace" THEN NsLabels[id[2]] ELSE PodLabels[id[2]]

\* The nodes of one namespace: its running workloads and the namespace node.
NsWorkloads(n) == {WorkloadId(w) : w \in {v \in live : NsOf[v] = n}} \cup {NsId(n)}

IndexedNodes == UNION {NsWorkloads(n) : n \in Namespaces}

\* The namespace id a handler finds for a node: external nodes have none.
NsIdOf(id) ==
    CASE NodeType(id) = "workload"  -> NsId(NsOf[id[2]])
      [] NodeType(id) = "namespace" -> id
      [] OTHER                      -> Empty

(***************************************************************************)
(* Selectors.  exprs says that matchExpressions is not empty; the code      *)
(* counts expressions and never evaluates them.                            *)
(***************************************************************************)
isCatchAll(selector) == selector.labels = {} /\ ~selector.exprs

LabelsMatch(selector, labels) == selector.labels \subseteq labels

IndexLabelMatch(selector, n) ==
    {id \in NsWorkloads(n) : selector.labels # {} /\ LabelsMatch(selector, LabelsOf(id))}

(***************************************************************************)
(* Address ranges.                                                         *)
(***************************************************************************)
CidrContains(outer, inner) == AddrsOf[inner] \subseteq AddrsOf[outer]

CidrType(c) ==
    CASE CidrContains(c, WanCidr) -> "wan"
      [] CidrContains(c, PodCidr) /\ ~CidrContains(c, WanCidr) -> "pod"
      [] CidrContains(c, SvcCidr) /\ ~CidrContains(c, PodCidr) -> "svc"
      [] OTHER -> "lan"
============================================================================
