# A TLA+ model of Alatyr

Alatyr is a read-only explorer of Kubernetes network policy.  A Go server
watches a cluster with informers, periodically evaluates every policy engine
(Kubernetes NetworkPolicy, Istio AuthorizationPolicy, Calico) into one in-memory
cache, and answers HTTP requests from that cache; a React single-page UI fetches
the graph and asks follow-up questions about what the user selects.

## 1. Inventory

| Part | Source | State it keeps | Operations |
|---|---|---|---|
| Informer client | `internal/k8s/informerClient.go` | client-go stores, one per kind; nil listers when a CRD is absent | list and get per namespace, wait for first sync |
| Snapshot loop | `internal/api/cache-refresh.go`, `internal/store/buildStore.go` | `s.cache` under an RWMutex; the cache being built | RefreshAll, PopulateCache (parallel namespace fetches, engines in order, status stamping, mesh), RunCacheRefresh |
| Request handlers | `internal/api/*.go` | none besides the pointer they copied or the read lock | graph (lock-free walk), node-info, reachable, issues, mesh-status, cluster-metrics, cluster-state, manifest |
| Kubernetes engine | `internal/policy/k8spolicy` | none | policies to rules, ports, policy status |
| Istio engine | `internal/policy/istio` | none | AuthorizationPolicies split by action, rules, policy status |
| Calico engine | `internal/policy/calico` | none | decode, sort by tier and order, first match per peer, rules, status |
| Status fusion | `internal/policy/statusKeys.go` | none | combine the engines' statuses of a workload |
| Mesh | `internal/mesh/istio` | none | detection, membership, PeerAuthentication resolution, mesh issues |
| Reachability | `internal/store/reachability.go` | a memo per scan | collect the rules of a pair, decide each direction, fuse engines and mesh |
| Issues | `internal/store/buildIssues.go`, `layering.go` | a dedup set per scan | whole-cluster conflict scan |
| Graph rendering | `internal/graph` | none | assemble nodes, collapse uniform rules, render and group edges |
| Metrics | `internal/metrics` | Prometheus gauges and counters | RecordEvaluation, RecordSnapshot, per-engine results |
| CLI report | `cli` | none | build one cache, render a report |
| UI store | `ui/src/store/graphStore.ts` | graph, selection, detail, reachability, issues, filters, loading flags | user actions, asynchronous fetches and their continuations |
| Scenario links | `ui/src/store/scenario.ts`, `ui/src/components/ScenarioBar` | landed flag, active scenario | apply a landing state once the first data is in |
| Filters and toolbar | `ui/src/components/FilterPanel`, `ui/src/store/filters.ts`, `policyTableEdges.ts` | the filter sets, the search text and the display flags of the store | toggles, all/none links, reset; which nodes and rules they leave |
| Finding rows | `ui/src/data/policies.ts` | none | severity scales, folding the findings of a pair into one row |
| Graph canvas | `ui/src/components/PolicyGraph` | the cytoscape instance | elements of two display modes, arrows, coverage, marks, focus, clicks |
| Tables, drawer | `ui/src/components/TablesView`, `IssuesDrawer` | active tab, drawer flag | rows, badges, roll-up chips, cause-and-fix groups, clicks |
| Status page | `ui/src/components/ClusterStatusView`, `ui/src/store/clusterStats.ts` | none | counts, chips, drill-downs |
| Detail panel | `ui/src/components/DetailPanel` | none | the stacked views of the selection and their clicks |
| Design previews | `ui/src/components/DesignPreview` | none | mock pages |

### How the parts interact

* `main` primes the cache with one `RefreshAll`, starts `RunCacheRefresh` as a
  goroutine and then serves. `RefreshAll` builds a new `models.Cache` with
  `PopulateCache` and swaps the pointer `s.cache` under `s.mu`.
* `PopulateCache` fetches all namespaces in parallel, runs the engines one after
  the other on the result, stamps statuses, rebuilds the id index and builds the
  mesh membership. Any error abandons the new cache.
* `handleGraph` copies the pointer and walks the cache without the lock. The
  other handlers hold the read lock for their whole body. The manifest and
  cluster-state handlers ask the informer client directly.
* After a successful swap the loop recomputes the issues and rewrites the gauges;
  a separate listener serves them.
* The browser loads cluster state and graph concurrently; the graph's continuation
  starts node-info, issues, mesh-status and metrics calls. User clicks start more.
  Every continuation writes the one zustand store, in the order answers arrive.
* Every view of the browser is computed from two things: what the server answered
  (nodes, rules, findings, mesh) and what the user chose (filters, selection, view).
  Every click in any view writes the second, and thereby changes all the others.
* The engines know nothing of each other. They meet in `EvaluationResults`:
  `PoliciesCanReach` fuses their rules, `IntersectPolicyStatus` their statuses, and
  the issue scan looks for pairs on which they disagree.

### What is hard about it

* Requests overlap refresh cycles, and one of them reads without a lock.
* A cycle takes many informer calls, between which the cluster changes; any of
  them may fail after others have written to the new cache.
* UI answers arrive late, out of order or not at all, while the user moves on.
* The same filters are applied by several pieces of code, to draw, to list, to count
  and to mark, each on its own subset of the data; graph, findings and mesh may
  come from different snapshots, and the selection from an older one still.
* The verdict on a pair is decided from rules of several policies with empty ids,
  markers, carve-outs and namespace stand-ins in one bucket; the badges are
  computed from the same policies by other code.

### What makes each part correct

| Part | Correct when |
|---|---|
| Snapshot loop | what is served is whole, never written again, never older than what it replaced, and catches up with a quiet cluster |
| Handlers | an answer comes from one snapshot; nobody waits for ever |
| UI store | what is shown belongs to what is selected; every spinner ends |
| Filters and views | a count announces what a click on it shows; graph, tables, drawer and status page agree; a blocked direction is never shown as confirmed; every arrow has its ends; the panel asks one question |
| Kubernetes engine, verdicts | a verdict says what Kubernetes does with the pair; culprits, ports and badges agree with it |
| Calico engine | for every range and port a policy names, the rules say what the first matching rule does there |
| Status fusion | the fused badge claims no access that some engine denies |
| Istio engine | as for Kubernetes, against its own API |
| Mesh | the transport verdict follows the PeerAuthentication precedence |
| Issues | an issue for exactly the pairs some engine allows and the fused verdict denies |

## 2. Modules

| Module | Models | Uses |
|---|---|---|
| `CacheData` | the cache as a value: which phase of which revision is in it | |
| `SnapshotService` | abstract specification: what handlers may rely on | `CacheData` |
| `CacheRefresh` | the loop, `PopulateCache`, the lock, the handlers, the recorder | `CacheData`, implements `SnapshotService` |
| `CacheRefreshProofs`, `SnapshotProofs` | theorems about it: what is held is whole and never written; what is published, and the refinement | |
| `GraphStore` | the UI store: user actions, calls in flight, continuations, scenario landing | |
| `GraphStoreProofs` | theorems about it | |
| `Cluster` | namespaces, workloads, labels, address ranges, node ids, selectors | |
| `NetworkPolicy` | the Kubernetes engine | `Cluster` |
| `Reachability` | the verdict on a pair | `Cluster` |
| `PolicyStatus` | status fusion and badges | |
| `Calico` | the Calico engine | `Cluster` |
| `PolicyVerdicts` | a changing cluster, the Kubernetes engine's answers about it, the NetworkPolicy API as reference | the five above |
| `VerdictProofs` | theorems about it | |
| `GlobalVerdicts` | the Calico engine's and the fused answers, the GlobalNetworkPolicy API as reference | `PolicyVerdicts` |
| `GlobalProofs` | theorems about it | `VerdictProofs` |
| `Mesh` | ambient enrollment, PeerAuthentication precedence and findings, failed lists, the transport verdict | `Cluster` |
| `Issues` | the conflict scan, layering, DNS, the tunnel's port | `Reachability`, `Mesh` |
| `Findings` | the findings of a changing cluster with a mesh and failing lists | `GlobalVerdicts`, `Issues` |
| `FindingsProofs` | theorems about the mesh part of it | `VerdictProofs` |
| `IssueProofs` | theorems about conflicts and DNS | `GlobalProofs` |
| `PolicyData` | the UI's records, severity scales, findings folded into rows | |
| `Filters` | what the filters leave visible; the drop-downs, reset | `PolicyData` |
| `GraphView` | the graph canvas: elements, arrows, coverage, marks, focus, clicks; the store's selection | `Filters` |
| `Tables` | the three tabs, the roll-ups, the issues drawer | `GraphView` |
| `ClusterStatus` | the status page and its drill-downs | `Tables` |
| `Explorer` | the detail panel, and one user moving through all of it while refreshes go on | `ClusterStatus` |
| `ExplorerProofs` | theorems about it | |
| `MC*` | values for the constants | |

### CacheRefresh

`pc` is the program counter of the refresh goroutine; `nss`, `fetch`, `firstErr`,
`newCache`, `engine`, `report` are its locals and those of the fetch goroutines;
`heap` holds the cache objects and `cache` is the pointer `s.cache`; `req` and
`graphs` are the handlers. `live`, `rev` and `gnpOk` are the cluster: `WatchEvent`
changes it between any two informer calls. A cache is abstracted to the revision
each of its parts was read at, which is all the properties tell apart. One action
is one informer call or one critical section: the goroutines of `PopulateCache`
interleave call by call, and `handleGraph` walks namespace by namespace. The one
exception is `FetchLists`, the six list calls of one namespace, which are read at the
revision of the first: later ones are only newer. A handler under the read lock waits for
it, holds it, writes to its client and unlocks in steps of its own.
`Collect` forgets cache objects nobody holds.

### GraphStore

`st` is the part of the store that continuations and panels use, field by field
under its own name. `inflight` counts the outstanding calls by call and captured
arguments. `Settles(f)` ends one of them with the answer of the snapshot served
then, or with an error, and runs its whole continuation, including the calls it
starts. User actions are the store's functions as the components call them.

### NetworkPolicy, Calico, Reachability, PolicyStatus, PolicyVerdicts, GlobalVerdicts

Slices that only feed membership tests are sets; a rule carries the node it
protects and its peer instead of `SrcID`/`DstID`, which the ingress path swaps. A
CIDR is the set of address ranges in it. A policy is its own identity. Ports are
the numbered ports of the dedup key. Both directions of the code are written out
twice there and once here, with the direction as a parameter. `PolicyVerdicts`
adds `Deploy`, `Remove`, `Apply` and `Delete`, and the NetworkPolicy API
(`Selects`, `Governs`, `PeerMatches`, `Allowed`) written independently of the
engine. `Supported` is the fragment of NetworkPolicy on which the two are
compared, workload by workload: only policies of the workload's own namespace
must be in it.

A GlobalNetworkPolicy keeps its rules in array order, since their order decides.
`sortByPrecedence` is the order itself and the walk over the sorted slice is its
least element (`FirstOf`); the candidate lists per bucket are sets of policies. A
bucket is a range and a `models.Port`, which is a number and a protocol; `AllPorts` is
the zero one. A rule names ports of its source and of its destination and a protocol,
and `convertPorts` keeps of them what the code keeps: the ports of the peer, each with
the protocol. The selector parser is vendored, so a selector is what it requires and
what it forbids. `GlobalVerdicts` writes Calico's own rule independently: a packet has
a protocol, a source port and a destination port, which have the same meaning in both
directions, and meets the policies of its workload in order and the rules of each in
order (`FirstMatch`). A verdict of a bucket is compared with what happens to every
packet of its range, port and protocol (`PacketsOf`). Log rules decide nothing and are
left out of `rulesFor`. Conditions of a rule that the code does not read and the model
does not have either: `notProtocol`, ICMP and HTTP matches, and the nets and selectors of
the workload's own side; dropping them makes a rule broader than Calico's.

Four predicates of a policy name the fragments in which the engine agrees with Calico;
each clause is there because the engine departs from Calico without it. `OneTier` is
enough for the buckets: no tier and no Pass, no order equal to `MaxOrder` (which ties
with no order at all), no rules in a direction `types` leaves out, no exceptions
to an allow of everything, whose ranges get no bucket, and rules whose ports the engine
reads as they are meant (`ReadsPorts`): none of the workload's own side, and a protocol
exactly when there is a port (Calico itself requires one beside a port). `MissesNs` keeps the policy off
the namespace node. `DeniesWhole` is for the internet badge: a deny of `0.0.0.0/0`
with ports, or with rules after it, closes the whole range, whereas the badge looks at
the allow alone. `AllowsOverDeny` is the shape of policy on which a verdict on two
workloads is right: allows of ranges over one deny of everything, which comes last.

### Mesh, Issues, Findings

`Mesh` keeps the walk of `resolveMtls` as it is: `Buckets` are the policies that reach
a workload, narrowest scope first; `FirstSet` is the oldest policy that sets a
mode in the narrowest bucket that has one, for the workload's mode and again for
each port. A PeerAuthentication is a record with `created`, the rank of its
creation time; UNSET is a mode. `unreadable` are the namespaces whose list fails in
this cycle; `Fetched` says that both lists of a namespace were read, and `Unknown` is
the answer when one was not. `CanReach` is the transport's verdict on a pair.

`Issues` reads the rules of each engine in a record by engine name. `SrcID` and
`DstID` recover the ends a rule has in the code from the node it protects and its
peer. `CheckedPairs` is what the deduplicated loop over rules looks at,
`BlockedPair` the finding of one engine, `isLayeredPolicy` and `subsetAllowCidr` what
softens it; `MissingDns` and `ValidateExternalRules` are the checks of one workload
each. Node ids are tuples, so two pairs never share a key. The DNS target is
`matches[0]` of a map, hence any member of `Resolvers`.

`Findings` adds to the steps of `PolicyVerdicts` those of the mesh: `ApplyAuth`,
`DeleteAuth`, `EditAuth`, and `ListFails` and `ListRecovers` of a lister. The scan has no
state between cycles, so what it finds is an operator of the cluster
(`Engines`, `WorkloadByID`, `BuildMeshMembership`), and an action property compares
the scan before a step with the one after it. `PoliciesAlone` says where the two
properties that do not depend on the mesh are evaluated.

### PolicyData, Filters, GraphView, Tables, ClusterStatus, Explorer

`st` is what the user chose and `data` is what the server answered, field by field
under the names of the store. A React component has no state of its own here: what
it renders is an operator of `data` and `st` named after it (`WorkloadsTable`,
`buildElements`, `ClusterStatusView`), and the clicks it offers are the set of
stores one of them leads to (`NamespaceDropdown`, `TapNode`, `DrawerClicks`), which
`Click` takes as a step. So a click exists only where the component renders it. The
graph, the findings and the mesh arrive one by one (`loadGraph`, `loadIssues`,
`loadMeshStatus`), each from any snapshot; the races of the calls themselves are
the matter of `GraphStore`, where a call is a step of its own.

Lists whose order the code never uses are sets. The findings keep their positions,
since the first of a group gives the row its identity; the rows folded from them
(`mergeIssuesByPair`) are a set. Rows of two pairs differ in an end or in the type, so
only findings about one node that agree in every modelled field count once, and they do
so in each of the views compared. The search text is the set
of names that contain it. `NoNode` and `NoId` stand for `null` and the empty id, so
a blanket rule has an end that is `NoId`, as in the code. Order of rows, layout,
colours and wording are left out.

## 3. Runs

| Run | Checks |
|---|---|
| `cycles` | the loop alone: two namespaces, three revisions, two failing calls: safety and convergence |
| `service` | a request of any kind, again and again, across swaps: refinement of `SnapshotService`, no starvation of the swap, every request answered |
| `panel` | two workloads, three calls in flight, two snapshots, one failure |
| `refresh` | two loads, edges, filters and scenarios around one workload; spinners end |
| `edge_verdict` | violated: a late edge verdict is shown for another edge |
| `explorer` | every view over one store: two snapshots, two engines, four workloads, any path of clicks; 25,294 states |
| `verdicts` | three workloads in two namespaces, every pair of 125 NetworkPolicies and 85 GlobalNetworkPolicies; 162,416 states |
| `governed` | violated: a policy that names absent peers counts as no policy |
| `first_match` | violated: a synthesized default deny booked on one policy overrules another one's allow |
| `findings` | four workloads in three namespaces in and out of the mesh, two policies or two PeerAuthentications at a time, one list failing; 40,320 states |
| `losers` | violated: below an UNSET oldest policy, a policy a finding calls ignored decides a workload's mode |
| `hbone` | violated: a missing tunnel port is reported on the peer and not on the workload the policy protects |

The properties of `verdicts`, each against the API and not against the code:
`PermitsAreReal` and `BlocksAreReal` (the Kubernetes engine, direction by
direction), `ReportedPortsAreOpen` and `CulpritsIsolate` (what a verdict says
besides yes or no),
`ForeignPolicyIsInert` and `AllowsAreAdditive` (what one more policy may change),
`BucketsAreFirstMatch` (Calico's buckets, several policies at a time),
`VerdictIsReal` (both engines fused, both
ends of a pair) and `BadgesMatchVerdicts` (the fused statuses).

The properties of `findings`: `ConflictsAreTheDisagreements` (a finding against an
engine for exactly the pairs a policy names as allowed and that engine's
policies, read with the two APIs, close) and `DnsFindingsAreReal` (likewise for port
53 of the resolver, whichever one the map yields); `EffectiveSourceDecides` and
`RelaxingTheCulpritUnblocks` (what a workload's mode, or a mesh conflict, is blamed
on is what decides it: taking away another policy changes no mode, relaxing the
culprit ends the conflict; deleting an UNSET oldest policy of a scope is left out, since
the documentation and the code disagree about it, which `losers` shows); `FailedReadInventsNothing` (a failed list blocks no pair
the policies leave open).

The properties of `explorer`: `PanelAsksOneQuestion` and `DrawnEdgesHaveEnds` (no
path of clicks leads to a store the panel or cytoscape cannot take),
`ArrowSpeaksForItsRules`, `BlockedSideIsNotConfirmed` and `ClusterScopedAreListed`
(what is drawn or listed does not misstate or hide a rule), and four that compare
views computed by different code: `CountsAnnounceRows` (badges and chips against
rows), `MarksAddUpToDrawer` (graph against drawer), `HeadlineMatchesDrawer` (status
page against drawer) and `DrillDownShowsCounted` (status page against what its
clicks lead to). `ResetShowsEverything` is about the reset button.

**Bounds.** `cycles` needs two namespaces so that one fetch can fail after the
other wrote, three revisions so that the parts of two successive caches all
differ, and two failures, a cycle ending at its first, so that one failed cycle can follow another. `service` has one
request, repeated, and three cache objects: one held, one served, one being built; handlers share
nothing but the lock and the pointer, and a second one only queues beside the first. `panel`
has two nodes, since every check is "same node or not", and three calls, enough
for both directions of a pair and a node-info call; `refresh` trades nodes for
loads. Its findings are about one workload (`OneEnd`), those of `panel` about two. `verdicts` has two policies at a time: each rule of precedence in
`decideDirectionVerdict` compares two kinds of match, and each kind is produced by
one policy; precedence of GlobalNetworkPolicies is a matter of two as well. Its
policies take every peer form, markers of both kinds, excepts,
ports, and forms outside the fragment: of the ports of a GlobalNetworkPolicy those of
the peer and of the workload itself, alone and together, a protocol without a port and a
port without a protocol. `findings` has two PeerAuthentications, since a
scope, a mode and an age are each compared pairwise, and combines them with at most one
other policy (`Fits`), which is enough for a pair some rule allows: a mesh conflict is
an allow and a mode. Its PeerAuthentications are of the mesh, of a namespace (two of
them), of a workload and of the root namespace with a selector; one sets a port. Its workloads are enrolled by namespace,
by label, not at all, and one is a component of Istio itself. `explorer` bounds no path: it bounds how far the store may be from
its initial value at any time (`MaxDeviations`, in chips and flags, with one each
for the selection, for the pins and for the place). Two is enough for a filter and a
selection, two filters, or a selection with pins, and the views apply at most two of the filters to one
and the same thing. Of the node types, status keys, finding types and mesh tags the user
clicks one each (`Clicks`), since the code treats the members of a set alike; the
tapped nodes (`Tapped`) are a workload and a namespace. The two snapshots differ by
a workload that goes, with findings that still name it, and one that comes in a
namespace the store has not listed. The findings take every tier, the pair two engines report
on in both orders of blame, a pair of a workload with itself, one node, and none.
`MaxRev`, `MaxFaults`, `MaxInFlight`, `MaxLoads`, `MaxPolicies`, `MaxAuths` and `MaxDeviations`
name the bounds.

**Symmetry** is used for nodes in `panel`, which checks invariants only.

**Fairness.** In `cycles` and `service`: weak fairness for the refresh goroutine,
the ticker and what a handler does on its own, which the Go scheduler gives, and strong
fairness for the read lock, because `RWMutex.Unlock` admits the readers that queued
while a writer held it before the next writer can lock. A handler's write to its client
(`c.JSON`) has no fairness: the server sets no write timeout (`main.go:209`), and the
handlers other than `handleGraph` hold the read lock by `defer` until the write returns.
`SwapNotStarved`, `RequestsAnswered` and `CacheConverges` therefore say what the code
promises if clients read their answers (`ClientsRead`); without that hypothesis one
stalled client refutes all three (section 5). A request counts as
unanswered from its arrival, also while it waits for the lock. In `refresh`: weak
fairness for each call, because a `fetch` ends with an answer or an error. Nothing makes
the user act, the cluster change or a request arrive.

**Deadlock** is checked in the runs of `MCPolicyVerdicts`, `MCFindings` and `MCExplorer`. The runs
of the other two specifications say `CHECK_DEADLOCK FALSE`, because those may stop: the loop
exits when `stopCh` closes, and the UI has nothing to do once its bounded loads and
failures are used. That nobody is
stuck before that is what the liveness properties say.

## 4. Proofs

Every safety property and every action property that a passing run checks is also a
theorem, for every value of the constants under the named assumptions below, and so
is the refinement of `SnapshotService`, a safety specification. The runs say that the
properties hold where the interesting cases happen; the theorems that the bounds hid
nothing.

**Assumptions.** They say what the constants are, and TLC evaluates them on every run:

* `ConstantsAssumption` (`CacheRefresh`) and `StoreAssumption` (`GraphStore`): bounds are
  numbers, and the sentinels are not among the values they stand beside (`NoCache` is no
  object and no cache, `None` no node, edge or verdict).
* `ClusterAssumption`: a workload has a namespace and an address in the pod CIDR, a
  namespace carries its name label, a range has addresses.
* `NetPolAssumption`: what the API server admits. A peer is an `ipBlock` or selectors, not
  both and not neither; a policy names ranges of `Cidrs`; an except lies strictly
  within its block.
* `CalicoAssumption`: names and orders are numbers, a tier is one of the tiers, rules are
  sequences of `PolicyRules` (an array of the CRD): a port is a number above zero, a
  protocol one of `Protocols` or none.
* `MeshAssumption`: PeerAuthentications are records of a namespace, a name, a creation
  time, a selector or none, a mode and modes per port; `Nil` is none of them.
  `FindingsAssumption`: the resolver's namespace and labels exist.
* `WorldAssumption` (`Explorer`): an answer is finite and has nodes; a node has an id, a
  known type and known statuses, and a label that is one of the cluster's names; a
  finding is about a pair, a node or nothing; its severity, if it has one, is that of
  its type, because the server stamps it from the table the browser has too
  (`buildIssues.go:27-30`, `models/issues.go:30`); a mesh verdict is one of four.
  `FilterAssumption`: a search text picks names.

**CacheRefreshProofs**, `TypeCorrect`, `PublishedNeverWritten`, `ServedWhole`. The types
are not inductive alone: a step that writes to `heap[newCache]` needs `newCache` to be
an object. `Isolated` says that while a cache is being built it is neither served nor
held by a request; `TInv == TypeOK /\ Isolated` is inductive, and gives that no step
writes to a held cache. For wholeness, `Progress` says which parts the cache under
construction has at each `pc`, and `HeldWhole` extends the claim to caches requests
still hold; `IInv == TInv /\ Progress /\ HeldWhole`.

**SnapshotProofs**, `GaugesMatch`, `OneSnapshot`, `MovesForward`, `ImplementsService`. `PInv`
adds five parts to `IInv`. `Forward` is the one that takes thought: the served cache was
finished at a revision no later than the first read of the cycle that is running, which
must be said of the goroutines that wait for their first list as much as of the cache
they write to. `FetchScope` and `Listed` say that the cache under construction has the
namespaces listed at the start of the cycle and no others, `GraphPart` that what a walk
has collected is part of the cache it holds, `LockedSees` that under the read lock there
is one cache, `GaugesFollow` that the gauges are those of the served cache except while
a swap is recorded. For the refinement, initial states map to initial states, a swap to a
publication, an answer to an answer, and every other step to a stutter.

**GraphStoreProofs**, `StoreTypeCorrect`, `NodeInfoMatchesSelection`, `VerdictsMatchPair`,
`SettledMeansComplete`. `Good(s)` is a predicate of the store; one lemma per write of the
store and per continuation shows that it is kept. `CallsResolved` (an edge verdict is
only asked between two known nodes) is needed for the type of the edge continuation.
"Nothing on screen is still loading" is not inductive; `Awaited` is: every spinner has a
call outstanding whose continuation will not bail and will end it. A bail is then
harmless, since it drops the answer of another call than the one waited for.

**VerdictProofs**, `PermitsReal`, `BlocksReal`, `CulpritsReal`, `PortsReal`, `ForeignInert`,
`Additive`. The first four are about one state, so the invariant (`Deployed`) only says
what is deployed and applied, and the work is in lemmas about the operators: which
rules the engine files for a workload (`RulesAt`), how the verdict follows from the four
kinds of match, and that a rule names a peer exactly when the policy does (`Selects`,
`NamesPeer`, the ranges of an endpoint). They are stated for any rules that have the shape
`ShapeOf` gives the engine's, so that `GlobalProofs` uses them again. The last two
compare two states and need no invariant: what a policy that stays is expanded to
depends on the workloads alone. `PortsReal` includes the directions some policy does not
enforce.

**GlobalProofs**, `BucketsResolve`, `VerdictReal`, `BadgesReal`. `GInv` says that the applied
GlobalNetworkPolicies are finitely many and that a name is taken once, which makes the
precedence a strict order with a first policy in every set (`FirstOf` picks it). The
candidates of a bucket then have one winner; its edge survives the removal of restated
edges or is implied by a wider one; and every packet of the bucket's port, to an address
typical of it, meets that same policy and rule first (`BucketsResolve`, any number of
policies and rules). `PacketOfPort` is where the two readings of ports meet: what
`convertPorts` keeps, and `portsCover` tests, against the packet's own ports. For a verdict on two workloads one policy at a time is considered: of a
policy in the shape of `AllowsOverDeny` the rules at the workload are one wide rule and
the allows of ranges (`RulesOfLone`), and the verdict on rules without exceptions is
their disjunction. The badges come from another pass: each engine's digest promises
that its policies open a range or close nothing, fusion keeps only what both promise,
and the verdicts of `VerdictProofs` and of the lone policy keep the promise.

**FindingsProofs**, `FailedReadIsHarmless`, `OneAuthor`, `CulpritIsEnough`. The code picks the
oldest policy of a scope; in the model it is a CHOOSE, and the proofs need that there is
exactly one. That is `MInv`: a name is taken once in a namespace, so creation time and
name order the policies of a scope. `Leads` says which scope decides; taking away a policy
that is neither the one named nor the UNSET oldest of its scope leaves it in the lead.

**IssueProofs**, `ConflictsReal`, `DnsReal`. The ends are what `GlobalProofs` shows; what is
left is that the deduplicated loop looks at every pair a rule names and no other, that a
finding is of one pair and one engine, and for DNS which workloads a blanket rule
passes over.

**ExplorerProofs**, eleven theorems. Every click rewrites a handful of fields, so
`IInv == StoreOK(st) /\ DataOK(data)` says of each field where it stays (`FieldOK`), of
selection and pins together that they ask one question (`PanelOK`), and of the data that
nodes have ids and findings are whole ones of some snapshot. The data part is what makes
the panel part inductive: a click on a row pins the ends of a finding, which must be
nodes (`Askable`), and a finding whose ends coincide is the only way to a target that is
its own source. The rest holds of every store and all data with those properties:

* `ArrowsHaveEnds`, `ArrowsAreHonest`: both modes draw the ends they keep, and the rules of
  a bundle agree on what the arrow says because that is the bundle's key.
* `BlockedNotConfirmed`: a blocking reason survives the folding of its group whatever
  its place in it (`BlockingReasonStays`, by the least element of a set of positions).
* `HeadlineIsDrawers`, `CountsAreRows`: a group is taken or left as a whole, because its
  key holds the namespaces, and the type, that decide; so narrowing commutes with folding
  (`WholeGroups`). A workload or policy row carries its key, so rows and keys are
  equally many (`RowsAreKeys`, a bijection); what one engine's filter leaves is the
  engine's share of what all engines' leaves (`EngineCandidates`).
* `MarksAreRows`: every row has one mark, and the sum over marks of the rows at each is
  the number of rows (`MarksShareRows`). `MapThenSumSet` picks a recursive function with
  CHOOSE; the proof gives one explicitly and shows that two would first differ at some
  smallest set (`OneSum`).
* `DrillDownsAgree`: the click changes one filter, which narrows to what the row counted.
* `ScopedAreListed`: widening the namespaces twice is widening them once.
* `ResetIsComplete`: reset tells a narrowed filter by its size, so the argument is about
  finite sets: a part that is not smaller than the whole is the whole.

**Only model-checked.** The four liveness properties (`CacheConverges`,
`SwapNotStarved`, `RequestsAnswered`, `SpinnersEnd`): fairness and ENABLED are out of the
prover's reach. The five violated properties are counterexamples, which TLC finds.

## 5. Where code and documentation disagree

Five disagreements have a run (`findings` in `PROJECT.json`). These were seen while
modelling and have none:

* `buildStore.go:95-97` says the report has an entry for every registered source
  "whether it succeeded or failed"; the first failing engine ends the list
  (`:190`).
* The handlers other than `handleGraph` write their answer under the read lock, and no
  write times out, so one client that stops reading holds up the swap and, behind the
  waiting writer, every later reader (`node-data.go:29-39`, `main.go:209`).
* `FEATURES.md:66-70` says a selector with only `matchExpressions` selects nothing.
  True of the rules, but `LabelsMatch` of an empty label set holds, so
  `getNodePolicies` counts the policy for every workload and the badges show locks
  that no rule has; as a `namespaceSelector` it matches every namespace.
* The comment at `reachability.go:301-303` says that a missing namespace is tolerated
  because an "empty matcher just never matches". An external peer has the empty
  namespace id (`:77`), which equals the empty peer of an unenforced marker, so the
  closed direction is reported as permitted.
* `README.md:245` calls air-gapped a workload cut off both ways. An egress rule `[{}]`
  names no peer, and `buildStatusKeys.go:119` only looks for escapes among the peers, so a
  workload whose egress is open gets the badge.
* A PeerAuthentication with a selector in the root namespace is in the list of the namespace
  and in that of the root, so for a workload there `resolveMtls` appends it twice
  (`peerauth.go:46-49`, `:63-65`) and it is reported as ignored in favour of itself. The
  comment at `:203-205` promises no finding "when there's no conflict". `losers` leaves
  this policy out (`MCScopedPeerAuths`), so that its trace is about UNSET alone.
* The comment at `buildMeshMembership.go:88` says no workload policy can match the empty
  labels a namespace node is resolved with; a selector without labels does.
* The check of the tunnel port skips a direction that is open to everyone, and takes
  the markers of deny-all and unenforced directions, whose peer is empty too, for such a rule.
  Of several rules for one peer, their order decides whether it is flagged.
* A coarse block is softened to partial access by an allow between the same two
  namespaces. Ranges have no namespace, so for a block of a namespace and a range an
  allow to any other range will do.
* The key of a pair joins its ids with a dash (`buildIssues.go:193`), which ids
  contain: two pairs may share a key, and the second is not looked at.
* Rules in a direction that `policyTypes` leaves out are dead in Kubernetes; the
  engine emits them (`expandIngressRules` looks at `policyTypes` only when there
  are no rules).
* `buildStatusKeys.go:78` says namespace nodes only match catch-all selectors, but
  the label index holds the namespace node, so a pod selector satisfied by the
  Namespace object's labels selects the whole namespace in `getSourceNodes`.
* The comment at `reachability.go:218` says an except only removes peers from the
  allow it sits in. `anyCarveOutTrims` matches by policy, ports and containment,
  so it also trims a second `ipBlock` of the policy that holds the range.
* A range that holds the service CIDR and not the pod CIDR counts as covering every
  workload (`cidrNodeCoversPeer`).
* The ports of an allow that a carve-out trims stay in the verdict's port list, and
  all named ports share the dedup key of port 0, so only one of them is listed.
* `buildStore.go:119-121` says the elapsed time is stamped on every return path so
  that the recorder gets it. The deferred assignment writes to a local after the
  unnamed result was copied, so `RecordEvaluation` always sees 0 (in `CacheRefresh`,
  `Returned` copies the report before the deferred step).
* `calico/utils.go:28` compares tiers by name, and a Pass only ends its own policy
  (`buildIndex.go:109`), so the next policy of the same tier decides; Calico orders
  tiers by their `order` and a Pass goes on with the next tier.
* `calico/buildIndex.go:42` says namespace nodes only match catch-all selectors; they
  are matched with the empty label set, which `!has(x)` satisfies too, so such a
  policy also lands on the workloads it does not select.
* Calico rules in a direction that `types` leaves out are read all the same.
* `calico/decode.go:143-145` says "fail loud rather than silently broaden the rule to
  all-ports", and `:14-18` that "a policy we can't fully model must not silently
  under-report". Only the ports of the peer are read (`:85-90`), and a protocol only
  with one (`:147`): an ingress rule with `destination.ports`, the usual way to write
  one, or with a protocol alone, becomes a rule for all traffic.
* A rule that denies `0.0.0.0/0` has no peer whatever its ports (`calico/buildRules.go`), so a
  deny of one port, or one that an allow follows, closes the range altogether; the
  digest looks for an allow of the range, and the workload is badged open to the
  internet (`DeniesWhole` leaves these policies out).
* The ranges an allow of everything makes exceptions of get no bucket, so nothing says
  that they are closed (`OneTier` leaves these out).
* DNS findings take the ports of the allow a carve-out trims for open, so a workload
  that a carve-out cuts off from port 53 has no finding. A Namespace whose own labels
  are the resolver's may be taken for the resolver (`matches[0]` of the label index).
* A port-scoped allow of `0.0.0.0/0` has no peer and is not direction-wide, so next
  to the default deny the pair is reported blocked although the port is open; an
  allow of a range below a wider deny of another policy is overruled by it.
* The holes `notNets` cuts are no buckets: traffic into one is judged by the rule
  for the wider range.
* In the wide layout `pinReachabilitySource` leaves `reachabilityLoading` set while
  its call is dropped (`DetailPanel/index.tsx:31-33`).
* The landing scenario of a link is applied when the graph is in; if the answer to
  the cluster state comes later, its continuation selects every namespace and the
  scenario's namespaces are gone (`graphStore.ts:176`). `GraphStore` has these steps.
* Reset tells a narrowed filter by the size of the set (`use-filter-reset.ts:27`). A
  selected namespace the store does not list, which a click on a status row of a later
  snapshot selects, makes up for one that is missing, and reset leaves both.
* A tap on a node that is lit as a neighbour clears the selection instead of moving it
  (`PolicyGraph/index.tsx:373` reads a class that neighbours have too); the comment
  speaks of the same node clicked twice.
* Rows are folded by namespace and label, so a Deployment and a CronJob of one name
  share a row, and the panel of the second lists no finding (`policies.ts:426`).
* A DNS finding has a permitted direction and culprits; its row shows the direction as
  confirmed and the culprits nowhere.
* The header of a bundle shows the action of its first rule, while the list behind it
  may hold allow and deny rules (`edge-composites.tsx:157`).
* The issues badge of the tables counts findings, the table rows. `failed to fetch` has
  no roll-up chip. A carve-out has no coverage class, so the classes do not add up.
* The sort key of a workload adds 1000 per warning, so 1001 warnings outrank one
  blocking finding.
* Coverage is computed from the filtered rules: filtering an engine away paints its
  workloads as uncovered and lists them as exposed. The aggregated mode ignores the
  filters on rules altogether.
* A mark of a pair whose arrow is not drawn is not drawn either.
* Retry, or opening another manifest, does not cancel the call before it, and the later
  answer is shown (`ManifestModal.tsx:170`).
* Between a refreshed graph and the end of its issue scan the old issues are shown
  on the new graph, although `graphStore.ts:199-201` says never against stale data.

## 6. Not modelled

The informer client and the demo client are seen through what their callers can
observe. Node info and the CLI report format what others decide. Of the detail
panel only the stack of views, their findings and their clicks are modelled; the
bodies of the reachability, workload and edge views print one server answer, and
the manifest drawer shows YAML. The design previews are mock pages. Of the tables and
the canvas, sorting, layout, colours and the placing of overlays are left out. The
Calico selector parser is vendored. The Istio engine is
next on the plan; the scan and the verdicts take the Kubernetes and the Calico
engine, and the UI modules take the server's answers as given. `components` in `PROJECT.json` gives the
reason for each part.

Of the mesh: the counters, the single-workload look-ups of the detail panel
(`Membership`, `ResolveMtls`), `IsEndpointsReachable`, which joins the policy and
the mesh verdict for display, and the memo of the prober, which only saves time. Of
the issue scan: messages and the lists of allowing policies.

## 7. Plan

In this order:

1. *Done.* Snapshot loop and handlers, with their abstract specification.
2. *Done.* UI store; filters and views over it, with their proofs.
3. *Done.* Kubernetes engine, verdicts and badges against the NetworkPolicy API.
4. *Done.* Calico engine, fused verdicts and fused badges against both APIs.
   Next, `AuthorizationPolicy` (Istio): the shape table of `FEATURES.md` §2, as the
   third engine of `GlobalVerdicts`.
5. *Done.* `Mesh`: membership, PeerAuthentication precedence, the transport verdict.
   Next, `IsEndpointsReachable`.
6. *Done.* `Issues` and `Findings`: the conflict scan against the APIs' disagreements.
7. `WorkloadIndex`: which pods and controllers become nodes; graph rendering:
   collapsing uniform rules loses no edge and invents none.
8. Recorder: gauges reset and refilled while scraped; per-engine series.
9. *Done.* Theorems: every safety and every action property of the passing runs, and
   the refinement of `SnapshotService`. Next, verdicts on pairs under several
   GlobalNetworkPolicies, as the buckets have them already, and an abstract
   specification of the panel for `GraphStore`.
