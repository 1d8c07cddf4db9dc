-------------------------------- MODULE Mesh --------------------------------
(***************************************************************************)
(* Istio ambient mesh (internal/mesh/istio): who takes part, which          *)
(* PeerAuthentication decides a workload's mTLS mode, what is wrong with     *)
(* the policies, and whether the transport lets one workload reach another. *)
(*                                                                         *)
(* A PeerAuthentication is                                                 *)
(*   [namespace, name, created, selector, mode, ports]                      *)
(* with Nil for no selector and ports a set of [port, mode].  created is    *)
(* the rank of its creation time.                                          *)
(***************************************************************************)
EXTENDS Cluster, Naturals, FiniteSets

CONSTANTS
    RootNs,             \* istio-system
    IngressNs,          \* istio-ingress
    AmbientLabel,       \* istio.io/dataplane-mode=ambient
    SkipLabel,          \* istio.io/dataplane-mode=none
    ComponentLabels,    \* system namespace -> the labels of Istio's own pods there
    PeerAuths           \* every PeerAuthentication that may be applied

VARIABLES
    pas,                \* the PeerAuthentications in the cluster now
    unreadable          \* the namespaces whose PeerAuthentications cannot be listed

Modes == {"unset", "disable", "permissive", "strict"}

ASSUME MeshAssumption ==
    /\ \A l \in {RootNs, IngressNs} : l \in DOMAIN ComponentLabels
    /\ {AmbientLabel, SkipLabel} \subseteq Labels
    /\ PeerAuths \subseteq [namespace : Namespaces, name : Nat, created : Nat,
                            selector : Selectors \cup {Nil}, mode : Modes,
                            ports : SUBSET [port : Nat \ {0}, mode : Modes]]
    /\ Nil \notin PeerAuths

(***************************************************************************)
(* The walk: workload, namespace, mesh.                                    *)
(***************************************************************************)
Older(p, q) == p.created < q.created \/ (p.created = q.created /\ p.name < q.name)

Oldest(bucket) == CHOOSE p \in bucket : \A q \in bucket \ {p} : Older(p, q)

nsScopedPAs(n) == {p \in pas : p.namespace = n /\ p.selector = Nil}

\* A policy of the root namespace with a selector is one of that namespace.
workloadPAs(labels, n) ==
    {p \in pas : p.namespace = n /\ p.selector # Nil /\ LabelsMatch(p.selector, labels)}

\* The policies that reach a workload, narrowest scope first.
Buckets(labels, n) == <<workloadPAs(labels, n), nsScopedPAs(n), nsScopedPAs(RootNs)>>

\* The oldest policy that sets something by mode, in the narrowest scope that has one.
FirstSet(buckets, mode) ==
    LET Set(i)  == {p \in buckets[i] : mode[p] # "unset"}
        scopes  == {i \in DOMAIN buckets : Set(i) # {}}
    IN  IF scopes = {} THEN Nil
        ELSE Oldest(Set(CHOOSE i \in scopes : \A j \in scopes : i <= j))

pickVerdict(buckets) == FirstSet(buckets, [p \in PeerAuths |-> p.mode])

\* What each policy says of one port.
PortMode(port) ==
    [p \in PeerAuths |->
        IF \E o \in p.ports : o.port = port
        THEN (CHOOSE o \in p.ports : o.port = port).mode ELSE "unset"]

resolvePortOverrides(buckets) ==
    LET ports == {o.port : o \in UNION {p.ports : p \in UNION {buckets[i] : i \in DOMAIN buckets}}}
        Winner(port) == FirstSet(buckets, PortMode(port))
    IN  {[port |-> port, mode |-> PortMode(port)[Winner(port)]] :
            port \in {q \in ports : Winner(q) # Nil}}

\* Mutant: the strictest mode wins, the first policy is named.
resolveMtlsStrictest(labels, n) ==
    LET buckets   == Buckets(labels, n)
        effective == pickVerdict(buckets)
        strict    == \E p \in UNION {buckets[i] : i \in DOMAIN buckets} : p.mode = "strict"
    IN  [verdict |-> IF strict THEN "strict" ELSE IF effective = Nil THEN "permissive" ELSE effective.mode,
         effective |-> effective, overrides |-> resolvePortOverrides(buckets)]

\* Mutant: the first policy that sets a mode gives it, the oldest one of its scope
\* is named.
resolveMtlsNamesOldest(labels, n) ==
    LET buckets   == Buckets(labels, n)
        effective == pickVerdict(buckets)
        scopes    == {i \in DOMAIN buckets : effective \in buckets[i]}
    IN  [verdict |-> IF effective = Nil THEN "permissive" ELSE effective.mode,
         effective |-> IF effective = Nil THEN Nil
                       ELSE Oldest(buckets[CHOOSE i \in scopes : \A j \in scopes : i <= j]),
         overrides |-> resolvePortOverrides(buckets)]

\* The mode of a workload and the policy it comes from; PERMISSIVE is the
\* default of an installation.
resolveMtls(labels, n) ==
    LET buckets   == Buckets(labels, n)
        effective == pickVerdict(buckets)
    IN  [verdict |-> IF effective = Nil THEN "permissive" ELSE effective.mode,
         effective |-> effective, overrides |-> resolvePortOverrides(buckets)]

Unknown == [verdict |-> "unknown", effective |-> Nil, overrides |-> {}]

(***************************************************************************)
(* What is wrong with the policies that reach a workload.                  *)
(***************************************************************************)

\* For a workload of the root namespace the lister's two answers are the same
\* list, so a selecting policy is counted twice.
dupDetail(bucket, twice) ==
    IF Cardinality(bucket) < 2 /\ ~(twice /\ bucket # {}) THEN {}
    ELSE {[kind |-> "duplicate at scope", winner |-> {Oldest(bucket)},
           losers |-> IF twice THEN bucket ELSE bucket \ {Oldest(bucket)}]}

hygieneIssues(labels, n) ==
    LET buckets == Buckets(labels, n)
        All     == UNION {buckets[i] : i \in DOMAIN buckets}
        Note(kind, ps) == [kind |-> kind, winner |-> ps, losers |-> {}]
    IN  {Note("port level without selector", {p}) : p \in {q \in nsScopedPAs(n) : q.ports # {}}}
        \cup {Note("root selector ignored", {p}) :
                 p \in {q \in pas : q.namespace = RootNs /\ q.selector # Nil}}
        \cup dupDetail(buckets[1], n = RootNs)
        \cup dupDetail(buckets[2], FALSE) \cup dupDetail(buckets[3], FALSE)
        \cup (IF pickVerdict(buckets) = Nil /\ All # {} THEN {Note("all unset", All)} ELSE {})

(***************************************************************************)
(* Membership, resolved for every node while the cache is populated.       *)
(***************************************************************************)
nsEnrolled(n) == AmbientLabel \in NsLabels[n] \/ n \in {RootNs, IngressNs}

isIstioComponent(w) ==
    NsOf[w] \in {RootNs, IngressNs} /\ ComponentLabels[NsOf[w]] \cap PodLabels[w] # {}

optedOut(w) == ~isIstioComponent(w) /\ SkipLabel \in PodLabels[w]

enrolled(w) == ~optedOut(w) /\ (nsEnrolled(NsOf[w]) \/ AmbientLabel \in PodLabels[w])

Fetched(n) == n \notin unreadable /\ RootNs \notin unreadable

NotInMesh == [inMesh |-> FALSE, mtls |-> Nil]

\* Mutant: a list that could not be read is an empty one.
MtlsOfReadable(labels, n) ==
    LET buckets   == [i \in 1..3 |-> {p \in Buckets(labels, n)[i] : p.namespace \notin unreadable}]
        effective == pickVerdict(buckets)
    IN  [verdict |-> IF effective = Nil THEN "permissive" ELSE effective.mode,
         effective |-> effective, overrides |-> resolvePortOverrides(buckets)]

MtlsOf(labels, n) == IF Fetched(n) THEN resolveMtls(labels, n) ELSE Unknown

\* A namespace node has the mode of a workload without labels.
Member(id) ==
    LET n == NsIdOf(id)[2] IN
    IF NodeType(id) = "namespace"
    THEN IF nsEnrolled(n) THEN [inMesh |-> TRUE, mtls |-> MtlsOf({}, n)] ELSE NotInMesh
    ELSE IF enrolled(id[2]) THEN [inMesh |-> TRUE, mtls |-> MtlsOf(PodLabels[id[2]], n)]
         ELSE NotInMesh

BuildMeshMembership == [id \in IndexedNodes |-> Member(id)]

\* The findings of the walk, by workload, and of the lists that failed.
BuildMeshIssues ==
    LET members == {id \in IndexedNodes : NodeType(id) = "workload" /\ enrolled(id[2])
                                          /\ Fetched(NsOf[id[2]])}
    IN  UNION {{[type |-> "mesh policy", node |-> id, note |-> h] :
                   h \in hygieneIssues(PodLabels[id[2]], NsOf[id[2]])} : id \in members}
        \cup {[type |-> "failed to fetch", node |-> NsId(n), note |-> Nil] : n \in unreadable}

(***************************************************************************)
(* The transport's answer on a pair.  port 0 asks for no port.             *)
(***************************************************************************)
Membership(mesh, id) == IF id \in DOMAIN mesh THEN mesh[id] ELSE NotInMesh

DestinationMode(dst, port) ==
    LET named == {o \in dst.mtls.overrides : port # 0 /\ o.port = port} IN
    IF named = {} THEN dst.mtls.verdict ELSE (CHOOSE o \in named : TRUE).mode

CanReach(src, dst, port) ==
    LET strict == dst.inMesh /\ dst.mtls # Nil /\ DestinationMode(dst, port) = "strict"
        speaks == src.inMesh /\ ~(src.mtls # Nil /\ src.mtls.verdict = "disable")
    IN  [verdict |-> IF strict /\ ~speaks THEN "deny" ELSE "allow",
         effective |-> IF strict /\ ~speaks THEN dst.mtls.effective ELSE Nil]

MeshReachability(mesh, src, dst) == CanReach(Membership(mesh, src), Membership(mesh, dst), 0)

\* Who speaks HBONE, by the labels alone.
inAmbientMesh(podLabels, nsLabels) ==
    IF {AmbientLabel, SkipLabel} \cap podLabels # {} THEN AmbientLabel \in podLabels
    ELSE AmbientLabel \in nsLabels

participatesInMesh(id) ==
    LET n == NsIdOf(id)[2]
    IN  n \in {RootNs, IngressNs} \/ inAmbientMesh(LabelsOf(id), NsLabels[n])
=============================================================================
