------------------------------ MODULE Findings ------------------------------
(***************************************************************************)
(* The findings of a cluster whose workloads, policies and                  *)
(* PeerAuthentications come and go and whose lists sometimes cannot be      *)
(* read: PolicyVerdicts' cluster with the mesh added, and what a finding    *)
(* says compared with what Kubernetes, Calico and the operator's next step  *)
(* make of it.                                                             *)
(***************************************************************************)
EXTENDS GlobalVerdicts, Issues

CONSTANTS
    DNSLabels,      \* dnsLabels of the configuration
    DNSNamespace,   \* dnsNs of the configuration
    MaxAuths        \* PeerAuthentications at a time

ASSUME FindingsAssumption ==
    DNSLabels \in Selectors /\ DNSNamespace \in Namespaces /\ MaxAuths \in Nat

meshVars == <<pas, unreadable>>
allVars == <<vars, meshVars>>

FindingsInit == Init /\ pas = {} /\ unreadable = {}

\* Several policies, or several PeerAuthentications beside one policy.
Fits == /\ Cardinality(pas) <= MaxAuths
        /\ pas # {} => Cardinality(netpols) + Cardinality(gnps) <= 1

\* What Kubernetes holds changes as in PolicyVerdicts.
ClusterStep == Next /\ UNCHANGED meshVars /\ Fits'

\* A name is taken once in a namespace.
ApplyAuth(p) ==
    /\ \A q \in pas : <<q.namespace, q.name>> # <<p.namespace, p.name>>
    /\ pas' = pas \cup {p}
    /\ UNCHANGED <<vars, unreadable>>
    /\ Fits'

DeleteAuth(p) == p \in pas /\ pas' = pas \ {p} /\ UNCHANGED <<vars, unreadable>>

\* kubectl edit: the mode of a policy.
EditAuth(p, mode) ==
    /\ p \in pas /\ p.mode # mode /\ [p EXCEPT !.mode = mode] \in PeerAuths
    /\ pas' = (pas \ {p}) \cup {[p EXCEPT !.mode = mode]}
    /\ UNCHANGED <<vars, unreadable>>

\* The lister of one namespace, one that has something to hide, starts and stops
\* failing.
ListFails(n) ==
    /\ unreadable = {} /\ n \in {p.namespace : p \in pas}
    /\ unreadable' = {n}
    /\ UNCHANGED <<vars, pas>>

ListRecovers == unreadable # {} /\ unreadable' = {} /\ UNCHANGED <<vars, pas>>

FindingsNext ==
    \/ ClusterStep
    \/ \E p \in PeerAuths : ApplyAuth(p)
    \/ \E p \in pas : DeleteAuth(p) \/ \E mode \in Modes : EditAuth(p, mode)
    \/ \E n \in Namespaces : ListFails(n)
    \/ ListRecovers

FindingsSpec == FindingsInit /\ [][FindingsNext]_allVars

----------------------------------------------------------------------------
(***************************************************************************)
(* What the server answers.                                                *)
(***************************************************************************)
Engines == [k8s |-> buildAllowRulesByNs, calico |-> CalicoRules]

WorkloadByID == IndexedNodes \cup CidrNodes \cup CalicoNodes(CalicoRules)

\* matches[0] of a map: any of the nodes with the resolver's labels.
Resolvers == IndexLabelMatch(DNSLabels, DNSNamespace)

\* Pairs of running workloads the mesh blocks.
MeshDenials ==
    LET mesh == BuildMeshMembership
    IN  {p \in LiveIds \X LiveIds : MeshReachability(mesh, p[1], p[2]).verdict = "deny"}

----------------------------------------------------------------------------
(***************************************************************************)
(* Properties.                                                             *)
(***************************************************************************)

\* A NetworkPolicy that picks some pods of its namespace by their labels and, in
\* that direction, names q by its pod labels.
NamedBy(p, id, direction, q) ==
    /\ Selects(p, id) /\ p.podSelector.labels # {}
    /\ \E r \in RulesOf(p, direction) : \E peer \in r.peers :
          peer.podSelector # Nil /\ ~isCatchAll(peer.podSelector) /\ PeerMatches(p, peer, q)

\* What two policies say of a pair is no matter of the mesh: it is looked at once
\* for every cluster, where there is no PeerAuthentication.
PoliciesAlone == pas = {} /\ netpols \cup gnps # {}

\* A policy conflict is a disagreement and every disagreement is one: on two
\* workloads there is a finding against an engine exactly when a NetworkPolicy
\* lets one of them talk to the other by name and that engine's policies close
\* an end.
ConflictsAreTheDisagreements ==
    PoliciesAlone =>
    LET engines == Engines
        found   == PolicyConflicts(engines, WorkloadByID)
        Read(id) == /\ InFragment(id) /\ Cardinality(InNs(id)) <= 1
                    /\ \A p \in InNs(id) : AllowsOverDeny(p)
        Judged(d, id, q) ==
            Side(Evaluation, d, id, q).reason = "no-opinion" => Isolating(id, d) = {}
    IN  \A src \in LiveIds, dst \in LiveIds :
            /\ src # dst /\ Read(src) /\ Read(dst)
            /\ Judged("egress", src, dst) /\ Judged("ingress", dst, src)
            => {f.engine : f \in {g \in found : g.src = src /\ g.dst = dst}} =
               IF \E p \in netpols : NamedBy(p, src, "egress", dst) \/ NamedBy(p, dst, "ingress", src)
               THEN {e \in {"k8s", "calico"} :
                       IF e = "k8s" THEN ~(Allowed(src, "egress", dst) /\ Allowed(dst, "ingress", src))
                       ELSE ~(/\ CalicoAllowed(src, "egress", AddrOf[dst[2]])
                              /\ CalicoAllowed(dst, "ingress", AddrOf[src[2]]))}
               ELSE {}

\* Whichever resolver the map yields, a workload has a DNS finding against its
\* NetworkPolicies exactly when they keep it from the resolver's port 53.  Left
\* out are a Namespace with the resolver's labels, which the map yields as well,
\* the workloads "no-opinion" is answered for (see NoOpinionMeansUngoverned), and
\* those permitted beside a carve-out: the ports of the allow it trims count as
\* open (see ReportedPortsAreOpen), and the finding is passed over.
DnsFindingsAreReal ==
    PoliciesAlone =>
    LET engines == Engines IN
    \A resolver \in Resolvers \cap LiveIds :
        LET found == {f.src : f \in {g \in MissingDns(engines, WorkloadByID, resolver) :
                                         g.engine = "k8s"}}
            Answered(id) ==
                LET side == Side(Evaluation, "egress", id, resolver)
                IN  \/ Isolating(id, "egress") = {}
                    \/ /\ side.reason # "no-opinion"
                       /\ side.reason = "permitted" => side.matches.carveOut = {}
            Kept(id) == /\ Isolating(id, "egress") # {}
                        /\ \A r \in AllowingRules(id, "egress", resolver) :
                              r.ports # {} /\ DNSPort \notin r.ports
        IN  \A id \in LiveIds \ {resolver} :
              InFragment(id) /\ Answered(id) => (id \in found) = Kept(id)

\* The oldest policy of a scope that reaches the workload sets no mode.  The
\* documentation has it close its scope (FEATURES.md:299-301), the code does not
\* (see LosersAreDead).
OldestUnset(p, id) ==
    LET buckets == Buckets(PodLabels[id[2]], NsOf[id[2]])
    IN  p.mode = "unset" /\ \E i \in DOMAIN buckets : p \in buckets[i] /\ p = Oldest(buckets[i])

\* A workload's mode is the doing of the policy named as its source: taking away
\* any other one, but an oldest one that is UNSET, changes nothing.
EffectiveSourceDecides ==
    [][LET before == BuildMeshMembership
           after  == BuildMeshMembership'
           gone   == pas \ pas'
       IN  (gone # {} /\ pas' \subseteq pas /\ UNCHANGED <<unreadable, live>>) =>
           \A id \in LiveIds :
              /\ before[id].inMesh /\ before[id].mtls.effective \notin gone
              /\ \A p \in gone : ~OldestUnset(p, id)
              => after[id].mtls.verdict = before[id].mtls.verdict]_meshVars

\* A list that cannot be read blocks no pair that its policies, read, leave open.
FailedReadInventsNothing ==
    [][unreadable' # unreadable /\ unreadable \subseteq unreadable' /\ UNCHANGED <<pas, live>>
       => MeshDenials' \subseteq MeshDenials]_meshVars

\* Every mesh conflict names a policy, and setting that one to PERMISSIVE is
\* enough to end it.
RelaxingTheCulpritUnblocks ==
    [][\A p \in pas :
          /\ p.mode # "permissive"
          /\ pas' = (pas \ {p}) \cup {[p EXCEPT !.mode = "permissive"]}
          => LET before == MeshConflicts(Engines, WorkloadByID, BuildMeshMembership)
                 after  == MeshConflicts(Engines, WorkloadByID, BuildMeshMembership)'
             IN  \A f \in before :
                    /\ f.culprit \in pas
                    /\ f.culprit = p => \A g \in after : <<g.src, g.dst>> # <<f.src, f.dst>>]_meshVars

\* detect.go: "Node = the ambient workload the policy applies to".
HboneFindingsNameTheProtected ==
    \A id \in LiveIds : \A f \in ValidateExternalRules(buildAllowRulesByNs, id, BuildMeshMembership) :
        Selects(f.culprit, f.node)

\* peerauth.go: "These are silently ignored ... Delete the unused ones": the
\* policies a finding calls ignored decide nothing.
LosersAreDead ==
    [][LET before == BuildMeshMembership
           after  == BuildMeshMembership'
           losers == UNION {f.note.losers : f \in {g \in BuildMeshIssues : g.type = "mesh policy"}}
       IN  (pas' \subseteq pas /\ pas' # pas /\ pas \ pas' \subseteq losers /\ UNCHANGED <<unreadable, live>>) =>
           \A id \in LiveIds : before[id].inMesh => after[id].mtls.verdict = before[id].mtls.verdict]_meshVars
=============================================================================
