--------------------------- MODULE FindingsProofs ---------------------------
(***************************************************************************)
(* What the mesh findings are worth for every cluster and every history of   *)
(* its PeerAuthentications: the mode of a workload has one author, a list    *)
(* that cannot be read blocks nothing, and a mesh conflict names the policy   *)
(* to relax.                                                               *)
(*                                                                         *)
(* The walk picks the oldest policy of a scope with CHOOSE.  That there is  *)
(* one, and only one, is the invariant's doing: names are taken once in a    *)
(* namespace, so creation time and name order the policies of a scope.      *)
(***************************************************************************)
EXTENDS Findings, VerdictProofs, WellFoundedInduction

----------------------------------------------------------------------------
(***************************************************************************)
(* The oldest policy of a scope.                                           *)
(***************************************************************************)

\* Numbers have a least one.
LEMMA LeastNumber ==
    ASSUME NEW S \in SUBSET Nat, S # {}
    PROVE  \E m \in S : \A k \in S : m <= k
<1> DEFINE less == {ss \in Nat \X Nat : ss[1] < ss[2]}
<1>1. IsWellFoundedOn(less, Nat)
    BY NatLessThanWellFounded DEF OpToRel
<1>2. PICK m \in S : \A k \in S : ~(<<k, m>> \in less)
    <2> HIDE DEF less
    <2> QED BY <1>1, WFMin
<1>3. ASSUME NEW k \in S PROVE m <= k
    <2>1. ~(<<k, m>> \in less) /\ k \in Nat /\ m \in Nat
        BY <1>2
    <2> QED BY <2>1
<1> QED BY <1>3

\* A scope: policies of which no two share a name.
IsScope(S) == S \subseteq PeerAuths /\ \A p, q \in S : p.name = q.name => p = q

IsOldest(S, p) == p \in S /\ \A q \in S \ {p} : Older(p, q)

LEMMA AuthsAreTyped ==
    ASSUME NEW p \in PeerAuths
    PROVE  /\ p \in [namespace : Namespaces, name : Nat, created : Nat,
                     selector : Selectors \cup {Nil}, mode : Modes,
                     ports : SUBSET [port : Nat \ {0}, mode : Modes]]
           /\ p.namespace \in Namespaces /\ p.name \in Nat /\ p.created \in Nat
           /\ p.mode \in Modes /\ p # Nil
    BY MeshAssumption

\* A scope with a policy has an oldest one.
LEMMA OldestExists ==
    ASSUME NEW S, IsScope(S), S # {}
    PROVE  \E p : IsOldest(S, p)
<1> DEFINE times == {p.created : p \in S}
<1>1. S \subseteq PeerAuths /\ \A p \in S : p.created \in Nat /\ p.name \in Nat
    BY AuthsAreTyped DEF IsScope
<1>2. PICK t \in times : \A k \in times : t <= k
    BY <1>1, LeastNumber
<1> DEFINE first == {p \in S : p.created = t}
           names == {p.name : p \in first}
<1>3. PICK n \in names : \A k \in names : n <= k
    BY <1>1, <1>2, LeastNumber
<1>4. PICK p \in first : p.name = n
    BY <1>3
<1>5. ASSUME NEW q \in S \ {p}
      PROVE  Older(p, q)
    <2>1. p \in S /\ p.created = t /\ p.created <= q.created
        BY <1>2
    <2>2. q.name # p.name
        BY <2>1 DEF IsScope
    <2>3. q.created = t => n <= q.name
        BY <1>3
    <2> QED BY <1>1, <1>4, <2>1, <2>2, <2>3 DEF Older
<1> QED BY <1>5 DEF IsOldest

\* And that is the one the walk picks.
LEMMA OldestIs ==
    ASSUME NEW S, IsScope(S), NEW p, IsOldest(S, p)
    PROVE  Oldest(S) = p
<1>1. \A q \in S : q.created \in Nat /\ q.name \in Nat
    BY AuthsAreTyped DEF IsScope
<1>2. ASSUME NEW q \in S, \A r \in S \ {q} : Older(q, r), q # p
      PROVE  FALSE
    <2>1. Older(p, q) /\ Older(q, p)
        BY <1>2 DEF IsOldest
    <2> QED BY <1>1, <2>1 DEF Older, IsOldest
<1> QED BY <1>2 DEF Oldest, IsOldest

----------------------------------------------------------------------------
(***************************************************************************)
(* The policy that decides a workload's mode.                              *)
(***************************************************************************)
IsBuckets(buckets) == DOMAIN buckets = 1..3 /\ \A i \in 1..3 : IsScope(buckets[i])

SetOnes(S) == {p \in S : p.mode # "unset"}

\* p is the oldest policy that sets a mode in scope i, and no narrower scope has
\* one.
Leads(buckets, i, p) ==
    /\ i \in 1..3 /\ IsOldest(SetOnes(buckets[i]), p)
    /\ \A j \in 1..3 : j < i => SetOnes(buckets[j]) = {}

LEMMA SetOnesAreScopes ==
    ASSUME NEW buckets, IsBuckets(buckets), NEW i \in 1..3
    PROVE  IsScope(SetOnes(buckets[i]))
    BY DEF IsBuckets, IsScope, SetOnes

\* Some policy leads unless none sets a mode.
LEMMA SomeoneLeads ==
    ASSUME NEW buckets, IsBuckets(buckets), \E j \in 1..3 : SetOnes(buckets[j]) # {}
    PROVE  \E i, p : Leads(buckets, i, p)
<1>1. \E i \in 1..3 : SetOnes(buckets[i]) # {} /\ \A j \in 1..3 : j < i => SetOnes(buckets[j]) = {}
    <2>1. CASE SetOnes(buckets[1]) # {}
        BY <2>1
    <2>2. CASE SetOnes(buckets[1]) = {} /\ SetOnes(buckets[2]) # {}
        BY <2>2
    <2>3. CASE SetOnes(buckets[1]) = {} /\ SetOnes(buckets[2]) = {} /\ SetOnes(buckets[3]) # {}
        BY <2>3
    <2> QED BY <2>1, <2>2, <2>3
<1>2. PICK i \in 1..3 : SetOnes(buckets[i]) # {} /\ \A j \in 1..3 : j < i => SetOnes(buckets[j]) = {}
    BY <1>1
<1>3. PICK p : IsOldest(SetOnes(buckets[i]), p)
    BY <1>2, SetOnesAreScopes, OldestExists
<1> QED BY <1>2, <1>3 DEF Leads

\* The verdict is of the one that leads, and of nobody when no policy sets a
\* mode.
LEMMA VerdictLeads ==
    ASSUME NEW buckets, IsBuckets(buckets)
    PROVE  /\ \A i, p : Leads(buckets, i, p) => pickVerdict(buckets) = p /\ p \in PeerAuths
           /\ (\A j \in 1..3 : SetOnes(buckets[j]) = {}) => pickVerdict(buckets) = Nil
<1> DEFINE mode == [p \in PeerAuths |-> p.mode]
           Set(i) == {p \in buckets[i] : mode[p] # "unset"}
           scopes == {i \in DOMAIN buckets : Set(i) # {}}
<1>1. ASSUME NEW i \in 1..3 PROVE Set(i) = SetOnes(buckets[i])
    BY DEF SetOnes, IsBuckets, IsScope
<1>2. pickVerdict(buckets) =
         IF scopes = {} THEN Nil ELSE Oldest(Set(CHOOSE i \in scopes : \A j \in scopes : i <= j))
    BY DEF pickVerdict, FirstSet
<1>3. scopes = {i \in 1..3 : SetOnes(buckets[i]) # {}}
    BY <1>1 DEF IsBuckets
<1> HIDE DEF scopes, Set
<1>4. ASSUME NEW i, NEW p, Leads(buckets, i, p)
      PROVE  pickVerdict(buckets) = p /\ p \in PeerAuths
    <2>1. i \in scopes /\ \A j \in scopes : i <= j
        BY <1>3, <1>4 DEF Leads, IsOldest
    <2>2. (CHOOSE k \in scopes : \A j \in scopes : k <= j) = i
        BY <1>3, <2>1
    <2>3. Oldest(Set(i)) = p /\ p \in PeerAuths
        BY <1>1, <1>4, SetOnesAreScopes, OldestIs DEF Leads, IsOldest, IsScope
    <2> QED BY <1>2, <2>1, <2>2, <2>3
<1> QED BY <1>2, <1>3, <1>4

----------------------------------------------------------------------------
(***************************************************************************)
(* The invariant: what runs may run, what is applied may be applied, and no  *)
(* two policies of a namespace share a name.                               *)
(***************************************************************************)
NamesAreTaken == \A p, q \in pas : p.namespace = q.namespace /\ p.name = q.name => p = q

MInv == live \subseteq Workloads /\ pas \subseteq PeerAuths /\ NamesAreTaken

LEMMA EditKeeps ==
    ASSUME NEW p \in PeerAuths, NEW mode
    PROVE  LET e == [p EXCEPT !.mode = mode]
           IN  /\ e.namespace = p.namespace /\ e.name = p.name /\ e.created = p.created
               /\ e.selector = p.selector /\ e.mode = mode
    BY AuthsAreTyped

LEMMA MInvInvariant == FindingsSpec => []MInv
<1>1. FindingsInit => MInv
    BY DEF FindingsInit, Init, MInv, NamesAreTaken
<1>2. MInv /\ [FindingsNext]_allVars => MInv'
    <2> SUFFICES ASSUME MInv, [FindingsNext]_allVars PROVE MInv'
        OBVIOUS
    <2> USE DEF MInv
    <2>1. CASE ClusterStep
        <3>1. live' \subseteq Workloads
            BY <2>1 DEF ClusterStep, Next, Deploy, Remove, Apply, Delete, ApplyGlobal, DeleteGlobal
        <3> QED BY <2>1, <3>1 DEF ClusterStep, meshVars, NamesAreTaken
    <2>2. ASSUME NEW p \in PeerAuths, ApplyAuth(p) PROVE MInv'
        <3>1. \A q \in pas : ~(q.namespace = p.namespace /\ q.name = p.name)
            BY <2>2 DEF ApplyAuth
        <3> QED BY <2>2, <3>1 DEF ApplyAuth, vars, NamesAreTaken
    <2>3. ASSUME NEW p \in pas, DeleteAuth(p) PROVE MInv'
        BY <2>3 DEF DeleteAuth, vars, NamesAreTaken
    <2>4. ASSUME NEW p \in pas, NEW mode \in Modes, EditAuth(p, mode) PROVE MInv'
        <3> DEFINE e == [p EXCEPT !.mode = mode]
        <3>1. e.namespace = p.namespace /\ e.name = p.name
            BY EditKeeps
        <3>2. e \in PeerAuths /\ pas' = (pas \ {p}) \cup {e} /\ live' = live
            BY <2>4 DEF EditAuth, vars
        <3> HIDE DEF e
        <3> QED BY <3>1, <3>2 DEF NamesAreTaken
    <2>5. ASSUME NEW n \in Namespaces, ListFails(n) PROVE MInv'
        BY <2>5 DEF ListFails, vars, NamesAreTaken
    <2>6. CASE ListRecovers
        BY <2>6 DEF ListRecovers, vars, NamesAreTaken
    <2>7. CASE UNCHANGED allVars
        BY <2>7 DEF allVars, vars, meshVars, NamesAreTaken
    <2> QED BY <2>1, <2>2, <2>3, <2>4, <2>5, <2>6, <2>7 DEF FindingsNext
<1> QED BY <1>1, <1>2, PTL DEF FindingsSpec

\* What a scope's filter lets through.
InScope(p, i, labels, n) ==
    /\ p.namespace = IF i = 3 THEN RootNs ELSE n
    /\ IF i = 1 THEN p.selector # Nil /\ LabelsMatch(p.selector, labels) ELSE p.selector = Nil

BucketFacts ==
    \A labels, n :
        /\ DOMAIN Buckets(labels, n) = 1..3
        /\ \A i \in 1..3 : Buckets(labels, n)[i] = {p \in pas : InScope(p, i, labels, n)}

LEMMA BucketsAre == BucketFacts
<1> SUFFICES ASSUME NEW labels, NEW n
             PROVE  /\ DOMAIN Buckets(labels, n) = 1..3
                    /\ \A i \in 1..3 : Buckets(labels, n)[i] = {p \in pas : InScope(p, i, labels, n)}
    BY DEF BucketFacts
<1>1. DOMAIN Buckets(labels, n) = 1..3
    BY DEF Buckets
<1>2. /\ Buckets(labels, n)[1] = {p \in pas : InScope(p, 1, labels, n)}
      /\ Buckets(labels, n)[2] = {p \in pas : InScope(p, 2, labels, n)}
      /\ Buckets(labels, n)[3] = {p \in pas : InScope(p, 3, labels, n)}
    BY DEF Buckets, InScope, workloadPAs, nsScopedPAs
<1> QED BY <1>1, <1>2

LEMMA BucketsAreScopes == MInv => \A labels, n : IsBuckets(Buckets(labels, n))
<1> SUFFICES ASSUME MInv, NEW labels, NEW n, NEW i \in 1..3
             PROVE  IsScope(Buckets(labels, n)[i])
    BY BucketsAre DEF IsBuckets, BucketFacts
<1>1. Buckets(labels, n)[i] = {p \in pas : InScope(p, i, labels, n)}
    BY BucketsAre DEF BucketFacts
<1>2. \A p, q : InScope(p, i, labels, n) /\ InScope(q, i, labels, n) => p.namespace = q.namespace
    BY DEF InScope
<1> QED BY <1>1, <1>2 DEF IsScope, MInv, NamesAreTaken

\* The mode of a workload is that of the policy that leads, which is there.
ModeFacts ==
    \A labels, n :
        /\ \A i, p : Leads(Buckets(labels, n), i, p) =>
              /\ resolveMtls(labels, n).verdict = p.mode
              /\ resolveMtls(labels, n).effective = p
              /\ p \in pas /\ p.mode # "unset" /\ InScope(p, i, labels, n)
        /\ (\A j \in 1..3 : SetOnes(Buckets(labels, n)[j]) = {}) =>
              resolveMtls(labels, n).verdict = "permissive"
        /\ \/ \A j \in 1..3 : SetOnes(Buckets(labels, n)[j]) = {}
           \/ \E i, p : Leads(Buckets(labels, n), i, p)

LEMMA ModeIs == MInv => ModeFacts
<1> SUFFICES ASSUME MInv, NEW labels, NEW n
             PROVE  /\ \A i, p : Leads(Buckets(labels, n), i, p) =>
                          /\ resolveMtls(labels, n).verdict = p.mode
                          /\ resolveMtls(labels, n).effective = p
                          /\ p \in pas /\ p.mode # "unset" /\ InScope(p, i, labels, n)
                    /\ (\A j \in 1..3 : SetOnes(Buckets(labels, n)[j]) = {}) =>
                          resolveMtls(labels, n).verdict = "permissive"
                    /\ \/ \A j \in 1..3 : SetOnes(Buckets(labels, n)[j]) = {}
                       \/ \E i, p : Leads(Buckets(labels, n), i, p)
    BY DEF ModeFacts
<1> DEFINE B == Buckets(labels, n)
<1>1. IsBuckets(B)
    BY BucketsAreScopes
<1>2. /\ resolveMtls(labels, n).effective = pickVerdict(B)
      /\ resolveMtls(labels, n).verdict =
            IF pickVerdict(B) = Nil THEN "permissive" ELSE pickVerdict(B).mode
    BY DEF resolveMtls
<1>3. \A i \in 1..3 : B[i] = {p \in pas : InScope(p, i, labels, n)}
    BY BucketsAre DEF BucketFacts
<1> HIDE DEF B
<1>4. ASSUME NEW i, NEW p, Leads(B, i, p)
      PROVE  /\ pickVerdict(B) = p /\ p # Nil
             /\ p \in pas /\ p.mode # "unset" /\ InScope(p, i, labels, n)
    <2>1. pickVerdict(B) = p /\ p # Nil
        BY <1>1, <1>4, VerdictLeads, AuthsAreTyped
    <2>2. i \in 1..3 /\ p \in SetOnes(B[i])
        BY <1>4 DEF Leads, IsOldest
    <2> QED BY <2>1, <2>2, <1>3 DEF SetOnes
<1>5. (\A j \in 1..3 : SetOnes(B[j]) = {}) => pickVerdict(B) = Nil
    BY <1>1, VerdictLeads
<1>6. \/ \A j \in 1..3 : SetOnes(B[j]) = {}
      \/ \E i, p : Leads(B, i, p)
    BY <1>1, SomeoneLeads
<1> QED BY <1>2, <1>4, <1>5, <1>6 DEF B

----------------------------------------------------------------------------
(***************************************************************************)
(* The transport.                                                          *)
(***************************************************************************)
ModeOf(w) == MtlsOf(PodLabels[w], NsOf[w])

\* The membership of a running workload.
IsMember(w, m) ==
    /\ Membership(BuildMeshMembership, WorkloadId(w)) = m
    /\ BuildMeshMembership[WorkloadId(w)] = m
    /\ m.inMesh <=> enrolled(w)
    /\ enrolled(w) => m.mtls = ModeOf(w)

MemberFacts == \A w \in live : IsMember(w, BuildMeshMembership[WorkloadId(w)])

LEMMA MemberIs == MInv => MemberFacts
<1> SUFFICES ASSUME MInv, NEW w \in live
             PROVE  IsMember(w, BuildMeshMembership[WorkloadId(w)])
    BY DEF MemberFacts
<1>1. WorkloadId(w) \in IndexedNodes
    <2>1. NsOf[w] \in Namespaces
        BY ClusterAssumption DEF MInv
    <2> QED BY <2>1 DEF IndexedNodes, NsWorkloads
<1>2. /\ DOMAIN BuildMeshMembership = IndexedNodes
      /\ BuildMeshMembership[WorkloadId(w)] = Member(WorkloadId(w))
    BY <1>1 DEF BuildMeshMembership
<1>3. Member(WorkloadId(w)) =
         IF enrolled(w) THEN [inMesh |-> TRUE, mtls |-> ModeOf(w)] ELSE NotInMesh
    BY Ids DEF Member, ModeOf
<1>4. CASE enrolled(w)
    BY <1>1, <1>2, <1>3, <1>4 DEF Membership, IsMember
<1>5. CASE ~enrolled(w)
    BY <1>1, <1>2, <1>3, <1>5 DEF Membership, NotInMesh, IsMember
<1> QED BY <1>4, <1>5

\* A workload that only takes mTLS, and one that does not offer it.
Strict(w) == enrolled(w) /\ ModeOf(w) # Nil /\ ModeOf(w).verdict = "strict"
Mute(w) == ~enrolled(w) \/ (ModeOf(w) # Nil /\ ModeOf(w).verdict = "disable")

\* The transport keeps everybody who does not speak mTLS from who insists on it.
Denials(src, w) == MeshReachability(BuildMeshMembership, src, WorkloadId(w))

DenialFacts ==
    \A w \in live :
        /\ \A src : Denials(src, w).verdict = "deny" =>
              Strict(w) /\ Denials(src, w).effective = ModeOf(w).effective
        /\ \A v \in live : Denials(WorkloadId(v), w).verdict = "deny" <=> Strict(w) /\ Mute(v)

LEMMA DenialIs == MInv => DenialFacts
<1> SUFFICES ASSUME MInv, NEW w \in live
             PROVE  /\ \A src : Denials(src, w).verdict = "deny" =>
                          Strict(w) /\ Denials(src, w).effective = ModeOf(w).effective
                    /\ \A v \in live :
                          Denials(WorkloadId(v), w).verdict = "deny" <=> Strict(w) /\ Mute(v)
    BY DEF DenialFacts
<1> DEFINE dst == Membership(BuildMeshMembership, WorkloadId(w))
<1>1. (dst.inMesh <=> enrolled(w)) /\ (enrolled(w) => dst.mtls = ModeOf(w))
    BY MemberIs DEF MemberFacts, IsMember
<1> HIDE DEF dst
<1>2. DestinationMode(dst, 0) = dst.mtls.verdict
    BY DEF DestinationMode
<1>3. (dst.inMesh /\ dst.mtls # Nil /\ DestinationMode(dst, 0) = "strict") <=> Strict(w)
    BY <1>1, <1>2 DEF Strict
<1>4. ASSUME NEW src
      PROVE  LET r == CanReach(src, dst, 0)
                 speaks == src.inMesh /\ ~(src.mtls # Nil /\ src.mtls.verdict = "disable")
             IN  /\ r.verdict = "deny" <=> Strict(w) /\ ~speaks
                 /\ r.verdict = "deny" => r.effective = ModeOf(w).effective
    <2> DEFINE speaks == src.inMesh /\ ~(src.mtls # Nil /\ src.mtls.verdict = "disable")
    <2>1. /\ CanReach(src, dst, 0).verdict = IF Strict(w) /\ ~speaks THEN "deny" ELSE "allow"
          /\ CanReach(src, dst, 0).effective = IF Strict(w) /\ ~speaks THEN dst.mtls.effective ELSE Nil
        BY <1>3 DEF CanReach
    <2> QED BY <2>1, <1>1 DEF Strict
<1>5. ASSUME NEW v \in live, NEW src, src = Membership(BuildMeshMembership, WorkloadId(v))
      PROVE  ~(src.inMesh /\ ~(src.mtls # Nil /\ src.mtls.verdict = "disable")) <=> Mute(v)
    <2>1. (src.inMesh <=> enrolled(v)) /\ (enrolled(v) => src.mtls = ModeOf(v))
        BY <1>5, MemberIs DEF MemberFacts, IsMember
    <2> QED BY <2>1 DEF Mute
<1> QED BY <1>4, <1>5 DEF MeshReachability, Denials, dst

\* The same of the next state.
LEMMA FactsNext == BucketFacts' /\ (MInv' => ModeFacts' /\ MemberFacts' /\ DenialFacts')
    BY BucketsAre, ModeIs, MemberIs, DenialIs, PTL

----------------------------------------------------------------------------
(***************************************************************************)
(* A list that cannot be read.                                             *)
(***************************************************************************)

\* What a step that touches only the lists leaves of a workload's mode.
LEMMA UnreadIsUnknown ==
    ASSUME UNCHANGED <<pas, live>>, unreadable \subseteq unreadable', NEW w
    PROVE  /\ Fetched(NsOf[w])' => ModeOf(w)' = ModeOf(w)
           /\ ~Fetched(NsOf[w])' => ModeOf(w)'.verdict = "unknown"
<1>1. Fetched(NsOf[w])' => Fetched(NsOf[w])
    BY DEF Fetched
<1>2. \A labels, n : resolveMtls(labels, n)' = resolveMtls(labels, n)
    BY DEF resolveMtls, Buckets, workloadPAs, nsScopedPAs
<1>3. ~Fetched(NsOf[w])' => ModeOf(w)' = Unknown
    BY DEF ModeOf, MtlsOf
<1>4. Fetched(NsOf[w])' => ModeOf(w)' = ModeOf(w)
    BY <1>1, <1>2 DEF ModeOf, MtlsOf
<1> QED BY <1>3, <1>4 DEF Unknown

\* A list that cannot be read blocks no pair that its policies, read, leave open
\* (the error branch of MtlsForWorkload).
THEOREM FailedReadIsHarmless == FindingsSpec => FailedReadInventsNothing
<1>1. MInv /\ MInv' =>
         (unreadable' # unreadable /\ unreadable \subseteq unreadable' /\ UNCHANGED <<pas, live>>
            => MeshDenials' \subseteq MeshDenials)
    <2> SUFFICES ASSUME MInv, MInv', unreadable \subseteq unreadable', UNCHANGED <<pas, live>>
                 PROVE  MeshDenials' \subseteq MeshDenials
        OBVIOUS
    <2>1. DenialFacts /\ DenialFacts'
        BY FactsNext, DenialIs
    <2>2. LiveIds' = LiveIds /\ LiveIds = {WorkloadId(w) : w \in live}
        BY DEF LiveIds
    <2>3. ASSUME NEW v \in live, NEW w \in live, (Denials(WorkloadId(v), w).verdict = "deny")'
          PROVE  Denials(WorkloadId(v), w).verdict = "deny"
        <3>1. Strict(w)' /\ Mute(v)'
            BY <2>1, <2>3 DEF DenialFacts
        <3>2. Strict(w)
            BY <3>1, UnreadIsUnknown DEF Strict, enrolled
        <3>3. Mute(v)
            BY <3>1, UnreadIsUnknown DEF Mute, enrolled
        <3> QED BY <2>1, <3>2, <3>3 DEF DenialFacts
    <2> QED BY <2>2, <2>3 DEF MeshDenials, Denials
<1> QED BY <1>1, MInvInvariant, PTL DEF FailedReadInventsNothing

----------------------------------------------------------------------------
(***************************************************************************)
(* One author for a mode.                                                  *)
(***************************************************************************)

\* Taking away policies other than the one that leads leaves it leading.
LEMMA StillLeads ==
    ASSUME BucketFacts, BucketFacts', pas' \subseteq pas,
           NEW labels, NEW n, NEW i, NEW p, Leads(Buckets(labels, n), i, p), p \in pas'
    PROVE  Leads(Buckets(labels, n), i, p)'
<1>1. ASSUME NEW j \in 1..3
      PROVE  /\ SetOnes(Buckets(labels, n)[j]) = {q \in pas : InScope(q, j, labels, n) /\ q.mode # "unset"}
             /\ SetOnes(Buckets(labels, n)[j])' = {q \in pas' : InScope(q, j, labels, n) /\ q.mode # "unset"}
    BY DEF BucketFacts, SetOnes, InScope
<1>2. \A j \in 1..3 : SetOnes(Buckets(labels, n)[j])' \subseteq SetOnes(Buckets(labels, n)[j])
    BY <1>1
<1>3. i \in 1..3 /\ p \in SetOnes(Buckets(labels, n)[i])'
    BY <1>1 DEF Leads, IsOldest
<1> QED BY <1>2, <1>3 DEF Leads, IsOldest

\* And nobody leads who did not lead before.
LEMMA StillNobody ==
    ASSUME BucketFacts, BucketFacts', pas' \subseteq pas, NEW labels, NEW n,
           \A j \in 1..3 : SetOnes(Buckets(labels, n)[j]) = {}
    PROVE  \A j \in 1..3 : SetOnes(Buckets(labels, n)[j])' = {}
<1>1. ASSUME NEW j \in 1..3
      PROVE  /\ SetOnes(Buckets(labels, n)[j]) = {q \in pas : InScope(q, j, labels, n) /\ q.mode # "unset"}
             /\ SetOnes(Buckets(labels, n)[j])' = {q \in pas' : InScope(q, j, labels, n) /\ q.mode # "unset"}
    BY DEF BucketFacts, SetOnes, InScope
<1> QED BY <1>1

\* A workload's mode is the doing of the policy named as its source: taking away
\* any other one, but an oldest one that is UNSET, changes nothing (pickVerdict over
\* the three scopes).
THEOREM OneAuthor == FindingsSpec => EffectiveSourceDecides
<1> DEFINE gone == pas \ pas'
           P == (gone # {} /\ pas' \subseteq pas /\ UNCHANGED <<unreadable, live>>) =>
                \A id \in LiveIds :
                   /\ BuildMeshMembership[id].inMesh /\ BuildMeshMembership[id].mtls.effective \notin gone
                   /\ \A p \in gone : ~OldestUnset(p, id)
                   => BuildMeshMembership'[id].mtls.verdict = BuildMeshMembership[id].mtls.verdict
<1>1. MInv /\ MInv' => P
    <2> SUFFICES ASSUME MInv, MInv', pas' \subseteq pas, UNCHANGED <<unreadable, live>>,
                        NEW w \in live, BuildMeshMembership[WorkloadId(w)].inMesh,
                        BuildMeshMembership[WorkloadId(w)].mtls.effective \notin gone
                 PROVE  BuildMeshMembership'[WorkloadId(w)].mtls.verdict =
                        BuildMeshMembership[WorkloadId(w)].mtls.verdict
        BY DEF LiveIds
    <2> DEFINE labels == PodLabels[w]
               n == NsOf[w]
    <2>1. /\ BucketFacts /\ ModeFacts /\ MemberFacts
          /\ BucketFacts' /\ ModeFacts' /\ MemberFacts'
        BY FactsNext, BucketsAre, ModeIs, MemberIs
    <2>2. enrolled(w) /\ BuildMeshMembership[WorkloadId(w)].mtls = ModeOf(w)
        BY <2>1 DEF MemberFacts, IsMember
    <2>3. BuildMeshMembership'[WorkloadId(w)].mtls = ModeOf(w)'
        BY <2>1, <2>2 DEF MemberFacts, IsMember, enrolled
    <2>4. ModeOf(w)'.verdict = ModeOf(w).verdict
        <3>1. CASE ~Fetched(n)
            <4>1. ~Fetched(n)'
                BY <3>1 DEF Fetched
            <4> QED BY <3>1, <4>1 DEF ModeOf, MtlsOf, Unknown
        <3>2. CASE Fetched(n)
            <4>1. Fetched(n)'
                BY <3>2 DEF Fetched
            <4>2. ModeOf(w) = resolveMtls(labels, n) /\ ModeOf(w)' = resolveMtls(labels, n)'
                BY <3>2, <4>1 DEF ModeOf, MtlsOf
            <4> HIDE DEF labels, n
            <4>3. CASE \A j \in 1..3 : SetOnes(Buckets(labels, n)[j]) = {}
                <5>1. \A j \in 1..3 : SetOnes(Buckets(labels, n)[j])' = {}
                    BY <2>1, <4>3, StillNobody
                <5> QED BY <2>1, <4>2, <4>3, <5>1 DEF ModeFacts
            <4>4. CASE \E i, p : Leads(Buckets(labels, n), i, p)
                <5>1. PICK i, p : Leads(Buckets(labels, n), i, p)
                    BY <4>4
                <5>2. ModeOf(w).verdict = p.mode /\ ModeOf(w).effective = p /\ p \in pas
                    BY <2>1, <4>2, <5>1 DEF ModeFacts
                <5>3. p \in pas'
                    BY <2>2, <5>2
                <5>4. Leads(Buckets(labels, n), i, p)'
                    BY <2>1, <5>1, <5>3, StillLeads
                <5> QED BY <2>1, <4>2, <5>2, <5>4 DEF ModeFacts
            <4> QED BY <2>1, <4>3, <4>4 DEF ModeFacts
        <3> QED BY <3>1, <3>2
    <2> QED BY <2>2, <2>3, <2>4
<1>2. [][P]_meshVars => EffectiveSourceDecides
    BY PTL DEF EffectiveSourceDecides
<1> QED BY <1>1, <1>2, MInvInvariant, PTL

----------------------------------------------------------------------------
(***************************************************************************)
(* The culprit of a mesh conflict.                                         *)
(***************************************************************************)

\* A workload that insists on mTLS has a policy to thank for it, one in the
\* cluster: the default is permissive and an unread list insists on nothing.
StrictFacts ==
    \A w : Strict(w) =>
        /\ Fetched(NsOf[w])
        /\ \E i, p : /\ Leads(Buckets(PodLabels[w], NsOf[w]), i, p)
                     /\ ModeOf(w).effective = p /\ p \in pas

LEMMA StrictIs == MInv => StrictFacts
<1> SUFFICES ASSUME MInv, NEW w, Strict(w)
             PROVE  /\ Fetched(NsOf[w])
                    /\ \E i, p : /\ Leads(Buckets(PodLabels[w], NsOf[w]), i, p)
                                 /\ ModeOf(w).effective = p /\ p \in pas
    BY DEF StrictFacts
<1> DEFINE labels == PodLabels[w]
           n == NsOf[w]
<1>1. ModeOf(w).verdict = "strict"
    BY DEF Strict
<1>2. Fetched(n) /\ ModeOf(w) = resolveMtls(labels, n)
    BY <1>1 DEF ModeOf, MtlsOf, Unknown
<1> HIDE DEF labels, n
<1>3. ModeFacts
    BY ModeIs
<1>4. PICK i, p : Leads(Buckets(labels, n), i, p)
    BY <1>1, <1>2, <1>3 DEF ModeFacts
<1>5. ModeOf(w).effective = p /\ p \in pas
    BY <1>2, <1>3, <1>4 DEF ModeFacts
<1> QED BY <1>2, <1>4, <1>5 DEF labels, n

\* Only workloads are mesh conflicts' destinations: a namespace is left out, and
\* an address has no membership.
ConflictFacts ==
    \A f \in MeshConflicts(Engines, WorkloadByID, BuildMeshMembership) :
        \E t \in live : /\ f.dst = WorkloadId(t) /\ Strict(t)
                        /\ f.culprit = ModeOf(t).effective

LEMMA ConflictIs == MInv => ConflictFacts
<1> SUFFICES ASSUME MInv,
                    NEW f \in MeshConflicts(Engines, WorkloadByID, BuildMeshMembership)
             PROVE  \E t \in live : /\ f.dst = WorkloadId(t) /\ Strict(t)
                                    /\ f.culprit = ModeOf(t).effective
    BY DEF ConflictFacts
<1> DEFINE mesh == BuildMeshMembership
<1>1. PICK q : /\ "namespace" \notin {NodeType(q[1]), NodeType(q[2])}
               /\ MeshReachability(mesh, q[1], q[2]).verdict = "deny"
               /\ f = [type |-> "mesh conflict", src |-> q[1], dst |-> q[2],
                       culprit |-> MeshReachability(mesh, q[1], q[2]).effective]
    BY DEF MeshConflicts
<1>2. /\ NodeType(f.dst) # "namespace"
      /\ MeshReachability(mesh, f.src, f.dst).verdict = "deny"
      /\ f.culprit = MeshReachability(mesh, f.src, f.dst).effective
    BY <1>1
<1>3. f.dst \in DOMAIN mesh
    <2>1. ASSUME f.dst \notin DOMAIN mesh PROVE FALSE
        <3>1. ~Membership(mesh, f.dst).inMesh
            BY <2>1 DEF Membership, NotInMesh
        <3> QED BY <1>2, <3>1 DEF MeshReachability, CanReach
    <2> QED BY <2>1
<1>4. PICK t \in live : f.dst = WorkloadId(t)
    <2>1. f.dst \in IndexedNodes
        BY <1>3 DEF BuildMeshMembership
    <2> QED BY <1>2, <2>1, Ids DEF IndexedNodes, NsWorkloads
<1>5. DenialFacts
    BY DenialIs
<1>6. Denials(f.src, t).verdict = "deny" /\ f.culprit = Denials(f.src, t).effective
    BY <1>2, <1>4 DEF Denials
<1> QED BY <1>4, <1>5, <1>6 DEF DenialFacts

LEMMA ConflictsNext == MInv' => ConflictFacts'
    BY ConflictIs, PTL

\* The policy that leads still leads with another mode.
LEMMA RelaxedLeads ==
    ASSUME BucketFacts, BucketFacts', MInv, NEW p \in pas, NEW mode \in Modes \ {"unset"},
           NEW e, e = [p EXCEPT !.mode = mode], pas' = (pas \ {p}) \cup {e},
           NEW labels, NEW n, NEW i, Leads(Buckets(labels, n), i, p)
    PROVE  Leads(Buckets(labels, n), i, e)' /\ e.mode = mode
<1> DEFINE S(j) == SetOnes(Buckets(labels, n)[j])
<1>1. ASSUME NEW j \in 1..3
      PROVE  /\ S(j) = {q \in pas : InScope(q, j, labels, n) /\ q.mode # "unset"}
             /\ S(j)' = {q \in pas' : InScope(q, j, labels, n) /\ q.mode # "unset"}
    BY DEF BucketFacts, SetOnes, InScope
<1>2. /\ e.namespace = p.namespace /\ e.name = p.name /\ e.created = p.created
      /\ e.selector = p.selector /\ e.mode = mode
    BY EditKeeps DEF MInv
<1>3. /\ i \in 1..3 /\ p \in S(i) /\ \A q \in S(i) \ {p} : Older(p, q)
      /\ \A j \in 1..3 : j < i => S(j) = {}
    BY DEF Leads, IsOldest
<1> HIDE DEF S
<1>4. \A j \in 1..3 : InScope(e, j, labels, n) <=> InScope(p, j, labels, n)
    BY <1>2 DEF InScope
<1>5. p.mode # "unset"
    BY <1>1, <1>3
<1>6. \A j \in 1..3 : S(j)' = (S(j) \ {p}) \cup (IF p \in S(j) THEN {e} ELSE {})
    BY <1>1, <1>2, <1>4, <1>5
<1>7. \A q : Older(p, q) => Older(e, q)
    BY <1>2 DEF Older
<1>8. e \in S(i)' /\ \A q \in S(i)' \ {e} : Older(e, q)
    BY <1>3, <1>6, <1>7
<1>9. \A j \in 1..3 : j < i => S(j)' = {}
    BY <1>3, <1>6
<1> QED BY <1>2, <1>3, <1>8, <1>9 DEF Leads, IsOldest, S

\* A change of the PeerAuthentications changes nothing else.
LEMMA PasAlone ==
    ASSUME [FindingsNext]_allVars, pas' # pas
    PROVE  UNCHANGED <<live, netpols, unreadable>>
<1>1. CASE ClusterStep
    BY <1>1 DEF ClusterStep, meshVars
<1>2. CASE UNCHANGED allVars
    BY <1>2 DEF allVars, meshVars
<1> QED BY <1>1, <1>2 DEF FindingsNext, ApplyAuth, DeleteAuth, EditAuth, ListFails, ListRecovers, vars

\* Every mesh conflict names a policy, and setting that one to PERMISSIVE is
\* enough to end it (checkPairs' mesh branch, culprit from MtlsInfo.Effective).
THEOREM CulpritIsEnough == FindingsSpec => RelaxingTheCulpritUnblocks
<1> DEFINE before == MeshConflicts(Engines, WorkloadByID, BuildMeshMembership)
           P == \A p \in pas :
                   /\ p.mode # "permissive"
                   /\ pas' = (pas \ {p}) \cup {[p EXCEPT !.mode = "permissive"]}
                   => \A f \in before :
                         /\ f.culprit \in pas
                         /\ f.culprit = p => \A g \in before' : <<g.src, g.dst>> # <<f.src, f.dst>>
<1>1. MInv /\ MInv' /\ [FindingsNext]_allVars => P
    <2> SUFFICES ASSUME MInv, MInv', [FindingsNext]_allVars, NEW p \in pas, p.mode # "permissive",
                        pas' = (pas \ {p}) \cup {[p EXCEPT !.mode = "permissive"]},
                        NEW f \in before
                 PROVE  /\ f.culprit \in pas
                        /\ f.culprit = p => \A g \in before' : <<g.src, g.dst>> # <<f.src, f.dst>>
        OBVIOUS
    <2> DEFINE e == [p EXCEPT !.mode = "permissive"]
    <2>1. e.mode = "permissive"
        BY EditKeeps DEF MInv
    <2>2. UNCHANGED <<live, unreadable>>
        <3>1. pas' # pas
            BY <2>1
        <3> QED BY <3>1, PasAlone
    <2>3. /\ BucketFacts /\ StrictFacts /\ ConflictFacts
          /\ BucketFacts' /\ ModeFacts' /\ ConflictFacts'
        BY FactsNext, BucketsAre, StrictIs, ConflictIs, ConflictsNext
    <2>4. PICK t \in live : f.dst = WorkloadId(t) /\ Strict(t) /\ f.culprit = ModeOf(t).effective
        BY <2>3 DEF ConflictFacts
    <2> DEFINE labels == PodLabels[t]
               n == NsOf[t]
    <2>5. PICK i, c : Leads(Buckets(labels, n), i, c) /\ f.culprit = c /\ c \in pas
        BY <2>3, <2>4 DEF StrictFacts
    <2>6. ASSUME c = p, NEW g \in before', g.dst = f.dst
          PROVE  FALSE
        <3>1. Fetched(n)'
            BY <2>2, <2>3, <2>4 DEF StrictFacts, Fetched
        <3>2. Leads(Buckets(labels, n), i, e)'
            <4> HIDE DEF labels, n
            <4> QED BY <2>3, <2>5, <2>6, RelaxedLeads DEF Modes
        <3>3. ModeOf(t)'.verdict = "permissive"
            <4>1. ModeOf(t)' = resolveMtls(labels, n)'
                BY <3>1 DEF ModeOf, MtlsOf
            <4> HIDE DEF labels, n, e
            <4> QED BY <2>1, <2>3, <3>2, <4>1 DEF ModeFacts
        <3>4. Strict(t)'
            BY <2>3, <2>4, <2>6, IdsDiffer DEF ConflictFacts
        <3> QED BY <3>3, <3>4 DEF Strict
    <2> QED BY <2>5, <2>6
<1>2. [][P]_meshVars => RelaxingTheCulpritUnblocks
    BY PTL DEF RelaxingTheCulpritUnblocks
<1> QED BY <1>1, <1>2, MInvInvariant, PTL DEF FindingsSpec
=============================================================================
