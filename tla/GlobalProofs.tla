---------------------------- MODULE GlobalProofs ----------------------------
(***************************************************************************)
(* What the Calico engine's resolution and the fused verdict are worth in   *)
(* every cluster, for every policy of the fragments of GlobalVerdicts.      *)
(*                                                                         *)
(* First the places of a policy's rules and the precedence of policies,     *)
(* each with its first element; then the edges the engine resolves, a       *)
(* bucket at a time; then the rules it makes of them; then the verdict on a *)
(* pair, where VerdictProofs speaks for the Kubernetes engine; last the     *)
(* badges.                                                                 *)
(***************************************************************************)
EXTENDS GlobalVerdicts, VerdictProofs, WellFoundedInduction, FiniteSetTheorems

----------------------------------------------------------------------------
(***************************************************************************)
(* Policies as the cluster holds them.                                     *)
(***************************************************************************)

\* What the verdicts need to know of a state: a name is one policy.
GInv ==
    /\ Deployed
    /\ gnps \subseteq GlobalPols
    /\ IsFiniteSet(gnps)
    /\ \A p, q \in gnps : p.name = q.name => p = q

LEMMA GInvStep == GInv /\ [Next]_vars => GInv'
<1> SUFFICES ASSUME GInv, [Next]_vars PROVE GInv'
    OBVIOUS
<1>1. Deployed'
    BY DEF GInv, Deployed, Next, vars, Deploy, Remove, Apply, Delete, ApplyGlobal, DeleteGlobal
<1>2. gnps' \subseteq GlobalPols
    BY DEF GInv, Next, vars, Deploy, Remove, Apply, Delete, ApplyGlobal, DeleteGlobal
<1>3. ASSUME NEW p \in gnps', NEW q \in gnps', p.name = q.name PROVE p = q
    <2>1. CASE \E x \in GlobalPols : ApplyGlobal(x)
        <3>1. PICK x \in GlobalPols : ApplyGlobal(x)
            BY <2>1
        <3>2. gnps' = gnps \cup {x} /\ \A y \in gnps : y.name # x.name
            BY <3>1 DEF ApplyGlobal
        <3> QED BY <1>3, <3>2 DEF GInv
    <2>2. CASE ~ \E x \in GlobalPols : ApplyGlobal(x)
        <3>1. gnps' \subseteq gnps
            BY <2>2 DEF Next, vars, Deploy, Remove, Apply, Delete, DeleteGlobal
        <3> QED BY <1>3, <3>1 DEF GInv
    <2> QED BY <2>1, <2>2
<1>4. \A p, q \in gnps' : p.name = q.name => p = q
    BY <1>3
<1>5. IsFiniteSet(gnps')
    <2>1. gnps' = gnps \/ (\E x : gnps' = gnps \cup {x}) \/ (\E x : gnps' = gnps \ {x})
        BY DEF Next, vars, Deploy, Remove, Apply, Delete, ApplyGlobal, DeleteGlobal
    <2>2. IsFiniteSet(gnps)
        BY DEF GInv
    <2>3. \A x : IsFiniteSet(gnps \cup {x}) /\ IsFiniteSet(gnps \ {x})
        BY <2>2, FS_AddElement, FS_RemoveElement
    <2> QED BY <2>1, <2>2, <2>3
<1> QED BY <1>1, <1>2, <1>4, <1>5 DEF GInv

LEMMA GInvariant == Spec => []GInv
<1>1. Init => GInv
    BY FS_EmptySet DEF Init, GInv, Deployed
<1> QED BY <1>1, GInvStep, PTL DEF Spec

LEMMA PolicyTyped ==
    ASSUME NEW p \in GlobalPols, NEW d \in Directions
    PROVE  /\ DOMAIN p[d] \subseteq Nat
           /\ \A i \in DOMAIN p[d] : p[d][i] \in PolicyRules
           /\ p[d] # <<>> <=> Len(p[d]) > 0
           /\ p[d] # <<>> <=> DOMAIN p[d] # {}
           /\ rulesFor(p, d) \subseteq DOMAIN p[d]
<1>1. p[d] \in Seq(PolicyRules)
    BY CalicoAssumption DEF Directions
<1>2. DOMAIN p[d] = 1..Len(p[d]) /\ Len(p[d]) \in Nat
    BY <1>1
<1>3. \A i \in 1..Len(p[d]) : p[d][i] \in PolicyRules
    BY <1>1
<1>4. p[d] = <<>> <=> Len(p[d]) = 0
    BY <1>1
<1>5. rulesFor(p, d) \subseteq DOMAIN p[d]
    BY DEF rulesFor
<1> QED BY <1>2, <1>3, <1>4, <1>5

\* The engine's reading of types is Calico's.
LEMMA TypesAgree ==
    ASSUME NEW p \in GlobalPols, NEW d \in Directions
    PROVE  deriveTypes(p, d) <=> CalicoGoverns(p, d)
<1>1. /\ p.egress # <<>> <=> Len(p.egress) > 0
      /\ p.ingress # <<>> <=> Len(p.ingress) > 0
      /\ Len(p.egress) \in Nat /\ Len(p.ingress) \in Nat
    BY CalicoAssumption
<1>2. CASE p.types # {} BY <1>2 DEF deriveTypes, CalicoGoverns
<1>3. CASE p.types = {}
    <2>1. CASE d = "egress" BY <1>1, <1>3, <2>1 DEF deriveTypes, CalicoGoverns
    <2>2. CASE d = "ingress" BY <1>1, <1>3, <2>2 DEF deriveTypes, CalicoGoverns
    <2> QED BY <2>1, <2>2 DEF Directions
<1> QED BY <1>2, <1>3

----------------------------------------------------------------------------
(***************************************************************************)
(* First places and first policies.                                        *)
(***************************************************************************)

\* Some places have a first one.
LEMMA FirstPlace ==
    ASSUME NEW places \in SUBSET Nat, places # {}
    PROVE  LET first == CHOOSE i \in places : \A j \in places : i <= j
           IN  first \in places /\ \A j \in places : first <= j
<1> DEFINE less == {ss \in Nat \X Nat : ss[1] < ss[2]}
<1>1. IsWellFoundedOn(less, Nat)
    BY NatLessThanWellFounded DEF OpToRel
<1>2. PICK m \in places : \A k \in places : ~ (<<k, m>> \in less)
    <2> HIDE DEF less
    <2> QED BY <1>1, WFMin
<1>3. ASSUME NEW k \in places PROVE m <= k
    <2>1. ~ (<<k, m>> \in less)
        BY <1>2
    <2>2. k \in Nat /\ m \in Nat
        OBVIOUS
    <2>3. k < m => <<k, m>> \in less
        BY <2>2
    <2> QED BY <2>1, <2>2, <2>3
<1> QED BY <1>3

\* Numbers of some things have a least one.
LEMMA Least ==
    ASSUME NEW S, S # {}, NEW f, \A x \in S : f[x] \in Nat
    PROVE  \E m \in S : \A x \in S : f[m] <= f[x]
<1> DEFINE values == {f[x] : x \in S}
           first == CHOOSE i \in values : \A j \in values : i <= j
<1>1. values \in SUBSET Nat /\ values # {}
    OBVIOUS
<1> HIDE DEF values
<1>2. first \in values /\ \A j \in values : first <= j
    BY <1>1, FirstPlace
<1> HIDE DEF first
<1> QED BY <1>2 DEF values

\* Of policies of one tier the one Calico takes sooner is the one the engine
\* sorts before.
LEMMA SoonerIsBefore ==
    ASSUME NEW p \in GlobalPols, NEW q \in GlobalPols, OneTier(p), OneTier(q)
    PROVE  /\ sortByPrecedence(p, q) <=> Sooner(p, q)
           /\ Sooner(p, q) <=>
                 \/ normalizeOrder(p.order) < normalizeOrder(q.order)
                 \/ normalizeOrder(p.order) = normalizeOrder(q.order) /\ p.name < q.name
           /\ normalizeOrder(p.order) \in Nat /\ p.name \in Nat
<1>1. /\ tierOf(p) = DefaultTier /\ tierOf(q) = DefaultTier
      /\ p.order # MaxOrder /\ q.order # MaxOrder
    BY DEF OneTier, tierOf
<1>2. /\ TierRank[DefaultTier] \in Nat /\ MaxOrder \in Nat
      /\ p.name \in Nat /\ q.name \in Nat
      /\ p.order # Nil => p.order \in 0..MaxOrder
      /\ q.order # Nil => q.order \in 0..MaxOrder
    BY CalicoAssumption
<1>3. sortByPrecedence(p, q) <=>
         \/ normalizeOrder(p.order) < normalizeOrder(q.order)
         \/ normalizeOrder(p.order) = normalizeOrder(q.order) /\ p.name < q.name
    BY <1>1, <1>2 DEF sortByPrecedence
<1>4. Sooner(p, q) <=>
         \/ normalizeOrder(p.order) < normalizeOrder(q.order)
         \/ normalizeOrder(p.order) = normalizeOrder(q.order) /\ p.name < q.name
    BY <1>1, <1>2 DEF Sooner, normalizeOrder
<1> QED BY <1>2, <1>3, <1>4 DEF normalizeOrder

\* Some policies of one tier have a first one, the same for both.
LEMMA FirstPolicy ==
    ASSUME GInv, NEW S \in SUBSET gnps, S # {}, \A p \in S : OneTier(p)
    PROVE  /\ FirstOf(S) \in S
           /\ FirstOf(S) = CHOOSE p \in S : \A q \in S \ {p} : Sooner(p, q)
<1> DEFINE order == [p \in S |-> normalizeOrder(p.order)]
           name == [p \in S |-> p.name]
<1>1. \A p, q \in S :
         /\ sortByPrecedence(p, q) <=> Sooner(p, q)
         /\ Sooner(p, q) <=> \/ order[p] < order[q]
                             \/ order[p] = order[q] /\ name[p] < name[q]
         /\ order[p] \in Nat /\ name[p] \in Nat
         /\ name[p] = name[q] => p = q
    BY SoonerIsBefore DEF GInv
<1> HIDE DEF order, name
<1>2. PICK m \in S : \A x \in S : order[m] <= order[x]
    BY <1>1, Least
<1> DEFINE T == {x \in S : order[x] = order[m]}
<1>3. PICK n \in T : \A x \in T : name[n] <= name[x]
    <2>1. T # {} /\ \A x \in T : name[x] \in Nat
        BY <1>1
    <2> HIDE DEF T
    <2> QED BY <2>1, Least
<1>4. n \in S /\ \A q \in S \ {n} : Sooner(n, q)
    <2>1. ASSUME NEW q \in S \ {n} PROVE Sooner(n, q)
        <3>1. order[m] \in Nat /\ order[q] \in Nat /\ name[n] \in Nat /\ name[q] \in Nat
            BY <1>1
        <3>2. CASE order[q] = order[m]
            BY <1>1, <1>3, <3>1, <3>2
        <3>3. CASE order[q] # order[m]
            BY <1>1, <1>2, <3>1, <3>3
        <3> QED BY <3>2, <3>3
    <2> QED BY <2>1
<1>5. ASSUME NEW p \in S, \A q \in S \ {p} : Sooner(p, q) PROVE p = n
    <2>1. p # n => Sooner(p, n) /\ Sooner(n, p)
        BY <1>4, <1>5
    <2>2. order[p] \in Nat /\ order[n] \in Nat /\ name[p] \in Nat /\ name[n] \in Nat
        BY <1>1, <1>4
    <2> QED BY <1>1, <1>4, <2>1, <2>2
<1>6. n = CHOOSE p \in S : \A q \in S \ {p} : Sooner(p, q)
    BY <1>4, <1>5
<1>7. n = FirstOf(S)
    <2>1. \A q \in S \ {n} : sortByPrecedence(n, q)
        BY <1>1, <1>4
    <2>2. ASSUME NEW p \in S, \A q \in S \ {p} : sortByPrecedence(p, q) PROVE p = n
        BY <1>1, <1>5, <2>2
    <2> QED BY <1>4, <2>1, <2>2 DEF FirstOf
<1> QED BY <1>4, <1>6, <1>7

----------------------------------------------------------------------------
(***************************************************************************)
(* The edges of a direction.                                               *)
(***************************************************************************)

\* resolveDirection with its local definitions named: the policies with an opinion
\* on a bucket, and the edge of the first of them.
BucketsOf(id, d) == destinationBuckets(nsSelectingPolicies(NsIdOf(id)[2]), d)

Matching(id, d, b) ==
    {p \in buildBucketCandidates(nsSelectingPolicies(NsIdOf(id)[2]), d, b) :
        selectorMatches(p.selector, LabelsForSelector(id))}

Winner(id, d, b) == FirstOf(Matching(id, d, b))

EdgeOf(id, d, b) ==
    [cidr |-> b.cidr, port |-> b.port, winner |-> Winner(id, d, b),
     action |-> mapAction(FirstRule(Winner(id, d, b), d, b).action)]

EdgesOf(id, d) == {EdgeOf(id, d, b) : b \in {c \in BucketsOf(id, d) : Matching(id, d, c) # {}}}

WideBucket == [cidr |-> WanCidr, port |-> AllPorts]

LEMMA Resolved ==
    \A id, d : resolveDirection(id, d) = dropRestatedEdges(EdgesOf(id, d))
    BY DEF resolveDirection, EdgesOf, EdgeOf, Winner, Matching, BucketsOf

\* A models.Port: only the port of all ports has no number.
IsPort(port) ==
    /\ port = [port |-> port.port, protocol |-> port.protocol]
    /\ port.port = AllPorts.port => port = AllPorts

LEMMA ConvertedPorts ==
    ASSUME NEW r \in PolicyRules, NEW d \in Directions
    PROVE  /\ AllPorts \notin convertPorts(r, d)
           /\ convertPorts(r, d) = {} <=> PeerPorts(r, d) = {}
           /\ \A port \in convertPorts(r, d) : IsPort(port)
<1>1. 0 \notin PeerPorts(r, d)
    BY DEF PolicyRules, PeerPorts
<1>2. \A port \in convertPorts(r, d) : /\ port = [port |-> port.port, protocol |-> port.protocol]
                                       /\ port.port \in PeerPorts(r, d)
    BY DEF convertPorts
<1>3. AllPorts.port = 0
    BY DEF AllPorts
<1>4. \A port \in convertPorts(r, d) : port.port # AllPorts.port
    BY <1>1, <1>2, <1>3
<1>5. convertPorts(r, d) = {} <=> PeerPorts(r, d) = {}
    BY DEF convertPorts
<1> QED BY <1>2, <1>4, <1>5 DEF IsPort

LEMMA AllPortsIsPort == IsPort(AllPorts)
    BY DEF IsPort, AllPorts

\* A bucket is a range and a port.
LEMMA BucketShape ==
    ASSUME GInv, NEW d \in Directions, NEW id, NEW b \in BucketsOf(id, d)
    PROVE  /\ b = [cidr |-> b.cidr, port |-> b.port]
           /\ b.cidr \in Cidrs /\ IsPort(b.port)
<1> DEFINE ps == nsSelectingPolicies(NsIdOf(id)[2])
           rules == UNION {{p[d][i] : i \in rulesFor(p, d)} : p \in ps}
<1>1. ps \subseteq GlobalPols
    BY DEF nsSelectingPolicies, GInv
<1> HIDE DEF ps
<1>2. \A r \in rules : r \in PolicyRules
    BY <1>1, PolicyTyped
<1>3. \A r \in rules : r.nets \subseteq Cidrs /\ \A port \in convertPorts(r, d) : IsPort(port)
    BY <1>2, ConvertedPorts DEF PolicyRules
<1>4. WanCidr \in Cidrs /\ IsPort(AllPorts)
    BY ClusterAssumption, AllPortsIsPort
<1>5. \/ b = [cidr |-> WanCidr, port |-> AllPorts]
      \/ \E r \in rules : \E c \in IF r.nets = {} THEN {WanCidr} ELSE r.nets :
            \E port \in IF convertPorts(r, d) = {} THEN {AllPorts} ELSE convertPorts(r, d) :
               b = [cidr |-> c, port |-> port]
    BY DEF BucketsOf, destinationBuckets, ps
<1> HIDE DEF rules
<1>6. \E c \in Cidrs : \E port : IsPort(port) /\ b = [cidr |-> c, port |-> port]
    <2>1. CASE b = [cidr |-> WanCidr, port |-> AllPorts]
        BY <1>4, <2>1
    <2>2. ASSUME NEW r \in rules, NEW c \in IF r.nets = {} THEN {WanCidr} ELSE r.nets,
                 NEW port \in IF convertPorts(r, d) = {} THEN {AllPorts} ELSE convertPorts(r, d),
                 b = [cidr |-> c, port |-> port]
          PROVE  \E x \in Cidrs : \E y : IsPort(y) /\ b = [cidr |-> x, port |-> y]
        <3>1. c \in Cidrs /\ IsPort(port)
            BY <1>3, <1>4
        <3> QED BY <2>2, <3>1
    <2> QED BY <1>5, <2>1, <2>2
<1> QED BY <1>6

LEMMA WideIsBucket == \A id, d : WideBucket \in BucketsOf(id, d)
    BY DEF BucketsOf, destinationBuckets, WideBucket

\* The policies that may speak on a bucket, in the node's namespace.
LEMMA MatchingIn ==
    ASSUME GInv, NEW id, NEW d \in Directions, NEW b, NEW p \in Matching(id, d, b)
    PROVE  /\ p \in gnps /\ p \in GlobalPols /\ p \in nsSelectingPolicies(NsIdOf(id)[2])
           /\ selectorMatches(p.selector, LabelsForSelector(id))
           /\ Covering(p, d, b) # {}
    BY DEF Matching, buildBucketCandidates, nsSelectingPolicies, GInv

\* The first rule of a policy for a bucket covers it.
LEMMA FirstRuleCovers ==
    ASSUME NEW p \in GlobalPols, NEW d \in Directions, NEW b, Covering(p, d, b) # {}
    PROVE  /\ \E i \in Covering(p, d, b) : /\ FirstRule(p, d, b) = p[d][i]
                                           /\ \A j \in Covering(p, d, b) : i <= j
           /\ netsCover(FirstRule(p, d, b), b.cidr) /\ portsCover(convertPorts(FirstRule(p, d, b), d), b.port)
           /\ FirstRule(p, d, b) \in PolicyRules /\ FirstRule(p, d, b) \in RulesNamed(p)
           /\ FirstRule(p, d, b).action # "Log"
<1> DEFINE is == Covering(p, d, b)
           first == CHOOSE i \in is : \A j \in is : i <= j
<1>1. is \subseteq DOMAIN p[d] /\ DOMAIN p[d] \subseteq Nat
    BY PolicyTyped DEF Covering
<1>2. first \in is /\ \A j \in is : first <= j
    <2>1. is \in SUBSET Nat /\ is # {}
        BY <1>1
    <2> HIDE DEF is
    <2> QED BY <2>1, FirstPlace
<1>3. FirstRule(p, d, b) = p[d][first]
    BY DEF FirstRule
<1>4. \A i \in is : /\ netsCover(p[d][i], b.cidr) /\ portsCover(convertPorts(p[d][i], d), b.port)
                    /\ p[d][i].action # "Log"
    BY DEF Covering, rulesFor
<1> HIDE DEF is, first
<1>5. p[d][first] \in PolicyRules /\ p[d][first] \in RulesNamed(p)
    BY <1>1, <1>2, PolicyTyped DEF RulesNamed
<1> QED BY <1>2, <1>3, <1>4, <1>5 DEF is

\* In one tier the winner of a bucket has a rule for it, which decides.
LEMMA WinnerDecides ==
    ASSUME GInv, NEW id, NEW d \in Directions, NEW b, Matching(id, d, b) # {},
           \A p \in nsSelectingPolicies(NsIdOf(id)[2]) : OneTier(p)
    PROVE  /\ Winner(id, d, b) \in Matching(id, d, b)
           /\ Winner(id, d, b) =
                 CHOOSE p \in Matching(id, d, b) :
                    \A q \in Matching(id, d, b) \ {p} : Sooner(p, q)
           /\ FirstRule(Winner(id, d, b), d, b).action \in {"Allow", "Deny"}
<1>1. Matching(id, d, b) \in SUBSET gnps /\ \A p \in Matching(id, d, b) : OneTier(p)
    BY MatchingIn
<1>2. /\ Winner(id, d, b) \in Matching(id, d, b)
      /\ Winner(id, d, b) =
             CHOOSE p \in Matching(id, d, b) :
                \A q \in Matching(id, d, b) \ {p} : Sooner(p, q)
    BY <1>1, FirstPolicy DEF Winner
<1> DEFINE w == Winner(id, d, b)
<1>3. w \in GlobalPols /\ OneTier(w) /\ Covering(w, d, b) # {}
    BY <1>1, <1>2, MatchingIn
<1> HIDE DEF w
<1>4. /\ FirstRule(w, d, b) \in PolicyRules /\ FirstRule(w, d, b) \in RulesNamed(w)
      /\ FirstRule(w, d, b).action # "Log"
    BY <1>3, FirstRuleCovers
<1>5. FirstRule(w, d, b).action \in {"Allow", "Deny"}
    BY <1>3, <1>4 DEF OneTier, PolicyRules
<1> QED BY <1>2, <1>5 DEF w

\* An edge is the only one of its range and port.
LEMMA EdgeIsOne ==
    ASSUME GInv, NEW id, NEW d \in Directions, NEW e \in EdgesOf(id, d)
    PROVE  LET b == [cidr |-> e.cidr, port |-> e.port]
           IN  /\ b \in BucketsOf(id, d) /\ Matching(id, d, b) # {}
               /\ e = EdgeOf(id, d, b)
<1>1. PICK b \in BucketsOf(id, d) : Matching(id, d, b) # {} /\ e = EdgeOf(id, d, b)
    BY DEF EdgesOf
<1>2. b = [cidr |-> b.cidr, port |-> b.port] /\ e.cidr = b.cidr /\ e.port = b.port
    BY <1>1, BucketShape DEF EdgeOf
<1> QED BY <1>1, <1>2

\* The edge of a bucket is there, unless it restates the one of everything.
LEMMA EdgeKept ==
    ASSUME GInv, NEW id, NEW d \in Directions, NEW b \in BucketsOf(id, d), Matching(id, d, b) # {}
    PROVE  /\ EdgeOf(id, d, b) \in EdgesOf(id, d)
           /\ b = WideBucket => EdgeOf(id, d, b) \in resolveDirection(id, d)
           /\ \/ EdgeOf(id, d, b) \in resolveDirection(id, d)
              \/ /\ Matching(id, d, WideBucket) # {}
                 /\ EdgeOf(id, d, WideBucket) \in resolveDirection(id, d)
                 /\ EdgeOf(id, d, b).action = EdgeOf(id, d, WideBucket).action
<1> DEFINE e == EdgeOf(id, d, b)
<1>1. e \in EdgesOf(id, d) /\ e.cidr = b.cidr /\ e.port = b.port
    BY DEF EdgesOf, EdgeOf
<1> HIDE DEF e
<1>2. \A x \in EdgesOf(id, d) : x.cidr = WanCidr => x \in resolveDirection(id, d)
    BY Resolved DEF dropRestatedEdges, DirectionWide
<1>3. b = WideBucket => e \in resolveDirection(id, d)
    BY <1>1, <1>2 DEF WideBucket
<1>4. ASSUME e \notin resolveDirection(id, d)
      PROVE  /\ Matching(id, d, WideBucket) # {}
             /\ EdgeOf(id, d, WideBucket) \in resolveDirection(id, d)
             /\ e.action = EdgeOf(id, d, WideBucket).action
    <2>1. PICK w \in EdgesOf(id, d) : DirectionWide(w) /\ e.action = w.action
        BY <1>1, <1>4, Resolved DEF dropRestatedEdges
    <2>2. [cidr |-> w.cidr, port |-> w.port] = WideBucket
        BY <2>1 DEF DirectionWide, WideBucket
    <2>3. Matching(id, d, WideBucket) # {} /\ w = EdgeOf(id, d, WideBucket)
        BY <2>2, EdgeIsOne
    <2> QED BY <1>2, <2>1, <2>3 DEF DirectionWide
<1> QED BY <1>1, <1>3, <1>4 DEF e

----------------------------------------------------------------------------
(***************************************************************************)
(* A packet of a bucket: the engine asks of ranges what Calico asks of the  *)
(* address.                                                                *)
(***************************************************************************)
RangesNamed == UNION {r.nets \cup r.notNets : r \in GlobalRules}

\* What a rule asks of a packet but its address.
MeetsPorts(r, pk) ==
    /\ r.protocol \in {Nil, pk.protocol}
    /\ r.sourcePorts = {} \/ pk.sourcePort \in r.sourcePorts
    /\ r.destinationPorts = {} \/ pk.destinationPort \in r.destinationPorts

\* The ports the engine keeps are those Calico asks of the packet.
LEMMA PacketOfPort ==
    ASSUME NEW r \in PolicyRules, NEW d \in Directions, ReadsPorts(r, d),
           NEW port, IsPort(port), NEW pk \in PacketsOf(d, port)
    PROVE  portsCover(convertPorts(r, d), port) <=> MeetsPorts(r, pk)
<1> DEFINE own == IF d = "ingress" THEN pk.sourcePort ELSE pk.destinationPort
<1>1. /\ own = port.port
      /\ port # AllPorts => pk.protocol = port.protocol
    BY DEF PacketsOf
<1>2. PeerPorts(r, d) = {} <=> r.protocol = Nil
    BY DEF ReadsPorts
<1>3. MeetsPorts(r, pk)
      <=> r.protocol \in {Nil, pk.protocol} /\ (PeerPorts(r, d) = {} \/ own \in PeerPorts(r, d))
    BY DEF MeetsPorts, ReadsPorts, PeerPorts, Directions
<1>4. AllPorts \notin convertPorts(r, d) /\ (convertPorts(r, d) = {} <=> PeerPorts(r, d) = {})
    BY ConvertedPorts
<1>5. port \in convertPorts(r, d) <=> port.port \in PeerPorts(r, d) /\ port.protocol = r.protocol
    BY DEF convertPorts, IsPort
<1>6. 0 \notin PeerPorts(r, d)
    BY DEF PolicyRules, PeerPorts
<1>7. port = AllPorts => port.port = 0
    BY DEF AllPorts
<1> HIDE DEF own
<1>8. portsCover(convertPorts(r, d), port)
         <=> r.protocol \in {Nil, pk.protocol} /\ (PeerPorts(r, d) = {} \/ own \in PeerPorts(r, d))
    <2>1. CASE PeerPorts(r, d) = {}
        BY <1>2, <1>4, <2>1 DEF portsCover
    <2>2. CASE PeerPorts(r, d) # {} /\ port = AllPorts
        BY <1>1, <1>4, <1>6, <1>7, <2>2 DEF portsCover
    <2>3. CASE PeerPorts(r, d) # {} /\ port # AllPorts
        BY <1>1, <1>2, <1>4, <1>5, <2>3 DEF portsCover
    <2> QED BY <2>1, <2>2, <2>3
<1> QED BY <1>3, <1>8

LEMMA DecidingIsCovering ==
    ASSUME GInv, NEW p \in gnps, OneTier(p), NEW d \in Directions,
           NEW b, b.cidr \in Cidrs, IsPort(b.port),
           NEW a \in Typical(b.cidr, RangesNamed), NEW pk \in PacketsOf(d, b.port)
    PROVE  Deciding(p, d, a, pk) = Covering(p, d, b)
<1>1. p \in GlobalPols
    BY DEF GInv
<1>2. ASSUME NEW i \in DOMAIN p[d], p[d][i].action # "Log"
      PROVE  HitsPacket(p[d][i], a, pk)
                <=> netsCover(p[d][i], b.cidr) /\ portsCover(convertPorts(p[d][i], d), b.port)
    <2> DEFINE r == p[d][i]
    <2>1. r \in PolicyRules /\ r \in RulesNamed(p)
        BY <1>1, PolicyTyped DEF RulesNamed
    <2>2. r.nets \cup r.notNets \subseteq RangesNamed
        BY <2>1 DEF RangesNamed, GlobalRules
    <2>3. ReadsPorts(r, d)
        BY <1>2 DEF OneTier, rulesFor
    <2> HIDE DEF r
    <2>4. \A x \in r.nets \cup r.notNets : a \in AddrsOf[x] <=> CidrContains(x, b.cidr)
        BY <2>2 DEF Typical, CidrContains
    <2>5. portsCover(convertPorts(r, d), b.port) <=> MeetsPorts(r, pk)
        BY <2>1, <2>3, PacketOfPort
    <2>6. HitsPacket(r, a, pk) <=> netsCover(r, b.cidr) /\ portsCover(convertPorts(r, d), b.port)
        BY <2>4, <2>5 DEF HitsPacket, MeetsPorts, netsCover
    <2> QED BY <2>6 DEF r
<1> QED BY <1>2 DEF Deciding, Covering, rulesFor

\* A workload and the names of the operators for it.
LEMMA AtWorkload ==
    ASSUME GInv, NEW w \in live
    PROVE  LET id == WorkloadId(w) IN
           /\ id[2] = w /\ w \in Workloads /\ NsOf[w] \in Namespaces
           /\ NsIdOf(id) = NsId(NsOf[w]) /\ NsIdOf(id)[2] = NsOf[w]
           /\ InNs(id) = nsSelectingPolicies(NsOf[w])
           /\ LabelsForSelector(id) = PodLabels[w]
           /\ id \in IndexedNodes /\ NsId(NsOf[w]) \in IndexedNodes
<1>1. w \in Workloads /\ NsOf[w] \in Namespaces
    BY ClusterAssumption DEF GInv, Deployed
<1> QED BY <1>1, Ids DEF InNs, LabelsForSelector, IndexedNodes, NsWorkloads

\* The policies Calico asks about a packet are those the engine compares.
LEMMA MatchingIs ==
    ASSUME GInv, NEW w \in live, \A p \in InNs(WorkloadId(w)) : OneTier(p),
           NEW d \in Directions, NEW b
    PROVE  Matching(WorkloadId(w), d, b) = {p \in Globals(WorkloadId(w), d) : Covering(p, d, b) # {}}
<1> DEFINE id == WorkloadId(w)
<1>1. /\ id[2] = w /\ NsIdOf(id)[2] = NsOf[w] /\ InNs(id) = nsSelectingPolicies(NsOf[w])
      /\ LabelsForSelector(id) = PodLabels[w]
    BY AtWorkload
<1> HIDE DEF id
<1>2. ASSUME NEW p \in InNs(id), Covering(p, d, b) # {}
      PROVE  FirstRule(p, d, b).action # "Pass" /\ CalicoGoverns(p, d)
    <2>1. p \in GlobalPols /\ OneTier(p)
        BY <1>1, <1>2 DEF id, nsSelectingPolicies, GInv
    <2>2. FirstRule(p, d, b) \in RulesNamed(p)
        BY <1>2, <2>1, FirstRuleCovers
    <2>3. p[d] # <<>>
        BY <1>2, <2>1, PolicyTyped DEF Covering
    <2> QED BY <2>1, <2>2, <2>3 DEF OneTier
<1>3. ASSUME NEW p
      PROVE  p \in Matching(id, d, b) <=> p \in Globals(id, d) /\ Covering(p, d, b) # {}
    <2>1. p \in Matching(id, d, b)
             <=> /\ p \in InNs(id) /\ Covering(p, d, b) # {}
                 /\ FirstRule(p, d, b).action # "Pass"
                 /\ selectorMatches(p.selector, PodLabels[w])
        BY <1>1 DEF Matching, buildBucketCandidates
    <2>2. p \in Globals(id, d)
             <=> p \in InNs(id) /\ CalicoGoverns(p, d) /\ selectorMatches(p.selector, PodLabels[w])
        BY <1>1 DEF Globals, nsSelectingPolicies
    <2> QED BY <1>2, <2>1, <2>2
<1> QED BY <1>3 DEF id

\* The first match on a packet of a bucket is the winner's first rule for it.
LEMMA FirstMatchIs ==
    ASSUME GInv, NEW w \in live, \A p \in InNs(WorkloadId(w)) : OneTier(p),
           NEW d \in Directions, NEW b, b.cidr \in Cidrs, IsPort(b.port),
           NEW a \in Typical(b.cidr, RangesNamed), NEW pk \in PacketsOf(d, b.port)
    PROVE  LET id == WorkloadId(w) IN
           /\ Matching(id, d, b) = {} => FirstMatch(id, d, a, pk) = "Deny"
           /\ Matching(id, d, b) # {} =>
                 FirstMatch(id, d, a, pk) = FirstRule(Winner(id, d, b), d, b).action
<1> DEFINE id == WorkloadId(w)
           deciders == {p \in Globals(id, d) : Deciding(p, d, a, pk) # {}}
           first == CHOOSE p \in deciders : \A q \in deciders \ {p} : Sooner(p, q)
           places == Deciding(first, d, a, pk)
<1>1. deciders = Matching(id, d, b)
    <2>1. Globals(id, d) \subseteq gnps
        BY DEF Globals
    <2>2. \A p \in Globals(id, d) : OneTier(p)
        BY <2>1, AtWorkload DEF Globals, nsSelectingPolicies
    <2>3. \A p \in Globals(id, d) : Deciding(p, d, a, pk) = Covering(p, d, b)
        BY <2>1, <2>2, DecidingIsCovering
    <2> QED BY <2>3, MatchingIs
<1>2. FirstMatch(id, d, a, pk) =
          IF deciders = {} THEN "Deny"
          ELSE first[d][CHOOSE i \in places : \A j \in places : i <= j].action
    BY DEF FirstMatch
<1>3. ASSUME Matching(id, d, b) # {}
      PROVE  first = Winner(id, d, b) /\ places = Covering(Winner(id, d, b), d, b)
    <2>1. nsSelectingPolicies(NsIdOf(id)[2]) = InNs(id)
        BY AtWorkload
    <2>2. /\ Winner(id, d, b) \in Matching(id, d, b)
          /\ Winner(id, d, b) =
                CHOOSE p \in Matching(id, d, b) :
                   \A q \in Matching(id, d, b) \ {p} : Sooner(p, q)
        BY <1>3, <2>1, WinnerDecides
    <2>3. first = Winner(id, d, b)
        BY <1>1, <2>2
    <2>4. Winner(id, d, b) \in gnps /\ OneTier(Winner(id, d, b))
        BY <2>1, <2>2, MatchingIn
    <2> HIDE DEF first
    <2> QED BY <2>3, <2>4, DecidingIsCovering
<1>4. FirstRule(Winner(id, d, b), d, b) =
         LET is == Covering(Winner(id, d, b), d, b)
         IN  Winner(id, d, b)[d][CHOOSE i \in is : \A j \in is : i <= j]
    BY DEF FirstRule
<1> HIDE DEF deciders, first, places
<1> QED BY <1>1, <1>2, <1>3, <1>4

----------------------------------------------------------------------------
(***************************************************************************)
(* The rules of a node.                                                    *)
(***************************************************************************)

PeerOf(c) == IF c = WanCidr THEN Empty ELSE CidrId(c)

\* The rule of an edge.
RuleOf(id, d, e) ==
    [node |-> id, direction |-> d, coverage |-> coverageFor(e), action |-> e.action,
     peer |-> PeerOf(e.cidr), ports |-> {e.port.port} \ {AllPorts.port},
     protocol |-> e.port.protocol, contributor |-> e.winner]

Baseline(id, d) == denyAllBaseline(id, d, FirstOf(workloadSelectingPolicies(id)))

\* The rules of a direction are those of its edges, its default deny or its mark.
LEMMA RulesAre ==
    ASSUME NEW id, NEW d, NEW r
    PROVE  /\ r \in resolveWorkload(id, d) =>
                 /\ r.node = id /\ r.direction = d
                 /\ r.coverage = "unenforced" <=> ~anyGoverns(workloadSelectingPolicies(id), d)
                                                 /\ r = unenforcedRule(id, d, FirstOf(workloadSelectingPolicies(id)))
           /\ anyGoverns(workloadSelectingPolicies(id), d) =>
                 (r \in resolveWorkload(id, d)
                     <=> \/ \E e \in resolveDirection(id, d) : r = RuleOf(id, d, e)
                         \/ ~hasCatchAll(resolveDirection(id, d)) /\ r = Baseline(id, d))
           /\ workloadSelectingPolicies(id) = {} => r \notin resolveWorkload(id, d)
<1> DEFINE selecting == workloadSelectingPolicies(id)
           edges == resolveDirection(id, d)
           mark == unenforcedRule(id, d, FirstOf(selecting))
<1>1. buildRulesForWorkload(id, edges, d) = {RuleOf(id, d, e) : e \in edges}
    BY DEF buildRulesForWorkload, RuleOf, PeerOf
<1> HIDE DEF edges
<1>2. r \in resolveWorkload(id, d)
         <=> /\ selecting # {}
             /\ \/ \E e \in edges : r = RuleOf(id, d, e)
                \/ ~anyGoverns(selecting, d) /\ r = mark
                \/ anyGoverns(selecting, d) /\ ~hasCatchAll(edges) /\ r = Baseline(id, d)
    BY <1>1 DEF resolveWorkload, edges, Baseline
<1>3. \A e \in edges : /\ RuleOf(id, d, e).node = id /\ RuleOf(id, d, e).direction = d
                       /\ RuleOf(id, d, e).coverage # "unenforced"
    BY DEF RuleOf, coverageFor
<1>4. /\ mark.node = id /\ mark.direction = d /\ mark.coverage = "unenforced"
      /\ Baseline(id, d).node = id /\ Baseline(id, d).direction = d
      /\ Baseline(id, d).coverage # "unenforced"
    BY DEF unenforcedRule, Baseline, denyAllBaseline
<1>5. anyGoverns(selecting, d) => selecting # {}
    BY DEF anyGoverns
<1> HIDE DEF selecting, mark
<1>6. r \in resolveWorkload(id, d) =>
         /\ r.node = id /\ r.direction = d
         /\ r.coverage = "unenforced" <=> ~anyGoverns(selecting, d) /\ r = mark
    BY <1>2, <1>3, <1>4
<1> QED BY <1>2, <1>5, <1>6 DEF selecting, edges, mark

\* A node's rules among those of the engine.
LEMMA MineIs ==
    ASSUME NEW n \in IndexedNodes, NEW d \in Directions
    PROVE  {r \in CalicoRules : r.node = n /\ r.direction = d} = resolveWorkload(n, d)
<1>1. \A m, x, r : r \in resolveWorkload(m, x) => r.node = m /\ r.direction = x
    BY RulesAre
<1>2. CalicoRules = UNION {resolveWorkload(m, x) : m \in IndexedNodes, x \in {"ingress", "egress"}}
    BY DEF CalicoRules
<1>3. ASSUME NEW r PROVE r \in CalicoRules /\ r.node = n /\ r.direction = d <=> r \in resolveWorkload(n, d)
    BY <1>1, <1>2 DEF Directions
<1> QED BY <1>3

\* Rules of two ranges are told apart.
LEMMA RulesDiffer ==
    /\ \A c, e : PeerOf(c) = PeerOf(e) => c = e
    /\ PeerOf(WanCidr) = Empty
<1>1. \A c, e : PeerOf(c) = PeerOf(e) => c = e
    BY IdsDiffer DEF PeerOf
<1> QED BY <1>1 DEF PeerOf

\* So are rules of two ports.
HasPort(r, port) == r.ports = {port.port} \ {AllPorts.port} /\ r.protocol = port.protocol

LEMMA PortsDiffer ==
    ASSUME NEW r, NEW x, IsPort(x), NEW y, IsPort(y), HasPort(r, x), HasPort(r, y)
    PROVE  x = y
<1>1. {x.port} \ {AllPorts.port} = {y.port} \ {AllPorts.port} /\ x.protocol = y.protocol
    BY DEF HasPort
<1>2. CASE x.port = AllPorts.port
    BY <1>1, <1>2 DEF IsPort
<1>3. CASE x.port # AllPorts.port
    BY <1>1, <1>3 DEF IsPort
<1> QED BY <1>2, <1>3

\* An allow of everything that decides allows every range.
LEMMA WideAllows ==
    ASSUME GInv, NEW w \in live, \A p \in InNs(WorkloadId(w)) : OneTier(p),
           NEW d \in Directions, NEW b, b.cidr \in Cidrs, Matching(WorkloadId(w), d, b) = {},
           Matching(WorkloadId(w), d, WideBucket) # {}
    PROVE  EdgeOf(WorkloadId(w), d, WideBucket).action = "deny"
<1> DEFINE id == WorkloadId(w)
           p == Winner(id, d, WideBucket)
           r == FirstRule(p, d, WideBucket)
<1>1. nsSelectingPolicies(NsIdOf(id)[2]) = InNs(id)
    BY AtWorkload
<1>2. p \in Matching(id, d, WideBucket) /\ r.action \in {"Allow", "Deny"}
    BY <1>1, WinnerDecides
<1>3. /\ p \in GlobalPols /\ p \in Globals(id, d) /\ OneTier(p) /\ Covering(p, d, WideBucket) # {}
    BY <1>1, <1>2, MatchingIn, MatchingIs
<1> HIDE DEF p, id
<1>4. /\ \E i \in Covering(p, d, WideBucket) : r = p[d][i]
      /\ netsCover(r, WanCidr) /\ portsCover(convertPorts(r, d), AllPorts) /\ r \in RulesNamed(p)
    BY <1>3, FirstRuleCovers DEF WideBucket
<1>5. ASSUME r.action = "Allow" PROVE FALSE
    <2>1. AllowsWan(r) /\ convertPorts(r, d) = {}
        BY <1>4, <1>5 DEF netsCover, portsCover, AllowsWan
    <2>2. r.notNets = {}
        BY <1>3, <1>4, <2>1 DEF OneTier
    <2>3. AddrsOf[b.cidr] \subseteq AddrsOf[WanCidr]
        BY ClusterAssumption
    <2>4. netsCover(r, b.cidr) /\ portsCover(convertPorts(r, d), b.port)
        BY <2>1, <2>2, <2>3 DEF netsCover, portsCover, AllowsWan, CidrContains
    <2>5. Covering(p, d, b) # {}
        BY <1>4, <2>4 DEF Covering
    <2> QED BY <1>3, <2>5, MatchingIs DEF id
<1>6. EdgeOf(id, d, WideBucket).action = mapAction(r.action)
    BY DEF EdgeOf, p
<1> QED BY <1>2, <1>5, <1>6 DEF mapAction, id

----------------------------------------------------------------------------
(***************************************************************************)
(* What the rules say of a bucket is what the first match does to a packet  *)
(* there.                                                                  *)
(***************************************************************************)

Action(match) == IF match = "Allow" THEN "allow" ELSE "deny"

\* What Says compares of a workload's rules.
OwnRules(id, d, b) ==
    {r \in resolveWorkload(id, d) : r.peer = PeerOf(b.cidr) /\ HasPort(r, b.port)}

WideRules(id, d) == {r \in resolveWorkload(id, d) : r.coverage \in {"allow all", "deny all"}}

LEMMA SaysIs ==
    ASSUME NEW id \in IndexedNodes, NEW d \in Directions, NEW b
    PROVE  Says(CalicoRules, id, d, b) =
              {r.action : r \in IF OwnRules(id, d, b) # {} THEN OwnRules(id, d, b) ELSE WideRules(id, d)}
<1>1. {r \in CalicoRules : r.node = id /\ r.direction = d} = resolveWorkload(id, d)
    BY MineIs
<1> QED BY <1>1 DEF Says, OwnRules, WideRules, PeerOf, HasPort

\* Where some edge or the default deny speaks for a governed direction.
LEMMA Governed ==
    ASSUME GInv, NEW w \in live, NEW d \in Directions, Globals(WorkloadId(w), d) # {}
    PROVE  anyGoverns(workloadSelectingPolicies(WorkloadId(w)), d)
<1> DEFINE id == WorkloadId(w)
<1>1. PICK p \in Globals(id, d) : TRUE
    OBVIOUS
<1>2. id[2] = w /\ NsIdOf(id)[2] = NsOf[w] /\ LabelsForSelector(id) = PodLabels[w]
    BY AtWorkload
<1>3. p \in workloadSelectingPolicies(id) /\ CalicoGoverns(p, d) /\ p \in GlobalPols
    BY <1>1, <1>2 DEF Globals, workloadSelectingPolicies, nsSelectingPolicies, GInv
<1> QED BY <1>3, TypesAgree DEF anyGoverns

\* The rules of everything: those of the edge of everything or, without one,
\* the default deny.
LEMMA WideIs ==
    ASSUME GInv, NEW id, NEW d \in Directions, anyGoverns(workloadSelectingPolicies(id), d)
    PROVE  /\ hasCatchAll(resolveDirection(id, d)) <=> Matching(id, d, WideBucket) # {}
           /\ WideRules(id, d) =
                 IF Matching(id, d, WideBucket) # {} THEN {RuleOf(id, d, EdgeOf(id, d, WideBucket))}
                 ELSE {Baseline(id, d)}
<1> DEFINE M == Matching(id, d, WideBucket)
           w == EdgeOf(id, d, WideBucket)
<1>1. \A e \in resolveDirection(id, d) : DirectionWide(e) => M # {} /\ e = w
    <2> SUFFICES ASSUME NEW e \in resolveDirection(id, d), DirectionWide(e) PROVE M # {} /\ e = w
        OBVIOUS
    <2>1. e \in EdgesOf(id, d)
        BY Resolved DEF dropRestatedEdges
    <2>2. [cidr |-> e.cidr, port |-> e.port] = WideBucket
        BY DEF DirectionWide, WideBucket
    <2> QED BY <2>1, <2>2, EdgeIsOne
<1>2. M # {} => w \in resolveDirection(id, d) /\ DirectionWide(w)
    <2>1. DirectionWide(w)
        BY DEF DirectionWide, EdgeOf, WideBucket
    <2> QED BY <2>1, WideIsBucket, EdgeKept
<1>3. hasCatchAll(resolveDirection(id, d)) <=> M # {}
    BY <1>1, <1>2 DEF hasCatchAll
<1>4. \A e : RuleOf(id, d, e).coverage \in {"allow all", "deny all"} <=> DirectionWide(e)
    BY DEF RuleOf, coverageFor
<1>5. Baseline(id, d).coverage = "deny all"
    BY DEF Baseline, denyAllBaseline
<1> HIDE DEF M, w
<1>6. ASSUME NEW r
      PROVE  r \in WideRules(id, d)
                <=> \/ M # {} /\ r = RuleOf(id, d, w)
                    \/ M = {} /\ r = Baseline(id, d)
    <2>1. r \in resolveWorkload(id, d)
             <=> \/ \E e \in resolveDirection(id, d) : r = RuleOf(id, d, e)
                 \/ M = {} /\ r = Baseline(id, d)
        BY <1>3, RulesAre
    <2>2. r \in WideRules(id, d)
             <=> r \in resolveWorkload(id, d) /\ r.coverage \in {"allow all", "deny all"}
        BY DEF WideRules
    <2>3. CASE M # {}
        BY <1>1, <1>2, <1>4, <2>1, <2>2, <2>3
    <2>4. CASE M = {}
        BY <1>1, <1>4, <1>5, <2>1, <2>2, <2>4
    <2> QED BY <2>3, <2>4
<1>7. WideRules(id, d) = IF M # {} THEN {RuleOf(id, d, w)} ELSE {Baseline(id, d)}
    BY <1>6
<1> QED BY <1>3, <1>7 DEF M, w

\* The rules of a bucket: that of its edge if it is there, and of the bucket of
\* everything the default deny.
LEMMA OwnIs ==
    ASSUME GInv, NEW id, NEW d \in Directions, anyGoverns(workloadSelectingPolicies(id), d),
           NEW b \in BucketsOf(id, d), NEW r
    PROVE  r \in OwnRules(id, d, b)
              <=> \/ /\ Matching(id, d, b) # {} /\ EdgeOf(id, d, b) \in resolveDirection(id, d)
                     /\ r = RuleOf(id, d, EdgeOf(id, d, b))
                  \/ b = WideBucket /\ Matching(id, d, b) = {} /\ r = Baseline(id, d)
<1>1. b = [cidr |-> b.cidr, port |-> b.port] /\ IsPort(b.port)
    BY BucketShape
<1>2. \A e \in resolveDirection(id, d) :
         /\ Matching(id, d, [cidr |-> e.cidr, port |-> e.port]) # {}
         /\ e = EdgeOf(id, d, [cidr |-> e.cidr, port |-> e.port])
         /\ IsPort(e.port)
    <2>1. \A e \in resolveDirection(id, d) : e \in EdgesOf(id, d)
        BY Resolved DEF dropRestatedEdges
    <2>2. ASSUME NEW e \in resolveDirection(id, d) PROVE IsPort(e.port)
        <3> DEFINE x == [cidr |-> e.cidr, port |-> e.port]
        <3>1. x \in BucketsOf(id, d) /\ x.port = e.port
            BY <2>1, EdgeIsOne
        <3> HIDE DEF x
        <3> QED BY <3>1, BucketShape
    <2> QED BY <2>1, <2>2, EdgeIsOne
<1>3. \A e : RuleOf(id, d, e).peer = PeerOf(e.cidr) /\ HasPort(RuleOf(id, d, e), e.port)
    BY DEF RuleOf, HasPort
<1>4. Baseline(id, d).peer = Empty /\ HasPort(Baseline(id, d), AllPorts)
    BY DEF Baseline, denyAllBaseline, HasPort, AllPorts
<1>5. EdgeOf(id, d, b).cidr = b.cidr /\ EdgeOf(id, d, b).port = b.port
    BY DEF EdgeOf
<1>6. r \in resolveWorkload(id, d)
         <=> \/ \E e \in resolveDirection(id, d) : r = RuleOf(id, d, e)
             \/ Matching(id, d, WideBucket) = {} /\ r = Baseline(id, d)
    BY RulesAre, WideIs
<1>7. r \in OwnRules(id, d, b)
         <=> /\ r \in resolveWorkload(id, d)
             /\ r.peer = PeerOf(b.cidr) /\ HasPort(r, b.port)
    BY DEF OwnRules
<1>8. b = WideBucket <=> PeerOf(b.cidr) = Empty /\ HasPort(Baseline(id, d), b.port)
    <2>1. PeerOf(b.cidr) = Empty <=> b.cidr = WanCidr
        BY RulesDiffer
    <2>2. HasPort(Baseline(id, d), b.port) => b.port = AllPorts
        BY <1>1, <1>4, AllPortsIsPort, PortsDiffer
    <2> QED BY <1>1, <1>4, <2>1, <2>2 DEF WideBucket
<1>9. ASSUME NEW e \in resolveDirection(id, d), r = RuleOf(id, d, e), r \in OwnRules(id, d, b)
      PROVE  Matching(id, d, b) # {} /\ e = EdgeOf(id, d, b)
    <2>1. e.cidr = b.cidr /\ e.port = b.port
        <3>1. PeerOf(e.cidr) = PeerOf(b.cidr) /\ HasPort(r, e.port) /\ HasPort(r, b.port)
            BY <1>3, <1>7, <1>9
        <3>2. PeerOf(e.cidr) = PeerOf(b.cidr) => e.cidr = b.cidr
            BY RulesDiffer
        <3>3. e.port = b.port
            BY <1>1, <1>2, <1>9, <3>1, PortsDiffer
        <3> QED BY <3>1, <3>2, <3>3
    <2> QED BY <1>1, <1>2, <2>1
<1>10. ASSUME r = RuleOf(id, d, EdgeOf(id, d, b)), EdgeOf(id, d, b) \in resolveDirection(id, d)
       PROVE  r \in OwnRules(id, d, b)
    BY <1>3, <1>5, <1>6, <1>7, <1>10
<1>11. r = Baseline(id, d) => (r.peer = PeerOf(b.cidr) /\ HasPort(r, b.port) <=> b = WideBucket)
    BY <1>4, <1>8
<1> QED BY <1>6, <1>7, <1>9, <1>10, <1>11

LEMMA BucketsState == GInv => BucketsAreFirstMatch
<1> SUFFICES ASSUME GInv, NEW id \in LiveIds, NEW d \in Directions, Globals(id, d) # {},
                    \A p \in InNs(id) : OneTier(p),
                    NEW b \in destinationBuckets(InNs(id), d),
                    NEW a \in Typical(b.cidr, RangesNamed), NEW pk \in PacketsOf(d, b.port)
             PROVE  Says(CalicoRules, id, d, b) = {Action(FirstMatch(id, d, a, pk))}
    BY DEF BucketsAreFirstMatch, RangesNamed, Action
<1>1. PICK w \in live : id = WorkloadId(w)
    BY DEF LiveIds
<1>2. id \in IndexedNodes /\ nsSelectingPolicies(NsIdOf(id)[2]) = InNs(id) /\ b \in BucketsOf(id, d)
    BY <1>1, AtWorkload DEF BucketsOf
<1>3. b.cidr \in Cidrs /\ IsPort(b.port)
    BY <1>2, BucketShape
<1>4. anyGoverns(workloadSelectingPolicies(id), d)
    BY <1>1, Governed
<1> DEFINE own == OwnRules(id, d, b)
           wide == WideRules(id, d)
           act == Action(FirstMatch(id, d, a, pk))
<1>5. SUFFICES \/ \E r : own = {r} /\ r.action = act
               \/ own = {} /\ \E r : wide = {r} /\ r.action = act
    <2>1. {r.action : r \in IF own # {} THEN own ELSE wide} = {act}
        <3> HIDE DEF own, wide, act
        <3> QED BY <1>5
    <2> QED BY <1>2, <2>1, SaysIs
<1>6. \A e : RuleOf(id, d, e).action = e.action
    BY DEF RuleOf
<1>7. Baseline(id, d).action = "deny"
    BY DEF Baseline, denyAllBaseline
<1>8. CASE Matching(id, d, b) # {}
    <2>1. EdgeOf(id, d, b).action = act
        <3>1. FirstMatch(id, d, a, pk) = FirstRule(Winner(id, d, b), d, b).action
            BY <1>1, <1>3, <1>8, FirstMatchIs
        <3>2. FirstRule(Winner(id, d, b), d, b).action \in {"Allow", "Deny"}
            BY <1>2, <1>8, WinnerDecides
        <3>3. EdgeOf(id, d, b).action = mapAction(FirstRule(Winner(id, d, b), d, b).action)
            BY DEF EdgeOf
        <3> QED BY <3>1, <3>2, <3>3 DEF mapAction, Action
    <2>2. CASE EdgeOf(id, d, b) \in resolveDirection(id, d)
        <3>1. own = {RuleOf(id, d, EdgeOf(id, d, b))}
            BY <1>2, <1>4, <1>8, <2>2, OwnIs
        <3> QED BY <1>6, <2>1, <3>1
    <2>3. CASE EdgeOf(id, d, b) \notin resolveDirection(id, d)
        <3>1. own = {}
            BY <1>2, <1>4, <1>8, <2>3, OwnIs
        <3>2. /\ Matching(id, d, WideBucket) # {}
              /\ EdgeOf(id, d, b).action = EdgeOf(id, d, WideBucket).action
            BY <1>2, <1>8, <2>3, EdgeKept
        <3>3. wide = {RuleOf(id, d, EdgeOf(id, d, WideBucket))}
            BY <1>4, <3>2, WideIs
        <3> QED BY <1>6, <2>1, <3>1, <3>2, <3>3
    <2> QED BY <2>2, <2>3
<1>9. CASE Matching(id, d, b) = {}
    <2>1. act = "deny"
        BY <1>1, <1>3, <1>9, FirstMatchIs DEF Action
    <2>2. CASE b = WideBucket
        <3>1. own = {Baseline(id, d)}
            BY <1>2, <1>4, <1>9, <2>2, OwnIs
        <3> QED BY <1>7, <2>1, <3>1
    <2>3. CASE b # WideBucket
        <3>1. own = {}
            BY <1>2, <1>4, <1>9, <2>3, OwnIs
        <3>2. Matching(id, d, WideBucket) # {} => EdgeOf(id, d, WideBucket).action = "deny"
            BY <1>1, <1>3, <1>9, WideAllows
        <3>3. wide = IF Matching(id, d, WideBucket) # {}
                     THEN {RuleOf(id, d, EdgeOf(id, d, WideBucket))} ELSE {Baseline(id, d)}
            BY <1>4, WideIs
        <3> QED BY <1>6, <1>7, <2>1, <3>1, <3>2, <3>3
    <2> QED BY <2>2, <2>3
<1> QED BY <1>8, <1>9

\* For every range and port a policy names, what the engine's rules say of the
\* workload is what Calico's first matching rule does (resolveDirection,
\* dropRestatedEdges, denyAllBaseline), for any policies of the fragment.
THEOREM BucketsResolve == Spec => []BucketsAreFirstMatch
    BY GInvariant, BucketsState, PTL

----------------------------------------------------------------------------
(***************************************************************************)
(* The verdict on a pair: what each engine says of each end, and how they   *)
(* are fused.                                                              *)
(***************************************************************************)

\* The ports of a side are those of its allows.
LEMMA SamePorts ==
    ASSUME NEW e, NEW f, NEW d \in Directions, NEW id, NEW q,
           Side(e, d, id, q).matches.allow = Side(f, d, id, q).matches.allow
    PROVE  /\ Side(e, d, id, q).ports = Side(f, d, id, q).ports
           /\ Side(e, d, id, q).allPorts <=> Side(f, d, id, q).allPorts
<1> DEFINE ports == PortsOf(Side(f, d, id, q).matches.allow)
<1>1. /\ Side(f, d, id, q).allPorts <=> {} \in ports
      /\ Side(f, d, id, q).ports = UNION ports
    BY SidePorts
<1>2. PortsOf(Side(e, d, id, q).matches.allow) = ports
    OBVIOUS
<1>3. /\ Side(e, d, id, q).allPorts <=> {} \in ports
      /\ Side(e, d, id, q).ports = UNION ports
    BY <1>2, SidePorts
<1> QED BY <1>1, <1>3

\* The answer about an end does not depend on ranges its rules do not name.
LEMMA SideStays ==
    ASSUME NEW rules, OnlyExceptsDeny(rules), NEW M, NEW N,
           \A r \in rules : NodeType(r.peer) = "cidr" => r.peer \in M /\ r.peer \in N,
           NEW d \in Directions, NEW id, NEW q, NodeType(q) # "cidr"
    PROVE  LET m == Side([rules |-> rules, nodes |-> M], d, id, q)
               n == Side([rules |-> rules, nodes |-> N], d, id, q)
           IN  /\ m.reason = n.reason /\ m.ports = n.ports
               /\ m.allPorts <=> n.allPorts
<1> DEFINE e == [rules |-> rules, nodes |-> M]
           f == [rules |-> rules, nodes |-> N]
<1>1. \A r \in rules : Names(r, q, M) <=> Names(r, q, N)
    BY NamesStay
<1>2. RulesAt(rules, d, id) \subseteq rules
    BY DEF RulesAt
<1>3. /\ AllowsFor(rules, d, id, q, M) = AllowsFor(rules, d, id, q, N)
      /\ CarvesFor(rules, d, id, q, M) = CarvesFor(rules, d, id, q, N)
      /\ OtherAllows(rules, d, id, q, M) = OtherAllows(rules, d, id, q, N)
    BY <1>1, <1>2 DEF AllowsFor, CarvesFor, OtherAllows
<1>4. e.rules = rules /\ e.nodes = M /\ f.rules = rules /\ f.nodes = N
    OBVIOUS
<1> HIDE DEF e, f
<1> DEFINE m == Side(e, d, id, q).matches
           n == Side(f, d, id, q).matches
<1>5. /\ m.deny = n.deny /\ m.allow = n.allow /\ m.carveOut = n.carveOut
      /\ m.denyAll = n.denyAll /\ m.otherAllow = n.otherAllow
    <2>1. OnlyExceptsDeny(e.rules) /\ OnlyExceptsDeny(f.rules)
        BY <1>4
    <2>2. /\ m.deny = {} /\ m.allow = AllowsFor(rules, d, id, q, M)
          /\ m.carveOut = CarvesFor(rules, d, id, q, M)
          /\ m.denyAll = DenyAllAt(rules, d, id) /\ m.otherAllow = OtherAllows(rules, d, id, q, M)
        BY <1>4, <2>1, SideMatches
    <2>3. /\ n.deny = {} /\ n.allow = AllowsFor(rules, d, id, q, N)
          /\ n.carveOut = CarvesFor(rules, d, id, q, N)
          /\ n.denyAll = DenyAllAt(rules, d, id) /\ n.otherAllow = OtherAllows(rules, d, id, q, N)
        BY <1>4, <2>1, SideMatches
    <2> QED BY <1>3, <2>2, <2>3
<1> HIDE DEF m, n
<1>6. decideDirectionVerdict(m) = decideDirectionVerdict(n)
    BY <1>5 DEF decideDirectionVerdict
<1>7. /\ Side(e, d, id, q).reason = decideDirectionVerdict(m)
      /\ Side(f, d, id, q).reason = decideDirectionVerdict(n)
    BY SideDecides DEF m, n
<1>8. /\ Side(e, d, id, q).ports = Side(f, d, id, q).ports
      /\ Side(e, d, id, q).allPorts <=> Side(f, d, id, q).allPorts
    BY <1>5, SamePorts DEF m, n
<1> QED BY <1>6, <1>7, <1>8 DEF e, f

\* The Kubernetes engine's answer about an end is Kubernetes'.
LEMMA K8sEnd ==
    ASSUME GInv, NEW id \in LiveIds, NEW q \in LiveIds, id # q, InFragment(id), NEW d \in Directions,
           Side(Evaluation, d, id, q).reason = "no-opinion" => Isolating(id, d) = {}
    PROVE  Permits(Side(Evaluation, d, id, q).reason) <=> Allowed(id, d, q)
<1>1. PermitsAreReal /\ BlocksAreReal
    BY PermitsState, BlocksState DEF GInv
<1>2. q \notin Hosts
    BY IdsDiffer DEF LiveIds, Hosts, CidrNodes, BlockNodes, ExceptNodes
<1>3. Side(Evaluation, d, id, q).reason = "permitted" => Allowed(id, d, q)
    BY <1>1, <1>2 DEF PermitsAreReal
<1>4. ~Permits(Side(Evaluation, d, id, q).reason) => ~Allowed(id, d, q)
    BY <1>1 DEF BlocksAreReal
<1>5. Side(Evaluation, d, id, q).reason = "no-opinion" => Allowed(id, d, q)
    BY DEF Allowed
<1> QED BY <1>3, <1>4, <1>5 DEF Permits

----------------------------------------------------------------------------
(***************************************************************************)
(* The rules of the Calico engine filed at a workload and its namespace.   *)
(***************************************************************************)

LEMMA NearNode ==
    ASSUME GInv, NEW w \in live, \A p \in InNs(WorkloadId(w)) : MissesNs(p),
           NEW m \in {WorkloadId(w), NsId(NsOf[w])}
    PROVE  LET id == WorkloadId(w) IN
           /\ m \in IndexedNodes
           /\ nsSelectingPolicies(NsIdOf(m)[2]) = InNs(id)
           /\ workloadSelectingPolicies(m) =
                 {p \in InNs(id) : selectorMatches(p.selector, LabelsForSelector(m))}
           /\ workloadSelectingPolicies(m) \subseteq workloadSelectingPolicies(id)
           /\ \A d : Globals(id, d) = {p \in workloadSelectingPolicies(id) : CalicoGoverns(p, d)}
<1> DEFINE id == WorkloadId(w)
<1>1. /\ id[2] = w /\ NsIdOf(id)[2] = NsOf[w] /\ InNs(id) = nsSelectingPolicies(NsOf[w])
      /\ LabelsForSelector(id) = PodLabels[w]
      /\ id \in IndexedNodes /\ NsId(NsOf[w]) \in IndexedNodes
    BY AtWorkload
<1>2. /\ NsIdOf(NsId(NsOf[w]))[2] = NsOf[w] /\ LabelsForSelector(NsId(NsOf[w])) = {}
    BY Ids DEF NsIdOf, LabelsForSelector, NsId, NodeType
<1>3. nsSelectingPolicies(NsIdOf(m)[2]) = InNs(id)
    BY <1>1, <1>2
<1>4. \A p \in InNs(id) : selectorMatches(p.selector, LabelsForSelector(m))
                            => selectorMatches(p.selector, LabelsForSelector(id))
    BY <1>1, <1>2 DEF selectorMatches, MissesNs
<1> HIDE DEF id
<1>5. /\ workloadSelectingPolicies(m) =
            {p \in InNs(id) : selectorMatches(p.selector, LabelsForSelector(m))}
      /\ workloadSelectingPolicies(id) =
            {p \in InNs(id) : selectorMatches(p.selector, LabelsForSelector(id))}
    BY <1>1, <1>3 DEF workloadSelectingPolicies
<1>6. \A d : Globals(id, d) = {p \in workloadSelectingPolicies(id) : CalicoGoverns(p, d)}
    BY <1>1, <1>5 DEF Globals, nsSelectingPolicies
<1> QED BY <1>1, <1>3, <1>4, <1>5, <1>6 DEF id

\* The rules the verdict on a workload reads.
LEMMA RulesNear ==
    ASSUME GInv, NEW w \in live, NEW d \in Directions
    PROVE  LET id == WorkloadId(w) IN
           RulesAt(CalicoRules, d, id) = resolveWorkload(id, d) \cup resolveWorkload(NsId(NsOf[w]), d)
<1> DEFINE id == WorkloadId(w)
<1>1. id \in IndexedNodes /\ NsId(NsOf[w]) \in IndexedNodes /\ NsIdOf(id) = NsId(NsOf[w])
    BY AtWorkload
<1>2. \A n \in {id, NsId(NsOf[w])} :
         {r \in CalicoRules : r.node = n /\ r.direction = d} = resolveWorkload(n, d)
    BY <1>1, MineIs
<1> HIDE DEF id
<1>3. ASSUME NEW r
      PROVE  r \in RulesAt(CalicoRules, d, id)
                <=> r \in resolveWorkload(id, d) \cup resolveWorkload(NsId(NsOf[w]), d)
    BY <1>1, <1>2 DEF RulesAt
<1> QED BY <1>3 DEF id

----------------------------------------------------------------------------
(***************************************************************************)
(* One policy of allows over a deny: who it lets in.                       *)
(***************************************************************************)

\* The only policy of a namespace.
LEMMA Lone ==
    ASSUME GInv, NEW id, Cardinality(InNs(id)) <= 1, NEW p \in InNs(id)
    PROVE  InNs(id) = {p} /\ p \in GlobalPols
<1>1. InNs(id) \subseteq gnps
    BY DEF InNs, nsSelectingPolicies
<1>2. IsFiniteSet(InNs(id))
    BY <1>1, FS_Subset DEF GInv
<1> DEFINE rest == InNs(id) \ {p}
<1>3. IsFiniteSet(rest) /\ Cardinality(rest) = Cardinality(InNs(id)) - 1
    BY <1>2, FS_RemoveElement
<1>4. Cardinality(InNs(id)) \in Nat /\ Cardinality(rest) \in Nat
    BY <1>2, <1>3, FS_CardinalityType
<1>5. Cardinality(rest) = 0
    BY <1>3, <1>4
<1>6. rest = {}
    BY <1>3, <1>5, FS_EmptySet
<1> QED BY <1>1, <1>6 DEF GInv

\* An allow of the policy holds the address.
Hits(p, d, a) ==
    \E i \in rulesFor(p, d) :
       p[d][i].action = "Allow" /\ (p[d][i].nets = {} \/ \E c \in p[d][i].nets : a \in AddrsOf[c])

\* The policy's first rule for everything allows.
WideAllowed(p, d) ==
    Covering(p, d, WideBucket) # {} /\ FirstRule(p, d, WideBucket).action = "Allow"

\* What its rules are.
LEMMA LoneRule ==
    ASSUME NEW p \in GlobalPols, AllowsOverDeny(p), NEW d \in Directions, NEW i \in rulesFor(p, d)
    PROVE  /\ p[d][i].action \in {"Allow", "Deny"} /\ p[d][i] \in PolicyRules
           /\ p[d][i].notNets = {} /\ AllPorts \notin convertPorts(p[d][i], d)
           /\ \A c \in p[d][i].nets : c \in Cidrs /\ PlainRange(c)
           /\ p[d][i].action = "Deny" => p[d][i].nets = {} /\ convertPorts(p[d][i], d) = {}
           /\ p[d][i].nets = {} \/ WanCidr \in p[d][i].nets => convertPorts(p[d][i], d) = {}
           /\ p[d][i].action = "Deny" => \A j \in rulesFor(p, d) : j <= i
           /\ i \in Nat /\ i \in DOMAIN p[d]
<1> DEFINE r == p[d][i]
<1>1. i \in DOMAIN p[d] /\ i \in Nat /\ r \in PolicyRules /\ r.action # "Log"
    BY PolicyTyped DEF rulesFor
<1>2. r \in RulesNamed(p)
    BY <1>1 DEF RulesNamed
<1>3. r.action # "Pass"
    BY <1>2 DEF AllowsOverDeny, OneTier
<1>4. \A x \in RulesNamed(p) :
         /\ x.notNets = {}
         /\ \A c \in x.nets : PlainRange(c)
         /\ x.action = "Deny" => x.nets = {} /\ NamesNoPort(x)
         /\ x.nets = {} \/ WanCidr \in x.nets => NamesNoPort(x)
    BY DEF AllowsOverDeny
<1>5. \A k, j \in rulesFor(p, d) : p[d][k].action = "Deny" => j <= k
    BY DEF AllowsOverDeny
<1>6. r.action = "Deny" => \A j \in rulesFor(p, d) : j <= i
    BY <1>5
<1> HIDE DEF r
<1>7. r.action \in {"Allow", "Deny"} /\ r.nets \subseteq Cidrs /\ AllPorts \notin convertPorts(r, d)
    BY <1>1, <1>3, ConvertedPorts DEF PolicyRules
<1>8. NamesNoPort(r) => convertPorts(r, d) = {}
    BY <1>1, ConvertedPorts DEF NamesNoPort, PeerPorts
<1> QED BY <1>1, <1>2, <1>4, <1>6, <1>7, <1>8 DEF r

\* Where an allow speaks, the first place is an allow.
LEMMA FirstAllows ==
    ASSUME NEW p \in GlobalPols, AllowsOverDeny(p), NEW d \in Directions,
           NEW places \in SUBSET rulesFor(p, d), NEW i \in places, p[d][i].action = "Allow"
    PROVE  LET first == CHOOSE k \in places : \A j \in places : k <= j
           IN  first \in places /\ p[d][first].action = "Allow"
<1> DEFINE first == CHOOSE k \in places : \A j \in places : k <= j
<1>1. places \in SUBSET Nat /\ places # {}
    BY LoneRule
<1>2. first \in places /\ \A j \in places : first <= j
    BY <1>1, FirstPlace
<1> HIDE DEF first
<1>3. first \in rulesFor(p, d) /\ first <= i /\ first \in Nat /\ i \in Nat /\ i \in rulesFor(p, d)
    BY <1>1, <1>2
<1>4. p[d][first].action \in {"Allow", "Deny"}
    BY <1>3, LoneRule
<1>5. p[d][first].action = "Deny" => i <= first
    BY <1>3, LoneRule
<1>6. p[d][first].action # "Deny"
    BY <1>3, <1>5
<1> QED BY <1>2, <1>4, <1>6 DEF first

\* Some packet meets the protocol and the ports of a rule.
LEMMA SomePacket ==
    ASSUME NEW r \in GlobalRules
    PROVE  \E pk \in Packets : MeetsPorts(r, pk)
<1> DEFINE sources == UNION {x.sourcePorts : x \in GlobalRules}
           destinations == UNION {x.destinationPorts : x \in GlobalRules}
           protocols == {x.protocol : x \in GlobalRules} \cup {Nil}
<1>1. \A m \in r.sourcePorts : m \in sources
    BY Zenon
<1>2. \A m \in r.destinationPorts : m \in destinations
    BY Zenon
<1>3. r.protocol \in protocols
    OBVIOUS
<1>4. Packets = [protocol : protocols, sourcePort : {0} \cup sources,
                 destinationPort : {0} \cup destinations]
    BY DEF Packets
<1> HIDE DEF sources, destinations, protocols
<1>5. PICK n \in {0} \cup sources : r.sourcePorts = {} \/ n \in r.sourcePorts
    BY <1>1
<1>6. PICK m \in {0} \cup destinations : r.destinationPorts = {} \/ m \in r.destinationPorts
    BY <1>2
<1> DEFINE pk == [protocol |-> r.protocol, sourcePort |-> n, destinationPort |-> m]
<1>7. pk \in Packets
    BY <1>3, <1>4
<1>8. MeetsPorts(r, pk)
    BY <1>5, <1>6 DEF MeetsPorts
<1> QED BY <1>7, <1>8

\* Calico lets the address in when an allow holds it.
LEMMA CalicoHits ==
    ASSUME GInv, NEW p \in gnps, p \in GlobalPols, AllowsOverDeny(p), NEW d \in Directions,
           NEW id, Globals(id, d) = {p}, NEW a
    PROVE  CalicoAllowed(id, d, a) <=> Hits(p, d, a)
<1>1. ASSUME NEW pk
      PROVE  FirstMatch(id, d, a, pk) =
                LET places == Deciding(p, d, a, pk)
                IN  IF places = {} THEN "Deny"
                    ELSE p[d][CHOOSE i \in places : \A j \in places : i <= j].action
    <2> DEFINE deciders == {q \in Globals(id, d) : Deciding(q, d, a, pk) # {}}
               first == CHOOSE x \in deciders : \A y \in deciders \ {x} : Sooner(x, y)
    <2>1. Deciding(p, d, a, pk) # {} => deciders = {p} /\ first = p
        OBVIOUS
    <2>2. Deciding(p, d, a, pk) = {} => deciders = {}
        OBVIOUS
    <2>3. FirstMatch(id, d, a, pk) =
             LET places == Deciding(first, d, a, pk)
             IN  IF deciders = {} THEN "Deny"
                 ELSE first[d][CHOOSE i \in places : \A j \in places : i <= j].action
        BY DEF FirstMatch
    <2> HIDE DEF deciders, first
    <2> QED BY <2>1, <2>2, <2>3
<1>2. ASSUME NEW pk, FirstMatch(id, d, a, pk) = "Allow"
      PROVE  Hits(p, d, a)
    <2> DEFINE places == Deciding(p, d, a, pk)
               first == CHOOSE i \in places : \A j \in places : i <= j
    <2>1. places # {} /\ p[d][first].action = "Allow"
        BY <1>1, <1>2
    <2>2. places \subseteq rulesFor(p, d) /\ \A i \in places : HitsPacket(p[d][i], a, pk)
        BY DEF Deciding, rulesFor
    <2>3. places \in SUBSET Nat
        BY <2>2, LoneRule
    <2> HIDE DEF places
    <2>4. first \in places
        BY <2>1, <2>3, FirstPlace
    <2> QED BY <2>1, <2>2, <2>4 DEF Hits, HitsPacket
<1>3. ASSUME Hits(p, d, a)
      PROVE  \E pk \in Packets : FirstMatch(id, d, a, pk) = "Allow"
    <2>1. PICK i \in rulesFor(p, d) :
              /\ p[d][i].action = "Allow"
              /\ p[d][i].nets = {} \/ \E c \in p[d][i].nets : a \in AddrsOf[c]
        BY <1>3 DEF Hits
    <2>2. p[d][i] \in GlobalRules
        BY LoneRule DEF GlobalRules, RulesNamed
    <2>3. PICK pk \in Packets : MeetsPorts(p[d][i], pk)
        BY <2>2, SomePacket
    <2> DEFINE places == Deciding(p, d, a, pk)
               first == CHOOSE k \in places : \A j \in places : k <= j
    <2>4. i \in places /\ places \in SUBSET rulesFor(p, d)
        BY <2>1, <2>3, LoneRule DEF Deciding, rulesFor, HitsPacket, MeetsPorts
    <2>5. p[d][first].action = "Allow"
        <3> HIDE DEF places
        <3> QED BY <2>1, <2>4, FirstAllows
    <2> QED BY <1>1, <2>4, <2>5
<1>4. Globals(id, d) # {}
    OBVIOUS
<1> QED BY <1>2, <1>3, <1>4 DEF CalicoAllowed

\* A bucket but that of everything is one of an allow.
LEMMA LoneBucket ==
    ASSUME NEW p \in GlobalPols, AllowsOverDeny(p), NEW d \in Directions,
           NEW b \in destinationBuckets({p}, d), b # WideBucket
    PROVE  /\ Covering(p, d, b) # {} /\ FirstRule(p, d, b).action = "Allow"
           /\ b.cidr \in Cidrs /\ b.cidr # WanCidr /\ PlainRange(b.cidr)
<1> DEFINE rules == {p[d][i] : i \in rulesFor(p, d)}
<1>1. UNION {{q[d][i] : i \in rulesFor(q, d)} : q \in {p}} = rules
    OBVIOUS
<1>2. \E r \in rules : \E c \in IF r.nets = {} THEN {WanCidr} ELSE r.nets :
         \E port \in IF convertPorts(r, d) = {} THEN {AllPorts} ELSE convertPorts(r, d) :
            b = [cidr |-> c, port |-> port]
    BY <1>1 DEF destinationBuckets, WideBucket
<1>3. PICK i \in rulesFor(p, d) :
         \E c \in IF p[d][i].nets = {} THEN {WanCidr} ELSE p[d][i].nets :
            \E port \in IF convertPorts(p[d][i], d) = {} THEN {AllPorts} ELSE convertPorts(p[d][i], d) :
               b = [cidr |-> c, port |-> port]
    BY <1>2
<1> DEFINE r == p[d][i]
<1>4. /\ r.action \in {"Allow", "Deny"} /\ r.notNets = {} /\ AllPorts \notin convertPorts(r, d)
      /\ \A c \in r.nets : c \in Cidrs /\ PlainRange(c)
      /\ r.action = "Deny" => r.nets = {} /\ convertPorts(r, d) = {}
      /\ r.nets = {} \/ WanCidr \in r.nets => convertPorts(r, d) = {}
    BY LoneRule
<1> HIDE DEF r
<1>5. PICK c \in IF r.nets = {} THEN {WanCidr} ELSE r.nets :
         \E port \in IF convertPorts(r, d) = {} THEN {AllPorts} ELSE convertPorts(r, d) : b = [cidr |-> c, port |-> port]
    BY <1>3 DEF r
<1>6. PICK port \in IF convertPorts(r, d) = {} THEN {AllPorts} ELSE convertPorts(r, d) : b = [cidr |-> c, port |-> port]
    BY <1>5
<1>7. c # WanCidr
    <2>1. CASE c = WanCidr
        <3>1. convertPorts(r, d) = {}
            BY <1>4, <1>5, <2>1
        <3> QED BY <1>6, <2>1, <3>1 DEF WideBucket
    <2> QED BY <2>1
<1>8. c \in r.nets /\ r.action = "Allow"
    BY <1>4, <1>5, <1>7
<1>9. b.cidr = c /\ b.port = port
    BY <1>6
<1>10. netsCover(r, b.cidr) /\ portsCover(convertPorts(r, d), b.port)
    BY <1>4, <1>6, <1>8, <1>9 DEF netsCover, portsCover, CidrContains
<1>11. i \in Covering(p, d, b)
    BY <1>10 DEF Covering, r
<1>12. Covering(p, d, b) \in SUBSET rulesFor(p, d)
    BY DEF Covering
<1>13. FirstRule(p, d, b).action = "Allow"
    BY <1>8, <1>11, <1>12, FirstAllows DEF FirstRule, r
<1> QED BY <1>4, <1>7, <1>8, <1>9, <1>11, <1>13

\* The first rule of a bucket that allows holds whatever lies in its range.
LEMMA BucketHits ==
    ASSUME NEW p \in GlobalPols, AllowsOverDeny(p), NEW d \in Directions, NEW b,
           Covering(p, d, b) # {}, FirstRule(p, d, b).action = "Allow", NEW a \in AddrsOf[b.cidr]
    PROVE  Hits(p, d, a)
<1>1. PICK i \in Covering(p, d, b) : FirstRule(p, d, b) = p[d][i]
    BY FirstRuleCovers
<1>2. i \in rulesFor(p, d) /\ netsCover(p[d][i], b.cidr) /\ p[d][i].action = "Allow"
    BY <1>1 DEF Covering
<1>3. p[d][i].nets = {} \/ \E c \in p[d][i].nets : a \in AddrsOf[c]
    BY <1>2 DEF netsCover, CidrContains
<1> QED BY <1>2, <1>3 DEF Hits

\* What an allow holds lies in the range of a bucket, if not everything is allowed.
LEMMA HitsBucket ==
    ASSUME NEW p \in GlobalPols, AllowsOverDeny(p), NEW d \in Directions, NEW a, Hits(p, d, a)
    PROVE  \/ WideAllowed(p, d)
           \/ \E b \in destinationBuckets({p}, d) : b # WideBucket /\ a \in AddrsOf[b.cidr]
<1>1. PICK i \in rulesFor(p, d) :
          /\ p[d][i].action = "Allow"
          /\ p[d][i].nets = {} \/ \E c \in p[d][i].nets : a \in AddrsOf[c]
    BY DEF Hits
<1> DEFINE r == p[d][i]
<1>2. r.notNets = {} /\ (r.nets = {} \/ WanCidr \in r.nets => convertPorts(r, d) = {})
    BY LoneRule
<1>3. CASE r.nets = {} \/ WanCidr \in r.nets
    <2>1. netsCover(r, WanCidr) /\ portsCover(convertPorts(r, d), AllPorts)
        BY <1>2, <1>3 DEF netsCover, portsCover, CidrContains
    <2>2. i \in Covering(p, d, WideBucket)
        BY <2>1 DEF Covering, WideBucket
    <2>3. Covering(p, d, WideBucket) \in SUBSET rulesFor(p, d)
        BY DEF Covering
    <2> QED BY <1>1, <2>2, <2>3, FirstAllows DEF FirstRule, WideAllowed
<1>4. CASE ~(r.nets = {} \/ WanCidr \in r.nets)
    <2>1. PICK c \in r.nets : a \in AddrsOf[c]
        BY <1>1, <1>4
    <2>2. \E port : port \in IF convertPorts(r, d) = {} THEN {AllPorts} ELSE convertPorts(r, d)
        BY Zenon
    <2>3. PICK port : port \in IF convertPorts(r, d) = {} THEN {AllPorts} ELSE convertPorts(r, d)
        BY <2>2
    <2> DEFINE b == [cidr |-> c, port |-> port]
               mine == {[cidr |-> x, port |-> y] : x \in IF r.nets = {} THEN {WanCidr} ELSE r.nets,
                                                  y \in IF convertPorts(r, d) = {} THEN {AllPorts} ELSE convertPorts(r, d)}
    <2>4. b \in mine
        BY <1>4, <2>1, <2>3
    <2>5. r \in UNION {{q[d][j] : j \in rulesFor(q, d)} : q \in {p}}
        OBVIOUS
    <2> HIDE DEF r
    <2>6. mine \subseteq destinationBuckets({p}, d)
        BY <2>5 DEF destinationBuckets
    <2>7. b # WideBucket /\ b.cidr = c
        BY <1>4, <2>1 DEF WideBucket
    <2> HIDE DEF b, mine
    <2> QED BY <2>1, <2>4, <2>6, <2>7
<1> QED BY <1>3, <1>4

\* Its edges at a node: one for each bucket it covers, each its own.
EdgesOfLone(m, p, d) ==
    /\ workloadSelectingPolicies(m) = {p} /\ FirstOf({p}) = p
    /\ BucketsOf(m, d) = destinationBuckets({p}, d)
    /\ \A b : /\ Matching(m, d, b) # {} <=> Covering(p, d, b) # {}
              /\ Covering(p, d, b) # {} =>
                    /\ EdgeOf(m, d, b).winner = p
                    /\ EdgeOf(m, d, b).action = mapAction(FirstRule(p, d, b).action)
                    /\ FirstRule(p, d, b).action \in {"Allow", "Deny"}

\* The engine's edges where the policy is the only one and selects the node.
LEMMA LoneEdges ==
    ASSUME GInv, NEW w \in live, NEW p \in GlobalPols, InNs(WorkloadId(w)) = {p}, AllowsOverDeny(p),
           NEW m \in {WorkloadId(w), NsId(NsOf[w])},
           selectorMatches(p.selector, LabelsForSelector(m)), NEW d \in Directions
    PROVE  EdgesOfLone(m, p, d)
<1>1. nsSelectingPolicies(NsIdOf(m)[2]) = {p} /\ workloadSelectingPolicies(m) = {p}
    BY NearNode DEF AllowsOverDeny
<1>2. FirstOf({p}) = p
    BY DEF FirstOf
<1>3. ASSUME NEW b, Covering(p, d, b) # {}
      PROVE  FirstRule(p, d, b).action \in {"Allow", "Deny"}
    <2>1. PICK i \in Covering(p, d, b) : FirstRule(p, d, b) = p[d][i]
        BY <1>3, FirstRuleCovers
    <2> QED BY <2>1, LoneRule DEF Covering
<1>4. ASSUME NEW b
      PROVE  Matching(m, d, b) = IF Covering(p, d, b) # {} THEN {p} ELSE {}
    <2>1. Matching(m, d, b) =
             {x \in {p} : /\ Covering(x, d, b) # {} /\ FirstRule(x, d, b).action # "Pass"
                          /\ selectorMatches(x.selector, LabelsForSelector(m))}
        BY <1>1 DEF Matching, buildBucketCandidates
    <2>2. Covering(p, d, b) # {} => FirstRule(p, d, b).action # "Pass"
        BY <1>3
    <2> QED BY <2>1, <2>2
<1>5. \A b : Covering(p, d, b) # {} => Winner(m, d, b) = p
    BY <1>2, <1>4 DEF Winner
<1>6. \A b : Covering(p, d, b) # {} =>
                /\ EdgeOf(m, d, b).winner = p
                /\ EdgeOf(m, d, b).action = mapAction(FirstRule(p, d, b).action)
    BY <1>5 DEF EdgeOf
<1>7. BucketsOf(m, d) = destinationBuckets({p}, d)
    BY <1>1 DEF BucketsOf
<1>8. \A b : Matching(m, d, b) # {} <=> Covering(p, d, b) # {}
    BY <1>4
<1> QED BY <1>1, <1>2, <1>3, <1>6, <1>7, <1>8 DEF EdgesOfLone

\* The rule of everything.
WideRule(r, p, d) ==
    \/ r.action = "allow" /\ r.coverage = "allow all" /\ WideAllowed(p, d)
    \/ r.action = "deny" /\ r.coverage = "deny all" /\ ~WideAllowed(p, d)

\* The rule of a range the policy allows.
RangeRule(r, b) == r.action = "allow" /\ r.coverage = "restricted" /\ r.peer = CidrId(b.cidr)

\* Its rules at a node: that of everything and, unless everything is allowed,
\* those of the ranges.
RulesOfLone(m, p, d) ==
    /\ \A r \in resolveWorkload(m, d) :
          /\ r.contributor = p
          /\ \/ WideRule(r, p, d)
             \/ \E b \in destinationBuckets({p}, d) : b # WideBucket /\ RangeRule(r, b)
    /\ \E r \in resolveWorkload(m, d) : WideRule(r, p, d)
    /\ ~WideAllowed(p, d) =>
          \A b \in destinationBuckets({p}, d) :
             b # WideBucket => \E r \in resolveWorkload(m, d) : RangeRule(r, b)

\* The rules of a direction the policy governs.
LEMMA LoneRules ==
    ASSUME GInv, NEW w \in live, NEW p \in GlobalPols, InNs(WorkloadId(w)) = {p}, AllowsOverDeny(p),
           NEW m \in {WorkloadId(w), NsId(NsOf[w])},
           selectorMatches(p.selector, LabelsForSelector(m)),
           NEW d \in Directions, CalicoGoverns(p, d)
    PROVE  RulesOfLone(m, p, d)
<1>1. /\ workloadSelectingPolicies(m) = {p} /\ FirstOf({p}) = p
      /\ BucketsOf(m, d) = destinationBuckets({p}, d)
      /\ \A b : /\ Matching(m, d, b) # {} <=> Covering(p, d, b) # {}
                /\ Covering(p, d, b) # {} =>
                      /\ EdgeOf(m, d, b).winner = p
                      /\ EdgeOf(m, d, b).action = mapAction(FirstRule(p, d, b).action)
                      /\ FirstRule(p, d, b).action \in {"Allow", "Deny"}
    <2>1. EdgesOfLone(m, p, d)
        BY LoneEdges
    <2> QED BY <2>1 DEF EdgesOfLone
<1>2. anyGoverns(workloadSelectingPolicies(m), d)
    BY <1>1, TypesAgree DEF anyGoverns
<1>3. \A r : r \in resolveWorkload(m, d)
                <=> \/ \E e \in resolveDirection(m, d) : r = RuleOf(m, d, e)
                    \/ Matching(m, d, WideBucket) = {} /\ r = Baseline(m, d)
    BY <1>2, RulesAre, WideIs
<1>4. \A e \in resolveDirection(m, d) :
         LET b == [cidr |-> e.cidr, port |-> e.port]
         IN  b \in BucketsOf(m, d) /\ Matching(m, d, b) # {} /\ e = EdgeOf(m, d, b)
    BY Resolved, EdgeIsOne DEF dropRestatedEdges
<1>5. ASSUME Matching(m, d, WideBucket) = {}
      PROVE  Baseline(m, d).contributor = p /\ WideRule(Baseline(m, d), p, d)
    BY <1>1, <1>5 DEF Baseline, denyAllBaseline, WideRule, WideAllowed
<1> DEFINE wide == RuleOf(m, d, EdgeOf(m, d, WideBucket))
<1>6. ASSUME Matching(m, d, WideBucket) # {}
      PROVE  wide.contributor = p /\ WideRule(wide, p, d)
    <2>1. /\ wide.action = EdgeOf(m, d, WideBucket).action
          /\ wide.contributor = EdgeOf(m, d, WideBucket).winner
          /\ wide.coverage = IF wide.action = "allow" THEN "allow all" ELSE "deny all"
        BY DEF RuleOf, coverageFor, DirectionWide, EdgeOf, WideBucket
    <2> HIDE DEF wide
    <2> QED BY <1>1, <1>6, <2>1 DEF WideRule, WideAllowed, mapAction
<1>7. ASSUME NEW b \in BucketsOf(m, d), b # WideBucket
      PROVE  /\ RuleOf(m, d, EdgeOf(m, d, b)).contributor = p
             /\ RangeRule(RuleOf(m, d, EdgeOf(m, d, b)), b)
             /\ EdgeOf(m, d, b).action = "allow" /\ Matching(m, d, b) # {}
    <2> DEFINE e == EdgeOf(m, d, b)
    <2>1. /\ Covering(p, d, b) # {} /\ FirstRule(p, d, b).action = "Allow"
          /\ b.cidr \in Cidrs /\ b.cidr # WanCidr
        BY <1>1, <1>7, LoneBucket
    <2>2. e.winner = p /\ e.action = "allow" /\ Matching(m, d, b) # {}
        BY <1>1, <2>1 DEF mapAction
    <2>3. e.cidr = b.cidr
        BY DEF EdgeOf
    <2> HIDE DEF e
    <2>4. RuleOf(m, d, e).contributor = p /\ RangeRule(RuleOf(m, d, e), b)
        BY <2>1, <2>2, <2>3 DEF RuleOf, RangeRule, coverageFor, DirectionWide, PeerOf
    <2> QED BY <2>2, <2>4 DEF e
<1>8. ASSUME NEW r \in resolveWorkload(m, d)
      PROVE  /\ r.contributor = p
             /\ \/ WideRule(r, p, d)
                \/ \E b \in destinationBuckets({p}, d) : b # WideBucket /\ RangeRule(r, b)
    <2>1. CASE Matching(m, d, WideBucket) = {} /\ r = Baseline(m, d)
        BY <1>5, <2>1
    <2>2. CASE \E e \in resolveDirection(m, d) : r = RuleOf(m, d, e)
        <3>1. PICK b \in BucketsOf(m, d) : Matching(m, d, b) # {} /\ r = RuleOf(m, d, EdgeOf(m, d, b))
            BY <1>4, <2>2
        <3>2. CASE b = WideBucket
            BY <1>6, <3>1, <3>2
        <3>3. CASE b # WideBucket
            BY <1>1, <1>7, <3>1, <3>3
        <3> QED BY <3>2, <3>3
    <2> QED BY <1>3, <2>1, <2>2
<1>9. \E r \in resolveWorkload(m, d) : WideRule(r, p, d)
    <2>1. WideRules(m, d) =
             IF Matching(m, d, WideBucket) # {} THEN {wide} ELSE {Baseline(m, d)}
        BY <1>2, WideIs
    <2> HIDE DEF wide
    <2> QED BY <1>5, <1>6, <2>1 DEF WideRules
<1>10. ASSUME ~WideAllowed(p, d), NEW b \in BucketsOf(m, d), b # WideBucket
       PROVE  \E r \in resolveWorkload(m, d) : RangeRule(r, b)
    <2>1. Matching(m, d, b) # {} /\ EdgeOf(m, d, b).action = "allow"
        BY <1>7, <1>10
    <2>2. \/ EdgeOf(m, d, b) \in resolveDirection(m, d)
          \/ Matching(m, d, WideBucket) # {} /\ EdgeOf(m, d, WideBucket).action = "allow"
        BY <2>1, EdgeKept
    <2>3. ~(Matching(m, d, WideBucket) # {} /\ EdgeOf(m, d, WideBucket).action = "allow")
        BY <1>1, <1>10 DEF WideAllowed, mapAction
    <2>4. RuleOf(m, d, EdgeOf(m, d, b)) \in resolveWorkload(m, d)
        BY <1>3, <2>2, <2>3
    <2> QED BY <1>7, <1>10, <2>4
<1> QED BY <1>1, <1>8, <1>9, <1>10 DEF RulesOfLone

----------------------------------------------------------------------------
(***************************************************************************)
(* What the verdict makes of rules without exceptions.                     *)
(***************************************************************************)
DeniesFor(rules, d, id, q, nodes) ==
    {r \in RulesAt(rules, d, id) :
        /\ r.action # "allow"
        /\ IF r.coverage = "deny all"
           THEN ~\E x \in RulesAt(rules, d, id) :
                    x.action = "allow" /\ Names(x, q, nodes) /\ x.contributor = r.contributor
           ELSE Names(r, q, nodes)}

LEMMA SideWithoutExcepts ==
    ASSUME NEW eval, NEW d \in Directions, NEW id, NEW q,
           \A r \in RulesAt(eval.rules, d, id) : r.coverage # "except"
    PROVE  LET m == Side(eval, d, id, q).matches IN
           /\ m.deny = DeniesFor(eval.rules, d, id, q, eval.nodes) /\ m.carveOut = {}
           /\ m.allow = AllowsFor(eval.rules, d, id, q, eval.nodes)
           /\ m.denyAll = DenyAllAt(eval.rules, d, id)
           /\ m.otherAllow = OtherAllows(eval.rules, d, id, q, eval.nodes)
<1> DEFINE S == collect(eval.rules, d, id, NsIdOf(id), q, NsIdOf(q), eval.nodes)
<1>1. S.matches.allow = AllowsFor(eval.rules, d, id, q, eval.nodes)
    BY DEF collect, AllowsFor, Names, RulesAt
<1>2. S.matches.denyAll = DenyAllAt(eval.rules, d, id)
    BY DEF collect, DenyAllAt, RulesAt
<1>3. S.matches.otherAllow = OtherAllows(eval.rules, d, id, q, eval.nodes)
    BY DEF collect, OtherAllows, Names, RulesAt
<1>4. S.matches.carveOut = {}
    BY DEF collect, RulesAt
<1>5. S.matches.deny = DeniesFor(eval.rules, d, id, q, eval.nodes)
    BY DEF collect, DeniesFor, Names, RulesAt, policiesAllowingPeerSpecifically
<1> HIDE DEF S
<1>6. Side(eval, d, id, q) = S
    BY SideIsCollect DEF S
<1> QED BY <1>1, <1>2, <1>3, <1>4, <1>5, <1>6

LEMMA ReasonWithoutExcepts ==
    ASSUME NEW eval, NEW d \in Directions, NEW id, NEW q,
           \A r \in RulesAt(eval.rules, d, id) : r.coverage # "except"
    PROVE  /\ DeniesFor(eval.rules, d, id, q, eval.nodes) # {} =>
                 ~Permits(Side(eval, d, id, q).reason)
           /\ DeniesFor(eval.rules, d, id, q, eval.nodes) = {} =>
                 /\ AllowsFor(eval.rules, d, id, q, eval.nodes) # {} =>
                       Permits(Side(eval, d, id, q).reason)
                 /\ (/\ AllowsFor(eval.rules, d, id, q, eval.nodes) = {}
                     /\ OtherAllows(eval.rules, d, id, q, eval.nodes) = {}
                     /\ DenyAllAt(eval.rules, d, id) = {}) =>
                       Permits(Side(eval, d, id, q).reason)
<1> DEFINE m == Side(eval, d, id, q).matches
<1>1. /\ m.deny = DeniesFor(eval.rules, d, id, q, eval.nodes) /\ m.carveOut = {}
      /\ m.allow = AllowsFor(eval.rules, d, id, q, eval.nodes)
      /\ m.denyAll = DenyAllAt(eval.rules, d, id)
      /\ m.otherAllow = OtherAllows(eval.rules, d, id, q, eval.nodes)
    BY SideWithoutExcepts
<1>2. Side(eval, d, id, q).reason = decideDirectionVerdict(m)
    BY SideDecides
<1> HIDE DEF m
<1>3. /\ m.deny # {} => decideDirectionVerdict(m) = "explicit-deny"
      /\ m.deny = {} /\ m.allow # {} => decideDirectionVerdict(m) = "permitted"
      /\ m.deny = {} /\ m.allow = {} /\ m.otherAllow = {} /\ m.denyAll = {} =>
            decideDirectionVerdict(m) = "no-opinion"
    BY <1>1 DEF decideDirectionVerdict
<1> QED BY <1>1, <1>2, <1>3 DEF Permits

----------------------------------------------------------------------------
(***************************************************************************)
(* The Calico engine's answer about an end is Calico's.                    *)
(***************************************************************************)
LEMMA CalicoNodesKnown ==
    /\ CalicoEvaluation.rules = CalicoRules
    /\ IndexedNodes \cup CidrNodes \subseteq CalicoEvaluation.nodes
    /\ \A r \in CalicoRules : r.peer # Empty => r.peer \in CalicoEvaluation.nodes
    BY DEF CalicoEvaluation, CalicoNodes

\* No rule but the marks of ungoverned directions: nothing that closes one.
LEMMA CalicoSilent ==
    ASSUME GInv, NEW w \in live, \A p \in InNs(WorkloadId(w)) : OneTier(p) /\ MissesNs(p),
           NEW d \in Directions, Globals(WorkloadId(w), d) = {}, NEW q
    PROVE  Permits(Side(CalicoEvaluation, d, WorkloadId(w), q).reason)
<1> DEFINE id == WorkloadId(w)
           N  == CalicoEvaluation.nodes
<1>1. RulesAt(CalicoRules, d, id) = resolveWorkload(id, d) \cup resolveWorkload(NsId(NsOf[w]), d)
    BY RulesNear
<1>2. ASSUME NEW m \in {id, NsId(NsOf[w])}, NEW r \in resolveWorkload(m, d)
      PROVE  r.coverage = "unenforced" /\ r.action = "allow" /\ r.peer = Empty
    <2>1. /\ nsSelectingPolicies(NsIdOf(m)[2]) = InNs(id)
          /\ workloadSelectingPolicies(m) \subseteq workloadSelectingPolicies(id)
          /\ workloadSelectingPolicies(id) \subseteq InNs(id)
          /\ Globals(id, d) = {p \in workloadSelectingPolicies(id) : CalicoGoverns(p, d)}
        BY NearNode
    <2>2. InNs(id) \subseteq GlobalPols
        BY DEF InNs, nsSelectingPolicies, GInv
    <2>3. \A p \in workloadSelectingPolicies(m) : ~CalicoGoverns(p, d) /\ ~deriveTypes(p, d)
        BY <2>1, <2>2, TypesAgree
    <2>4. ~anyGoverns(workloadSelectingPolicies(m), d)
        BY <2>3 DEF anyGoverns
    <2>5. \A b : Matching(m, d, b) = {}
        <3> SUFFICES ASSUME NEW b, NEW p \in Matching(m, d, b) PROVE FALSE
            OBVIOUS
        <3>1. /\ p \in GlobalPols /\ p \in nsSelectingPolicies(NsIdOf(m)[2])
              /\ selectorMatches(p.selector, LabelsForSelector(m)) /\ Covering(p, d, b) # {}
            BY MatchingIn
        <3>2. p \in workloadSelectingPolicies(m) /\ OneTier(p)
            BY <2>1, <3>1 DEF workloadSelectingPolicies
        <3>3. p[d] # <<>>
            BY <3>1, PolicyTyped DEF Covering
        <3> QED BY <2>3, <3>2, <3>3 DEF OneTier
    <2>6. resolveDirection(m, d) = {}
        BY <2>5, Resolved DEF EdgesOf, dropRestatedEdges
    <2>7. r = unenforcedRule(m, d, FirstOf(workloadSelectingPolicies(m)))
        BY <1>2, <2>4, <2>6 DEF resolveWorkload, buildRulesForWorkload
    <2> QED BY <2>7 DEF unenforcedRule
<1> HIDE DEF id
<1>3. \A r \in RulesAt(CalicoRules, d, id) : r.coverage = "unenforced" /\ r.action = "allow"
    BY <1>1, <1>2
<1> HIDE DEF N
<1>4. /\ DeniesFor(CalicoRules, d, id, q, N) = {}
      /\ AllowsFor(CalicoRules, d, id, q, N) = {} =>
            OtherAllows(CalicoRules, d, id, q, N) = {} /\ DenyAllAt(CalicoRules, d, id) = {}
    BY <1>3 DEF DeniesFor, OtherAllows, DenyAllAt
<1>5. CalicoEvaluation.rules = CalicoRules /\ N = CalicoEvaluation.nodes
    BY CalicoNodesKnown DEF N
<1>6. \A r \in RulesAt(CalicoEvaluation.rules, d, id) : r.coverage # "except"
    BY <1>3, <1>5
<1>7. Permits(Side(CalicoEvaluation, d, id, q).reason)
    BY <1>4, <1>5, <1>6, ReasonWithoutExcepts
<1> QED BY <1>7 DEF id

\* The rule of a range names the workloads whose address the range holds.
LEMMA RangeRuleNames ==
    ASSUME GInv, NEW r \in CalicoRules, NEW b, RangeRule(r, b), b.cidr \in Cidrs, PlainRange(b.cidr),
           NEW v \in live
    PROVE  Names(r, WorkloadId(v), CalicoEvaluation.nodes) <=> AddrOf[v] \in AddrsOf[b.cidr]
<1>1. r.peer = CidrId(b.cidr) /\ r.peer # Empty
    BY IdsDiffer DEF RangeRule
<1>2. r.peer \in CalicoEvaluation.nodes
    BY <1>1, CalicoNodesKnown
<1>3. Names(r, WorkloadId(v), CalicoEvaluation.nodes) <=> CidrType(b.cidr) # "lan"
    BY <1>1, <1>2, Ids, IdsDiffer DEF Names, NamesPeer, cidrNodeCoversPeer
<1> QED BY <1>3, PlainRangeHoldsPods DEF GInv

\* A direction one policy governs.
LEMMA CalicoSpeaks ==
    ASSUME GInv, NEW w \in live, NEW p \in GlobalPols, InNs(WorkloadId(w)) = {p}, AllowsOverDeny(p),
           NEW d \in Directions, Globals(WorkloadId(w), d) = {p}, NEW v \in live
    PROVE  Permits(Side(CalicoEvaluation, d, WorkloadId(w), WorkloadId(v)).reason)
              <=> Hits(p, d, AddrOf[v])
<1> DEFINE id == WorkloadId(w)
           n  == NsId(NsOf[w])
           q  == WorkloadId(v)
           N  == CalicoEvaluation.nodes
           B  == RulesAt(CalicoRules, d, id)
           bs == {b \in destinationBuckets({p}, d) : b # WideBucket}
           a  == AddrOf[v]
<1>1. B = resolveWorkload(id, d) \cup resolveWorkload(n, d)
    BY RulesNear
<1>2. selectorMatches(p.selector, LabelsForSelector(id)) /\ CalicoGoverns(p, d)
    BY AtWorkload DEF Globals
<1>3. /\ \A r \in resolveWorkload(id, d) :
            r.contributor = p /\ (WideRule(r, p, d) \/ \E b \in bs : RangeRule(r, b))
      /\ \E r \in resolveWorkload(id, d) : WideRule(r, p, d)
      /\ ~WideAllowed(p, d) => \A b \in bs : \E r \in resolveWorkload(id, d) : RangeRule(r, b)
    <2>1. RulesOfLone(id, p, d)
        BY <1>2, LoneRules
    <2> HIDE DEF id
    <2> QED BY <2>1 DEF RulesOfLone
<1>4. \A r \in resolveWorkload(n, d) :
         r.contributor = p /\ (WideRule(r, p, d) \/ \E b \in bs : RangeRule(r, b))
    <2>1. CASE selectorMatches(p.selector, LabelsForSelector(n))
        <3>1. RulesOfLone(n, p, d)
            BY <1>2, <2>1, LoneRules
        <3> HIDE DEF n
        <3> QED BY <3>1 DEF RulesOfLone
    <2>2. CASE ~selectorMatches(p.selector, LabelsForSelector(n))
        <3>1. workloadSelectingPolicies(n) = {}
            BY <2>2, NearNode DEF AllowsOverDeny
        <3> QED BY <3>1, RulesAre
    <2> QED BY <2>1, <2>2
<1>5. \A b \in bs : /\ b.cidr \in Cidrs /\ PlainRange(b.cidr)
                    /\ Covering(p, d, b) # {} /\ FirstRule(p, d, b).action = "Allow"
    BY LoneBucket
<1>6. B \subseteq CalicoRules
    BY DEF RulesAt
<1> HIDE DEF id, n, B, bs
<1>7. \A r \in B : r.contributor = p /\ (WideRule(r, p, d) \/ \E b \in bs : RangeRule(r, b))
    BY <1>1, <1>3, <1>4
<1>8. \A r \in B : \A b \in bs : RangeRule(r, b) => (Names(r, q, N) <=> a \in AddrsOf[b.cidr])
    BY <1>5, <1>6, RangeRuleNames
<1> HIDE DEF q, N, a
<1>9. /\ \A b \in bs : a \in AddrsOf[b.cidr] => Hits(p, d, a)
      /\ WideAllowed(p, d) => Hits(p, d, a)
      /\ Hits(p, d, a) => WideAllowed(p, d) \/ \E b \in bs : a \in AddrsOf[b.cidr]
    <2>1. a \in AddrsOf[WanCidr]
        BY ClusterAssumption DEF a, GInv, Deployed
    <2>2. WideAllowed(p, d) => Hits(p, d, a)
        BY <2>1, BucketHits DEF WideAllowed, WideBucket
    <2>3. \A b \in bs : a \in AddrsOf[b.cidr] => Hits(p, d, a)
        BY <1>5, BucketHits
    <2>4. Hits(p, d, a) => WideAllowed(p, d) \/ \E b \in bs : a \in AddrsOf[b.cidr]
        BY HitsBucket DEF bs
    <2> QED BY <2>2, <2>3, <2>4
<1>10. /\ CalicoEvaluation.rules = CalicoRules /\ N = CalicoEvaluation.nodes
       /\ B = RulesAt(CalicoEvaluation.rules, d, id)
    BY CalicoNodesKnown DEF N, B
<1>11. \A r \in B : r.coverage # "except"
    BY <1>7 DEF WideRule, RangeRule
<1>12. CASE WideAllowed(p, d)
    <2>1. \A r \in B : r.action = "allow"
        BY <1>7, <1>12 DEF WideRule, RangeRule
    <2>2. DeniesFor(CalicoRules, d, id, q, N) = {}
        BY <1>10, <2>1 DEF DeniesFor
    <2>3. PICK r \in B : r.action = "allow" /\ r.coverage = "allow all"
        BY <1>1, <1>3, <1>12 DEF WideRule
    <2>4. AllowsFor(CalicoRules, d, id, q, N) # {}
        BY <1>10, <2>3 DEF AllowsFor
    <2>5. Permits(Side(CalicoEvaluation, d, id, q).reason)
        BY <1>10, <1>11, <2>2, <2>4, ReasonWithoutExcepts
    <2> QED BY <1>9, <1>12, <2>5 DEF id, q, a
<1>13. CASE ~WideAllowed(p, d) /\ Hits(p, d, a)
    <2>1. PICK b \in bs : a \in AddrsOf[b.cidr]
        BY <1>9, <1>13
    <2>2. PICK x \in B : RangeRule(x, b)
        BY <1>1, <1>3, <1>13
    <2>3. x.action = "allow" /\ x.coverage # "deny all" /\ Names(x, q, N) /\ x.contributor = p
        BY <1>7, <1>8, <2>1, <2>2 DEF RangeRule
    <2>4. \A r \in B : r.action # "allow" => r.coverage = "deny all" /\ r.contributor = p
        BY <1>7 DEF WideRule, RangeRule
    <2>5. DeniesFor(CalicoRules, d, id, q, N) = {}
        BY <1>10, <2>3, <2>4 DEF DeniesFor
    <2>6. AllowsFor(CalicoRules, d, id, q, N) # {}
        BY <1>10, <2>3 DEF AllowsFor
    <2>7. Permits(Side(CalicoEvaluation, d, id, q).reason)
        BY <1>10, <1>11, <2>5, <2>6, ReasonWithoutExcepts
    <2> QED BY <1>13, <2>7 DEF id, q, a
<1>14. CASE ~Hits(p, d, a)
    <2>1. ~WideAllowed(p, d) /\ \A b \in bs : a \notin AddrsOf[b.cidr]
        BY <1>9, <1>14
    <2>2. \A x \in B : x.action = "allow" => ~Names(x, q, N)
        BY <1>7, <1>8, <2>1 DEF WideRule
    <2>3. PICK r \in B : r.action = "deny" /\ r.coverage = "deny all"
        BY <1>1, <1>3, <2>1 DEF WideRule
    <2>4. DeniesFor(CalicoRules, d, id, q, N) # {}
        BY <1>10, <2>2, <2>3 DEF DeniesFor
    <2>5. ~Permits(Side(CalicoEvaluation, d, id, q).reason)
        BY <1>10, <1>11, <2>4, ReasonWithoutExcepts
    <2> QED BY <1>14, <2>5 DEF id, q, a
<1> QED BY <1>12, <1>13, <1>14 DEF a

LEMMA CalicoEnd ==
    ASSUME GInv, NEW w \in live, Cardinality(InNs(WorkloadId(w))) <= 1,
           \A p \in InNs(WorkloadId(w)) : AllowsOverDeny(p),
           NEW d \in Directions, NEW v \in live
    PROVE  Permits(Side(CalicoEvaluation, d, WorkloadId(w), WorkloadId(v)).reason)
              <=> CalicoAllowed(WorkloadId(w), d, AddrOf[v])
<1> DEFINE id == WorkloadId(w)
<1>1. CASE Globals(id, d) = {}
    <2>1. CalicoAllowed(id, d, AddrOf[v])
        BY <1>1 DEF CalicoAllowed
    <2>2. \A p \in InNs(id) : OneTier(p) /\ MissesNs(p)
        BY DEF AllowsOverDeny
    <2> QED BY <1>1, <2>1, <2>2, CalicoSilent
<1>2. CASE Globals(id, d) # {}
    <2>1. PICK p \in Globals(id, d) : TRUE
        BY <1>2
    <2>2. Globals(id, d) \subseteq InNs(id)
        BY DEF Globals, InNs, nsSelectingPolicies
    <2>3. InNs(id) = {p} /\ p \in GlobalPols /\ p \in gnps
        BY <2>1, <2>2, Lone DEF Globals
    <2>4. Globals(id, d) = {p} /\ AllowsOverDeny(p)
        BY <2>1, <2>2, <2>3
    <2>5. CalicoAllowed(id, d, AddrOf[v]) <=> Hits(p, d, AddrOf[v])
        BY <2>3, <2>4, CalicoHits
    <2>6. Permits(Side(CalicoEvaluation, d, id, WorkloadId(v)).reason) <=> Hits(p, d, AddrOf[v])
        BY <2>3, <2>4, CalicoSpeaks
    <2> QED BY <2>5, <2>6
<1> QED BY <1>1, <1>2

\* The Kubernetes engine is asked with the ranges of both engines at hand.
LEMMA K8sStays ==
    ASSUME NEW d \in Directions, NEW id, NEW q, NodeType(q) # "cidr"
    PROVE  LET m == Side([rules |-> Evaluation.rules, nodes |-> CalicoEvaluation.nodes], d, id, q)
               n == Side(Evaluation, d, id, q)
           IN  /\ m.reason = n.reason /\ m.ports = n.ports
               /\ m.allPorts <=> n.allPorts
<1> DEFINE R == Evaluation.rules
           M == CalicoEvaluation.nodes
           N == Evaluation.nodes
<1>1. OnlyExceptsDeny(R)
    BY K8sOnlyExceptsDeny
<1>2. \A r \in R : NodeType(r.peer) = "cidr" => r.peer \in M /\ r.peer \in N
    BY RuleRanges, CalicoNodesKnown DEF Evaluation
<1>3. Evaluation = [rules |-> R, nodes |-> N]
    BY DEF Evaluation
<1> HIDE DEF R, M, N
<1>4. LET m == Side([rules |-> R, nodes |-> M], d, id, q)
          n == Side([rules |-> R, nodes |-> N], d, id, q)
      IN  /\ m.reason = n.reason /\ m.ports = n.ports
          /\ m.allPorts <=> n.allPorts
    BY <1>1, <1>2, SideStays
<1> QED BY <1>3, <1>4 DEF R, M

\* The workloads whose policies are within the fragments, and the ends whose
\* silence is justified.
ReadRight(id) ==
    /\ InFragment(id) /\ Cardinality(InNs(id)) <= 1
    /\ \A p \in InNs(id) : AllowsOverDeny(p)

JudgedRight(d, id, q) ==
    Side(Evaluation, d, id, q).reason = "no-opinion" => Isolating(id, d) = {}

\* An engine blocks a pair when it blocks an end.
LEMMA StatusDenies ==
    ASSUME NEW rules, NEW nodes, NEW src, NEW dst
    PROVE  EngineStatus(rules, src, dst, nodes) = "deny"
              <=> \/ ~Permits(Side([rules |-> rules, nodes |-> nodes], "egress", src, dst).reason)
                  \/ ~Permits(Side([rules |-> rules, nodes |-> nodes], "ingress", dst, src).reason)
<1> DEFINE e == [rules |-> rules, nodes |-> nodes]
<1>1. e.rules = rules /\ e.nodes = nodes
    OBVIOUS
<1> HIDE DEF e
<1>2. /\ Side(e, "egress", src, dst) = collectToSide(rules, src, dst, nodes)
      /\ Side(e, "ingress", dst, src) = collectFromSide(rules, src, dst, nodes)
    BY <1>1 DEF Side
<1>3. EngineStatus(rules, src, dst, nodes) = "deny"
         <=> \/ ~Permits(collectToSide(rules, src, dst, nodes).reason)
             \/ ~Permits(collectFromSide(rules, src, dst, nodes).reason)
    BY DEF EngineStatus, Permits
<1> QED BY <1>2, <1>3 DEF e

\* Each engine blocks a pair of workloads exactly when its policies close an end.
LEMMA EndsAreReal ==
    ASSUME GInv, NEW src \in LiveIds, NEW dst \in LiveIds, src # dst, ReadRight(src), ReadRight(dst),
           JudgedRight("egress", src, dst), JudgedRight("ingress", dst, src)
    PROVE  LET nodes == CalicoEvaluation.nodes IN
           /\ EngineStatus(Evaluation.rules, src, dst, nodes) = "deny"
                 <=> ~(Allowed(src, "egress", dst) /\ Allowed(dst, "ingress", src))
           /\ EngineStatus(CalicoEvaluation.rules, src, dst, nodes) = "deny"
                 <=> ~(/\ CalicoAllowed(src, "egress", AddrOf[dst[2]])
                       /\ CalicoAllowed(dst, "ingress", AddrOf[src[2]]))
<1> DEFINE nodes == CalicoEvaluation.nodes
           mixed == [rules |-> Evaluation.rules, nodes |-> nodes]
<1>1. PICK w \in live : src = WorkloadId(w)
    BY DEF LiveIds
<1>2. PICK v \in live : dst = WorkloadId(v)
    BY DEF LiveIds
<1>3. src[2] = w /\ dst[2] = v /\ NodeType(src) # "cidr" /\ NodeType(dst) # "cidr"
    BY <1>1, <1>2, Ids
<1>4. /\ "egress" \in Directions /\ "ingress" \in Directions
    BY DEF Directions
<1>5. /\ Permits(Side(mixed, "egress", src, dst).reason) <=> Allowed(src, "egress", dst)
      /\ Permits(Side(mixed, "ingress", dst, src).reason) <=> Allowed(dst, "ingress", src)
    <2>1. /\ Side(mixed, "egress", src, dst).reason = Side(Evaluation, "egress", src, dst).reason
          /\ Side(mixed, "ingress", dst, src).reason = Side(Evaluation, "ingress", dst, src).reason
        BY <1>3, <1>4, K8sStays
    <2>2. /\ Permits(Side(Evaluation, "egress", src, dst).reason) <=> Allowed(src, "egress", dst)
          /\ Permits(Side(Evaluation, "ingress", dst, src).reason) <=> Allowed(dst, "ingress", src)
        BY <1>4, K8sEnd DEF ReadRight, JudgedRight
    <2> QED BY <2>1, <2>2
<1>6. /\ Permits(Side(CalicoEvaluation, "egress", src, dst).reason)
            <=> CalicoAllowed(src, "egress", AddrOf[v])
      /\ Permits(Side(CalicoEvaluation, "ingress", dst, src).reason)
            <=> CalicoAllowed(dst, "ingress", AddrOf[w])
    BY <1>1, <1>2, <1>4, CalicoEnd DEF ReadRight
<1>7. CalicoEvaluation = [rules |-> CalicoEvaluation.rules, nodes |-> nodes]
    BY DEF CalicoEvaluation
<1>8. EngineStatus(Evaluation.rules, src, dst, nodes) = "deny"
         <=> \/ ~Permits(Side(mixed, "egress", src, dst).reason)
             \/ ~Permits(Side(mixed, "ingress", dst, src).reason)
    BY StatusDenies
<1> HIDE DEF nodes
<1>9. EngineStatus(CalicoEvaluation.rules, src, dst, nodes) = "deny"
         <=> \/ ~Permits(Side(CalicoEvaluation, "egress", src, dst).reason)
             \/ ~Permits(Side(CalicoEvaluation, "ingress", dst, src).reason)
    BY <1>7, StatusDenies
<1> HIDE DEF mixed
<1> QED BY <1>3, <1>5, <1>6, <1>8, <1>9 DEF nodes

LEMMA VerdictState == GInv => VerdictIsReal
<1> DEFINE engines == [k8s |-> Evaluation.rules, calico |-> CalicoEvaluation.rules]
           nodes == CalicoEvaluation.nodes
           Open(id, d, q) == Allowed(id, d, q) /\ CalicoAllowed(id, d, AddrOf[q[2]])
<1> SUFFICES ASSUME GInv, NEW src \in LiveIds, NEW dst \in LiveIds, src # dst,
                    ReadRight(src), ReadRight(dst),
                    JudgedRight("egress", src, dst), JudgedRight("ingress", dst, src)
             PROVE  PoliciesCanReach(engines, src, dst, nodes).verdict = "allow"
                       <=> Open(src, "egress", dst) /\ Open(dst, "ingress", src)
    BY DEF VerdictIsReal, ReadRight, JudgedRight
<1>1. DOMAIN engines = {"k8s", "calico"} /\ engines["k8s"] = Evaluation.rules
      /\ engines["calico"] = CalicoEvaluation.rules
    OBVIOUS
<1> HIDE DEF engines
<1>2. PoliciesCanReach(engines, src, dst, nodes).verdict = "allow"
         <=> \A e \in DOMAIN engines : EngineStatus(engines[e], src, dst, nodes) # "deny"
    BY DEF PoliciesCanReach
<1> QED BY <1>1, <1>2, EndsAreReal

\* The answer on a pair is the cluster's (reachability.go: PoliciesCanReach and
\* EngineStatus): it is allowed exactly when the NetworkPolicies and the
\* GlobalNetworkPolicies of both ends let the traffic through.
THEOREM VerdictReal == Spec => []VerdictIsReal
    BY GInvariant, VerdictState, PTL

----------------------------------------------------------------------------
(***************************************************************************)
(* The badges: what fusing the digests keeps, what each engine's digest says *)
(* of its policies, and what those policies do to the range of everything.  *)
(***************************************************************************)

\* The locks and the reach of a status, by direction.
LockOf(d) == IF d = "egress" THEN "egressLocked" ELSE "ingressLocked"
InternetOf(d) == IF d = "egress" THEN "internetEgress" ELSE "internetIngress"
LanOf(d) == IF d = "egress" THEN "lanEgress" ELSE "lanIngress"

\* A fused direction is locked when an engine locks it.
LEMMA LocksFuse ==
    ASSUME NEW k, NEW c, DOMAIN k = DOMAIN NoStatus, DOMAIN c = DOMAIN NoStatus,
           NEW d \in Directions, ~IntersectPolicyStatus([k8s |-> k, calico |-> c])[LockOf(d)]
    PROVE  ~k[LockOf(d)] /\ ~c[LockOf(d)]
<1> DEFINE both == [k8s |-> k, calico |-> c]
           filtered == {e \in DOMAIN both : both[e] # NoStatus}
           l == LockOf(d)
<1>1. DOMAIN both = {"k8s", "calico"} /\ both["k8s"] = k /\ both["calico"] = c
    OBVIOUS
<1>2. l \in {"ingressLocked", "egressLocked"} /\ l \in DOMAIN NoStatus /\ ~NoStatus[l]
    BY DEF Directions, LockOf, NoStatus
<1> HIDE DEF both, l
<1>3. CASE filtered = {}
    <2>1. k = NoStatus /\ c = NoStatus
        BY <1>1, <1>3
    <2> QED BY <1>2, <2>1 DEF l
<1>4. CASE filtered = {"k8s"}
    <2>1. IntersectPolicyStatus(both) = k
        BY <1>1, <1>4 DEF IntersectPolicyStatus
    <2> QED BY <1>1, <1>2, <1>4, <2>1 DEF both, l
<1>5. CASE filtered = {"calico"}
    <2>1. IntersectPolicyStatus(both) = c
        BY <1>1, <1>5 DEF IntersectPolicyStatus
    <2> QED BY <1>1, <1>2, <1>5, <2>1 DEF both, l
<1>6. CASE filtered = {"k8s", "calico"}
    <2>1. IntersectPolicyStatus(both) =
             [field \in DOMAIN NoStatus |->
                 IF field \in {"ingressLocked", "egressLocked", "hasL7"}
                 THEN \E e \in filtered : both[e][field]
                 ELSE \A e \in filtered : effectivePolicyStatus(both[e])[field]]
        BY <1>6 DEF IntersectPolicyStatus
    <2>2. IntersectPolicyStatus(both)[l] = \E e \in filtered : both[e][l]
        BY <1>2, <2>1
    <2> QED BY <1>1, <1>6, <2>2 DEF both, l
<1> QED BY <1>1, <1>3, <1>4, <1>5, <1>6

\* An engine that does not lock a direction reaches everything there.
LEMMA EffectiveReach ==
    ASSUME NEW raw, DOMAIN raw = DOMAIN NoStatus, NEW d \in Directions,
           NEW f \in {InternetOf(d), LanOf(d)}
    PROVE  effectivePolicyStatus(raw)[f] <=> ~raw[LockOf(d)] \/ raw[f]
<1>1. /\ "internetEgress" \in DOMAIN raw /\ "internetIngress" \in DOMAIN raw
      /\ "lanEgress" \in DOMAIN raw /\ "lanIngress" \in DOMAIN raw
    BY DEF NoStatus
<1>2. CASE d = "egress"
    BY <1>1, <1>2 DEF effectivePolicyStatus, InternetOf, LanOf, LockOf
<1>3. CASE d = "ingress"
    BY <1>1, <1>3 DEF effectivePolicyStatus, InternetOf, LanOf, LockOf
<1> QED BY <1>2, <1>3 DEF Directions

\* A reach of the fused status, or an open direction, is one of every engine.
LEMMA ReachFuses ==
    ASSUME NEW k, NEW c, DOMAIN k = DOMAIN NoStatus, DOMAIN c = DOMAIN NoStatus,
           NEW d \in Directions, NEW f \in {InternetOf(d), LanOf(d)},
           LET s == IntersectPolicyStatus([k8s |-> k, calico |-> c]) IN s[f] \/ ~s[LockOf(d)]
    PROVE  (k[f] \/ ~k[LockOf(d)]) /\ (c[f] \/ ~c[LockOf(d)])
<1> DEFINE both == [k8s |-> k, calico |-> c]
           filtered == {e \in DOMAIN both : both[e] # NoStatus}
           l == LockOf(d)
           s == IntersectPolicyStatus(both)
<1>1. DOMAIN both = {"k8s", "calico"} /\ both["k8s"] = k /\ both["calico"] = c
    OBVIOUS
<1>2. /\ ~NoStatus[l] /\ f \in DOMAIN NoStatus
      /\ f \notin {"ingressLocked", "egressLocked", "hasL7"}
    BY DEF Directions, LockOf, InternetOf, LanOf, NoStatus
<1>3. CASE ~s[l]
    BY <1>3, LocksFuse
<1>4. CASE s[f]
    <2>1. CASE filtered = {}
        <3>1. k = NoStatus /\ c = NoStatus
            BY <1>1, <2>1
        <3> QED BY <1>2, <3>1
    <2>2. CASE filtered = {"k8s"}
        <3>1. s = k /\ c = NoStatus
            BY <1>1, <2>2 DEF IntersectPolicyStatus
        <3> QED BY <1>2, <1>4, <3>1
    <2>3. CASE filtered = {"calico"}
        <3>1. s = c /\ k = NoStatus
            BY <1>1, <2>3 DEF IntersectPolicyStatus
        <3> QED BY <1>2, <1>4, <3>1
    <2>4. CASE filtered = {"k8s", "calico"}
        <3>1. s = [field \in DOMAIN NoStatus |->
                     IF field \in {"ingressLocked", "egressLocked", "hasL7"}
                     THEN \E e \in filtered : both[e][field]
                     ELSE \A e \in filtered : effectivePolicyStatus(both[e])[field]]
            BY <2>4 DEF IntersectPolicyStatus
        <3>2. s[f] = \A e \in filtered : effectivePolicyStatus(both[e])[f]
            BY <1>2, <3>1
        <3>3. effectivePolicyStatus(k)[f] /\ effectivePolicyStatus(c)[f]
            BY <1>1, <1>4, <2>4, <3>2
        <3> QED BY <3>3, EffectiveReach
    <2> QED BY <1>1, <2>1, <2>2, <2>3, <2>4
<1> QED BY <1>3, <1>4

\* A badge of one direction, or of both, speaks for the direction.
LEMMA BadgeSpeaks ==
    ASSUME NEW status, NEW e, NEW i, NEW full, NEW out, NEW in, full # out, full # in, out # in
    PROVE  /\ Badges(e, i, full, out, in) \cap {full, out} # {} => e
           /\ Badges(e, i, full, out, in) \cap {full, in} # {} => i
           /\ Badges(e, i, full, out, in) \subseteq {full, out, in}
    BY DEF Badges

LEMMA KeysSpeak ==
    ASSUME NEW status
    PROVE  LET keys == DeriveStatusKeys(status) IN
           /\ keys \cap {"internet-full", "internet-egress"} # {} =>
                 status.internetEgress \/ ~status.egressLocked
           /\ keys \cap {"internet-full", "internet-ingress"} # {} =>
                 status.internetIngress \/ ~status.ingressLocked
           /\ keys \cap {"lan-full", "lan-egress"} # {} => status.lanEgress
           /\ keys \cap {"lan-full", "lan-ingress"} # {} => status.lanIngress
<1> DEFINE net == Badges(~status.egressLocked \/ status.internetEgress,
                         ~status.ingressLocked \/ status.internetIngress,
                         "internet-full", "internet-egress", "internet-ingress")
           lan == Badges(status.lanEgress, status.lanIngress, "lan-full", "lan-egress", "lan-ingress")
           ns  == Badges(status.innerNsEgress, status.innerNsIngress,
                         "namespace-full", "namespace-egress", "namespace-ingress")
           others == ns \cup {"api-server-egress", "air-gapped", "cross-namespace", "l7-applied"}
<1>1. DeriveStatusKeys(status) \subseteq net \cup lan \cup others
    BY DEF DeriveStatusKeys
<1>2. /\ net \cap {"internet-full", "internet-egress"} # {} => ~status.egressLocked \/ status.internetEgress
      /\ net \cap {"internet-full", "internet-ingress"} # {} => ~status.ingressLocked \/ status.internetIngress
      /\ net \subseteq {"internet-full", "internet-egress", "internet-ingress"}
    BY BadgeSpeaks
<1>3. /\ lan \cap {"lan-full", "lan-egress"} # {} => status.lanEgress
      /\ lan \cap {"lan-full", "lan-ingress"} # {} => status.lanIngress
      /\ lan \subseteq {"lan-full", "lan-egress", "lan-ingress"}
    BY BadgeSpeaks
<1>4. ns \subseteq {"namespace-full", "namespace-egress", "namespace-ingress"}
    BY BadgeSpeaks
<1> HIDE DEF net, lan, ns
<1> QED BY <1>1, <1>2, <1>3, <1>4

\* The digest reads the policies that select the workload.
LEMMA NodePoliciesSelect ==
    \A w \in live : getNodePolicies(WorkloadId(w)) = {p \in netpols : Selects(p, WorkloadId(w))}
<1> SUFFICES ASSUME NEW w \in live, NEW p \in netpols
             PROVE  /\ NsId(p.namespace) = NsIdOf(WorkloadId(w))
                    /\ IF NodeType(WorkloadId(w)) = "namespace" THEN isCatchAll(p.podSelector)
                       ELSE LabelsMatch(p.podSelector, LabelsOf(WorkloadId(w)))
                    <=> Selects(p, WorkloadId(w))
    BY DEF getNodePolicies
<1> QED BY Ids, IdsDiffer DEF Selects, LabelsMatch

\* What the digest says of a direction: a lock when a policy isolates it, a reach
\* when one of the policies has a block for it.
LEMMA DigestSays ==
    ASSUME NEW w \in live, NEW d \in Directions
    PROVE  LET k  == buildPolicyStatus(getNodePolicies(WorkloadId(w)))
               Has(Is(_)) == \E p \in netpols : Selects(p, WorkloadId(w)) /\ HasBlock(p, d, Is)
           IN  /\ k[LockOf(d)] <=> Isolating(WorkloadId(w), d) # {}
               /\ k[InternetOf(d)] <=> Has(IsIpBlockInternetAccess)
               /\ k[LanOf(d)] <=> Has(IsIpBlockLanAccess)
               /\ DOMAIN k = DOMAIN NoStatus
<1> DEFINE ps == getNodePolicies(WorkloadId(w))
           k == buildPolicyStatus(ps)
<1>1. ps = {p \in netpols : Selects(p, WorkloadId(w))}
    BY NodePoliciesSelect
<1> HIDE DEF ps
<1>2. DOMAIN k = DOMAIN NoStatus
    BY DEF buildPolicyStatus, NoStatus
<1>3. /\ k.ingressLocked <=> \E p \in ps : p.policyTypes = {} \/ "ingress" \in p.policyTypes
      /\ k.egressLocked <=> \E p \in ps : \/ "egress" \in p.policyTypes
                                          \/ p.policyTypes = {} /\ p.egress # {}
      /\ k.internetEgress <=> \E p \in ps : HasBlock(p, "egress", IsIpBlockInternetAccess)
      /\ k.internetIngress <=> \E p \in ps : HasBlock(p, "ingress", IsIpBlockInternetAccess)
      /\ k.lanEgress <=> \E p \in ps : HasBlock(p, "egress", IsIpBlockLanAccess)
      /\ k.lanIngress <=> \E p \in ps : HasBlock(p, "ingress", IsIpBlockLanAccess)
    BY DEF buildPolicyStatus
<1> HIDE DEF k
<1>4. CASE d = "egress"
    BY <1>1, <1>2, <1>3, <1>4 DEF LockOf, InternetOf, LanOf, Isolating, Governs, k, ps
<1>5. CASE d = "ingress"
    BY <1>1, <1>2, <1>3, <1>5 DEF LockOf, InternetOf, LanOf, Isolating, Governs, k, ps
<1> QED BY <1>4, <1>5 DEF Directions

\* Where nothing isolates a direction the engine closes it to nobody.
LEMMA K8sUnlocked ==
    ASSUME Deployed, NEW w \in live, InFragment(WorkloadId(w)), NEW d \in Directions,
           Isolating(WorkloadId(w), d) = {}, NEW q
    PROVE  Permits(Side(Evaluation, d, WorkloadId(w), q).reason)
<1> DEFINE id   == WorkloadId(w)
           side == Side(Evaluation, d, id, q)
           C == CarvesFor(Evaluation.rules, d, id, q, Evaluation.nodes)
           O == OtherAllows(Evaluation.rules, d, id, q, Evaluation.nodes)
           L == DenyAllAt(Evaluation.rules, d, id)
<1>1. ~Permits(side.reason) => C # {} \/ O # {} \/ L # {}
    BY K8sOnlyExceptsDeny, ReasonIs
<1>2. \A r \in C \cup O \cup L : r \in Filed(d, id) /\ r.coverage # "unenforced"
    BY K8sOnlyExceptsDeny DEF Filed, CarvesFor, OtherAllows, DenyAllAt, RulesAt, OnlyExceptsDeny
<1> HIDE DEF C, O, L
<1>3. C = {} /\ O = {} /\ L = {}
    BY <1>2, FiledIsolate
<1> QED BY <1>1, <1>3

\* A range a selecting policy names as a block is not blocked: no exception of the
\* block holds the block, and no other block excepts a part of it.
LEMMA BlockOpens ==
    ASSUME Deployed, NEW w \in live, InFragment(WorkloadId(w)), NEW d \in Directions,
           NEW p \in netpols, Selects(p, WorkloadId(w)),
           NEW rule \in RulesOf(p, d), NEW peer \in rule.peers, peer.ipBlock # Nil
    PROVE  Permits(Side(Evaluation, d, WorkloadId(w), CidrId(peer.ipBlock.cidr)).reason)
<1> DEFINE id == WorkloadId(w)
           c == peer.ipBlock.cidr
           q == CidrId(c)
<1>1. p \in NetPols /\ Supported(p)
    BY DEF InFragment, Selects, Deployed
<1>2. CidrId(c) \in CidrNodes /\ peer.ipBlock \in Blocks(p, d) /\ CidrId(c) \in BlockNodes(peer)
    BY <1>1, PeerFacts, RangesAreNodes DEF BlockNodes
<1>3. \A e \in peer.ipBlock.except : ~CidrContains(e, c)
    <2>1. rule \in p.ingress \cup p.egress
        BY DEF RulesOf
    <2> QED BY <1>1, <2>1, NetPolAssumption
<1>4. PICK k \in {"allow all ns", "restricted"} :
          NewRule(p, d, CidrId(c), k, "allow", rule.ports) \in expandRules(p, d)
    BY <1>2, ExpandHas
<1>5. PICK x \in Filed(d, id) : /\ x.peer = CidrId(c) /\ x.coverage = k
                                /\ x.action = "allow" /\ x.ports = rule.ports
                                /\ x.contributor = p
    <2>1. FiledAs(w, d, p, CidrId(c), k, "allow", rule.ports)
        BY <1>4, SelectingAreFiled
    <2> QED BY <2>1 DEF FiledAs
<1>6. x \in AllowsFor(Evaluation.rules, d, id, q, Evaluation.nodes)
    BY <1>4, <1>5 DEF AllowsFor, Filed, Names, NamesPeer
<1>7. ASSUME NEW y \in CarvesFor(Evaluation.rules, d, id, q, Evaluation.nodes), Trims(y, x)
      PROVE  FALSE
    <2>1. /\ y \in Filed(d, id) /\ y.action # "allow" /\ Names(y, q, Evaluation.nodes)
          /\ y.contributor = p
        BY <1>5, <1>7 DEF CarvesFor, Filed, Trims
    <2>2. ShapeOf(p, d, y)
        BY <2>1, FiledAreSelecting
    <2>3. PICK rule2 \in RulesOf(p, d) : \E peer2 : ExceptOf(rule2, peer2, y)
        BY <2>1, <2>2 DEF ShapeOf, MarkerOf, OpenOf, AllowOf
    <2>4. PICK peer2 : ExceptOf(rule2, peer2, y)
        BY <2>3
    <2>5. PICK e \in peer2.ipBlock.except : peer2.ipBlock # Nil /\ y.peer = CidrId(e)
        BY <2>4 DEF ExceptOf, ExceptNodes
    <2>6. CidrContains(e, c)
        <3>1. q \in Evaluation.nodes /\ NodeType(q) = "cidr" /\ q[2] = c /\ NsIdOf(q) = Empty
              /\ NodeType(y.peer) = "cidr" /\ y.peer[2] = e /\ y.peer # Empty
            BY <1>2, <2>5, Ids, IdsDiffer DEF Evaluation
        <3>2. y.peer = q \/ CidrContains(e, c)
            BY <2>1, <3>1 DEF Names, NamesPeer, cidrNodeCoversPeer
        <3> QED BY <3>1, <3>2 DEF CidrContains
    <2>7. peer2.ipBlock # peer.ipBlock
        BY <1>3, <2>5, <2>6
    <2>8. peer2.ipBlock \in Blocks(p, d)
        BY <1>1, <2>3, <2>4, <2>5, PeerFacts DEF ExceptOf
    <2>9. ~CidrContains(c, e)
        BY <1>1, <1>2, <2>5, <2>7, <2>8 DEF Supported, PlainBlocks, OwnExcepts
    <2>10. x.peer[2] = c /\ y.peer[2] = e
        BY <1>5, <2>5, Ids
    <2> QED BY <1>7, <2>9, <2>10 DEF Trims
<1>8. Untrimmed(Evaluation.rules, d, id, q, Evaluation.nodes) # {}
    BY <1>6, <1>7 DEF Untrimmed, anyCarveOutTrims
<1>9. Side(Evaluation, d, id, q).reason = "permitted"
    BY <1>8, K8sOnlyExceptsDeny, ReasonIs
<1> QED BY <1>9 DEF Permits

\* A policy is the only one of a workload's namespace, seen from the workload or
\* the namespace node.
OnlyAt(p, w, m) ==
    /\ w \in live /\ p \in GlobalPols /\ InNs(WorkloadId(w)) = {p} /\ MissesNs(p)
    /\ m \in {WorkloadId(w), NsId(NsOf[w])}

\* A bucket of a direction where one policy is the only one.
LEMMA OnlyEdge ==
    ASSUME GInv, NEW p, NEW w, NEW m, OnlyAt(p, w, m), NEW d \in Directions,
           NEW b, Matching(m, d, b) # {}
    PROVE  /\ EdgeOf(m, d, b).winner = p /\ Covering(p, d, b) # {}
           /\ EdgeOf(m, d, b).action = mapAction(FirstRule(p, d, b).action)
           /\ selectorMatches(p.selector, LabelsForSelector(m))
<1>1. nsSelectingPolicies(NsIdOf(m)[2]) = {p}
    BY NearNode DEF OnlyAt
<1>2. FirstOf({p}) = p
    BY DEF FirstOf
<1>3. PICK x \in Matching(m, d, b) : TRUE
    OBVIOUS
<1>4. Matching(m, d, b) \subseteq {p}
    BY <1>1, MatchingIn
<1>5. Matching(m, d, b) = {p} /\ Winner(m, d, b) = p
    BY <1>2, <1>3, <1>4 DEF Winner
<1>6. Covering(p, d, b) # {} /\ selectorMatches(p.selector, LabelsForSelector(m))
    BY <1>5, MatchingIn
<1> QED BY <1>1, <1>5, <1>6 DEF EdgeOf

\* A deny of everything below the allows denies no single bucket of everything:
\* the bucket of a port is that of an allow, and the one for all ports but written
\* otherwise restates the one of everything.
LEMMA WideDenyIsOne ==
    ASSUME GInv, NEW p, NEW w, NEW m, OnlyAt(p, w, m), OneTier(p), DeniesWhole(p),
           NEW d \in Directions,
           NEW b \in BucketsOf(m, d), Matching(m, d, b) # {}, b # WideBucket,
           EdgeOf(m, d, b).action = "deny", CidrContains(b.cidr, WanCidr)
    PROVE  EdgeOf(m, d, b) \notin resolveDirection(m, d)
<1>1. BucketsOf(m, d) = destinationBuckets({p}, d)
    BY NearNode DEF OnlyAt, BucketsOf
<1>2. /\ EdgeOf(m, d, b).winner = p /\ Covering(p, d, b) # {}
      /\ EdgeOf(m, d, b).action = mapAction(FirstRule(p, d, b).action)
    BY OnlyEdge
<1>3. p \in GlobalPols
    BY DEF OnlyAt
<1>4. PICK i \in Covering(p, d, b) : /\ FirstRule(p, d, b) = p[d][i]
                                     /\ \A j \in Covering(p, d, b) : i <= j
    BY <1>3, <1>2, FirstRuleCovers
<1>5. p[d][i].action = "Deny"
    BY <1>2, <1>4 DEF mapAction
<1>6. i \in rulesFor(p, d) /\ netsCover(p[d][i], b.cidr)
    BY DEF Covering
<1>7. convertPorts(p[d][i], d) = {} /\ \A j \in rulesFor(p, d) : j <= i
    <2>1. p[d][i].nets = {} \/ \E c \in p[d][i].nets : CidrContains(c, WanCidr)
        BY <1>6 DEF netsCover, CidrContains
    <2>2. PeerPorts(p[d][i], d) = {} /\ \A j \in rulesFor(p, d) : j <= i
        BY <1>5, <1>6, <2>1 DEF DeniesWhole
    <2>3. p[d][i] \in PolicyRules
        BY <1>3, <1>6, PolicyTyped
    <2> QED BY <2>2, <2>3, ConvertedPorts
<1>8. b = [cidr |-> b.cidr, port |-> b.port] /\ b.cidr \in Cidrs
    BY BucketShape
<1>9. b.port = AllPorts
    <2>1. PICK j \in rulesFor(p, d) :
             \E c \in IF p[d][j].nets = {} THEN {WanCidr} ELSE p[d][j].nets :
                \E port \in IF convertPorts(p[d][j], d) = {} THEN {AllPorts} ELSE convertPorts(p[d][j], d) :
                   b = [cidr |-> c, port |-> port]
        <3> DEFINE rules == {p[d][k] : k \in rulesFor(p, d)}
        <3>1. UNION {{x[d][k] : k \in rulesFor(x, d)} : x \in {p}} = rules
            OBVIOUS
        <3>2. \E r \in rules : \E c \in IF r.nets = {} THEN {WanCidr} ELSE r.nets :
                 \E port \in IF convertPorts(r, d) = {} THEN {AllPorts} ELSE convertPorts(r, d) :
                    b = [cidr |-> c, port |-> port]
            BY <1>1, <3>1 DEF destinationBuckets, WideBucket
        <3> QED BY <3>2
    <2> DEFINE r == p[d][j]
    <2>2. j \in DOMAIN p[d] /\ j \in Nat /\ i \in Nat /\ r \in PolicyRules /\ r.action # "Log"
        BY <1>3, <1>6, PolicyTyped DEF rulesFor
    <2>3. r \in RulesNamed(p)
        BY <2>2 DEF RulesNamed
    <2>4. r.action # "Pass" /\ (AllowsWan(r) => r.notNets = {})
        BY <2>3 DEF OneTier
    <2>5. r.action \in {"Allow", "Deny"}
        BY <2>2, <2>4 DEF PolicyRules
    <2>6. r.action = "Deny" /\ (r.nets = {} \/ \E c \in r.nets : CidrContains(c, WanCidr))
             => convertPorts(r, d) = {}
        BY <2>2, ConvertedPorts DEF DeniesWhole
    <2>7. i = j => r.action = "Deny"
        BY <1>5
    <2> HIDE DEF r
    <2>8. PICK c \in IF r.nets = {} THEN {WanCidr} ELSE r.nets,
               port \in IF convertPorts(r, d) = {} THEN {AllPorts} ELSE convertPorts(r, d) :
             b = [cidr |-> c, port |-> port]
        BY <2>1 DEF r
    <2>9. b.cidr = c /\ b.port = port
        BY <2>8
    <2>10. r.nets = {} \/ \E x \in r.nets : CidrContains(x, WanCidr)
        BY <2>8, <2>9
    <2>11. CASE r.action = "Deny"
        BY <2>6, <2>8, <2>9, <2>10, <2>11
    <2>12. CASE r.action = "Allow"
        <3>1. r.notNets = {}
            BY <2>4, <2>10, <2>12 DEF AllowsWan
        <3>2. netsCover(r, b.cidr)
            BY <2>8, <2>9, <3>1 DEF netsCover, CidrContains
        <3>3. portsCover(convertPorts(r, d), b.port) \/ b.port = AllPorts
            BY <2>8, <2>9 DEF portsCover
        <3>4. j \in Covering(p, d, b) => i <= j
            BY <1>4
        <3>5. i # j /\ j <= i
            BY <1>7, <2>1, <2>7, <2>12
        <3>6. j \notin Covering(p, d, b)
            BY <2>2, <3>4, <3>5
        <3> QED BY <2>1, <3>2, <3>3, <3>6 DEF Covering, r
    <2> QED BY <2>5, <2>11, <2>12
<1>10. b.cidr # WanCidr
    BY <1>8, <1>9 DEF WideBucket
<1>11. Covering(p, d, WideBucket) = Covering(p, d, b)
    <2>1. AddrsOf[b.cidr] = AddrsOf[WanCidr]
        BY <1>8, ClusterAssumption DEF CidrContains
    <2> QED BY <1>9, <2>1 DEF Covering, WideBucket, netsCover, CidrContains
<1>12. FirstRule(p, d, WideBucket) = FirstRule(p, d, b)
    BY <1>11 DEF FirstRule
<1>13. Matching(m, d, WideBucket) # {}
    <2>1. Matching(m, d, WideBucket) = Matching(m, d, b)
        <3>1. nsSelectingPolicies(NsIdOf(m)[2]) = {p}
            BY NearNode DEF OnlyAt
        <3> QED BY <1>11, <1>12, <3>1 DEF Matching, buildBucketCandidates
    <2> QED BY <2>1
<1>14. EdgeOf(m, d, WideBucket) \in EdgesOf(m, d)
    BY <1>13, WideIsBucket, EdgeKept
<1>15. /\ EdgeOf(m, d, WideBucket).winner = p
       /\ EdgeOf(m, d, WideBucket).action = EdgeOf(m, d, b).action
    <2>1. /\ EdgeOf(m, d, WideBucket).winner = p
          /\ EdgeOf(m, d, WideBucket).action = mapAction(FirstRule(p, d, WideBucket).action)
        BY <1>13, OnlyEdge
    <2> QED BY <1>2, <1>12, <2>1
<1>16. /\ EdgeOf(m, d, WideBucket).cidr = WanCidr /\ EdgeOf(m, d, WideBucket).port = AllPorts
       /\ EdgeOf(m, d, b).cidr = b.cidr /\ EdgeOf(m, d, b).port = b.port
    BY DEF EdgeOf, WideBucket
<1> QED BY <1>2, <1>9, <1>10, <1>14, <1>15, <1>16, Resolved DEF dropRestatedEdges, DirectionWide

\* The rules of a direction where one policy is the only one: only its denies of
\* everything, direction-wide, speak of everything.
LEMMA OnlyRules ==
    ASSUME GInv, NEW p, NEW w, NEW m, OnlyAt(p, w, m), OneTier(p), DeniesWhole(p),
           NEW d \in Directions, CalicoGoverns(p, d), CidrId(WanCidr) \in CidrNodes,
           NEW r \in resolveWorkload(m, d)
    PROVE  /\ r.coverage # "except" /\ r.contributor = p
           /\ \/ r.action = "allow" \/ r.coverage = "deny all"
              \/ ~Names(r, CidrId(WanCidr), CalicoEvaluation.nodes)
<1> DEFINE q == CidrId(WanCidr)
           N == CalicoEvaluation.nodes
<1>1. /\ p \in GlobalPols /\ workloadSelectingPolicies(m) \subseteq {p} /\ m \in IndexedNodes
    BY NearNode DEF OnlyAt
<1>2. workloadSelectingPolicies(m) = {p}
    BY <1>1, RulesAre
<1>3. anyGoverns(workloadSelectingPolicies(m), d)
    BY <1>1, <1>2, TypesAgree DEF anyGoverns
<1>4. FirstOf({p}) = p
    BY DEF FirstOf
<1>5. \/ \E e \in resolveDirection(m, d) : r = RuleOf(m, d, e)
      \/ r = Baseline(m, d)
    BY <1>3, RulesAre
<1>6. CASE r = Baseline(m, d)
    BY <1>2, <1>4, <1>6 DEF Baseline, denyAllBaseline
<1>7. ASSUME NEW e \in resolveDirection(m, d), r = RuleOf(m, d, e)
      PROVE  /\ r.coverage # "except" /\ r.contributor = p
             /\ r.action = "allow" \/ r.coverage = "deny all" \/ ~Names(r, q, N)
    <2> DEFINE b == [cidr |-> e.cidr, port |-> e.port]
    <2>1. b \in BucketsOf(m, d) /\ Matching(m, d, b) # {} /\ e = EdgeOf(m, d, b)
        BY Resolved, EdgeIsOne DEF dropRestatedEdges
    <2>2. b.cidr = e.cidr /\ b.port = e.port /\ b.cidr \in Cidrs
        BY <2>1, BucketShape
    <2>3. b = WideBucket => DirectionWide(e)
        BY <2>2 DEF WideBucket, DirectionWide
    <2> HIDE DEF b
    <2>4. EdgeOf(m, d, b).winner = p /\ e.action \in {"allow", "deny"}
        BY <2>1, OnlyEdge DEF mapAction
    <2>5. /\ r.contributor = e.winner /\ r.action = e.action /\ r.peer = PeerOf(e.cidr)
          /\ r.coverage = coverageFor(e)
        BY <1>7 DEF RuleOf
    <2>6. coverageFor(e) # "except" /\ (DirectionWide(e) /\ e.action = "deny" => coverageFor(e) = "deny all")
        BY DEF coverageFor
    <2>7. ASSUME e.action = "deny", b # WideBucket PROVE ~Names(r, q, N)
        <3>1. ~CidrContains(b.cidr, WanCidr)
            BY <2>1, <2>7, WideDenyIsOne
        <3>2. b.cidr # WanCidr
            BY <3>1 DEF CidrContains
        <3>3. r.peer = CidrId(b.cidr)
            BY <2>2, <2>5, <3>2 DEF PeerOf
        <3>4. q \in N /\ NodeType(q) = "cidr" /\ q[2] = WanCidr /\ NsIdOf(q) = Empty
              /\ r.peer[2] = b.cidr
            BY <3>3, Ids, CalicoNodesKnown
        <3>5. r.peer # q /\ r.peer # Empty
            BY <3>2, <3>3, IdsDiffer
        <3> QED BY <3>1, <3>4, <3>5 DEF Names, NamesPeer, cidrNodeCoversPeer
    <2> QED BY <2>1, <2>3, <2>4, <2>5, <2>6, <2>7
<1> QED BY <1>5, <1>6, <1>7

\* An allow of everything opens everything.
LEMMA CalicoWide ==
    ASSUME GInv, NEW w \in live, NEW p, OnlyAt(p, w, WorkloadId(w)), OneTier(p), DeniesWhole(p),
           NEW d \in Directions, CidrId(WanCidr) \in CidrNodes,
           NEW e \in resolveDirection(WorkloadId(w), d), e.action = "allow", e.cidr = WanCidr
    PROVE  Permits(Side(CalicoEvaluation, d, WorkloadId(w), CidrId(WanCidr)).reason)
<1> DEFINE id == WorkloadId(w)
           n == NsId(NsOf[w])
           q == CidrId(WanCidr)
           N == CalicoEvaluation.nodes
           B == RulesAt(CalicoRules, d, id)
           x == RuleOf(id, d, e)
           b == [cidr |-> e.cidr, port |-> e.port]
<1>1. B = resolveWorkload(id, d) \cup resolveWorkload(n, d)
    BY RulesNear
<1>2. OnlyAt(p, w, id) /\ OnlyAt(p, w, n) /\ p \in GlobalPols
    BY DEF OnlyAt
<1>3. Matching(id, d, b) # {} /\ e = EdgeOf(id, d, b)
    BY Resolved, EdgeIsOne DEF dropRestatedEdges
<1> HIDE DEF b
<1>4. /\ EdgeOf(id, d, b).winner = p /\ Covering(p, d, b) # {}
      /\ selectorMatches(p.selector, LabelsForSelector(id))
    BY <1>2, <1>3, OnlyEdge
<1>5. CalicoGoverns(p, d)
    <2>1. p[d] # <<>>
        BY <1>2, <1>4, PolicyTyped DEF Covering
    <2> QED BY <2>1 DEF OneTier
<1>6. Globals(id, d) # {}
    <2>1. /\ workloadSelectingPolicies(id) =
                 {y \in InNs(id) : selectorMatches(y.selector, LabelsForSelector(id))}
          /\ Globals(id, d) = {y \in workloadSelectingPolicies(id) : CalicoGoverns(y, d)}
        BY NearNode DEF OnlyAt
    <2> QED BY <1>4, <1>5, <2>1 DEF OnlyAt
<1>7. anyGoverns(workloadSelectingPolicies(id), d)
    BY <1>6, Governed
<1>8. x \in resolveWorkload(id, d)
    BY <1>7, RulesAre
<1>9. \A r \in B : /\ r.coverage # "except" /\ r.contributor = p
                   /\ r.action = "allow" \/ r.coverage = "deny all" \/ ~Names(r, q, N)
    BY <1>1, <1>2, <1>5, OnlyRules
<1>10. x \in B /\ x.action = "allow" /\ x.coverage # "deny all" /\ x.peer = Empty
    <2>1. x.action = "allow" /\ x.coverage # "deny all" /\ x.peer = Empty
        BY DEF RuleOf, coverageFor, PeerOf
    <2> QED BY <1>1, <1>8, <2>1
<1>11. Names(x, q, N)
    BY <1>10, Ids DEF Names, NamesPeer
<1>12. /\ CalicoEvaluation.rules = CalicoRules /\ N = CalicoEvaluation.nodes
       /\ B = RulesAt(CalicoEvaluation.rules, d, id)
    BY CalicoNodesKnown
<1> HIDE DEF id, q, N, B, x
<1>13. DeniesFor(CalicoRules, d, id, q, N) = {}
    BY <1>9, <1>10, <1>11 DEF DeniesFor, B
<1>14. AllowsFor(CalicoRules, d, id, q, N) # {}
    BY <1>10, <1>11 DEF AllowsFor, B
<1>15. Permits(Side(CalicoEvaluation, d, id, q).reason)
    BY <1>9, <1>12, <1>13, <1>14, ReasonWithoutExcepts
<1> QED BY <1>15 DEF id, q

\* The digests StatusOf fuses.
K8sStatus(id) == buildPolicyStatus(getNodePolicies(id))

CalicoStatus(id) ==
    buildCalicoStatus(id, {c \in Cidrs : IsIpBlockInternetAccess([cidr |-> c])},
                          {c \in Cidrs : IsIpBlockLanAccess([cidr |-> c])})

LEMMA StatusIs == \A id : StatusOf(id) = IntersectPolicyStatus([k8s |-> K8sStatus(id), calico |-> CalicoStatus(id)])
    BY DEF StatusOf, K8sStatus, CalicoStatus

\* What the Calico digest says of a direction: a lock when a policy governs it, the
\* internet when an edge of everything allows.
LEMMA CalicoDigest ==
    ASSUME GInv, NEW w \in live, \A p \in InNs(WorkloadId(w)) : MissesNs(p), NEW d \in Directions
    PROVE  LET id == WorkloadId(w)
               c  == CalicoStatus(id)
           IN  /\ c[LockOf(d)] <=> Globals(id, d) # {}
               /\ c[InternetOf(d)] =>
                     \E e \in resolveDirection(id, d) : e.action = "allow" /\ e.cidr = WanCidr
               /\ DOMAIN c = DOMAIN NoStatus
<1> DEFINE id == WorkloadId(w)
           c == CalicoStatus(id)
           selecting == workloadSelectingPolicies(id)
           Open(x) == \E e \in resolveDirection(id, x) : e.action = "allow" /\ e.cidr = WanCidr
<1>1. \A x \in Directions : anyGoverns(selecting, x) <=> Globals(id, x) # {}
    <2> SUFFICES ASSUME NEW x \in Directions
                 PROVE  anyGoverns(selecting, x) <=> Globals(id, x) # {}
        OBVIOUS
    <2>1. Globals(id, x) = {p \in selecting : CalicoGoverns(p, x)}
        BY NearNode
    <2>2. selecting \subseteq GlobalPols
        BY DEF workloadSelectingPolicies, nsSelectingPolicies, GInv
    <2> HIDE DEF selecting, id
    <2>3. \A p \in selecting : deriveTypes(p, x) <=> CalicoGoverns(p, x)
        BY <2>2, TypesAgree
    <2> QED BY <2>1, <2>3 DEF anyGoverns
<1>2. \A r : r \in {y \in Cidrs : IsIpBlockInternetAccess([cidr |-> y])} => r = WanCidr
    BY DEF IsIpBlockInternetAccess
<1>3. /\ c.egressLocked <=> anyGoverns(selecting, "egress")
      /\ c.ingressLocked <=> anyGoverns(selecting, "ingress")
      /\ c.internetEgress => Open("egress")
      /\ c.internetIngress => Open("ingress")
      /\ DOMAIN c = DOMAIN NoStatus
    <2> DEFINE wan == {y \in Cidrs : IsIpBlockInternetAccess([cidr |-> y])}
               lan == {y \in Cidrs : IsIpBlockLanAccess([cidr |-> y])}
    <2>1. c = buildCalicoStatus(id, wan, lan)
        BY DEF CalicoStatus
    <2> HIDE DEF wan, lan, c, id
    <2>2. /\ c.egressLocked <=> anyGoverns(selecting, "egress")
          /\ c.ingressLocked <=> anyGoverns(selecting, "ingress")
          /\ c.internetEgress <=>
                \E e \in resolveDirection(id, "egress") : e.action = "allow" /\ e.cidr \in wan
          /\ c.internetIngress <=>
                \E e \in resolveDirection(id, "ingress") : e.action = "allow" /\ e.cidr \in wan
          /\ DOMAIN c = DOMAIN NoStatus
        BY <2>1 DEF buildCalicoStatus, NoStatus
    <2>3. \A r \in wan : r = WanCidr
        BY <1>2 DEF wan
    <2> QED BY <2>2, <2>3
<1> HIDE DEF c, id, selecting, Open
<1>4. CASE d = "egress"
    <2>1. LockOf(d) = "egressLocked" /\ InternetOf(d) = "internetEgress" /\ "egress" \in Directions
        BY <1>4 DEF LockOf, InternetOf, Directions
    <2>2. (c[LockOf(d)] <=> Globals(id, d) # {}) /\ (c[InternetOf(d)] => Open(d))
        BY <1>1, <1>3, <1>4, <2>1
    <2> QED BY <1>3, <2>2 DEF c, id, Open
<1>5. CASE d = "ingress"
    <2>1. LockOf(d) = "ingressLocked" /\ InternetOf(d) = "internetIngress" /\ "ingress" \in Directions
        BY <1>5 DEF LockOf, InternetOf, Directions
    <2>2. (c[LockOf(d)] <=> Globals(id, d) # {}) /\ (c[InternetOf(d)] => Open(d))
        BY <1>1, <1>3, <1>5, <2>1
    <2> QED BY <1>3, <2>2 DEF c, id, Open
<1> QED BY <1>4, <1>5 DEF Directions

\* A namespace without policies: no status, and the fused one is Kubernetes'.
LEMMA NoGlobals ==
    ASSUME GInv, NEW w \in live, InNs(WorkloadId(w)) = {}
    PROVE  CalicoStatus(WorkloadId(w)) = NoStatus
<1> DEFINE id == WorkloadId(w)
<1>1. nsSelectingPolicies(NsIdOf(id)[2]) = {}
    BY AtWorkload
<1>2. workloadSelectingPolicies(id) = {}
    BY <1>1 DEF workloadSelectingPolicies
<1>3. \A d \in Directions : resolveDirection(id, d) = {}
    <2>1. \A d \in Directions : \A b : Matching(id, d, b) = {}
        BY <1>1, MatchingIn
    <2> QED BY <2>1, Resolved DEF EdgesOf, dropRestatedEdges
<1> HIDE DEF id
<1>4. CalicoStatus(id) = NoStatus
    BY <1>2, <1>3 DEF CalicoStatus, buildCalicoStatus, NoStatus, anyGoverns, Directions
<1> QED BY <1>4 DEF id

LEMMA LanFuses ==
    ASSUME NEW k, NEW f, ~NoStatus[f], IntersectPolicyStatus([k8s |-> k, calico |-> NoStatus])[f]
    PROVE  k[f]
<1> DEFINE both == [k8s |-> k, calico |-> NoStatus]
           filtered == {e \in DOMAIN both : both[e] # NoStatus}
<1>1. DOMAIN both = {"k8s", "calico"} /\ both["k8s"] = k /\ both["calico"] = NoStatus
    OBVIOUS
<1>2. filtered = {} \/ filtered = {"k8s"}
    BY <1>1
<1> HIDE DEF both
<1>3. CASE filtered = {}
    BY <1>3 DEF IntersectPolicyStatus, both
<1>4. CASE filtered = {"k8s"}
    <2>1. IntersectPolicyStatus(both) = k
        BY <1>1, <1>4 DEF IntersectPolicyStatus
    <2> QED BY <2>1 DEF both
<1> QED BY <1>2, <1>3, <1>4

\* What the digest of the NetworkPolicies promises they let through.
LEMMA K8sReaches ==
    ASSUME Deployed, NEW w \in live, InFragment(WorkloadId(w)), NEW d \in Directions
    PROVE  LET k == K8sStatus(WorkloadId(w))
               Opens(c) == Permits(Side(Evaluation, d, WorkloadId(w), CidrId(c)).reason)
           IN  /\ k[InternetOf(d)] \/ ~k[LockOf(d)] => Opens(WanCidr)
               /\ k[LanOf(d)] => \E c \in Cidrs \ {WanCidr} : CidrId(c) \in CidrNodes /\ Opens(c)
<1> DEFINE id == WorkloadId(w)
           k == K8sStatus(id)
           Opens(c) == Permits(Side(Evaluation, d, id, CidrId(c)).reason)
           Has(Is(_)) == \E p \in netpols : Selects(p, id) /\ HasBlock(p, d, Is)
<1>1. /\ k[LockOf(d)] <=> Isolating(id, d) # {}
      /\ k[InternetOf(d)] <=> \E p \in netpols : Selects(p, id) /\ HasBlock(p, d, IsIpBlockInternetAccess)
      /\ k[LanOf(d)] <=> \E p \in netpols : Selects(p, id) /\ HasBlock(p, d, IsIpBlockLanAccess)
    BY DigestSays DEF K8sStatus
<1>2. ~k[LockOf(d)] => Opens(WanCidr)
    BY <1>1, K8sUnlocked
<1>3. ASSUME NEW p \in netpols, Selects(p, id), NEW peer \in PeersOf(p, d), peer.ipBlock # Nil
      PROVE  LET c == peer.ipBlock.cidr IN c \in Cidrs /\ CidrId(c) \in CidrNodes /\ Opens(c)
    <2>1. PICK rule \in RulesOf(p, d) : peer \in rule.peers
        BY DEF PeersOf
    <2>2. p \in NetPols /\ Supported(p)
        BY <1>3 DEF InFragment, Selects, Deployed
    <2>3. peer.ipBlock.cidr \in Cidrs
        BY <1>3, <2>1, <2>2, PeerFacts
    <2>4. CidrId(peer.ipBlock.cidr) \in CidrNodes
        BY <1>3, <2>1, RangesAreNodes
    <2>5. Opens(peer.ipBlock.cidr)
        BY <1>3, <2>1, BlockOpens
    <2> QED BY <2>3, <2>4, <2>5
<1> HIDE DEF Opens, k, id
<1>4. k[InternetOf(d)] => Opens(WanCidr)
    <2> SUFFICES ASSUME k[InternetOf(d)] PROVE Opens(WanCidr)
        OBVIOUS
    <2>1. PICK p \in netpols : Selects(p, id) /\ HasBlock(p, d, IsIpBlockInternetAccess)
        BY <1>1
    <2>2. PICK peer \in PeersOf(p, d) : peer.ipBlock # Nil /\ peer.ipBlock.cidr = WanCidr
        BY <2>1 DEF HasBlock, IsIpBlockInternetAccess
    <2> QED BY <1>3, <2>1, <2>2
<1>5. k[LanOf(d)] => \E c \in Cidrs \ {WanCidr} : CidrId(c) \in CidrNodes /\ Opens(c)
    <2> SUFFICES ASSUME k[LanOf(d)] PROVE \E c \in Cidrs \ {WanCidr} : CidrId(c) \in CidrNodes /\ Opens(c)
        OBVIOUS
    <2>1. PICK p \in netpols : Selects(p, id) /\ HasBlock(p, d, IsIpBlockLanAccess)
        BY <1>1
    <2>2. PICK peer \in PeersOf(p, d) : peer.ipBlock # Nil /\ peer.ipBlock.cidr # WanCidr
        BY <2>1 DEF HasBlock, IsIpBlockLanAccess, IsIpBlockInternetAccess
    <2> QED BY <1>3, <2>1, <2>2
<1> QED BY <1>2, <1>4, <1>5 DEF Opens, k, id

\* The workloads whose policies the digests read right.
BadgedRight(id) ==
    /\ InFragment(id) /\ Cardinality(InNs(id)) <= 1
    /\ \A p \in InNs(id) : OneTier(p) /\ MissesNs(p)

\* What the digest of the GlobalNetworkPolicies promises they let through.
LEMMA CalicoReaches ==
    ASSUME GInv, NEW w \in live, BadgedRight(WorkloadId(w)),
           \A p \in InNs(WorkloadId(w)) : DeniesWhole(p), CidrId(WanCidr) \in CidrNodes,
           NEW d \in Directions,
           LET c == CalicoStatus(WorkloadId(w)) IN c[InternetOf(d)] \/ ~c[LockOf(d)]
    PROVE  Permits(Side(CalicoEvaluation, d, WorkloadId(w), CidrId(WanCidr)).reason)
<1> DEFINE id == WorkloadId(w)
           c  == CalicoStatus(id)
<1>1. /\ c[LockOf(d)] <=> Globals(id, d) # {}
      /\ c[InternetOf(d)] =>
            \E e \in resolveDirection(id, d) : e.action = "allow" /\ e.cidr = WanCidr
    BY CalicoDigest DEF BadgedRight
<1>2. CASE ~c[LockOf(d)]
    BY <1>1, <1>2, CalicoSilent DEF BadgedRight
<1>3. CASE c[InternetOf(d)]
    <2>1. PICK e \in resolveDirection(id, d) : e.action = "allow" /\ e.cidr = WanCidr
        BY <1>1, <1>3
    <2>2. e \in EdgesOf(id, d)
        BY Resolved DEF dropRestatedEdges
    <2> DEFINE b == [cidr |-> e.cidr, port |-> e.port]
    <2>3. Matching(id, d, b) # {}
        BY <2>2, EdgeIsOne
    <2> HIDE DEF b
    <2>4. PICK p \in Matching(id, d, b) : TRUE
        BY <2>3
    <2>5. p \in InNs(id)
        BY <2>4, MatchingIn, AtWorkload
    <2>6. InNs(id) = {p} /\ p \in GlobalPols
        BY <2>5, Lone DEF BadgedRight
    <2>7. OnlyAt(p, w, id) /\ OneTier(p) /\ DeniesWhole(p)
        BY <2>5, <2>6 DEF OnlyAt, BadgedRight
    <2> QED BY <2>1, <2>7, CalicoWide
<1> QED BY <1>2, <1>3

\* A range no engine closes, and a direction none closes to anybody.
OpensTo(d, id, q) ==
    /\ Permits(Side(Evaluation, d, id, q).reason)
    /\ Permits(Side(CalicoEvaluation, d, id, q).reason)

LEMMA InternetBadge ==
    ASSUME GInv, NEW w \in live, BadgedRight(WorkloadId(w)),
           \A p \in InNs(WorkloadId(w)) : DeniesWhole(p), CidrId(WanCidr) \in CidrNodes,
           NEW d \in Directions,
           LET s == StatusOf(WorkloadId(w)) IN s[InternetOf(d)] \/ ~s[LockOf(d)]
    PROVE  OpensTo(d, WorkloadId(w), CidrId(WanCidr))
<1> DEFINE id == WorkloadId(w)
           k  == K8sStatus(id)
           c  == CalicoStatus(id)
<1>1. DOMAIN k = DOMAIN NoStatus /\ DOMAIN c = DOMAIN NoStatus
    BY DigestSays, CalicoDigest DEF K8sStatus, BadgedRight
<1>2. StatusOf(id) = IntersectPolicyStatus([k8s |-> k, calico |-> c])
    BY StatusIs
<1> HIDE DEF k, c, id
<1>3. (k[InternetOf(d)] \/ ~k[LockOf(d)]) /\ (c[InternetOf(d)] \/ ~c[LockOf(d)])
    BY <1>1, <1>2, ReachFuses DEF id
<1>4. Permits(Side(Evaluation, d, id, CidrId(WanCidr)).reason)
    BY <1>3, K8sReaches DEF k, id, BadgedRight, GInv
<1>5. Permits(Side(CalicoEvaluation, d, id, CidrId(WanCidr)).reason)
    BY <1>3, CalicoReaches DEF c, id
<1> QED BY <1>4, <1>5 DEF id, OpensTo

LEMMA LanBadge ==
    ASSUME GInv, NEW w \in live, BadgedRight(WorkloadId(w)), InNs(WorkloadId(w)) = {},
           NEW d \in Directions, StatusOf(WorkloadId(w))[LanOf(d)]
    PROVE  \E x \in Cidrs \ {WanCidr} :
              CidrId(x) \in CidrNodes /\ OpensTo(d, WorkloadId(w), CidrId(x))
<1> DEFINE id == WorkloadId(w)
           k  == K8sStatus(id)
<1>1. StatusOf(id) = IntersectPolicyStatus([k8s |-> k, calico |-> NoStatus])
    BY StatusIs, NoGlobals
<1>2. ~NoStatus[LanOf(d)]
    BY DEF NoStatus, LanOf
<1> HIDE DEF k
<1>3. k[LanOf(d)]
    BY <1>1, <1>2, LanFuses
<1>4. PICK x \in Cidrs \ {WanCidr} : /\ CidrId(x) \in CidrNodes
                                     /\ Permits(Side(Evaluation, d, id, CidrId(x)).reason)
    BY <1>3, K8sReaches DEF k, BadgedRight, GInv
<1>5. Globals(id, d) = {}
    BY DEF Globals, InNs, nsSelectingPolicies
<1>6. Permits(Side(CalicoEvaluation, d, id, CidrId(x)).reason)
    BY <1>5, CalicoSilent
<1> QED BY <1>4, <1>6 DEF OpensTo

LEMMA NoLockBadge ==
    ASSUME GInv, NEW w \in live, BadgedRight(WorkloadId(w)), NEW d \in Directions,
           ~StatusOf(WorkloadId(w))[LockOf(d)], NEW q
    PROVE  OpensTo(d, WorkloadId(w), q)
<1> DEFINE id == WorkloadId(w)
           k  == K8sStatus(id)
           c  == CalicoStatus(id)
<1>1. /\ DOMAIN k = DOMAIN NoStatus /\ DOMAIN c = DOMAIN NoStatus
      /\ k[LockOf(d)] <=> Isolating(id, d) # {}
      /\ c[LockOf(d)] <=> Globals(id, d) # {}
    BY DigestSays, CalicoDigest DEF K8sStatus, BadgedRight
<1>2. StatusOf(id) = IntersectPolicyStatus([k8s |-> k, calico |-> c])
    BY StatusIs
<1> HIDE DEF k, c
<1>3. ~k[LockOf(d)] /\ ~c[LockOf(d)]
    BY <1>1, <1>2, LocksFuse
<1>4. Permits(Side(Evaluation, d, id, q).reason)
    BY <1>1, <1>3, K8sUnlocked DEF BadgedRight, GInv
<1>5. Permits(Side(CalicoEvaluation, d, id, q).reason)
    BY <1>1, <1>3, CalicoSilent DEF BadgedRight
<1> QED BY <1>4, <1>5 DEF OpensTo

LEMMA BadgesState == GInv => BadgesMatchVerdicts
<1> SUFFICES ASSUME GInv, NEW id \in LiveIds, BadgedRight(id)
             PROVE  LET status == StatusOf(id)
                        keys   == DeriveStatusKeys(status)
                        LanOpen(d) == \E c \in Cidrs \ {WanCidr} :
                                         CidrId(c) \in CidrNodes /\ OpensTo(d, id, CidrId(c))
                    IN  /\ CidrId(WanCidr) \in CidrNodes /\ (\A p \in InNs(id) : DeniesWhole(p)) =>
                              /\ keys \cap {"internet-full", "internet-egress"} # {}
                                 => OpensTo("egress", id, CidrId(WanCidr))
                              /\ keys \cap {"internet-full", "internet-ingress"} # {}
                                 => OpensTo("ingress", id, CidrId(WanCidr))
                        /\ InNs(id) = {} =>
                              /\ keys \cap {"lan-full", "lan-egress"} # {} => LanOpen("egress")
                              /\ keys \cap {"lan-full", "lan-ingress"} # {} => LanOpen("ingress")
                        /\ ~status.egressLocked => \A q \in LiveIds : OpensTo("egress", id, q)
                        /\ ~status.ingressLocked => \A q \in LiveIds : OpensTo("ingress", id, q)
    <2>1. \A d, x, q : (\A e \in {Evaluation, CalicoEvaluation} : Permits(Side(e, d, x, q).reason))
                          <=> OpensTo(d, x, q)
        BY DEF OpensTo
    <2> QED BY <2>1 DEF BadgesMatchVerdicts, BadgedRight
<1> DEFINE s    == StatusOf(id)
           keys == DeriveStatusKeys(s)
<1>1. PICK w \in live : id = WorkloadId(w)
    BY DEF LiveIds
<1>2. /\ "egress" \in Directions /\ "ingress" \in Directions
      /\ LockOf("egress") = "egressLocked" /\ LockOf("ingress") = "ingressLocked"
      /\ InternetOf("egress") = "internetEgress" /\ InternetOf("ingress") = "internetIngress"
      /\ LanOf("egress") = "lanEgress" /\ LanOf("ingress") = "lanIngress"
    BY DEF Directions, LockOf, InternetOf, LanOf
<1>3. /\ keys \cap {"internet-full", "internet-egress"} # {} => s.internetEgress \/ ~s.egressLocked
      /\ keys \cap {"internet-full", "internet-ingress"} # {} => s.internetIngress \/ ~s.ingressLocked
      /\ keys \cap {"lan-full", "lan-egress"} # {} => s.lanEgress
      /\ keys \cap {"lan-full", "lan-ingress"} # {} => s.lanIngress
    BY KeysSpeak
<1> HIDE DEF s, keys
<1>4. ASSUME CidrId(WanCidr) \in CidrNodes, \A p \in InNs(id) : DeniesWhole(p),
             NEW d \in Directions, s[InternetOf(d)] \/ ~s[LockOf(d)]
      PROVE  OpensTo(d, id, CidrId(WanCidr))
    BY <1>1, <1>4, InternetBadge DEF s
<1>5. ASSUME InNs(id) = {}, NEW d \in Directions, s[LanOf(d)]
      PROVE  \E c \in Cidrs \ {WanCidr} : CidrId(c) \in CidrNodes /\ OpensTo(d, id, CidrId(c))
    BY <1>1, <1>5, LanBadge DEF s
<1>6. ASSUME NEW d \in Directions, ~s[LockOf(d)], NEW q PROVE OpensTo(d, id, q)
    BY <1>1, <1>6, NoLockBadge DEF s
<1>7. CidrId(WanCidr) \in CidrNodes /\ (\A p \in InNs(id) : DeniesWhole(p)) =>
         /\ keys \cap {"internet-full", "internet-egress"} # {} => OpensTo("egress", id, CidrId(WanCidr))
         /\ keys \cap {"internet-full", "internet-ingress"} # {} => OpensTo("ingress", id, CidrId(WanCidr))
    BY <1>2, <1>3, <1>4
<1>8. InNs(id) = {} =>
         /\ keys \cap {"lan-full", "lan-egress"} # {} =>
               \E c \in Cidrs \ {WanCidr} : CidrId(c) \in CidrNodes /\ OpensTo("egress", id, CidrId(c))
         /\ keys \cap {"lan-full", "lan-ingress"} # {} =>
               \E c \in Cidrs \ {WanCidr} : CidrId(c) \in CidrNodes /\ OpensTo("ingress", id, CidrId(c))
    BY <1>2, <1>3, <1>5
<1>9. /\ ~s.egressLocked => \A q : OpensTo("egress", id, q)
      /\ ~s.ingressLocked => \A q : OpensTo("ingress", id, q)
    BY <1>2, <1>6
<1> QED BY <1>7, <1>8, <1>9 DEF s, keys

\* What a badge promises, the verdicts of both engines keep (statusKeys.go:
\* IntersectPolicyStatus and DeriveStatusKeys): internet, LAN and a missing lock.
THEOREM BadgesReal == Spec => []BadgesMatchVerdicts
    BY GInvariant, BadgesState, PTL
=============================================================================
